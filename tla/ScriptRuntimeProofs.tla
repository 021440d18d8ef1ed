-------------------------- MODULE ScriptRuntimeProofs --------------------------
(* Proofs about ScriptRuntime, for any number of workers, any scripts and any  *)
(* limits: the runtime's books (QueueCoherent), and whose effects a script has *)
(* (EffectsBelong).                                                            *)
EXTENDS ScriptRuntime, FiniteSetTheorems, SequenceTheorems, WellFoundedInduction, TLAPS

-------------------------------------------------------------------------------
(* Events and the queue                                                        *)

\* A set of positions has a first one.
LEMMA FirstOf ==
  ASSUME NEW S \in SUBSET Nat, S # {}
  PROVE  First(S) \in S /\ \A j \in S : First(S) <= j
<1>1. PICK i \in S : \A j \in S : <<j, i>> \notin OpToRel(<, Nat)
  BY WFMin, NatLessThanWellFounded, Zenon
<1>2. \A j \in S : ~(j < i)
  BY <1>1, Zenon DEF OpToRel
<1>3. \A j \in S : i <= j
  BY <1>2
<1>4. QED BY <1>3 DEF First

LEMMA EventsTyped ==
  /\ NoEvent \in Event
  /\ \A kind \in Kinds : Call(kind) \in Event /\ Call(kind).kind = kind
<1>1. NoEvent \in Event /\ NoEvent.kind = "stop"
  BY ScriptAssumption DEF NoEvent, Event, Kinds
<1>2. ASSUME NEW e \in Event, NEW kind \in Kinds
      PROVE  [e EXCEPT !.kind = kind] \in Event /\ [e EXCEPT !.kind = kind].kind = kind
  BY DEF Event
<1>3. QED BY <1>1, <1>2, Zenon DEF Call

\* What enqueue() writes into an event.
LEMMA StampedTyped ==
  ASSUME NEW e \in Event, NEW g \in 0..MaxReloads, NEW s \in 0..MaxStamp
  PROVE  /\ [e EXCEPT !.gen = g, !.stamp = s] \in Event
         /\ [e EXCEPT !.gen = g, !.stamp = s].gen = g
         /\ [e EXCEPT !.gen = g, !.stamp = s].stamp = s
         /\ [e EXCEPT !.gen = g, !.stamp = s].kind = e.kind
         /\ [e EXCEPT !.gen = g, !.stamp = s].owner = e.owner
         /\ [e EXCEPT !.gen = g, !.stamp = s].value = e.value
BY DEF Event

LEMMA ValueTyped ==
  ASSUME NEW e \in Event, NEW v \in 0..(MaxStamp + MaxSettings)
  PROVE  /\ [e EXCEPT !.value = v] \in Event
         /\ [e EXCEPT !.value = v].gen = e.gen
         /\ [e EXCEPT !.value = v].stamp = e.stamp
         /\ [e EXCEPT !.value = v].kind = e.kind
         /\ [e EXCEPT !.value = v].owner = e.owner
         /\ [e EXCEPT !.value = v].value = v
BY DEF Event

LEMMA OwnerTyped ==
  ASSUME NEW e \in Event, NEW h \in 0..MaxReloads
  PROVE  [e EXCEPT !.owner = h] \in Event /\ [e EXCEPT !.owner = h].kind = e.kind
BY DEF Event

LEMMA ScriptTyped ==
  ASSUME NEW e \in Event, NEW s \in Scripts
  PROVE  [e EXCEPT !.script = s] \in Event /\ [e EXCEPT !.script = s].kind = e.kind
BY DEF Event

\* The queue without one of its events.
LEMMA DroppedIs ==
  ASSUME queue \in Seq(Event), NEW i \in 1..Len(queue)
  PROVE  /\ Dropped(i) \in Seq(Event)
         /\ Len(Dropped(i)) = Len(queue) - 1
         /\ \A j \in 1..Len(queue) - 1 :
              Dropped(i)[j] = IF j < i THEN queue[j] ELSE queue[j + 1]
<1> DEFINE front == SubSeq(queue, 1, i - 1)
           rest  == SubSeq(queue, i + 1, Len(queue))
<1>1. Len(queue) \in Nat /\ \A j \in 1..Len(queue) : queue[j] \in Event
  BY LenProperties, ElementOfSeq
<1>2. /\ front \in Seq(Event) /\ Len(front) = i - 1
      /\ \A j \in 1..i - 1 : front[j] = queue[j]
  BY <1>1, SubSeqProperties
<1>3. /\ rest \in Seq(Event) /\ Len(rest) = Len(queue) - i
      /\ \A j \in 1..Len(queue) - i : rest[j] = queue[i + j]
  BY <1>1, SubSeqProperties
<1> HIDE DEF front, rest
<1>4. /\ front \o rest \in Seq(Event)
      /\ Len(front \o rest) = Len(front) + Len(rest)
      /\ \A j \in 1..Len(front) + Len(rest) :
           (front \o rest)[j] = IF j <= Len(front) THEN front[j] ELSE rest[j - Len(front)]
  BY <1>2, <1>3, ConcatProperties
<1>5. Dropped(i) = front \o rest
  BY DEF Dropped, front, rest
<1>6. Len(front) + Len(rest) = Len(queue) - 1
  BY <1>1, <1>2, <1>3
<1>7. ASSUME NEW j \in 1..Len(queue) - 1
      PROVE  (front \o rest)[j] = IF j < i THEN queue[j] ELSE queue[j + 1]
  <2>1. (front \o rest)[j] = IF j <= i - 1 THEN front[j] ELSE rest[j - (i - 1)]
    BY <1>2, <1>4, <1>6
  <2>2. CASE j < i
    BY <1>1, <1>2, <2>1, <2>2
  <2>3. CASE ~(j < i)
    <3>1. j - (i - 1) \in 1..Len(queue) - i /\ i + (j - (i - 1)) = j + 1
      BY <1>1, <2>3
    <3>2. QED BY <1>1, <1>3, <2>1, <2>3, <3>1
  <2>4. QED BY <2>2, <2>3
<1>8. QED BY <1>4, <1>5, <1>6, <1>7

\* The types that the steps below use one by one.
LEMMA Types ==
  ASSUME TypeOK
  PROVE  /\ queue \in Seq(Event) /\ Len(queue) \in Nat /\ DOMAIN queue = 1..Len(queue)
         /\ \A i \in 1..Len(queue) : queue[i] \in Event
         /\ Len(queue) <= MaxQueue
         /\ generation \in 0..MaxReloads /\ stamp \in 0..MaxStamp /\ frame \in 0..MaxStamp
         /\ scheduled \in BOOLEAN /\ stopping \in BOOLEAN /\ stopped \in BOOLEAN
         /\ updateQueued \in BOOLEAN /\ updateRunning \in BOOLEAN
         /\ unhealthy \in BOOLEAN /\ handles \in BOOLEAN
         /\ consecutive \in Nat /\ timeouts \in Nat /\ errors \in Nat /\ pool \in Nat
         /\ faults \in Nat
BY LenProperties, ElementOfSeq DEF TypeOK

\* The numbers among them, and the limits.
LEMMA Limits ==
  /\ MaxQueue \in Nat /\ 1 <= MaxQueue /\ MaxReloads \in Nat
  /\ MaxStamp \in Nat /\ MaxSettings \in Nat
BY ScriptAssumption

LEMMA Numbers ==
  ASSUME TypeOK
  PROVE  /\ generation \in 0..MaxReloads /\ stamp \in 0..MaxStamp /\ frame \in 0..MaxStamp
         /\ Len(queue) \in Nat /\ Len(queue) <= MaxQueue
BY Types

\* The stages of a worker, and its states.
Stages == {"idle", "drain", "call", "update", "post", "exit"}
State  == [pc : Stages, event : Event, reached : 0..MaxReloads]
Result == [gen : 0..MaxReloads, stamp : 0..MaxStamp]

LEMMA WorkerTypes ==
  ASSUME TypeOK
  PROVE  /\ worker \in [Threads -> State] /\ deferred \in Seq(Result)
         /\ \A w \in Threads : worker[w] \in State /\ worker[w].event \in Event
         /\ \A w \in Threads : worker[w].event.stamp \in Nat /\ worker[w].event.gen \in Nat
         /\ Len(deferred) \in Nat
         /\ \A i \in 1..Len(deferred) : deferred[i] \in Result /\ deferred[i].stamp \in Nat
<1>1. worker \in [Threads -> State] /\ deferred \in Seq(Result)
  BY DEF TypeOK, State, Stages, Result
<1>2. ASSUME NEW w \in Threads
      PROVE  /\ worker[w] \in State /\ worker[w].event \in Event
             /\ worker[w].event.stamp \in Nat /\ worker[w].event.gen \in Nat
  <2>1. worker[w] \in State /\ worker[w].event \in Event
    BY <1>1 DEF State
  <2>2. ASSUME NEW e \in Event PROVE e.stamp \in Nat /\ e.gen \in Nat
    BY ScriptAssumption DEF Event
  <2>3. QED BY <2>1, <2>2
<1>3. Len(deferred) \in Nat /\ \A i \in 1..Len(deferred) : deferred[i] \in Result
  BY <1>1, LenProperties, ElementOfSeq
<1>4. \A i \in 1..Len(deferred) : deferred[i].stamp \in Nat
  BY <1>3, ScriptAssumption DEF Result
<1>5. QED BY <1>1, <1>2, <1>3, <1>4

-------------------------------------------------------------------------------
(* What enqueue() does to the queue                                            *)

\* The event that makes room, when one has to.
Victim == First(Expendable)
LEMMA VictimIs ==
  ASSUME TypeOK, Expendable # {}
  PROVE  Victim \in 1..Len(queue) /\ Droppable(queue[Victim])
<1>1. Expendable \in SUBSET Nat
  BY Types DEF Expendable
<1>2. Victim \in Expendable
  BY <1>1, FirstOf, Zenon DEF Victim
<1>3. QED BY <1>2, Types DEF Expendable

LEMMA FrameIs ==
  ASSUME TypeOK, Frames # {}
  PROVE  First(Frames) \in 1..Len(queue) /\ queue[First(Frames)].kind = "frame"
<1>1. Frames \in SUBSET Nat
  BY Types DEF Frames
<1>2. First(Frames) \in Frames
  BY <1>1, FirstOf, Zenon
<1>3. QED BY <1>2, Types DEF Frames

\* A superseded frame differs in its value only.
LEMMA SupersedeIs ==
  ASSUME TypeOK, NEW e, Supersede(e)
  PROVE  /\ queue' \in Seq(Event) /\ Len(queue') = Len(queue)
         /\ \A i \in 1..Len(queue) :
              /\ queue'[i].kind = queue[i].kind /\ queue'[i].gen = queue[i].gen
              /\ queue'[i].stamp = queue[i].stamp /\ queue'[i].owner = queue[i].owner
              /\ i # First(Frames) => queue'[i] = queue[i]
         /\ queue'[First(Frames)].value = stamp + 1
<1> DEFINE i == First(Frames)
           f == [queue[i] EXCEPT !.value = stamp + 1]
<1>1. i \in 1..Len(queue) /\ queue[i] \in Event
  BY Types, FrameIs DEF Supersede, Superseding
<1>2. stamp + 1 \in 0..(MaxStamp + MaxSettings)
  <2>1. stamp < MaxStamp
    BY DEF Supersede
  <2>2. QED BY <2>1, Numbers, Limits
<1>3. /\ f \in Event /\ f.kind = queue[i].kind /\ f.gen = queue[i].gen
      /\ f.stamp = queue[i].stamp /\ f.owner = queue[i].owner /\ f.value = stamp + 1
  BY <1>1, <1>2, ValueTyped
<1>4. queue' = [queue EXCEPT ![i] = f]
  BY DEF Supersede
<1> HIDE DEF i, f
<1>5. /\ queue' \in Seq(Event) /\ Len(queue') = Len(queue)
      /\ \A j \in 1..Len(queue) : queue'[j] = IF j = i THEN f ELSE queue[j]
  BY <1>1, <1>3, <1>4, Types, ExceptSeq
<1>6. QED BY <1>1, <1>3, <1>5 DEF i

\* Where an event that stays was before.
Old(j) == IF Full /\ j >= Victim THEN j + 1 ELSE j
Kept   == IF Full THEN Len(queue) - 1 ELSE Len(queue)

LEMMA OldIs ==
  ASSUME TypeOK, Full => Expendable # {}
  PROVE  /\ Kept \in Nat /\ Kept < MaxQueue
         /\ \A j \in 1..Kept : Old(j) \in 1..Len(queue)
         /\ \A j, k \in 1..Kept : j < k => Old(j) < Old(k)
         /\ \A i \in 1..Len(queue) : (Full => i # Victim) => \E j \in 1..Kept : i = Old(j)
         /\ Full => \A j \in 1..Kept : Old(j) # Victim
<1>1. Full => Victim \in 1..Len(queue)
  BY VictimIs
<1>2. Kept \in Nat /\ Kept < MaxQueue
  <2>1. CASE Full
    BY <1>1, <2>1, Numbers, Limits DEF Kept
  <2>2. CASE ~Full
    BY <2>2, Numbers, Limits DEF Kept, Full
  <2>3. QED BY <2>1, <2>2
<1>3. ASSUME NEW i \in 1..Len(queue), Full => i # Victim
      PROVE  \E j \in 1..Kept : i = Old(j)
  <2>1. CASE Full /\ i > Victim
    <3>1. i - 1 \in 1..Kept /\ Old(i - 1) = i
      BY <1>1, <2>1, Types DEF Kept, Old
    <3>2. QED BY <3>1
  <2>2. CASE ~(Full /\ i > Victim)
    <3>1. i \in 1..Kept /\ Old(i) = i
      BY <1>1, <1>3, <2>2, Types DEF Kept, Old
    <3>2. QED BY <3>1
  <2>3. QED BY <2>1, <2>2
<1>4. \A j \in 1..Kept : Old(j) \in 1..Len(queue) /\ (Full => Old(j) # Victim)
  BY <1>1, Numbers DEF Kept, Old
<1>5. \A j, k \in 1..Kept : j < k => Old(j) < Old(k)
  BY <1>1, <1>2, Numbers DEF Old
<1>6. QED BY <1>2, <1>3, <1>4, <1>5

\* An accepted event comes last, with the generation and the next stamp; what else waits kept
\* its order.
LEMMA AdmitIs ==
  ASSUME TypeOK, NEW e \in Event, Admit(e)
  PROVE  /\ Full => Expendable # {}
         /\ queue' \in Seq(Event) /\ Len(queue') = Kept + 1
         /\ \A j \in 1..Kept : queue'[j] = queue[Old(j)]
         /\ LET last == queue'[Kept + 1]
            IN /\ last.gen = generation /\ last.stamp = stamp + 1 /\ last.kind = e.kind
               /\ last.owner = e.owner
               /\ last.value = IF e.kind = "frame" THEN stamp + 1 ELSE e.value
<1>1. stamp < MaxStamp /\ (Full => Expendable # {})
  BY DEF Admit, NoRoom
<1>2. /\ stamp + 1 \in 0..MaxStamp /\ stamp + 1 \in 0..(MaxStamp + MaxSettings)
      /\ generation \in 0..MaxReloads
  <2>1. stamp \in 0..MaxStamp /\ generation \in 0..MaxReloads
    BY Types
  <2>2. MaxStamp \in Nat /\ MaxSettings \in Nat
    BY ScriptAssumption
  <2>3. QED BY <1>1, <2>1, <2>2
<1>3. PICK v : /\ v = IF e.kind = "frame" THEN stamp + 1 ELSE e.value
  OBVIOUS
<1>4. v \in 0..(MaxStamp + MaxSettings) /\ (e.kind = "frame" => v = stamp + 1)
  BY <1>2, <1>3 DEF Event
<1>0. PICK s \in 0..MaxStamp : s = stamp + 1
  BY <1>2
<1> DEFINE g == [e EXCEPT !.gen = generation, !.stamp = s]
           f == [g EXCEPT !.value = v]
<1>5. /\ f \in Event /\ f.gen = generation /\ f.stamp = stamp + 1 /\ f.kind = e.kind
      /\ f.owner = e.owner /\ f.value = v
  <2>1. /\ g \in Event /\ g.gen = generation /\ g.stamp = s /\ g.kind = e.kind
        /\ g.owner = e.owner
    <3>1. generation \in 0..MaxReloads
      BY <1>2
    <3>2. QED BY <3>1 DEF Event
  <2> HIDE DEF g
  <2>2. QED BY <1>0, <1>4, <2>1, ValueTyped
<1>6. queue' = Append(IF Full THEN Dropped(Victim) ELSE queue, f)
  BY <1>0, <1>3, Zenon DEF Admit, Victim
<1> HIDE DEF f
<1> DEFINE room == IF Full THEN Dropped(Victim) ELSE queue
<1>7. /\ room \in Seq(Event) /\ Len(room) = Kept
      /\ \A j \in 1..Kept : room[j] = queue[Old(j)]
  <2>1. CASE Full
    <3>1. Victim \in 1..Len(queue)
      BY <1>1, <2>1, VictimIs
    <3>2. /\ Dropped(Victim) \in Seq(Event)
          /\ Len(Dropped(Victim)) = Len(queue) - 1
          /\ \A j \in 1..Len(queue) - 1 :
               Dropped(Victim)[j] = IF j < Victim THEN queue[j] ELSE queue[j + 1]
      BY <3>1, Types, DroppedIs
    <3>3. QED BY <2>1, <3>1, <3>2, Types DEF Kept, Old
  <2>2. CASE ~Full
    BY <2>2, Types DEF Kept, Old
  <2>3. QED BY <2>1, <2>2
<1> HIDE DEF room
<1>8. /\ queue' \in Seq(Event) /\ Len(queue') = Len(room) + 1
      /\ \A j \in 1..Len(room) : queue'[j] = room[j]
      /\ queue'[Len(room) + 1] = f
  <2>1. queue' = Append(room, f)
    BY <1>6 DEF room
  <2>2. QED BY <1>5, <1>7, <2>1, AppendProperties
<1>9. QED BY <1>1, <1>3, <1>4, <1>5, <1>7, <1>8

-------------------------------------------------------------------------------
(* The inductive invariant                                                     *)

\* One drain at most is posted or run, as scheduled says, and there is one for what waits.
Drain ==
  /\ pool \in {0, 1}
  /\ scheduled <=> pool = 1 \/ \E w \in Threads : Busy(w)
  /\ \A w \in Threads : Busy(w) => pool = 0
  /\ \A v, w \in Threads : Busy(v) /\ Busy(w) => v = w
  /\ queue # <<>> => scheduled

\* An event other than a stop, under way in the host.
Holds(w) == worker[w].pc \in {"call", "update", "post"} /\ worker[w].event.kind # "stop"

\* Nothing but the stop waits once the runtime stops, and nothing follows it.
Control ==
  /\ stopped => stopping /\ ~scheduled
  /\ \A i \in 1..Len(queue) : queue[i].kind = "stop" <=> stopping
  /\ \A w \in Threads :
       /\ At(w, "exit") \/ (At(w, "call") /\ worker[w].event.kind = "stop") => stopping
       /\ At(w, "update") \/ At(w, "post") => worker[w].event.kind # "stop"
       /\ worker[w].reached # 0 => At(w, "update") \/ At(w, "post")

\* updateQueued and updateRunning tell of the one update that waits or runs.
Updates ==
  /\ updateQueued => \E i \in 1..Len(queue) : queue[i].kind = "update"
  /\ \A i, j \in 1..Len(queue) : queue[i].kind = "update" /\ queue[j].kind = "update" => i = j
  /\ \A i \in 1..Len(queue) : queue[i].kind = "update" => updateQueued
  /\ \A w \in Threads : Updating(w) => updateRunning \/ stopping
  /\ \A w \in Threads : Updating(w) /\ updateQueued => At(w, "post")

Fresh ==
  /\ \A i, j \in 1..Len(queue) : queue[i].kind = "frame" /\ queue[j].kind = "frame" => i = j
  /\ \A i \in 1..Len(queue) : queue[i].kind = "frame" => queue[i].value = frame

\* Stamps grow from the results that were posted over the event under way to those that wait.
Stamps ==
  /\ \A i \in 1..Len(queue) : queue[i].stamp <= stamp
  /\ \A i, j \in 1..Len(queue) : i < j => queue[i].stamp < queue[j].stamp
  /\ \A w \in Threads : Holds(w) =>
       /\ worker[w].event.stamp <= stamp
       /\ \A j \in 1..Len(queue) : queue[j].kind # "stop" => worker[w].event.stamp < queue[j].stamp
       /\ \A i \in 1..Len(deferred) : deferred[i].stamp < worker[w].event.stamp
  /\ \A i, j \in 1..Len(deferred) : i < j => deferred[i].stamp < deferred[j].stamp
  /\ \A i \in 1..Len(deferred) :
       /\ deferred[i].stamp <= stamp
       /\ \A j \in 1..Len(queue) : queue[j].kind # "stop" => deferred[i].stamp < queue[j].stamp

\* A reload waits in front of all else, and what waits is of its generation. The host is of
\* that generation too, or a reload is on its way.
ReloadWaits == Len(queue) > 0 /\ queue[1].kind = "reload"
Loading(w)  == At(w, "call") /\ worker[w].event.kind = "reload"
Hosts ==
  /\ \A i \in 1..Len(queue) : queue[i].gen = generation
  /\ \A i \in 1..Len(queue) : queue[i].kind = "reload" => i = 1 /\ generation > 0
  /\ \/ stopping \/ host.id = generation \/ ReloadWaits
     \/ \E w \in Threads : Loading(w) /\ worker[w].event.gen = generation
  /\ \A w \in Threads :
       /\ worker[w].event.gen <= generation
       /\ Loading(w) => worker[w].event.gen = generation \/ stopping \/ ReloadWaits
       /\ Loading(w) => worker[w].event.gen > 0
       /\ At(w, "call") /\ worker[w].event.kind \notin {"reload", "stop"} =>
            worker[w].event.gen = host.id
       /\ worker[w].reached # 0 =>
            /\ worker[w].event.gen = worker[w].reached
            /\ worker[w].event.kind = "command" => worker[w].event.owner = worker[w].reached

\* A call of an older generation that can still be charged to the script.
Overdue(w) ==
  /\ worker[w].pc \in {"call", "update"} /\ worker[w].event.kind # "stop"
  /\ worker[w].event.gen # generation

\* Every counter is at most one above the script's own faults, and at most these as long as the
\* call that may make the difference is still to end.
Charged(c) ==
  \/ faults >= FewFaults
  \/ c <= faults
  \/ c <= faults + 1 /\ \A w \in Threads : ~Overdue(w)
Faults ==
  /\ faults <= FewFaults
  /\ unhealthy => faults + 1 >= FewFaults
  /\ Charged(consecutive) /\ Charged(timeouts) /\ Charged(errors)

\* What events tell of the settings is typed like these.
Values ==
  /\ \A i \in 1..Len(queue) : queue[i].kind = "settings" => queue[i].value \in 0..MaxSettings
  /\ \A w \in Threads : worker[w].event.kind = "settings" => worker[w].event.value \in 0..MaxSettings

\* What the invariant says of everything but the types.
Rest == Drain /\ Control /\ Updates /\ Fresh /\ Stamps /\ Hosts /\ Faults /\ Values

IInv == TypeOK /\ Rest

-------------------------------------------------------------------------------
(* It implies the properties                                                   *)

LEMMA DrainIsOne == ASSUME TypeOK, Drain PROVE OneDrain
<1> DEFINE B == {w \in Threads : Busy(w)}
<1>1. CASE B = {}
  <2>1. Cardinality(B) = 0
    BY <1>1, FS_EmptySet
  <2>2. QED BY <1>1, <2>1 DEF Drain, OneDrain, Drains
<1>2. CASE B # {}
  <2>1. PICK w \in Threads : Busy(w)
    BY <1>2
  <2>2. B = {w}
    BY <2>1 DEF Drain
  <2>3. Cardinality(B) = 1
    BY <2>2, FS_Singleton
  <2>4. QED BY <2>1, <2>3 DEF Drain, OneDrain, Drains
<1>3. QED BY <1>1, <1>2

\* A set of positions with at most one element.
LEMMA AtMostOne ==
  ASSUME NEW S, \A i, j \in S : i = j
  PROVE  Cardinality(S) = IF S = {} THEN 0 ELSE 1
<1>1. CASE S = {}
  BY <1>1, FS_EmptySet
<1>2. CASE S # {}
  <2>1. PICK i \in S : S = {i}
    BY <1>2
  <2>2. QED BY <1>2, <2>1, FS_Singleton
<1>3. QED BY <1>1, <1>2

LEMMA IInvQueue == IInv => QueueCoherent
<1> SUFFICES ASSUME IInv PROVE QueueCoherent
  OBVIOUS
<1>1. OneDrain
  BY DrainIsOne DEF IInv, Rest
<1>2. OneUpdate
  <2>1. Cardinality(Waiting) = IF Waiting = {} THEN 0 ELSE 1
    BY AtMostOne, Types DEF IInv, Rest, Updates, Waiting
  <2>2. updateQueued <=> Waiting # {}
    BY Types DEF IInv, Rest, Updates, Waiting
  <2>3. QED BY <2>1, <2>2 DEF IInv, Rest, Updates, OneUpdate, At
<1>3. FramesAreFresh
  <2>1. Cardinality(Frames) = IF Frames = {} THEN 0 ELSE 1
    BY AtMostOne, Types DEF IInv, Rest, Fresh, Frames
  <2>2. QED BY <2>1, Types DEF IInv, Rest, Fresh, Frames, FramesAreFresh
<1>4. QED BY <1>1, <1>2, <1>3 DEF QueueCoherent

LEMMA IInvEffects == IInv => EffectsBelong
<1> SUFFICES ASSUME IInv PROVE EffectsBelong
  OBVIOUS
<1>1. RightHost
  BY DEF IInv, Rest, Hosts, RightHost
<1>2. DisabledForFaults
  BY DEF IInv, Rest, Faults, DisabledForFaults
<1>3. ResultsInOrder
  <2>1. DOMAIN deferred = 1..Len(deferred)
    BY LenProperties DEF IInv, Rest, TypeOK
  <2>2. \A w \in Threads : worker[w].reached # 0 => Holds(w)
    BY DEF IInv, Rest, Control, Holds, At
  <2>3. QED BY <2>1, <2>2, Types DEF IInv, Rest, Stamps, ResultsInOrder
<1>4. QED BY <1>1, <1>2, <1>3 DEF EffectsBelong

-------------------------------------------------------------------------------
(* enqueue() keeps it                                                          *)

\* The part of TypeOK that enqueue() can disturb.
MailTyped ==
  /\ queue \in Seq(Event) /\ Len(queue) <= MaxQueue
  /\ generation \in 0..MaxReloads /\ stamp \in 0..MaxStamp /\ frame \in 0..MaxStamp
  /\ {scheduled, updateQueued, updateRunning, unhealthy} \subseteq BOOLEAN
  /\ {consecutive, timeouts, errors, pool, faults} \subseteq Nat

LEMMA ScheduleTyped ==
  ASSUME TypeOK, Schedule
  PROVE  scheduled' = TRUE /\ pool' \in Nat
BY Types DEF Schedule

\* With one drain at most before, there is one after.
LEMMA ScheduleDrains ==
  ASSUME TypeOK, Drain, Schedule, UNCHANGED worker
  PROVE  Drain'
BY Types DEF Schedule, Drain, Busy

LEMMA EnqueueTyped ==
  ASSUME TypeOK, NEW e \in Event, Enqueue(e)
  PROVE  MailTyped'
<1>1. CASE Refuse(e)
  BY <1>1 DEF Refuse, TypeOK, MailTyped, mailbox, updates, health
<1>2. CASE Supersede(e)
  <2>1. queue' \in Seq(Event) /\ Len(queue') = Len(queue)
    BY <1>2, SupersedeIs
  <2>2. stamp' \in 0..MaxStamp /\ frame' \in 0..MaxStamp
    <3>1. stamp < MaxStamp /\ stamp' = stamp + 1 /\ frame' = stamp + 1
      BY <1>2 DEF Supersede
    <3>2. QED BY <3>1, Numbers, Limits
  <2>3. QED BY <1>2, <2>1, <2>2 DEF Supersede, TypeOK, MailTyped, updates, health
<1>3. CASE Admit(e)
  <2>1. queue' \in Seq(Event) /\ Len(queue') <= MaxQueue
    <3>1. queue' \in Seq(Event) /\ Len(queue') = Kept + 1 /\ (Full => Expendable # {})
      BY <1>3, AdmitIs
    <3>2. Kept \in Nat /\ Kept < MaxQueue
      BY <3>1, OldIs
    <3>3. QED BY <3>1, <3>2, Limits
  <2>2. stamp' \in 0..MaxStamp /\ frame' \in 0..MaxStamp
    <3>1. /\ stamp < MaxStamp /\ stamp' = stamp + 1
          /\ frame' = stamp + 1 \/ frame' = frame
      BY <1>3 DEF Admit
    <3>2. QED BY <3>1, Numbers, Limits
  <2>3. scheduled' = TRUE /\ pool' \in Nat
    BY <1>3, ScheduleTyped DEF Admit
  <2>4. updateQueued' \in BOOLEAN /\ UNCHANGED <<generation, updateRunning, health>>
    BY <1>3 DEF Admit
  <2>5. QED BY <2>1, <2>2, <2>3, <2>4 DEF TypeOK, MailTyped, health
<1>4. QED BY <1>1, <1>2, <1>3, Zenon DEF Enqueue

\* What no step on the side can disturb.
LEMMA FrameKeeps ==
  ASSUME Rest, UNCHANGED <<mailbox, updates, health, ending, host, worker>>
  PROVE  Drain' /\ Control' /\ Updates' /\ Fresh' /\ Hosts' /\ Faults' /\ Values'
<1>1. Drain' /\ Control'
  BY DEF Rest, Drain, Control, Busy, At, mailbox, ending
<1>2. Updates' /\ Fresh' /\ Values'
  BY DEF Rest, Updates, Updating, Busy, At, Fresh, Values, mailbox, updates, ending
<1>3. Hosts'
  BY DEF Rest, Hosts, ReloadWaits, Loading, At, mailbox, ending
<1>4. Faults'
  BY DEF Rest, Faults, Charged, Overdue, mailbox, health
<1>5. QED BY <1>1, <1>2, <1>3, <1>4

LEMMA RefuseKeeps ==
  ASSUME TypeOK, Rest, NEW e, Refuse(e), UNCHANGED <<ending, host, worker, deferred>>
  PROVE  Rest'
<1>1. UNCHANGED <<mailbox, updates, health, ending, host, worker, deferred>>
  BY DEF Refuse
<1>2. Stamps'
  BY <1>1 DEF Rest, Stamps, Holds, mailbox
<1>3. QED BY <1>1, <1>2, FrameKeeps DEF Rest

LEMMA SupersedeKeeps ==
  ASSUME TypeOK, Rest, NEW e, Supersede(e), UNCHANGED <<ending, host, worker, deferred>>
  PROVE  Rest'
<1>1. /\ Len(queue') = Len(queue) /\ Len(queue) \in Nat
      /\ \A i \in 1..Len(queue) :
           /\ queue'[i].kind = queue[i].kind /\ queue'[i].gen = queue[i].gen
           /\ queue'[i].stamp = queue[i].stamp
           /\ i # First(Frames) => queue'[i] = queue[i]
      /\ queue'[First(Frames)].value = stamp + 1
  BY SupersedeIs, Types
<1>2. /\ stamp' = stamp + 1 /\ frame' = stamp + 1 /\ stamp \in Nat
      /\ UNCHANGED <<generation, scheduled, pool, updates, health, stopping, stopped>>
  BY Types DEF Supersede, ending
<1>3. First(Frames) \in 1..Len(queue) /\ queue[First(Frames)].kind = "frame"
  BY FrameIs DEF Supersede, Superseding
<1>4. Drain'
  BY <1>1, <1>2, <1>3, Types, EmptySeq DEF Rest, Drain, Busy
<1>5. Control'
  BY <1>1, <1>2 DEF Rest, Control, At
<1>6. Updates'
  BY <1>1, <1>2 DEF Rest, Updates, Updating, Busy, At, updates
<1>7. Fresh'
  BY <1>1, <1>2, <1>3 DEF Rest, Fresh
<1>8. Stamps'
  <2>1. \A i \in 1..Len(queue) : queue[i].stamp \in Nat
    BY Types DEF Event
  <2>2. \A i \in 1..Len(deferred) : deferred[i].stamp \in Nat
    BY WorkerTypes
  <2>3. \A w \in Threads : worker[w].event.stamp \in Nat
    BY WorkerTypes
  <2>4. Stamps
    BY DEF Rest
  <2>5. /\ \A i \in 1..Len(queue') : queue'[i].stamp <= stamp'
        /\ \A i, j \in 1..Len(queue') : i < j => queue'[i].stamp < queue'[j].stamp
    <3>1. /\ \A i \in 1..Len(queue) : queue[i].stamp <= stamp
          /\ \A i, j \in 1..Len(queue) : i < j => queue[i].stamp < queue[j].stamp
      BY <2>4 DEF Stamps
    <3>2. \A i \in 1..Len(queue) : queue'[i].stamp = queue[i].stamp
      BY <1>1
    <3>3. \A i \in 1..Len(queue') : i \in 1..Len(queue)
      BY <1>1
    <3>4. ASSUME NEW i \in 1..Len(queue') PROVE queue'[i].stamp <= stamp'
      <4>1. queue[i].stamp <= stamp /\ queue[i].stamp \in Nat /\ queue'[i].stamp = queue[i].stamp
        BY <2>1, <3>1, <3>2, <3>3
      <4>2. QED BY <1>2, <4>1
    <3>5. QED BY <3>1, <3>2, <3>3, <3>4
  <2>6. \A w \in Threads : Holds(w)' <=> Holds(w)
    BY DEF Holds
  <2>7. ASSUME NEW w \in Threads, Holds(w)
        PROVE  /\ worker'[w].event.stamp <= stamp'
               /\ \A j \in 1..Len(queue') :
                    queue'[j].kind # "stop" => worker'[w].event.stamp < queue'[j].stamp
               /\ \A i \in 1..Len(deferred') : deferred'[i].stamp < worker'[w].event.stamp
    BY <1>1, <1>2, <2>3, <2>4, <2>7 DEF Stamps
  <2>8. \A i \in 1..Len(deferred') :
          /\ deferred'[i].stamp <= stamp'
          /\ \A j \in 1..Len(queue') : queue'[j].kind # "stop" => deferred'[i].stamp < queue'[j].stamp
    BY <1>1, <1>2, <2>2, <2>4 DEF Stamps
  <2>9. \A i, j \in 1..Len(deferred') : i < j => deferred'[i].stamp < deferred'[j].stamp
    BY <2>4 DEF Stamps
  <2>10. QED BY <2>5, <2>6, <2>7, <2>8, <2>9 DEF Stamps
<1>9. Hosts'
  BY <1>1, <1>2 DEF Rest, Hosts, At, Loading, ReloadWaits
<1>10. Faults'
  BY <1>2 DEF Rest, Faults, Charged, Overdue, health
<1>11. Values'
  BY <1>1, <1>3 DEF Rest, Values
<1>12. QED BY <1>4, <1>5, <1>6, <1>7, <1>8, <1>9, <1>10, <1>11 DEF Rest

LEMMA AdmitKeeps ==
  ASSUME TypeOK, Rest, NEW e \in Event, e.kind \notin {"stop", "reload"}, Admit(e),
         e.kind = "settings" => e.value \in 0..MaxSettings,
         UNCHANGED <<ending, host, worker, deferred>>
  PROVE  Rest'
<1> DEFINE last == queue'[Kept + 1]
<1>1. /\ Full => Expendable # {}
      /\ Len(queue') = Kept + 1
      /\ \A j \in 1..Kept : queue'[j] = queue[Old(j)]
      /\ last.gen = generation /\ last.stamp = stamp + 1 /\ last.kind = e.kind
      /\ last.value = IF e.kind = "frame" THEN stamp + 1 ELSE e.value
  BY AdmitIs
<1>2. /\ Kept \in Nat
      /\ \A j \in 1..Kept : Old(j) \in 1..Len(queue)
      /\ \A j, k \in 1..Kept : j < k => Old(j) < Old(k)
      /\ \A i \in 1..Len(queue) : (Full => i # Victim) => \E j \in 1..Kept : i = Old(j)
      /\ Full => \A j \in 1..Kept : Old(j) # Victim
  BY <1>1, OldIs
<1>3. Full => Victim \in 1..Len(queue) /\ Droppable(queue[Victim])
  BY <1>1, VictimIs
<1>4. /\ stamp' = stamp + 1 /\ stamp \in Nat
      /\ frame' = IF e.kind = "frame" THEN stamp + 1 ELSE frame
      /\ UNCHANGED <<generation, updateRunning, health, stopping, stopped>>
      /\ ~stopping /\ ~Superseding(e) /\ (e.kind = "update" => UpdateDue)
      /\ Schedule
      /\ updateQueued' = \/ e.kind = "update"
                         \/ updateQueued /\ ~(Full /\ queue[Victim].kind = "update")
  BY Types DEF Admit, ending, Closed, Victim
<1> HIDE DEF last
<1>5. \A i \in 1..Len(queue') : i \in 1..Kept \/ i = Kept + 1
  BY <1>1, <1>2
<1>6. Drain'
  BY <1>4, ScheduleDrains DEF Rest
<1>7. Control'
  <2>1. scheduled' /\ ~stopped
    BY <1>4 DEF Schedule, Rest, Control
  <2>2. \A i \in 1..Len(queue') : queue'[i].kind # "stop"
    BY <1>1, <1>2, <1>4, <1>5 DEF Rest, Control, last
  <2>3. QED BY <1>4, <2>1, <2>2 DEF Rest, Control, At
<1>8. Updates'
  <2>1. updateQueued' => \E i \in 1..Len(queue') : queue'[i].kind = "update"
    <3>1. CASE e.kind = "update"
      BY <1>1, <1>2, <3>1 DEF last
    <3>2. CASE updateQueued /\ ~(Full /\ queue[Victim].kind = "update")
      <4>1. PICK i \in 1..Len(queue) : queue[i].kind = "update"
        BY <3>2 DEF Rest, Updates
      <4>2. PICK j \in 1..Kept : i = Old(j)
        BY <1>2, <3>2, <4>1
      <4>3. QED BY <1>1, <1>2, <4>1, <4>2
    <3>3. QED BY <1>4, <3>1, <3>2
  <2>2. CASE e.kind = "update"
    <3>1. ~updateQueued /\ ~updateRunning
      BY <1>4, <2>2 DEF UpdateDue
    <3>2. \A i \in 1..Kept : queue'[i].kind # "update"
      BY <1>1, <1>2, <3>1 DEF Rest, Updates
    <3>3. \A w \in Threads : ~Updating(w)
      BY <1>4, <3>1 DEF Rest, Updates
    <3>4. QED BY <1>4, <1>5, <2>1, <2>2, <3>2, <3>3 DEF Updates, Updating, Busy
  <2>3. CASE e.kind # "update"
    <3>1. \A i, j \in 1..Len(queue') :
            queue'[i].kind = "update" /\ queue'[j].kind = "update" => i = j
      <4>1. SUFFICES ASSUME NEW i \in 1..Kept, NEW j \in 1..Kept, i < j,
                            queue'[i].kind = "update", queue'[j].kind = "update"
                     PROVE  FALSE
        BY <1>1, <1>2, <1>5, <2>3 DEF last
      <4>2. Old(i) < Old(j) /\ Old(i) \in 1..Len(queue) /\ Old(j) \in 1..Len(queue)
        BY <1>2, <4>1
      <4>3. QED BY <1>1, <4>1, <4>2 DEF Rest, Updates
    <3>2. \A i \in 1..Len(queue') : queue'[i].kind = "update" => updateQueued'
      <4>1. SUFFICES ASSUME NEW i \in 1..Kept, queue'[i].kind = "update" PROVE updateQueued'
        BY <1>1, <1>5, <2>3 DEF last
      <4>2. queue[Old(i)].kind = "update" /\ Old(i) \in 1..Len(queue)
        BY <1>1, <1>2, <4>1
      <4>3. ~(Full /\ queue[Victim].kind = "update")
        BY <1>2, <1>3, <4>2 DEF Rest, Updates
      <4>4. QED BY <1>4, <4>2, <4>3 DEF Rest, Updates
    <3>3. updateQueued' => updateQueued
      BY <1>4, <2>3
    <3>4. \A w \in Threads : Updating(w)' <=> Updating(w)
      BY <1>4 DEF Updating, Busy
    <3>5. QED BY <1>4, <2>1, <3>1, <3>2, <3>3, <3>4 DEF Rest, Updates, At
  <2>4. QED BY <2>2, <2>3
<1>9. Fresh'
  <2>1. \A i \in 1..Kept : queue'[i].kind = "frame" =>
           /\ queue[Old(i)].kind = "frame" /\ queue'[i].value = queue[Old(i)].value
           /\ e.kind # "frame"
    BY <1>1, <1>2, <1>4, Types DEF Superseding, Frames
  <2>2. \A i, j \in 1..Kept : queue'[i].kind = "frame" /\ queue'[j].kind = "frame" => i = j
    <3>1. SUFFICES ASSUME NEW i \in 1..Kept, NEW j \in 1..Kept, i < j,
                          queue'[i].kind = "frame", queue'[j].kind = "frame"
                   PROVE  FALSE
      OBVIOUS
    <3>2. Old(i) < Old(j) /\ Old(i) \in 1..Len(queue) /\ Old(j) \in 1..Len(queue)
      BY <1>2, <3>1
    <3>3. QED BY <2>1, <3>1, <3>2 DEF Rest, Fresh
  <2>3. \A i \in 1..Kept : queue'[i].kind = "frame" => queue'[i].value = frame'
    BY <1>2, <1>4, <2>1 DEF Rest, Fresh
  <2>4. QED BY <1>1, <1>4, <1>5, <2>1, <2>2, <2>3 DEF Fresh, last
<1>10. Stamps'
  <2>1. \A i \in 1..Len(queue) : queue[i].stamp \in Nat
    BY Types DEF Event
  <2>0. \A i \in 1..Kept : queue'[i].stamp <= stamp /\ queue'[i].stamp \in Nat
    <3>1. \A i \in 1..Len(queue) : queue[i].stamp <= stamp
      BY DEF Rest, Stamps
    <3>2. QED BY <1>1, <1>2, <2>1, <3>1
  <2>2. \A i \in 1..Len(deferred) : deferred[i].stamp \in Nat
    BY WorkerTypes
  <2>3. \A w \in Threads : worker[w].event.stamp \in Nat
    BY WorkerTypes
  <2>4. \A i, j \in 1..Len(queue') : i < j => queue'[i].stamp < queue'[j].stamp
    <3>1. ASSUME NEW i \in 1..Kept, NEW j \in 1..Kept, i < j
          PROVE  queue'[i].stamp < queue'[j].stamp
      <4>1. Old(i) < Old(j) /\ Old(i) \in 1..Len(queue) /\ Old(j) \in 1..Len(queue)
        BY <1>2, <3>1
      <4>2. QED BY <1>1, <4>1 DEF Rest, Stamps
    <3>2. ASSUME NEW i \in 1..Kept PROVE queue'[i].stamp < last.stamp
      <4>1. queue'[i].stamp <= stamp /\ queue'[i].stamp \in Nat
        BY <2>0
      <4>2. QED BY <1>1, <1>4, <4>1
    <3>3. QED BY <1>2, <1>5, <3>1, <3>2 DEF last
  <2>5. ASSUME NEW s \in Nat, s <= stamp,
               \A j \in 1..Len(queue) : queue[j].kind # "stop" => s < queue[j].stamp
        PROVE  \A j \in 1..Len(queue') : s < queue'[j].stamp
    <3>1. \A j \in 1..Kept : s < queue'[j].stamp
      BY <1>1, <1>2, <1>4, <2>5 DEF Rest, Control
    <3>2. s < last.stamp
      BY <1>1, <1>4, <2>5
    <3>3. QED BY <1>5, <3>1, <3>2 DEF last
  <2>6. \A i \in 1..Len(queue') : queue'[i].stamp <= stamp'
    <3>1. \A i \in 1..Kept : queue'[i].stamp <= stamp'
      BY <1>4, <2>0
    <3>2. QED BY <1>1, <1>4, <1>5, <3>1 DEF last
  <2>7. \A w \in Threads : Holds(w) => \A j \in 1..Len(queue') : worker[w].event.stamp < queue'[j].stamp
    BY <2>3, <2>5 DEF Rest, Stamps
  <2>8. \A i \in 1..Len(deferred), j \in 1..Len(queue') : deferred[i].stamp < queue'[j].stamp
    BY <2>2, <2>5 DEF Rest, Stamps
  <2>9. QED BY <1>4, <2>2, <2>3, <2>4, <2>6, <2>7, <2>8 DEF Rest, Stamps, Holds
<1>11. Hosts'
  <2>1. \A i \in 1..Len(queue') : queue'[i].gen = generation'
    BY <1>1, <1>2, <1>4, <1>5 DEF Rest, Hosts, last
  <2>2. \A i \in 1..Len(queue') : queue'[i].kind = "reload" => i = 1 /\ generation > 0
    <3>1. SUFFICES ASSUME NEW i \in 1..Kept, queue'[i].kind = "reload" PROVE i = 1 /\ generation > 0
      BY <1>1, <1>5 DEF last
    <3>2. Old(i) = 1 /\ generation > 0
      BY <1>1, <1>2, <3>1 DEF Rest, Hosts
    <3>3. i > 1 => Old(1) < Old(i) /\ Old(1) \in 1..Len(queue)
      BY <1>2
    <3>4. QED BY <3>2, <3>3
  <2>3. ReloadWaits => ReloadWaits'
    <3>1. SUFFICES ASSUME Len(queue) > 0, queue[1].kind = "reload"
                   PROVE  Len(queue') > 0 /\ queue'[1].kind = "reload"
      BY DEF ReloadWaits
    <3>2. 1 \in 1..Len(queue) /\ (Full => Victim # 1)
      BY <1>3, <3>1, Types DEF Droppable
    <3>3. PICK j \in 1..Kept : 1 = Old(j)
      BY <1>2, <3>2
    <3>4. j = 1
      BY <1>2, <3>3
    <3>5. QED BY <1>1, <1>2, <3>1, <3>3, <3>4
  <2>4. QED BY <1>4, <2>1, <2>2, <2>3 DEF Rest, Hosts, At, Loading
<1>12. Faults'
  BY <1>4 DEF Rest, Faults, Charged, Overdue, health
<1>13. Values'
  <2>1. \A i \in 1..Kept : queue'[i].kind = "settings" => queue'[i].value \in 0..MaxSettings
    BY <1>1, <1>2 DEF Rest, Values
  <2>2. QED BY <1>1, <1>5, <2>1 DEF Rest, Values, last
<1>14. QED BY <1>6, <1>7, <1>8, <1>9, <1>10, <1>11, <1>12, <1>13 DEF Rest

LEMMA EnqueueKeeps ==
  ASSUME TypeOK, Rest, NEW e \in Event, e.kind \notin {"stop", "reload"}, Enqueue(e),
         e.kind = "settings" => e.value \in 0..MaxSettings,
         UNCHANGED <<ending, host, worker, deferred>>
  PROVE  Rest'
BY RefuseKeeps, SupersedeKeeps, AdmitKeeps DEF Enqueue

-------------------------------------------------------------------------------
(* The steps of the main thread and of other threads                           *)

\* The rest of TypeOK.
MachineTyped ==
  /\ {stopping, stopped, handles} \subseteq BOOLEAN
  /\ worker \in [Threads -> State]
  /\ host \in [id : 0..MaxReloads, script : Scripts \union {NoScript}]
  /\ settings \in 0..MaxSettings /\ seeded \in 0..MaxSettings
  /\ watching \subseteq 1..MaxReloads /\ notifying \subseteq 1..MaxReloads
  /\ commands \subseteq 1..MaxReloads
  /\ deferred \in Seq(Result)

LEMMA TypesSplit == TypeOK => MailTyped /\ MachineTyped
BY DEF TypeOK, MailTyped, MachineTyped, State, Stages, Result

LEMMA TypesJoin == ASSUME MailTyped', MachineTyped' PROVE TypeOK'
BY DEF TypeOK, MailTyped, MachineTyped, State, Stages, Result

LEMMA MailStays ==
  ASSUME TypeOK, UNCHANGED <<mailbox, updates, health>>
  PROVE  MailTyped'
BY TypesSplit DEF MailTyped, mailbox, updates, health

LEMMA IdleTyped ==
  /\ Idle \in State /\ [Idle EXCEPT !.pc = "drain"] \in State
  /\ Idle.pc = "idle" /\ [Idle EXCEPT !.pc = "drain"].pc = "drain"
  /\ \A s \in {Idle, [Idle EXCEPT !.pc = "drain"]} :
       s.event.kind = "stop" /\ s.event.gen = 0 /\ s.reached = 0
<1>1. NoEvent \in Event /\ NoEvent.kind = "stop" /\ NoEvent.gen = 0 /\ 0 \in 0..MaxReloads
  BY EventsTyped, ScriptAssumption DEF NoEvent
<1>2. QED BY <1>1 DEF Idle, State, Stages

LEMMA InitIInv == Init => IInv
<1> SUFFICES ASSUME Init PROVE IInv
  OBVIOUS
<1>1. \A w \in Threads : worker[w] = Idle
  BY DEF Init
<1>2. Len(queue) = 0 /\ Len(deferred) = 0 /\ queue \in Seq(Event) /\ deferred \in Seq(Result)
  BY EmptySeq DEF Init
<1>3. FewFaults \in Nat
  BY ScriptAssumption DEF FewFaults, Least
<1>4. TypeOK
  <2>1. worker \in [Threads -> State]
    BY IdleTyped DEF Init
  <2>2. host \in [id : 0..MaxReloads, script : Scripts \union {NoScript}]
    BY ScriptAssumption DEF Init, NoHost
  <2>3. /\ Len(queue) <= MaxQueue /\ 0 \in 0..MaxReloads /\ 0 \in 0..MaxStamp
        /\ 0 \in 0..MaxSettings
    BY <1>2, ScriptAssumption
  <2>4. MailTyped
    <3>1. {scheduled, updateQueued, updateRunning, unhealthy} \subseteq BOOLEAN
      BY DEF Init
    <3>2. {consecutive, timeouts, errors, pool, faults} \subseteq Nat
      BY DEF Init
    <3>3. generation \in 0..MaxReloads /\ stamp \in 0..MaxStamp /\ frame \in 0..MaxStamp
      BY <2>3 DEF Init
    <3>4. QED BY <1>2, <2>3, <3>1, <3>2, <3>3 DEF MailTyped
  <2>5. MachineTyped
    BY <1>2, <2>1, <2>2, <2>3 DEF Init, MachineTyped
  <2>6. QED BY <2>4, <2>5 DEF MailTyped, MachineTyped, TypeOK, State, Stages, Result
<1>5. Drain
  BY <1>1, IdleTyped DEF Init, Drain, Busy
<1>6. Control /\ Updates /\ Fresh /\ Stamps
  BY <1>1, <1>2, IdleTyped DEF Init, Control, Updates, Fresh, Stamps, At, Holds, Updating, Busy
<1>7. Hosts
  BY <1>1, <1>2, IdleTyped DEF Init, Hosts, At, Loading, NoHost
<1>10. Values
  BY <1>1, <1>2, IdleTyped DEF Values
<1>8. Faults
  BY <1>3 DEF Init, Faults, Charged
<1>9. QED BY <1>4, <1>5, <1>6, <1>7, <1>8, <1>10 DEF IInv, Rest

\* A queue of one event.
LEMMA SingleIs ==
  ASSUME NEW f \in Event
  PROVE  <<f>> \in Seq(Event) /\ Len(<<f>>) = 1 /\ <<f>>[1] = f /\ <<f>> # <<>>
OBVIOUS

LEMMA NewGenerationKeeps ==
  ASSUME TypeOK, Rest, NEW e \in Event, e.kind = "reload", NewGeneration(e),
         UNCHANGED <<ending, machine, worker, seeded, notifying, deferred>>
  PROVE  TypeOK' /\ Rest'
<1>1. /\ generation + 1 \in 0..MaxReloads /\ stamp + 1 \in 0..MaxStamp
      /\ generation \in Nat /\ stamp \in Nat /\ 1 <= MaxQueue /\ FewFaults \in Nat
  <2>1. generation < MaxReloads /\ stamp < MaxStamp
    BY DEF NewGeneration
  <2>2. FewFaults \in Nat
    BY ScriptAssumption DEF FewFaults, Least
  <2>3. QED BY <2>1, <2>2, Numbers, Limits
<1>2. PICK f : f = [e EXCEPT !.gen = generation + 1, !.stamp = stamp + 1]
  OBVIOUS
<1>3. f \in Event /\ f.gen = generation + 1 /\ f.stamp = stamp + 1 /\ f.kind = "reload"
  <2>1. PICK g \in 0..MaxReloads, n \in 0..MaxStamp : g = generation + 1 /\ n = stamp + 1
    BY <1>1
  <2>2. f = [e EXCEPT !.gen = g, !.stamp = n]
    BY <1>2, <2>1
  <2>3. f \in Event /\ f.gen = g /\ f.stamp = n /\ f.kind = e.kind
    BY <2>2 DEF Event
  <2>4. QED BY <2>1, <2>3
<1>4. queue' = <<f>> /\ queue' \in Seq(Event) /\ Len(queue') = 1 /\ queue'[1] = f
  BY <1>2, <1>3, SingleIs DEF NewGeneration
<1>5. /\ generation' = generation + 1 /\ stamp' = stamp + 1 /\ frame' = frame
      /\ ~updateQueued' /\ ~updateRunning' /\ ~unhealthy'
      /\ consecutive' = 0 /\ timeouts' = 0 /\ errors' = 0 /\ faults' = 0
      /\ updateQueued' \in BOOLEAN /\ updateRunning' \in BOOLEAN /\ unhealthy' \in BOOLEAN
      /\ Schedule /\ ~stopping /\ UNCHANGED <<stopping, stopped, host>>
  BY DEF NewGeneration, ending, machine
<1>6. scheduled' = TRUE /\ pool' \in Nat
  BY <1>5, ScheduleTyped
<1>7. TypeOK'
  <2>1. MailTyped'
    BY <1>1, <1>4, <1>5, <1>6, Types DEF MailTyped
  <2>2. MachineTyped'
    BY TypesSplit DEF MachineTyped, ending, machine
  <2>3. QED BY <2>1, <2>2, TypesJoin
<1>8. Drain'
  BY <1>5, ScheduleDrains DEF Rest
<1>9. Control'
  BY <1>3, <1>4, <1>5 DEF Rest, Control, At
<1>10. Updates'
  <2>1. \A w \in Threads : ~(Updating(w)')
    BY <1>1, <1>5, WorkerTypes DEF Rest, Hosts, Updating
  <2>2. QED BY <1>3, <1>4, <1>5, <2>1 DEF Updates
<1>11. Fresh'
  BY <1>3, <1>4 DEF Fresh
<1>12. Stamps'
  BY <1>1, <1>3, <1>4, <1>5, WorkerTypes DEF Rest, Stamps, Holds
<1>13. Hosts'
  <2>1. ReloadWaits'
    BY <1>3, <1>4 DEF ReloadWaits
  <2>2. \A w \in Threads : worker'[w].event.gen <= generation'
    BY <1>1, <1>5, WorkerTypes DEF Rest, Hosts
  <2>3. generation' > 0
    BY <1>1, <1>5
  <2>4. QED BY <1>3, <1>4, <1>5, <2>1, <2>2, <2>3 DEF Rest, Hosts, At, Loading
<1>14. Faults'
  BY <1>1, <1>5 DEF Faults, Charged, FewFaults, Least
<1>15. Values'
  BY <1>3, <1>4 DEF Rest, Values
<1>16. QED BY <1>7, <1>8, <1>9, <1>10, <1>11, <1>12, <1>13, <1>14, <1>15 DEF Rest

LEMMA ReloadKeeps == ASSUME TypeOK, Rest, Reload PROVE TypeOK' /\ Rest'
<1>1. PICK s \in Scripts : \/ NewGeneration([Call("reload") EXCEPT !.script = s])
                           \/ Refuse([Call("reload") EXCEPT !.script = s])
  BY DEF Reload
<1>2. /\ [Call("reload") EXCEPT !.script = s] \in Event
      /\ [Call("reload") EXCEPT !.script = s].kind = "reload"
  BY EventsTyped, ScriptTyped DEF Kinds
<1> DEFINE e == [Call("reload") EXCEPT !.script = s]
<1>3. UNCHANGED <<ending, machine, worker, seeded, notifying, deferred>>
  BY DEF Reload
<1>4. CASE NewGeneration(e)
  BY <1>2, <1>3, <1>4, NewGenerationKeeps
<1>5. CASE Refuse(e)
  <2>1. Rest'
    BY <1>3, <1>5, RefuseKeeps DEF machine
  <2>2. MailTyped'
    BY <1>5, MailStays DEF Refuse
  <2>3. MachineTyped'
    BY <1>3, TypesSplit DEF MachineTyped, ending, machine
  <2>4. QED BY <2>1, <2>2, <2>3, TypesJoin
<1>6. QED BY <1>1, <1>4, <1>5

\* The four steps that call enqueue().
LEMMA EnqueuersKeep ==
  ASSUME TypeOK, Rest, Input \/ ChangeSettings \/ Notify \/ CommandDone
  PROVE  TypeOK' /\ Rest'
<1> SUFFICES ASSUME NEW e \in Event, e.kind \notin {"stop", "reload"}, Enqueue(e),
                    e.kind = "settings" => e.value \in 0..MaxSettings,
                    UNCHANGED <<ending, host, worker, deferred>>, MachineTyped'
             PROVE  TypeOK' /\ Rest'
  <2>1. CASE Input
    <3>1. PICK kind \in {"update", "call", "hover", "frame"} : Enqueue(Call(kind))
      BY <2>1 DEF Input
    <3>2. Call(kind) \in Event /\ Call(kind).kind = kind
      BY EventsTyped DEF Kinds
    <3>3. MachineTyped' /\ UNCHANGED <<ending, host, worker, deferred>>
      BY <2>1, TypesSplit DEF Input, MachineTyped, ending, machine
    <3>4. QED BY <3>1, <3>2, <3>3
  <2>2. CASE ChangeSettings
    <3>1. Enqueue([Call("settings") EXCEPT !.value = seeded + 1])
      BY <2>2 DEF ChangeSettings
    <3>2. seeded + 1 \in 0..MaxSettings /\ seeded + 1 \in 0..(MaxStamp + MaxSettings)
      <4>1. seeded \in 0..MaxSettings /\ seeded < MaxSettings
        BY <2>2 DEF ChangeSettings, TypeOK
      <4>2. QED BY <4>1, ScriptAssumption
    <3>3. /\ [Call("settings") EXCEPT !.value = seeded + 1] \in Event
          /\ [Call("settings") EXCEPT !.value = seeded + 1].kind = "settings"
          /\ [Call("settings") EXCEPT !.value = seeded + 1].value = seeded + 1
      <4>1. Call("settings") \in Event /\ Call("settings").kind = "settings"
        BY EventsTyped DEF Kinds
      <4>2. QED BY <3>2, <4>1, ValueTyped
    <3>4. MachineTyped' /\ UNCHANGED <<ending, host, worker, deferred>>
      BY <2>2, <3>2, TypesSplit DEF ChangeSettings, MachineTyped, ending, machine
    <3>5. QED BY <3>1, <3>2, <3>3, <3>4
  <2>3. CASE Notify
    <3>1. PICK h \in notifying : /\ notifying' = notifying \ {h}
                                 /\ Enqueue([Call("watch") EXCEPT !.owner = h])
      BY <2>3 DEF Notify
    <3>2. /\ [Call("watch") EXCEPT !.owner = h] \in Event
          /\ [Call("watch") EXCEPT !.owner = h].kind = "watch"
      <4>1. Call("watch") \in Event /\ Call("watch").kind = "watch"
        BY EventsTyped DEF Kinds
      <4>2. h \in 0..MaxReloads
        BY ScriptAssumption DEF TypeOK
      <4>3. QED BY <4>1, <4>2, OwnerTyped
    <3>3. MachineTyped' /\ UNCHANGED <<ending, host, worker, deferred>>
      BY <2>3, <3>1, TypesSplit DEF Notify, MachineTyped, ending, machine
    <3>4. QED BY <3>1, <3>2, <3>3
  <2>4. CASE CommandDone
    <3>1. PICK h \in commands : /\ commands' = commands \ {h}
                                /\ Enqueue([Call("command") EXCEPT !.owner = h])
      BY <2>4 DEF CommandDone
    <3>2. /\ [Call("command") EXCEPT !.owner = h] \in Event
          /\ [Call("command") EXCEPT !.owner = h].kind = "command"
      <4>1. Call("command") \in Event /\ Call("command").kind = "command"
        BY EventsTyped DEF Kinds
      <4>2. h \in 0..MaxReloads
        BY ScriptAssumption DEF TypeOK
      <4>3. QED BY <4>1, <4>2, OwnerTyped
    <3>3. MachineTyped' /\ UNCHANGED <<ending, host, worker, deferred>>
      BY <2>4, <3>1, TypesSplit DEF CommandDone, MachineTyped, ending
    <3>4. QED BY <3>1, <3>2, <3>3
  <2>5. QED BY <2>1, <2>2, <2>3, <2>4
<1>1. MailTyped'
  BY EnqueueTyped
<1>2. QED BY <1>1, EnqueueKeeps, TypesJoin

LEMMA StopKeeps == ASSUME TypeOK, Rest, Stop PROVE TypeOK' /\ Rest'
<1>1. PICK f : f = [Call("stop") EXCEPT !.gen = generation, !.stamp = stamp]
  OBVIOUS
<1>2. f \in Event /\ f.gen = generation /\ f.stamp = stamp /\ f.kind = "stop"
  <2>1. Call("stop") \in Event /\ Call("stop").kind = "stop"
    BY EventsTyped DEF Kinds
  <2>2. PICK c \in Event : c = Call("stop") /\ c.kind = "stop"
    BY <2>1
  <2>3. f = [c EXCEPT !.gen = generation, !.stamp = stamp]
    BY <1>1, <2>2
  <2>4. generation \in 0..MaxReloads /\ stamp \in 0..MaxStamp
    BY Types
  <2>5. QED BY <2>2, <2>3, <2>4 DEF Event
<1>3. queue' = <<f>> /\ queue' \in Seq(Event) /\ Len(queue') = 1 /\ queue'[1] = f
  BY <1>1, <1>2, SingleIs DEF Stop
<1>4. /\ ~stopping /\ stopping' = TRUE /\ updateQueued' = FALSE /\ Schedule
      /\ UNCHANGED <<stopped, updateRunning, generation, stamp, frame, health, machine, worker,
                     seeded, notifying, deferred>>
  BY DEF Stop
<1>5. TypeOK'
  <2>1. scheduled' = TRUE /\ pool' \in Nat /\ 1 <= MaxQueue
    BY <1>4, ScheduleTyped, ScriptAssumption
  <2>2. MailTyped'
    BY <1>3, <1>4, <2>1, Types DEF MailTyped, health
  <2>3. MachineTyped'
    BY <1>4, TypesSplit DEF MachineTyped, machine
  <2>4. QED BY <2>2, <2>3, TypesJoin
<1>6. Drain'
  BY <1>4, ScheduleDrains DEF Rest
<1>7. Control' /\ Updates' /\ Fresh'
  BY <1>2, <1>3, <1>4 DEF Rest, Control, Updates, Updating, Busy, Fresh, At
<1>8. Stamps'
  BY <1>2, <1>3, <1>4, Types DEF Rest, Stamps, Holds
<1>9. Hosts'
  BY <1>2, <1>3, <1>4 DEF Rest, Hosts, At, Loading, machine
<1>10. Faults'
  BY <1>4 DEF Rest, Faults, Charged, Overdue, health
<1>11. Values'
  BY <1>2, <1>3, <1>4 DEF Rest, Values
<1>12. QED BY <1>5, <1>6, <1>7, <1>8, <1>9, <1>10, <1>11 DEF Rest

\* The steps that touch neither the queue nor a worker.
LEMMA AsideKeeps ==
  ASSUME TypeOK, Rest, Deliver \/ SetState \/ UNCHANGED vars
  PROVE  TypeOK' /\ Rest'
<1>1. /\ UNCHANGED <<mailbox, updates, health, ending, host, worker>>
      /\ UNCHANGED deferred \/ (deferred # <<>> /\ deferred' = Tail(deferred))
  BY DEF Deliver, SetState, vars, machine
<1>2. MailTyped'
  BY <1>1, MailStays
<1>3. /\ deferred' \in Seq(Result) /\ Len(deferred') \in Nat
      /\ \A i \in 1..Len(deferred') :
           \E j \in 1..Len(deferred) : deferred'[i] = deferred[j]
      /\ \A i, j \in 1..Len(deferred') : i < j =>
           \E k, l \in 1..Len(deferred) : k < l /\ deferred'[i] = deferred[k] /\ deferred'[j] = deferred[l]
  <2>1. CASE UNCHANGED deferred
    BY <2>1, WorkerTypes
  <2>2. CASE deferred # <<>> /\ deferred' = Tail(deferred)
    <3>1. /\ deferred' \in Seq(Result) /\ Len(deferred') = Len(deferred) - 1
          /\ \A i \in 1..Len(deferred') : deferred'[i] = deferred[i + 1]
      BY <2>2, WorkerTypes, HeadTailProperties
    <3>2. Len(deferred') \in Nat
      BY <3>1, LenProperties
    <3>3. \A i \in 1..Len(deferred') : i + 1 \in 1..Len(deferred)
      BY <3>1, <3>2, WorkerTypes
    <3>4. ASSUME NEW i \in 1..Len(deferred'), NEW j \in 1..Len(deferred'), i < j
          PROVE  \E k, l \in 1..Len(deferred) :
                   k < l /\ deferred'[i] = deferred[k] /\ deferred'[j] = deferred[l]
      <4>1. i + 1 < j + 1
        BY <3>2, <3>4
      <4>2. QED BY <3>1, <3>3, <4>1
    <3>5. QED BY <3>1, <3>2, <3>3, <3>4
  <2>3. QED BY <1>1, <2>1, <2>2
<1>4. MachineTyped'
  BY <1>3, TypesSplit DEF Deliver, SetState, vars, MachineTyped, ending, machine
<1>5. Stamps'
  <2>1. \A i, j \in 1..Len(deferred') : i < j => deferred'[i].stamp < deferred'[j].stamp
    BY <1>3 DEF Rest, Stamps
  <2>2. \A i \in 1..Len(deferred') :
          /\ deferred'[i].stamp <= stamp
          /\ \A j \in 1..Len(queue) : queue[j].kind # "stop" => deferred'[i].stamp < queue[j].stamp
    BY <1>3 DEF Rest, Stamps
  <2>3. \A w \in Threads : Holds(w) =>
          \A i \in 1..Len(deferred') : deferred'[i].stamp < worker[w].event.stamp
    BY <1>3 DEF Rest, Stamps
  <2>4. QED BY <1>1, <2>1, <2>2, <2>3 DEF Rest, Stamps, Holds, mailbox
<1>6. Drain' /\ Control' /\ Updates' /\ Fresh' /\ Hosts' /\ Faults' /\ Values'
  BY <1>1, FrameKeeps
<1>7. QED BY <1>2, <1>4, <1>5, <1>6, TypesJoin DEF Rest

-------------------------------------------------------------------------------
(* The steps of the workers                                                    *)

\* Only one worker moves, and while it is busy the others are idle.
LEMMA Moves ==
  ASSUME TypeOK, NEW w \in Threads, NEW s \in State, Goes(w, s)
  PROVE  /\ worker' \in [Threads -> State] /\ worker'[w] = s
         /\ \A v \in Threads : v # w => worker'[v] = worker[v]
BY WorkerTypes DEF Goes

LEMMA Others ==
  ASSUME TypeOK, Rest, NEW w \in Threads, Busy(w)
  PROVE  /\ scheduled /\ ~stopped /\ pool = 0
         /\ \A v \in Threads : v # w => worker[v].pc = "idle" /\ worker[v].reached = 0
BY DEF Rest, Drain, Control, Busy, At

LEMMA TakeKeeps ==
  ASSUME TypeOK, Rest, NEW w \in Threads, Take(w)
  PROVE  TypeOK' /\ Rest'
<1> DEFINE s == [Idle EXCEPT !.pc = "drain"]
<1>1. /\ s \in State /\ s.pc = "drain" /\ s.event.kind = "stop" /\ s.event.gen = 0 /\ s.reached = 0
  BY IdleTyped
<1>2. /\ pool > 0 /\ pool' = pool - 1 /\ Goes(w, s)
      /\ UNCHANGED <<queue, generation, scheduled, stamp, frame, health, updates, ending, machine,
                     seeded, notifying, deferred>>
  BY DEF Take
<1> HIDE DEF s
<1>3. /\ worker' \in [Threads -> State] /\ worker'[w] = s
      /\ \A v \in Threads : v # w => worker'[v] = worker[v]
  BY <1>1, <1>2, Moves
<1>4. pool = 1 /\ pool' = 0 /\ \A v \in Threads : worker[v].pc = "idle"
  BY <1>2, Types DEF Rest, Drain, Busy
<1>5. TypeOK'
  <2>1. MailTyped'
    BY <1>2, <1>4, TypesSplit DEF MailTyped, health, updates
  <2>2. MachineTyped'
    BY <1>2, <1>3, TypesSplit DEF MachineTyped, ending, machine
  <2>3. QED BY <2>1, <2>2, TypesJoin
<1>6. Drain'
  BY <1>1, <1>2, <1>3, <1>4 DEF Rest, Drain, Busy
<1>7. Control' /\ Updates' /\ Fresh' /\ Stamps'
  BY <1>1, <1>2, <1>3, <1>4 DEF Rest, Control, Updates, Updating, Busy, Fresh, Stamps, Holds, At,
     ending, updates
<1>8. Hosts'
  <2>1. 0 <= generation
    BY Types
  <2>2. QED BY <1>1, <1>2, <1>3, <1>4, <2>1 DEF Rest, Hosts, At, Loading, ReloadWaits, ending, machine
<1>9. Faults'
  BY <1>1, <1>2, <1>3 DEF Rest, Faults, Charged, Overdue, health
<1>10. Values'
  BY <1>1, <1>2, <1>3 DEF Rest, Values
<1>11. QED BY <1>5, <1>6, <1>7, <1>8, <1>9, <1>10 DEF Rest

LEMMA LeaveKeeps ==
  ASSUME TypeOK, Rest, NEW w \in Threads, Leave(w)
  PROVE  TypeOK' /\ Rest'
<1>1. /\ Idle \in State /\ Idle.pc = "idle" /\ Idle.event.kind = "stop" /\ Idle.event.gen = 0
      /\ Idle.reached = 0
  BY IdleTyped
<1>2. /\ At(w, "drain") /\ (queue = <<>> \/ stopped) /\ scheduled' = FALSE /\ Goes(w, Idle)
      /\ UNCHANGED <<queue, generation, pool, stamp, frame, health, updates, ending, machine, seeded,
                     notifying, deferred>>
  BY DEF Leave
<1>3. /\ worker' \in [Threads -> State] /\ worker'[w] = Idle
      /\ \A v \in Threads : v # w => worker'[v] = worker[v]
  BY <1>1, <1>2, Moves
<1>4. /\ ~stopped /\ pool = 0 /\ queue = <<>>
      /\ \A v \in Threads : v # w => worker[v].pc = "idle" /\ worker[v].reached = 0
  BY <1>2, Others DEF Busy, At
<1>5. TypeOK'
  <2>1. MailTyped'
    BY <1>2, TypesSplit DEF MailTyped, health, updates
  <2>2. MachineTyped'
    BY <1>2, <1>3, TypesSplit DEF MachineTyped, ending, machine
  <2>3. QED BY <2>1, <2>2, TypesJoin
<1>6. Drain'
  BY <1>1, <1>2, <1>3, <1>4 DEF Rest, Drain, Busy
<1>7. Control' /\ Updates' /\ Fresh' /\ Stamps'
  BY <1>1, <1>2, <1>3, <1>4 DEF Rest, Control, Updates, Updating, Busy, Fresh, Stamps, Holds, At,
     ending, updates
<1>8. Hosts'
  <2>1. 0 <= generation
    BY Types
  <2>2. QED BY <1>1, <1>2, <1>3, <1>4, <2>1 DEF Rest, Hosts, At, Loading, ReloadWaits, ending, machine
<1>9. Faults'
  BY <1>1, <1>2, <1>3 DEF Rest, Faults, Charged, Overdue, health
<1>10. Values'
  BY <1>1, <1>2, <1>3 DEF Rest, Values
<1>11. QED BY <1>5, <1>6, <1>7, <1>8, <1>9, <1>10 DEF Rest

LEMMA PopKeeps ==
  ASSUME TypeOK, Rest, NEW w \in Threads, Pop(w)
  PROVE  TypeOK' /\ Rest'
<1> DEFINE e == queue[1]
           s == [Idle EXCEPT !.pc = "call", !.event = e]
<1>1. /\ At(w, "drain") /\ queue # <<>> /\ queue' = Tail(queue) /\ Head(queue) = e /\ Goes(w, s)
      /\ IF e.kind = "update" THEN updateQueued' = FALSE /\ updateRunning' = TRUE
         ELSE UNCHANGED updates
      /\ UNCHANGED <<generation, scheduled, pool, stamp, frame, health, ending, machine, seeded,
                     notifying, deferred>>
  <2>1. Head(queue) = e
    BY Types
  <2>2. QED BY <2>1, Zenon DEF Pop
<1>2. /\ queue' \in Seq(Event) /\ Len(queue') = Len(queue) - 1 /\ Len(queue') \in Nat
      /\ \A i \in 1..Len(queue') : queue'[i] = queue[i + 1] /\ i + 1 \in 1..Len(queue)
  <2>1. /\ queue' \in Seq(Event) /\ Len(queue') = Len(queue) - 1
        /\ \A i \in 1..Len(queue') : queue'[i] = queue[i + 1]
    BY <1>1, Types, HeadTailProperties
  <2>2. Len(queue') \in Nat
    BY <2>1, LenProperties
  <2>3. QED BY <2>1, <2>2, Types
<1>3. 1 \in 1..Len(queue) /\ e \in Event
  BY <1>1, <1>2, Types
<1>4. s \in State /\ s.pc = "call" /\ s.event = e /\ s.reached = 0
  BY <1>3, IdleTyped DEF State, Stages
<1> HIDE DEF s, e
<1>5. /\ worker' \in [Threads -> State] /\ worker'[w] = s
      /\ \A v \in Threads : v # w => worker'[v] = worker[v]
  BY <1>1, <1>4, Moves
<1>6. /\ scheduled /\ ~stopped /\ pool = 0
      /\ \A v \in Threads : v # w => worker[v].pc = "idle" /\ worker[v].reached = 0
  BY <1>1, Others DEF Busy, At
<1>7. \A i \in 1..Len(queue) : i = 1 \/ \E j \in 1..Len(queue') : i = j + 1
  <2>1. \A i \in 1..Len(queue) : i # 1 => i - 1 \in 1..Len(queue') /\ i = (i - 1) + 1
    BY <1>2, Types
  <2>2. QED BY <2>1
<1>8. TypeOK'
  <2>1. Len(queue') <= MaxQueue
    BY <1>2, Numbers, Limits
  <2>2. MailTyped'
    BY <1>1, <1>2, <2>1, TypesSplit DEF MailTyped, health, updates
  <2>3. MachineTyped'
    BY <1>1, <1>5, TypesSplit DEF MachineTyped, ending, machine
  <2>4. QED BY <2>2, <2>3, TypesJoin
<1>9. Drain'
  BY <1>1, <1>4, <1>5, <1>6 DEF Rest, Drain, Busy
<1>10. Control'
  BY <1>1, <1>2, <1>3, <1>4, <1>5, <1>6 DEF Rest, Control, At, ending, e
<1>11. Updates'
  <2>1. \A i, j \in 1..Len(queue') :
          queue'[i].kind = "update" /\ queue'[j].kind = "update" => i = j
    <3>1. SUFFICES ASSUME NEW i \in 1..Len(queue'), NEW j \in 1..Len(queue'),
                          queue'[i].kind = "update", queue'[j].kind = "update"
                   PROVE  i = j
      OBVIOUS
    <3>2. i + 1 = j + 1
      BY <1>2, <3>1 DEF Rest, Updates
    <3>3. QED BY <1>2, <3>2
  <2>2. CASE e.kind = "update"
    <3>1. \A i \in 1..Len(queue') : queue'[i].kind # "update"
      <4>1. SUFFICES ASSUME NEW i \in 1..Len(queue'), queue'[i].kind = "update" PROVE FALSE
        OBVIOUS
      <4>2. i + 1 = 1
        BY <1>2, <1>3, <2>2, <4>1 DEF Rest, Updates, e
      <4>3. QED BY <1>2, <4>2
    <3>2. QED BY <1>1, <2>1, <2>2, <3>1 DEF Updates
  <2>3. CASE e.kind # "update"
    <3>1. updateQueued' = updateQueued /\ updateRunning' = updateRunning
      BY <1>1, <2>3 DEF updates
    <3>2. updateQueued' => \E i \in 1..Len(queue') : queue'[i].kind = "update"
      <4>1. SUFFICES ASSUME updateQueued PROVE \E i \in 1..Len(queue') : queue'[i].kind = "update"
        BY <3>1
      <4>2. PICK i \in 1..Len(queue) : queue[i].kind = "update"
        BY <4>1 DEF Rest, Updates
      <4>3. PICK j \in 1..Len(queue') : i = j + 1
        BY <1>7, <2>3, <4>2 DEF e
      <4>4. QED BY <1>2, <4>2, <4>3
    <3>3. \A v \in Threads : ~(Updating(v)')
      BY <1>4, <1>5, <1>6, <2>3 DEF Updating, Busy
    <3>4. QED BY <1>2, <2>1, <3>1, <3>2, <3>3 DEF Rest, Updates
  <2>4. QED BY <2>2, <2>3
<1>12. Fresh'
  <2>1. ASSUME NEW i \in 1..Len(queue'), NEW j \in 1..Len(queue'),
               queue'[i].kind = "frame", queue'[j].kind = "frame"
        PROVE  i = j
    <3>1. i + 1 = j + 1
      BY <1>2, <2>1 DEF Rest, Fresh
    <3>2. QED BY <1>2, <3>1
  <2>2. QED BY <1>1, <1>2, <2>1 DEF Rest, Fresh
<1>13. Stamps'
  <2>1. ASSUME NEW i \in 1..Len(queue'), NEW j \in 1..Len(queue'), i < j
        PROVE  queue'[i].stamp < queue'[j].stamp
    <3>1. i + 1 < j + 1
      BY <1>2, <2>1
    <3>2. QED BY <1>2, <3>1 DEF Rest, Stamps
  <2>2. \A j \in 1..Len(queue') : e.stamp < queue'[j].stamp
    <3>1. SUFFICES ASSUME NEW j \in 1..Len(queue') PROVE e.stamp < queue'[j].stamp
      OBVIOUS
    <3>2. 1 < j + 1
      BY <1>2
    <3>3. QED BY <1>2, <1>3, <3>2 DEF Rest, Stamps, e
  <2>3. e.kind # "stop" => e.stamp <= stamp /\ \A i \in 1..Len(deferred) : deferred[i].stamp < e.stamp
    BY <1>3 DEF Rest, Stamps, e
  <2>4. \A v \in Threads : Holds(v)' => v = w /\ e.kind # "stop"
    BY <1>4, <1>5, <1>6 DEF Holds
  <2>5. QED BY <1>1, <1>2, <1>4, <1>5, <2>1, <2>2, <2>3, <2>4 DEF Rest, Stamps
<1>14. Hosts'
  <2>1. \A i \in 1..Len(queue') : queue'[i].gen = generation' /\ queue'[i].kind # "reload"
    <3>1. SUFFICES ASSUME NEW i \in 1..Len(queue')
                   PROVE  queue'[i].gen = generation /\ queue'[i].kind # "reload"
      BY <1>1
    <3>2. i + 1 # 1
      BY <1>2
    <3>3. QED BY <1>2, <3>2 DEF Rest, Hosts
  <2>2. e.gen = generation /\ generation' = generation /\ UNCHANGED <<host, stopping>>
    BY <1>1, <1>3 DEF Rest, Hosts, ending, machine, e
  <2>3. generation <= generation
    BY Types
  <2>4. e.kind \notin {"reload", "stop"} => host.id = generation
    <3>1. \A v \in Threads : ~Loading(v)
      BY <1>1, <1>6 DEF Loading, At
    <3>2. e.kind # "stop" => ~stopping
      BY <1>3 DEF Rest, Control, e
    <3>3. QED BY <3>1, <3>2 DEF Rest, Hosts, ReloadWaits, e
  <2>8. e.kind = "reload" => generation > 0
    BY <1>3 DEF Rest, Hosts, e
  <2>5. stopping' \/ host'.id = generation' \/ \E v \in Threads : Loading(v)' /\ worker'[v].event.gen = generation'
    <3>1. CASE e.kind = "reload"
      BY <1>4, <1>5, <2>2, <3>1 DEF Loading, At
    <3>2. CASE e.kind = "stop"
      BY <1>3, <2>2, <3>2 DEF Rest, Control, e
    <3>3. CASE e.kind \notin {"reload", "stop"}
      BY <2>2, <2>4, <3>3
    <3>4. QED BY <3>1, <3>2, <3>3
  <2>6. ASSUME NEW v \in Threads
        PROVE  /\ worker'[v].event.gen <= generation'
               /\ Loading(v)' => worker'[v].event.gen = generation' /\ worker'[v].event.gen > 0
               /\ At(v, "call")' /\ worker'[v].event.kind \notin {"reload", "stop"} =>
                    worker'[v].event.gen = host'.id
               /\ worker'[v].reached = 0
    <3>1. CASE v = w
      BY <1>4, <1>5, <2>2, <2>3, <2>4, <2>8, <3>1 DEF At, Loading
    <3>2. CASE v # w
      BY <1>5, <1>6, <2>2, <3>2 DEF Rest, Hosts, At, Loading
    <3>3. QED BY <3>1, <3>2
  <2>7. QED BY <2>1, <2>5, <2>6 DEF Hosts
<1>15. Faults'
  <2>1. e.gen = generation
    BY <1>3 DEF Rest, Hosts, e
  <2>2. \A v \in Threads : ~(Overdue(v)')
    BY <1>1, <1>4, <1>5, <1>6, <2>1 DEF Overdue
  <2>3. QED BY <1>1, <2>2 DEF Rest, Faults, Charged, health
<1>16. Values'
  BY <1>2, <1>3, <1>4, <1>5 DEF Rest, Values, e
<1>17. QED BY <1>8, <1>9, <1>10, <1>11, <1>12, <1>13, <1>14, <1>15, <1>16 DEF Rest

\* What updateHealth() may do to the counters.
LEMMA FewIs ==
  /\ FewFaults \in Nat \ {0}
  /\ FewFaults <= MaxConsecutive /\ FewFaults <= MaxTimeouts /\ FewFaults <= MaxErrors
BY ScriptAssumption DEF FewFaults, Least

LEMMA ChargeIs ==
  ASSUME TypeOK, NEW e, NEW outcome \in {"ok", "timeout", "error"}, Charge(e, outcome)
  PROVE  /\ consecutive' \in Nat /\ timeouts' \in Nat /\ errors' \in Nat
         /\ faults' \in Nat /\ unhealthy' \in BOOLEAN
         /\ consecutive' <= consecutive + 1 /\ timeouts' <= timeouts + 1 /\ errors' <= errors + 1
         /\ outcome = "ok" =>
              /\ consecutive' <= consecutive /\ timeouts' <= timeouts /\ errors' <= errors
              /\ unhealthy' = unhealthy /\ faults' = faults
         /\ unhealthy' =>
              unhealthy \/ consecutive' >= FewFaults \/ timeouts' >= FewFaults \/ errors' >= FewFaults
         /\ faults' = IF outcome # "ok" /\ e.gen = generation
                      THEN Least(faults + 1, FewFaults) ELSE faults
<1>1. /\ consecutive \in Nat /\ timeouts \in Nat /\ errors \in Nat /\ faults \in Nat
      /\ unhealthy \in BOOLEAN
  BY Types
<1>2. /\ MaxConsecutive \in Nat \ {0} /\ MaxTimeouts \in Nat \ {0} /\ MaxErrors \in Nat \ {0}
      /\ FewFaults \in Nat \ {0}
      /\ FewFaults <= MaxConsecutive /\ FewFaults <= MaxTimeouts /\ FewFaults <= MaxErrors
  BY ScriptAssumption, FewIs
<1>3. /\ consecutive' = IF outcome = "timeout" THEN Least(consecutive + 1, MaxConsecutive) ELSE 0
      /\ timeouts' \in IF outcome = "timeout" THEN 1..Least(timeouts + 1, MaxTimeouts) ELSE {timeouts}
      /\ errors' \in IF outcome = "error" THEN 1..Least(errors + 1, MaxErrors) ELSE {errors}
      /\ unhealthy' = \/ unhealthy
                      \/ outcome = "timeout" /\ consecutive' >= MaxConsecutive
                      \/ outcome = "timeout" /\ timeouts' >= MaxTimeouts
                      \/ outcome = "error" /\ errors' >= MaxErrors
      /\ faults' = IF outcome # "ok" /\ e.gen = generation
                   THEN Least(faults + 1, FewFaults) ELSE faults
  BY DEF Charge
<1>4. consecutive' \in Nat /\ consecutive' <= consecutive + 1 /\ (outcome = "ok" => consecutive' <= consecutive)
  BY <1>1, <1>2, <1>3 DEF Least
<1>5. timeouts' \in Nat /\ timeouts' <= timeouts + 1 /\ (outcome = "ok" => timeouts' <= timeouts)
  BY <1>1, <1>2, <1>3 DEF Least
<1>6. errors' \in Nat /\ errors' <= errors + 1 /\ (outcome = "ok" => errors' <= errors)
  BY <1>1, <1>2, <1>3 DEF Least
<1>7. faults' \in Nat
  BY <1>1, <1>2, <1>3 DEF Least
<1>8. unhealthy' =>
        unhealthy \/ consecutive' >= FewFaults \/ timeouts' >= FewFaults \/ errors' >= FewFaults
  <2>1. unhealthy' => \/ unhealthy
                      \/ consecutive' >= MaxConsecutive
                      \/ timeouts' >= MaxTimeouts
                      \/ errors' >= MaxErrors
    BY <1>3, Zenon
  <2>2. QED BY <1>2, <1>4, <1>5, <1>6, <2>1
<1>9. unhealthy' \in BOOLEAN /\ (outcome = "ok" => unhealthy' = unhealthy /\ faults' = faults)
  BY <1>1, <1>3
<1>10. QED BY <1>3, <1>4, <1>5, <1>6, <1>7, <1>8, <1>9

\* A call of this generation counts as a fault as well, and one of an older generation is the
\* last of its kind.
LEMMA ChargeKeepsFaults ==
  ASSUME TypeOK, Rest, NEW w \in Threads, NEW s \in State, Goes(w, s),
         worker[w].pc \in {"call", "update"}, worker[w].event.kind # "stop",
         NEW outcome \in {"ok", "timeout", "error"}, Charge(worker[w].event, outcome),
         s.event = worker[w].event, s.pc = "post" \/ (outcome = "ok" /\ s.pc = "update"),
         UNCHANGED generation
  PROVE  Faults'
<1> DEFINE e == worker[w].event
           overdue == \E v \in Threads : Overdue(v)
           later == \E v \in Threads : Overdue(v)'
<1>1. /\ worker'[w] = s /\ \A v \in Threads : v # w => worker'[v] = worker[v]
  BY Moves
<1>2. \A v \in Threads : v # w => worker[v].pc = "idle"
  BY Others DEF Busy, At
<1>3. outcome = "ok" => (later => overdue)
  BY <1>1, <1>2 DEF Overdue
<1>4. outcome # "ok" => ~later
  BY <1>1, <1>2 DEF Overdue
<1>5. e.gen # generation => overdue
  BY DEF Overdue
<1>6. /\ Charged(consecutive)' <=> (faults' >= FewFaults \/ consecutive' <= faults' \/ (consecutive' <= faults' + 1 /\ ~later))
      /\ Charged(timeouts)' <=> (faults' >= FewFaults \/ timeouts' <= faults' \/ (timeouts' <= faults' + 1 /\ ~later))
      /\ Charged(errors)' <=> (faults' >= FewFaults \/ errors' <= faults' \/ (errors' <= faults' + 1 /\ ~later))
  BY DEF Charged, FewFaults
<1>7. /\ faults <= FewFaults /\ (unhealthy => faults + 1 >= FewFaults)
      /\ (faults >= FewFaults \/ consecutive <= faults \/ (consecutive <= faults + 1 /\ ~overdue))
      /\ (faults >= FewFaults \/ timeouts <= faults \/ (timeouts <= faults + 1 /\ ~overdue))
      /\ (faults >= FewFaults \/ errors <= faults \/ (errors <= faults + 1 /\ ~overdue))
  BY DEF Rest, Faults, Charged
<1>8. /\ consecutive' \in Nat /\ timeouts' \in Nat /\ errors' \in Nat /\ faults' \in Nat
      /\ consecutive' <= consecutive + 1 /\ timeouts' <= timeouts + 1 /\ errors' <= errors + 1
      /\ outcome = "ok" =>
           /\ consecutive' <= consecutive /\ timeouts' <= timeouts /\ errors' <= errors
           /\ faults' = faults
      /\ unhealthy' =>
           unhealthy \/ consecutive' >= FewFaults \/ timeouts' >= FewFaults \/ errors' >= FewFaults
      /\ faults' = IF outcome # "ok" /\ e.gen = generation
                   THEN Least(faults + 1, FewFaults) ELSE faults
  BY ChargeIs
<1>9. /\ consecutive \in Nat /\ timeouts \in Nat /\ errors \in Nat /\ faults \in Nat
      /\ FewFaults \in Nat
  BY Types, FewIs
<1> HIDE DEF overdue, later, e
<1> DEFINE own == e.gen = generation
           ok == outcome = "ok"
<1>10. /\ ok => faults' = faults
       /\ ~ok => faults' = IF own THEN Least(faults + 1, FewFaults) ELSE faults
       /\ ~own => overdue
  BY <1>5, <1>8
<1>11. overdue \in BOOLEAN /\ later \in BOOLEAN /\ own \in BOOLEAN /\ ok \in BOOLEAN
  BY DEF overdue, later
<1>12. faults' >= FewFaults \/ consecutive' <= faults' \/ (consecutive' <= faults' + 1 /\ ~later)
  BY <1>3, <1>4, <1>7, <1>8, <1>9, <1>10 DEF Least
<1>13. faults' >= FewFaults \/ timeouts' <= faults' \/ (timeouts' <= faults' + 1 /\ ~later)
  BY <1>3, <1>4, <1>7, <1>8, <1>9, <1>10 DEF Least
<1>14. faults' >= FewFaults \/ errors' <= faults' \/ (errors' <= faults' + 1 /\ ~later)
  BY <1>3, <1>4, <1>7, <1>8, <1>9, <1>10 DEF Least
<1>15. faults <= faults' /\ faults' <= FewFaults
  BY <1>7, <1>8, <1>9 DEF Least
<1>16. unhealthy' => faults' + 1 >= FewFaults
  BY <1>7, <1>8, <1>9, <1>12, <1>13, <1>14, <1>15
<1>17. QED BY <1>6, <1>12, <1>13, <1>14, <1>15, <1>16 DEF Faults, FewFaults

\* What a step of a busy worker that leaves the queue alone has to show of that worker.
LEMMA WorkKeeps ==
  ASSUME TypeOK, Rest, NEW w \in Threads, NEW s \in State, Goes(w, s), Busy(w),
         UNCHANGED <<mailbox, ending>>, Faults',
         s.pc # "idle", s.event.gen <= generation,
         s.pc = "exit" => stopping, s.pc \in {"update", "post"} => s.event.kind # "stop",
         s.event = worker[w].event \/ s.event.kind = "stop", s.pc # "call", s.reached # 0 => s.pc \in {"update", "post"},
         updateQueued' = updateQueued,
         s.pc = "drain" => s.event.kind = "stop",
         s.event.kind = "update" =>
           worker[w].event = s.event /\ (s.pc = "post" \/ s.pc = worker[w].pc),
         updateRunning' = updateRunning \/ s.event.kind # "update",
         \/ UNCHANGED deferred /\ (s.pc \in {"update", "post"} =>
                                  worker[w].event = s.event /\ Holds(w))
         \/ /\ s.pc = "drain" /\ Holds(w) /\ deferred' \in Seq(Result)
            /\ Len(deferred') = Len(deferred) + 1
            /\ \A i \in 1..Len(deferred) : deferred'[i] = deferred[i]
            /\ deferred'[Len(deferred')].stamp = worker[w].event.stamp,
         \/ UNCHANGED host /\ ~Loading(w)
         \/ host'.id = worker[w].event.gen /\ Loading(w)
         \/ stopping,
         s.reached # 0 =>
           /\ s.event.gen = s.reached
           /\ s.event.kind = "command" => s.event.owner = s.reached
  PROVE  Rest'
<1>1. /\ worker'[w] = s /\ \A v \in Threads : v # w => worker'[v] = worker[v]
  BY Moves
<1>2. \A v \in Threads : v # w => worker[v].pc = "idle" /\ worker[v].reached = 0
  BY Others
<1>3. Drain'
  BY <1>1, <1>2, Others DEF Rest, Drain, Busy, mailbox
<1>4. Control'
  BY <1>1, <1>2 DEF Rest, Control, At, mailbox, ending
<1>5. Updates'
  <2>1. \A v \in Threads : Updating(v)' => v = w /\ s.event.kind = "update" /\ s.event.gen = generation
    BY <1>1, <1>2 DEF Updating, Busy, mailbox
  <2>2. CASE s.event.kind = "update" /\ s.event.gen = generation
    <3>1. Updating(w) /\ (s.pc = "post" \/ s.pc = worker[w].pc) /\ updateRunning' = updateRunning
      BY <2>2 DEF Updating
    <3>2. QED BY <1>1, <2>1, <3>1 DEF Rest, Updates, At, mailbox, ending
  <2>3. CASE ~(s.event.kind = "update" /\ s.event.gen = generation)
    <3>1. \A v \in Threads : ~(Updating(v)')
      BY <1>1, <2>1, <2>3 DEF Updating, Busy
    <3>2. QED BY <3>1 DEF Rest, Updates, mailbox
  <2>4. QED BY <2>2, <2>3
<1>6. Fresh'
  BY DEF Rest, Fresh, mailbox
<1>7. Stamps'
  <2>1. \A v \in Threads : Holds(v)' => v = w /\ s.pc \in {"update", "post"}
    BY <1>1, <1>2 DEF Holds
  <2>2. CASE UNCHANGED deferred
    BY <1>1, <2>1, <2>2 DEF Rest, Stamps, Holds, mailbox
  <2>3. CASE /\ s.pc = "drain" /\ Holds(w) /\ deferred' \in Seq(Result)
             /\ Len(deferred') = Len(deferred) + 1
             /\ \A i \in 1..Len(deferred) : deferred'[i] = deferred[i]
             /\ deferred'[Len(deferred')].stamp = worker[w].event.stamp
    <3>1. \A v \in Threads : ~(Holds(v)')
      BY <2>1, <2>3
    <3>2. \A i \in 1..Len(deferred') : i \in 1..Len(deferred) \/ i = Len(deferred')
      BY <2>3, WorkerTypes
    <3>3. \A i, j \in 1..Len(deferred') : i < j => deferred'[i].stamp < deferred'[j].stamp
      <4>1. SUFFICES ASSUME NEW i \in 1..Len(deferred'), NEW j \in 1..Len(deferred'), i < j
                     PROVE  deferred'[i].stamp < deferred'[j].stamp
        OBVIOUS
      <4>2. i \in 1..Len(deferred)
        BY <2>3, <4>1, WorkerTypes
      <4>3. QED BY <2>3, <3>2, <4>1, <4>2 DEF Rest, Stamps
    <3>4. QED BY <2>3, <3>1, <3>2, <3>3 DEF Rest, Stamps, mailbox
  <2>4. QED BY <2>2, <2>3
<1>8. Hosts'
  <2>1. ReloadWaits' <=> ReloadWaits
    BY DEF ReloadWaits, mailbox
  <2>2. stopping \/ host'.id = generation \/ ReloadWaits
    <3>1. CASE UNCHANGED host /\ ~Loading(w)
      BY <1>2, <3>1 DEF Rest, Hosts, Loading, At
    <3>2. CASE host'.id = worker[w].event.gen /\ Loading(w)
      BY <3>2 DEF Rest, Hosts
    <3>3. QED BY <3>1, <3>2
  <2>3. ASSUME NEW v \in Threads
        PROVE  /\ worker'[v].event.gen <= generation
               /\ ~(At(v, "call")')
               /\ worker'[v].reached # 0 =>
                    /\ worker'[v].event.gen = worker'[v].reached
                    /\ worker'[v].event.kind = "command" => worker'[v].event.owner = worker'[v].reached
    <3>1. CASE v = w
      BY <1>1, <3>1 DEF At
    <3>2. CASE v # w
      BY <1>1, <1>2, <3>2 DEF Rest, Hosts, At
    <3>3. QED BY <3>1, <3>2
  <2>4. /\ \A i \in 1..Len(queue') : queue'[i].gen = generation'
        /\ \A i \in 1..Len(queue') : queue'[i].kind = "reload" => i = 1 /\ generation' > 0
        /\ generation' = generation /\ stopping' = stopping
    BY DEF Rest, Hosts, mailbox, ending
  <2>5. QED BY <2>1, <2>2, <2>3, <2>4 DEF Hosts, Loading
<1>9. Values'
  BY <1>1 DEF Rest, Values, mailbox
<1>10. QED BY <1>3, <1>4, <1>5, <1>6, <1>7, <1>8, <1>9 DEF Rest

LEMMA ChargeTyped ==
  ASSUME TypeOK, NEW e, NEW outcome \in {"ok", "timeout", "error"}, Charge(e, outcome),
         UNCHANGED <<mailbox, updates>>
  PROVE  MailTyped'
<1>1. /\ consecutive' \in Nat /\ timeouts' \in Nat /\ errors' \in Nat
      /\ faults' \in Nat /\ unhealthy' \in BOOLEAN
  BY ChargeIs
<1>2. QED BY <1>1, Types DEF MailTyped, mailbox, updates

\* A worker that made no call of the script changes no counter.
LEMMA NoCallKeepsFaults ==
  ASSUME TypeOK, Rest, NEW w \in Threads, NEW s \in State, Goes(w, s), Busy(w),
         s.pc \notin {"call", "update"}, UNCHANGED <<health, generation>>
  PROVE  Faults'
<1>1. \A v \in Threads : ~(Overdue(v)')
  BY Moves, Others DEF Overdue
<1>2. QED BY <1>1 DEF Rest, Faults, Charged, health

LEMMA LoadKeeps ==
  ASSUME TypeOK, Rest, NEW w \in Threads, Load(w)
  PROVE  TypeOK' /\ Rest'
<1> DEFINE e == worker[w].event
<1>1. PICK outcome \in {"ok", "timeout", "error"} :
        /\ Charge(e, outcome)
        /\ Goes(w, [pc |-> IF outcome = "ok" THEN "update" ELSE "post", event |-> e,
                    reached |-> e.gen])
  BY DEF Load
<1> DEFINE s == [pc |-> IF outcome = "ok" THEN "update" ELSE "post", event |-> e,
                 reached |-> e.gen]
<1>2. /\ At(w, "call") /\ e.kind = "reload"
      /\ host' = [id |-> e.gen, script |-> e.script]
      /\ watching' = IF e.script.watches THEN {e.gen} ELSE {}
      /\ commands' = IF e.script.runs THEN commands \union {e.gen} ELSE commands
      /\ UNCHANGED <<mailbox, updates, ending, handles, settings, seeded, notifying, deferred>>
  BY DEF Load
<1>3. /\ e \in Event /\ e.gen <= generation /\ e.gen > 0
  BY <1>2, WorkerTypes DEF Rest, Hosts, Loading
<1>4. /\ e.gen \in 0..MaxReloads /\ e.gen \in 1..MaxReloads
      /\ e.script \in Scripts \union {NoScript}
  <2>1. e.gen \in 0..MaxReloads /\ e.script \in Scripts \union {NoScript}
    BY <1>3 DEF Event
  <2>2. QED BY <1>3, <2>1, ScriptAssumption
<1>5. /\ s \in State /\ s.event = e /\ s.reached = e.gen
      /\ s.pc = IF outcome = "ok" THEN "update" ELSE "post"
  BY <1>3, <1>4 DEF State, Stages
<1>6. Goes(w, s) /\ worker[w].pc = "call" /\ Busy(w) /\ Loading(w) /\ Holds(w)
  BY <1>1, <1>2 DEF At, Busy, Loading, Holds
<1>7. UNCHANGED generation
  BY <1>2 DEF mailbox
<1> HIDE DEF s
<1>8. Faults'
  BY <1>1, <1>2, <1>5, <1>6, <1>7, ChargeKeepsFaults
<1>9. Rest'
  <2>1. host'.id = e.gen
    BY <1>2
  <2>2. UNCHANGED <<mailbox, ending, deferred>> /\ updateQueued' = updateQueued
        /\ updateRunning' = updateRunning
    BY <1>2 DEF updates
  <2>3. s.pc \in {"update", "post"} /\ s.event.kind = "reload"
    BY <1>2, <1>5
  <2>4. QED BY <1>3, <1>5, <1>6, <1>8, <2>1, <2>2, <2>3, WorkKeeps
<1>10. MailTyped'
  BY <1>1, <1>2, ChargeTyped
<1>11. MachineTyped'
  <2>1. worker' \in [Threads -> State]
    BY <1>5, <1>6, Moves
  <2>2. host' \in [id : 0..MaxReloads, script : Scripts \union {NoScript}]
    BY <1>2, <1>4
  <2>3. watching' \subseteq 1..MaxReloads /\ commands' \subseteq 1..MaxReloads
    BY <1>2, <1>4, TypesSplit DEF MachineTyped
  <2>4. QED BY <1>2, <2>1, <2>2, <2>3, TypesSplit DEF MachineTyped, ending
<1>12. QED BY <1>9, <1>10, <1>11, TypesJoin

LEMMA FirstUpdateKeeps ==
  ASSUME TypeOK, Rest, NEW w \in Threads, FirstUpdate(w)
  PROVE  TypeOK' /\ Rest'
<1> DEFINE s == [worker[w] EXCEPT !.pc = "post"]
<1>1. PICK outcome \in {"ok", "timeout", "error"} : Charge(worker[w].event, outcome)
  BY DEF FirstUpdate
<1>2. /\ At(w, "update") /\ Goes(w, s)
      /\ UNCHANGED <<mailbox, updates, ending, machine, seeded, notifying, deferred>>
  BY DEF FirstUpdate
<1>3. /\ s \in State /\ s.pc = "post" /\ s.event = worker[w].event
      /\ s.reached = worker[w].reached
  BY WorkerTypes DEF State, Stages
<1>4. /\ worker[w].pc = "update" /\ Busy(w) /\ ~Loading(w) /\ Holds(w)
      /\ worker[w].event.kind # "stop" /\ worker[w].event.gen <= generation
  BY <1>2 DEF Rest, Control, Hosts, At, Busy, Loading, Holds
<1>5. UNCHANGED <<generation, host>>
  BY <1>2 DEF mailbox, machine
<1> HIDE DEF s
<1>6. Faults'
  BY <1>1, <1>2, <1>3, <1>4, <1>5, ChargeKeepsFaults
<1>7. Rest'
  <2>1. UNCHANGED <<mailbox, ending, deferred>> /\ updateQueued' = updateQueued
        /\ updateRunning' = updateRunning
    BY <1>2 DEF updates
  <2>2. worker[w].reached # 0 =>
          /\ worker[w].event.gen = worker[w].reached
          /\ worker[w].event.kind = "command" => worker[w].event.owner = worker[w].reached
    BY DEF Rest, Hosts
  <2>3. QED BY <1>2, <1>3, <1>4, <1>5, <1>6, <2>1, <2>2, WorkKeeps
<1>8. MailTyped'
  BY <1>1, <1>2, ChargeTyped
<1>9. MachineTyped'
  BY <1>2, <1>3, Moves, TypesSplit DEF MachineTyped, ending, machine
<1>10. QED BY <1>7, <1>8, <1>9, TypesJoin

LEMMA CallHostKeeps ==
  ASSUME TypeOK, Rest, NEW w \in Threads, CallHost(w)
  PROVE  TypeOK' /\ Rest'
<1> DEFINE e == worker[w].event
<1>1. PICK reached : reached = IF Reaches(e) THEN host.id ELSE 0
  OBVIOUS
<1> DEFINE s == [pc |-> "post", event |-> e, reached |-> reached]
<1>2. /\ At(w, "call") /\ e.kind \notin {"reload", "stop"}
      /\ settings' = IF e.kind = "settings" /\ host # NoHost THEN e.value ELSE settings
      /\ IF Reaches(e) THEN \E outcome \in {"ok", "timeout", "error"} : Charge(e, outcome)
         ELSE UNCHANGED health
      /\ Goes(w, s)
      /\ UNCHANGED <<mailbox, updates, ending, host, handles, watching, commands, seeded, notifying,
                     deferred>>
  BY <1>1 DEF CallHost
<1>3. /\ e \in Event /\ e.gen <= generation /\ e.gen = host.id
      /\ e.kind = "settings" => e.value \in 0..MaxSettings
  BY <1>2, WorkerTypes DEF Rest, Hosts, Values
<1>4. reached \in 0..MaxReloads
  BY <1>1, ScriptAssumption DEF TypeOK
<1>5. s \in State /\ s.pc = "post" /\ s.event = e /\ s.reached = reached
  BY <1>3, <1>4 DEF State, Stages
<1>6. reached # 0 => e.gen = reached /\ (e.kind = "command" => e.owner = reached)
  BY <1>1, <1>3 DEF Reaches
<1>7. /\ worker[w].pc = "call" /\ Busy(w) /\ ~Loading(w) /\ Holds(w)
  BY <1>2 DEF At, Busy, Loading, Holds
<1>8. UNCHANGED generation
  BY <1>2 DEF mailbox
<1> HIDE DEF s
<1>9. Faults' /\ MailTyped'
  <2>1. CASE Reaches(e)
    <3>1. PICK outcome \in {"ok", "timeout", "error"} : Charge(e, outcome)
      BY <1>2, <2>1
    <3>2. Faults'
      BY <1>2, <1>5, <1>7, <1>8, <3>1, ChargeKeepsFaults
    <3>3. QED BY <1>2, <3>1, <3>2, ChargeTyped
  <2>2. CASE ~Reaches(e)
    <3>1. UNCHANGED health
      BY <1>2, <2>2
    <3>2. Faults'
      BY <1>2, <1>5, <1>7, <1>8, <3>1, NoCallKeepsFaults
    <3>3. QED BY <1>2, <3>1, <3>2, MailStays
  <2>3. QED BY <2>1, <2>2
<1>10. Rest'
  <2>1. UNCHANGED <<mailbox, ending, deferred, host>> /\ updateQueued' = updateQueued
        /\ updateRunning' = updateRunning
    BY <1>2 DEF updates
  <2>2. QED BY <1>2, <1>3, <1>5, <1>6, <1>7, <1>9, <2>1, WorkKeeps
<1>11. MachineTyped'
  <2>1. worker' \in [Threads -> State]
    BY <1>2, <1>5, Moves
  <2>2. settings' \in 0..MaxSettings
    BY <1>2, <1>3, TypesSplit DEF MachineTyped
  <2>3. QED BY <1>2, <2>1, <2>2, TypesSplit DEF MachineTyped, ending
<1>12. QED BY <1>9, <1>10, <1>11, TypesJoin

LEMMA PostKeeps ==
  ASSUME TypeOK, Rest, NEW w \in Threads, Post(w)
  PROVE  TypeOK' /\ Rest'
<1> DEFINE e == worker[w].event
           s == [Idle EXCEPT !.pc = "drain"]
<1>1. PICK r : r = [gen |-> e.gen, stamp |-> e.stamp]
  OBVIOUS
<1>2. /\ At(w, "post") /\ Goes(w, s)
      /\ updateRunning' = (updateRunning /\ e.kind # "update")
      /\ handles' = IF e.kind = "reload" THEN host.script.handles ELSE handles
      /\ deferred' = IF worker[w].reached # 0 THEN Append(deferred, r) ELSE deferred
      /\ UNCHANGED <<mailbox, health, updateQueued, ending, host, settings, watching, commands,
                     seeded, notifying>>
  BY <1>1 DEF Post
<1>3. s \in State /\ s.pc = "drain" /\ s.event.kind = "stop" /\ s.event.gen = 0 /\ s.reached = 0
  BY IdleTyped
<1>4. /\ worker[w].pc = "post" /\ Busy(w) /\ ~Loading(w) /\ Holds(w)
  BY <1>2 DEF Rest, Control, At, Busy, Loading, Holds
<1>5. r \in Result /\ r.stamp = e.stamp
  BY <1>1, WorkerTypes DEF Result, Event
<1>6. UNCHANGED generation /\ 0 <= generation
  BY <1>2, Types DEF mailbox
<1> HIDE DEF s
<1>7. Faults'
  BY <1>2, <1>3, <1>4, <1>6, NoCallKeepsFaults
<1>8. \/ UNCHANGED deferred
      \/ /\ deferred' \in Seq(Result) /\ Len(deferred') = Len(deferred) + 1
         /\ \A i \in 1..Len(deferred) : deferred'[i] = deferred[i]
         /\ deferred'[Len(deferred')].stamp = e.stamp
  <2>1. CASE worker[w].reached # 0
    <3>1. deferred' = Append(deferred, r)
      BY <1>2, <2>1
    <3>2. QED BY <1>5, <3>1, WorkerTypes, AppendProperties
  <2>2. CASE worker[w].reached = 0
    BY <1>2, <2>2
  <2>3. QED BY <2>1, <2>2
<1>9. Rest'
  <2>1. UNCHANGED <<mailbox, ending, host>> /\ updateQueued' = updateQueued
    BY <1>2
  <2>2. CASE UNCHANGED deferred
    BY <1>2, <1>3, <1>4, <1>6, <1>7, <2>1, <2>2, WorkKeeps
  <2>3. CASE /\ deferred' \in Seq(Result) /\ Len(deferred') = Len(deferred) + 1
             /\ \A i \in 1..Len(deferred) : deferred'[i] = deferred[i]
             /\ deferred'[Len(deferred')].stamp = e.stamp
    BY <1>2, <1>3, <1>4, <1>6, <1>7, <2>1, <2>3, WorkKeeps
  <2>4. QED BY <1>8, <2>2, <2>3
<1>10. MailTyped'
  <2>1. updateRunning' \in BOOLEAN
    BY <1>2
  <2>2. QED BY <1>2, <2>1, TypesSplit DEF MailTyped, mailbox, health
<1>11. MachineTyped'
  <2>1. worker' \in [Threads -> State]
    BY <1>2, <1>3, Moves
  <2>2. deferred' \in Seq(Result)
    BY <1>8, WorkerTypes
  <2>3. handles' \in BOOLEAN
    <3>1. host.script \in Scripts \union {NoScript}
      BY DEF TypeOK
    <3>2. host.script.handles \in BOOLEAN
      <4>1. NoScript \in Script /\ Scripts \subseteq Script
        BY ScriptAssumption DEF NoScript, Script
      <4>2. host.script \in Script
        BY <3>1, <4>1
      <4>3. QED BY <4>2 DEF Script
    <3>3. QED BY <1>2, <3>2, Types
  <2>4. QED BY <1>2, <2>1, <2>2, <2>3, TypesSplit DEF MachineTyped, ending
<1>12. QED BY <1>9, <1>10, <1>11, TypesJoin

LEMMA TearDownKeeps ==
  ASSUME TypeOK, Rest, NEW w \in Threads, TearDown(w)
  PROVE  TypeOK' /\ Rest'
<1> DEFINE s == [worker[w] EXCEPT !.pc = "exit"]
<1>1. /\ At(w, "call") /\ worker[w].event.kind = "stop"
      /\ host' = NoHost /\ watching' = {} /\ Goes(w, s)
      /\ UNCHANGED <<mailbox, health, updates, ending, handles, settings, commands, seeded, notifying,
                     deferred>>
  BY DEF TearDown
<1>2. /\ s \in State /\ s.pc = "exit" /\ s.event = worker[w].event
      /\ s.reached = worker[w].reached
  BY WorkerTypes DEF State, Stages
<1>3. stopping /\ Busy(w) /\ worker[w].reached = 0 /\ worker[w].event.gen <= generation
  BY <1>1 DEF Rest, Control, Hosts, At, Busy
<1>4. UNCHANGED generation
  BY <1>1 DEF mailbox
<1> HIDE DEF s
<1>5. Faults'
  BY <1>1, <1>2, <1>3, <1>4, NoCallKeepsFaults
<1>6. Rest'
  <2>1. UNCHANGED <<mailbox, ending, deferred>> /\ updateQueued' = updateQueued
        /\ updateRunning' = updateRunning
    BY <1>1 DEF updates
  <2>2. QED BY <1>1, <1>2, <1>3, <1>5, <2>1, WorkKeeps
<1>7. MailTyped'
  BY <1>1, MailStays
<1>8. MachineTyped'
  <2>1. worker' \in [Threads -> State]
    BY <1>1, <1>2, Moves
  <2>2. host' \in [id : 0..MaxReloads, script : Scripts \union {NoScript}]
    BY <1>1, ScriptAssumption DEF NoHost
  <2>3. QED BY <1>1, <2>1, <2>2, TypesSplit DEF MachineTyped, ending
<1>9. QED BY <1>6, <1>7, <1>8, TypesJoin

LEMMA ExitKeeps ==
  ASSUME TypeOK, Rest, NEW w \in Threads, Exit(w)
  PROVE  TypeOK' /\ Rest'
<1>1. /\ At(w, "exit") /\ queue' = <<>> /\ stopped' = TRUE /\ scheduled' = FALSE /\ Goes(w, Idle)
      /\ UNCHANGED <<generation, pool, stamp, frame, health, updates, stopping, machine, seeded,
                     notifying, deferred>>
  BY DEF Exit
<1>2. /\ Idle \in State /\ Idle.pc = "idle" /\ Idle.event.kind = "stop" /\ Idle.event.gen = 0
      /\ Idle.reached = 0
  BY IdleTyped
<1>3. /\ worker' \in [Threads -> State] /\ worker'[w] = Idle
      /\ \A v \in Threads : v # w => worker'[v] = worker[v]
  BY <1>1, <1>2, Moves
<1>4. /\ stopping /\ pool = 0
      /\ \A v \in Threads : v # w => worker[v].pc = "idle" /\ worker[v].reached = 0
  BY <1>1, Others DEF Rest, Control, Busy, At
<1>5. /\ queue' \in Seq(Event) /\ Len(queue') = 0 /\ stopping' /\ generation' = generation
      /\ 0 <= generation
  BY <1>1, <1>4, Types, EmptySeq
<1>6. TypeOK'
  <2>1. MailTyped'
    <3>1. Len(queue') <= MaxQueue
      <4>1. 0 <= MaxQueue
        BY ScriptAssumption
      <4>2. Len(queue') = 0
        BY <1>5
      <4>3. QED BY <4>1, <4>2
    <3>2. scheduled' \in BOOLEAN
      BY <1>1
    <3>3. QED BY <1>1, <1>5, <3>1, <3>2, TypesSplit DEF MailTyped, health, updates
  <2>2. MachineTyped'
    BY <1>1, <1>3, TypesSplit DEF MachineTyped, machine
  <2>3. QED BY <2>1, <2>2, TypesJoin
<1>7. Drain'
  BY <1>1, <1>2, <1>3, <1>4 DEF Drain, Busy
<1>8. Control' /\ Fresh' /\ Values'
  BY <1>1, <1>2, <1>3, <1>4, <1>5 DEF Control, Fresh, Rest, Values, At
<1>9. Updates'
  <2>1. \A v \in Threads : ~(Busy(v)')
    BY <1>2, <1>3, <1>4 DEF Busy
  <2>2. ~updateQueued
    BY <1>4 DEF Rest, Control, Updates
  <2>3. QED BY <1>1, <1>5, <2>1, <2>2 DEF Updates, Updating, updates
<1>10. Stamps'
  <2>1. \A v \in Threads : ~(Holds(v)')
    BY <1>2, <1>3, <1>4 DEF Holds
  <2>2. QED BY <1>1, <1>5, <2>1 DEF Rest, Stamps
<1>11. Hosts'
  BY <1>2, <1>3, <1>4, <1>5 DEF Rest, Hosts, At, Loading
<1>12. Faults'
  <2>1. Busy(w)
    BY <1>1 DEF At, Busy
  <2>2. QED BY <1>1, <1>2, <2>1, NoCallKeepsFaults
<1>13. QED BY <1>6, <1>7, <1>8, <1>9, <1>10, <1>11, <1>12 DEF Rest

-------------------------------------------------------------------------------
(* The theorems                                                                *)

LEMMA StepIInv == IInv /\ [Next]_vars => IInv'
<1> SUFFICES ASSUME TypeOK, Rest, [Next]_vars PROVE TypeOK' /\ Rest'
  BY DEF IInv
<1>1. CASE Reload
  BY <1>1, ReloadKeeps
<1>2. CASE Input \/ ChangeSettings \/ Notify \/ CommandDone
  BY <1>2, EnqueuersKeep
<1>3. CASE Stop
  BY <1>3, StopKeeps
<1>4. CASE Deliver \/ SetState \/ UNCHANGED vars
  BY <1>4, AsideKeeps
<1>5. CASE \E w \in Threads : Work(w)
  <2>1. PICK w \in Threads : Work(w)
    BY <1>5
  <2>2. CASE Take(w) \/ Leave(w) \/ Pop(w)
    BY <2>2, TakeKeeps, LeaveKeeps, PopKeeps
  <2>3. CASE Load(w) \/ FirstUpdate(w) \/ CallHost(w)
    BY <2>3, LoadKeeps, FirstUpdateKeeps, CallHostKeeps
  <2>4. CASE Post(w) \/ TearDown(w) \/ Exit(w)
    BY <2>4, PostKeeps, TearDownKeeps, ExitKeeps
  <2>5. QED BY <2>1, <2>2, <2>3, <2>4 DEF Work
<1>6. QED BY <1>1, <1>2, <1>3, <1>4, <1>5 DEF Next

\* The queue of a runtime, its flags, the counters and the workers keep their types, whatever
\* the main thread, the other threads and the workers do (ScriptRuntime).
THEOREM TypesHold == Spec => []TypeOK
<1>1. IInv => TypeOK
  BY DEF IInv
<1>2. QED BY InitIInv, StepIInv, <1>1, PTL DEF Spec

\* With any number of workers a runtime is never drained by two of them, an event never waits
\* without a drain on its way, and neither updates nor frames pile up (enqueue(), drain()).
THEOREM QueueAlwaysCoherent == Spec => []QueueCoherent
BY InitIInv, StepIInv, IInvQueue, PTL DEF Spec

\* With any scripts and any number of reloads an event is answered by the machine of its own
\* generation, a script is disabled for its own failures, but for the one call of its
\* predecessor that may be under way, and its results come in order (processEvent(),
\* updateHealth(), drain()).
THEOREM EffectsAlwaysBelong == Spec => []EffectsBelong
BY InitIInv, StepIInv, IInvEffects, PTL DEF Spec
===============================================================================
