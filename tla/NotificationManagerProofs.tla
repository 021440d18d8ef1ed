----------------------- MODULE NotificationManagerProofs -----------------------
(***************************************************************************)
(* Theorems about NotificationManager for every set of contents, every     *)
(* filters, any limit of the history, any number of ids and restarts.      *)
(* The helpers of the store are functions from records to records; each    *)
(* has a lemma that says what it keeps of a sound store (Keeps), and the   *)
(* actions are compositions of them.                                       *)
(***************************************************************************)
EXTENDS NotificationManager, SequenceTheorems, TLAPS

-----------------------------------------------------------------------------
(* Sequences of records with an id.                                        *)

\* Without() erases the one entry of an id.
LEMMA WithoutIs ==
  ASSUME NEW T, NEW s \in Seq(T), Distinct(s), NEW id
  PROVE  /\ Without(s, id) \in Seq(T) /\ Len(Without(s, id)) <= Len(s)
         /\ id \in IdsOf(s) => Len(Without(s, id)) < Len(s)
         /\ IdsOf(Without(s, id)) = IdsOf(s) \ {id}
         /\ Distinct(Without(s, id))
         /\ \A i \in DOMAIN Without(s, id) : \E j \in DOMAIN s : Without(s, id)[i] = s[j]
<1>1. CASE id \notin IdsOf(s)
  BY <1>1 DEF Without
<1>2. CASE id \in IdsOf(s)
  <2> DEFINE k == Position(s, id)
             w == Without(s, id)
  <2>1. k \in DOMAIN s /\ s[k].id = id
    BY <1>2 DEF IdsOf, Position
  <2>2. DOMAIN s = 1..Len(s) /\ Len(s) \in Nat
    OBVIOUS
  <2>3. w = [i \in 1..(Len(s) - 1) |-> IF i < k THEN s[i] ELSE s[i + 1]]
    BY <1>2 DEF Without
  <2> HIDE DEF k, w
  <2>4. Len(s) - 1 \in Nat /\ k \in 1..Len(s)
    BY <2>1, <2>2
  <2>5. \A i \in 1..(Len(s) - 1) : w[i] \in T
    <3> SUFFICES ASSUME NEW i \in 1..(Len(s) - 1) PROVE w[i] \in T
      OBVIOUS
    <3>1. i \in 1..Len(s) /\ i + 1 \in 1..Len(s)
      BY <2>4
    <3>2. QED BY <2>3, <3>1, ElementOfSeq
  <2>6. w \in Seq(T) /\ Len(w) = Len(s) - 1 /\ DOMAIN w = 1..(Len(s) - 1)
    <3>1. w = [i \in 1..(Len(s) - 1) |-> w[i]]
      BY <2>3
    <3>2. \A i \in 1..(Len(s) - 1) : w[i] \in T
      BY <2>5
    <3>3. PICK n \in Nat : n = Len(s) - 1
      BY <2>4
    <3>4. w \in [1..n -> T]
      BY <3>1, <3>2, <3>3
    <3>5. w \in Seq(T) /\ Len(w) = n /\ DOMAIN w = 1..n
      BY <3>4, SeqDef, LenProperties
    <3>6. QED BY <3>3, <3>5
  <2>7. \A i \in 1..(Len(s) - 1) :
          \/ i < k /\ i \in 1..Len(s) /\ w[i] = s[i]
          \/ i >= k /\ i + 1 \in 1..Len(s) /\ w[i] = s[i + 1]
    BY <2>3, <2>4
  <2>8. \A i \in DOMAIN w : \E j \in DOMAIN s : w[i] = s[j] /\ j # k
    <3> SUFFICES ASSUME NEW i \in DOMAIN w PROVE \E j \in DOMAIN s : w[i] = s[j] /\ j # k
      OBVIOUS
    <3>1. i \in 1..(Len(s) - 1)
      BY <2>6
    <3>2. CASE i < k
      <4>1. i \in DOMAIN s /\ w[i] = s[i] /\ i # k
        BY <2>2, <2>4, <2>7, <3>1, <3>2
      <4>2. QED BY <4>1
    <3>3. CASE i >= k
      <4>1. i + 1 \in DOMAIN s /\ w[i] = s[i + 1] /\ i + 1 # k
        BY <2>2, <2>4, <2>7, <3>1, <3>3
      <4>2. QED BY <4>1
    <3>4. QED BY <2>4, <3>1, <3>2, <3>3
  <2>9. \A j \in DOMAIN s : j # k => \E i \in DOMAIN w : w[i] = s[j]
    <3> SUFFICES ASSUME NEW j \in DOMAIN s, j # k PROVE \E i \in DOMAIN w : w[i] = s[j]
      OBVIOUS
    <3>1. CASE j < k
      <4>1. j \in 1..(Len(s) - 1)
        BY <2>2, <2>4, <3>1
      <4>2. QED BY <2>3, <2>6, <3>1, <4>1
    <3>2. CASE j > k
      <4>1. j - 1 \in 1..(Len(s) - 1) /\ ~(j - 1 < k) /\ (j - 1) + 1 = j
        BY <2>2, <2>4, <3>2
      <4>2. QED BY <2>3, <2>6, <4>1
    <3>3. QED BY <2>2, <2>4, <3>1, <3>2
  <2>10. IdsOf(w) = IdsOf(s) \ {id}
    <3>1. \A j \in DOMAIN s : s[j].id = id <=> j = k
      BY <2>1 DEF Distinct
    <3>2. IdsOf(w) \subseteq IdsOf(s) \ {id}
      BY <2>8, <3>1 DEF IdsOf
    <3>3. IdsOf(s) \ {id} \subseteq IdsOf(w)
      BY <2>9, <3>1 DEF IdsOf
    <3>4. QED BY <3>2, <3>3
  <2>11. Distinct(w)
    <3> SUFFICES ASSUME NEW i \in DOMAIN w, NEW j \in DOMAIN w, w[i].id = w[j].id PROVE i = j
      BY DEF Distinct
    <3>1. \A x \in 1..Len(s), y \in 1..Len(s) : s[x].id = s[y].id => x = y
      BY <2>2 DEF Distinct
    <3>2. QED BY <2>4, <2>6, <2>7, <3>1
  <2>12. QED BY <2>4, <2>6, <2>8, <2>10, <2>11 DEF w
<1>3. QED BY <1>1, <1>2

\* A new entry goes to the end.
LEMMA AppendIs ==
  ASSUME NEW T, NEW s \in Seq(T), Distinct(s), NEW e \in T, e.id \notin IdsOf(s)
  PROVE  /\ Append(s, e) \in Seq(T) /\ Len(Append(s, e)) = Len(s) + 1
         /\ IdsOf(Append(s, e)) = IdsOf(s) \union {e.id}
         /\ Distinct(Append(s, e)) /\ (s # <<>> => Append(s, e)[1].id # e.id)
         /\ \A i \in DOMAIN Append(s, e) :
              Append(s, e)[i] = e \/ \E j \in DOMAIN s : Append(s, e)[i] = s[j]
<1> DEFINE a == Append(s, e)
<1>1. /\ a \in Seq(T) /\ Len(a) = Len(s) + 1 /\ a[Len(s) + 1] = e
      /\ \A i \in 1..Len(s) : a[i] = s[i]
  BY AppendProperties
<1>2. DOMAIN s = 1..Len(s) /\ Len(s) \in Nat /\ DOMAIN a = 1..(Len(s) + 1)
  BY <1>1
<1> HIDE DEF a
<1>3. \A i \in DOMAIN a : i \in DOMAIN s \/ i = Len(s) + 1
  BY <1>2
<1>4. IdsOf(a) = IdsOf(s) \union {e.id}
  <2>1. IdsOf(a) \subseteq IdsOf(s) \union {e.id}
    BY <1>1, <1>2, <1>3 DEF IdsOf
  <2>2. \A i \in DOMAIN s : i \in DOMAIN a /\ a[i] = s[i]
    BY <1>1, <1>2
  <2>3. Len(s) + 1 \in DOMAIN a
    BY <1>2
  <2>4. QED BY <1>1, <2>1, <2>2, <2>3 DEF IdsOf
<1>5. Distinct(a)
  <2>1. \A i \in DOMAIN s : s[i].id # e.id
    BY DEF IdsOf
  <2>2. QED BY <1>1, <1>2, <1>3, <2>1 DEF Distinct
<1>6. ASSUME s # <<>> PROVE a[1].id # e.id
  <2>1. 1 \in DOMAIN s /\ a[1] = s[1]
    BY <1>1, <1>2, <1>6, EmptySeq
  <2>2. QED BY <2>1 DEF IdsOf
<1>7. QED BY <1>1, <1>2, <1>3, <1>4, <1>5, <1>6 DEF a

\* The oldest entry goes.
LEMMA TailIs ==
  ASSUME NEW T, NEW s \in Seq(T), Distinct(s), s # <<>>
  PROVE  /\ Tail(s) \in Seq(T) /\ Len(Tail(s)) = Len(s) - 1
         /\ s[1] \in T /\ s[1].id \in IdsOf(s)
         /\ IdsOf(Tail(s)) = IdsOf(s) \ {s[1].id}
         /\ Distinct(Tail(s))
         /\ \A i \in DOMAIN Tail(s) : \E j \in DOMAIN s : Tail(s)[i] = s[j]
<1> DEFINE t == Tail(s)
<1>1. /\ t \in Seq(T) /\ Len(t) = Len(s) - 1
      /\ \A i \in 1..Len(t) : t[i] = s[i + 1]
  BY HeadTailProperties
<1>2. DOMAIN s = 1..Len(s) /\ Len(s) \in Nat \ {0} /\ DOMAIN t = 1..(Len(s) - 1)
  BY <1>1, EmptySeq
<1> HIDE DEF t
<1>3. \A i \in DOMAIN t : i + 1 \in DOMAIN s /\ i + 1 # 1 /\ t[i] = s[i + 1]
  BY <1>1, <1>2
<1>4. \A j \in DOMAIN s : j # 1 => j - 1 \in DOMAIN t /\ t[j - 1] = s[j]
  <2> SUFFICES ASSUME NEW j \in DOMAIN s, j # 1 PROVE j - 1 \in DOMAIN t /\ t[j - 1] = s[j]
    OBVIOUS
  <2>1. j - 1 \in 1..(Len(s) - 1) /\ (j - 1) + 1 = j
    BY <1>2
  <2>2. QED BY <1>2, <1>3, <2>1
<1>5. 1 \in DOMAIN s /\ s[1] \in T
  BY <1>2, ElementOfSeq
<1>6. IdsOf(t) = IdsOf(s) \ {s[1].id}
  <2>1. \A j \in DOMAIN s : s[j].id = s[1].id <=> j = 1
    BY <1>5 DEF Distinct
  <2>2. IdsOf(t) \subseteq IdsOf(s) \ {s[1].id}
    BY <1>3, <2>1 DEF IdsOf
  <2>3. IdsOf(s) \ {s[1].id} \subseteq IdsOf(t)
    BY <1>4, <2>1 DEF IdsOf
  <2>4. QED BY <2>2, <2>3
<1>7. Distinct(t)
  <2> SUFFICES ASSUME NEW i \in DOMAIN t, NEW j \in DOMAIN t, t[i].id = t[j].id PROVE i = j
    BY DEF Distinct
  <2>1. i + 1 = j + 1
    BY <1>3 DEF Distinct
  <2>2. QED BY <1>2, <2>1
<1>8. QED BY <1>1, <1>3, <1>5, <1>6, <1>7 DEF t, IdsOf

-----------------------------------------------------------------------------
(* What the store promises.                                                *)

Stores == [live : Seq(Notification), history : Seq(HistoryEntry), pending : SUBSET Ids,
           signals : [Ids -> Nat], persist : BOOLEAN]

Holds(p) == IF p THEN 1 ELSE 0

\* What became of an id, as far as the store's fields tell it.
Told(s, id) == s.signals[id] + Holds(id \in IdsOf(s.live)) + Holds(id \in s.pending)

\* No id twice; the history is within its limit, agrees with the display on who has actions,
\* and offers those of the deferred signals; this for all ids but one.
SoundBut(s, id) ==
  /\ Distinct(s.live) /\ Distinct(s.history) /\ Len(s.history) <= MaxHistory
  /\ \A i \in DOMAIN s.live, j \in DOMAIN s.history :
       s.live[i].id = s.history[j].id /\ s.history[j].id # id
         => s.live[i].actions = s.history[j].actions
  /\ \A j \in DOMAIN s.history :
       s.history[j].id \in s.pending /\ s.history[j].id # id => s.history[j].actions

Sound(s) ==
  /\ Distinct(s.live) /\ Distinct(s.history) /\ Len(s.history) <= MaxHistory
  /\ \A i \in DOMAIN s.live, j \in DOMAIN s.history :
       s.live[i].id = s.history[j].id => s.live[i].actions = s.history[j].actions
  /\ \A j \in DOMAIN s.history :
       s.history[j].id \in s.pending => s.history[j].actions

\* What every helper keeps from one value of the fields to the next.
Keeps(s, r) ==
  /\ r \in Stores /\ Sound(r)
  /\ \A id \in Ids : Told(r, id) = Told(s, id)
  /\ \A id \in IdsOf(s.history) \ IdsOf(r.history) : id \notin r.pending
  /\ r.persist \/ (r.history = s.history /\ r.persist = s.persist)

\* The fates of all ids, those not yet handed out included.
Fates ==
  \A id \in Ids :
    Told(Store, id) + Holds(id \in suppressed \union silenced) = Holds(id \in given)

\* The file is a history of its own, and says less than the memory only while a save is due.
Filed ==
  /\ Distinct(disk.history) /\ Len(disk.history) <= MaxHistory
  /\ \A id \in IdsOf(disk.history) \union durable : id < disk.nextId
  /\ disk.nextId <= nextId
  /\ persist \/ disk.history = history

\* A deferred signal has an entry to wait in, but for the ids that never got one.
Listed == pending \subseteq IdsOf(history) \union unlisted

IInv ==
  /\ TypeOK /\ Sound(Store) /\ Fates /\ Filed /\ Listed
  /\ \A id \in given \union IdsOf(history) : id < nextId

-----------------------------------------------------------------------------
(* What the store's helpers keep.                                          *)

LEMMA StoresAre ==
  ASSUME NEW s \in Stores
  PROVE  /\ s.live \in Seq(Notification) /\ s.history \in Seq(HistoryEntry)
         /\ s.pending \subseteq Ids /\ s.signals \in [Ids -> Nat] /\ s.persist \in BOOLEAN
         /\ \A i \in DOMAIN s.live : s.live[i] \in Notification
         /\ \A i \in DOMAIN s.history : s.history[i] \in HistoryEntry
         /\ IdsOf(s.live) \subseteq Ids /\ IdsOf(s.history) \subseteq Ids
         /\ Len(s.history) \in Nat
<1>1. /\ s.live \in Seq(Notification) /\ s.history \in Seq(HistoryEntry)
      /\ s.pending \subseteq Ids /\ s.signals \in [Ids -> Nat] /\ s.persist \in BOOLEAN
  BY DEF Stores
<1>2. \A i \in DOMAIN s.live : s.live[i] \in Notification
  BY <1>1, ElementOfSeq, LenProperties
<1>3. \A i \in DOMAIN s.history : s.history[i] \in HistoryEntry
  BY <1>1, ElementOfSeq, LenProperties
<1>4. IdsOf(s.live) \subseteq Ids /\ IdsOf(s.history) \subseteq Ids
  BY <1>2, <1>3 DEF IdsOf, Notification, HistoryEntry
<1>5. QED BY <1>1, <1>2, <1>3, <1>4, LenProperties

\* emitPendingDBusClose() tells what was deferred, and nothing else.
LEMMA EmitPendingKeeps ==
  ASSUME NEW s \in Stores, NEW id
  PROVE  LET e == EmitPending(s, id)
         IN /\ e \in Stores
            /\ e.live = s.live /\ e.history = s.history /\ e.persist = s.persist
            /\ e.pending = s.pending \ {id}
            /\ \A x \in Ids : Told(e, x) = Told(s, x)
<1>1. CASE id \notin s.pending
  BY <1>1 DEF EmitPending
<1>2. CASE id \in s.pending
  <2> DEFINE e == EmitPending(s, id)
  <2>1. e = [s EXCEPT !.pending = @ \ {id}, !.signals[id] = @ + 1] /\ id \in Ids
    BY <1>2, StoresAre DEF EmitPending
  <2> DEFINE told == [s.signals EXCEPT ![id] = @ + 1]
             rest == s.pending \ {id}
  <2>2. told \in [Ids -> Nat] /\ rest \in SUBSET Ids
    <3>1. s.signals \in [Ids -> Nat] /\ s.pending \in SUBSET Ids
      BY DEF Stores
    <3>2. id \in Ids
      BY <2>1
    <3>3. QED BY <3>1, <3>2
  <2>3. e = [s EXCEPT !.pending = rest, !.signals = told]
    BY <2>1 DEF Stores
  <2> HIDE DEF e, told, rest
  <2>4. /\ e \in Stores
        /\ e.live = s.live /\ e.history = s.history /\ e.persist = s.persist
        /\ e.pending = rest /\ e.signals = told
    BY <2>2, <2>3 DEF Stores
  <2>5. /\ e \in Stores
        /\ e.live = s.live /\ e.history = s.history /\ e.persist = s.persist
        /\ e.pending = s.pending \ {id}
        /\ e.signals = [s.signals EXCEPT ![id] = @ + 1]
    BY <2>4 DEF told, rest
  <2>6. \A x \in Ids : Told(e, x) = Told(s, x)
    <3> SUFFICES ASSUME NEW x \in Ids PROVE Told(e, x) = Told(s, x)
      OBVIOUS
    <3>1. s.signals[x] \in Nat /\ s.signals \in [Ids -> Nat]
      BY StoresAre
    <3>2. CASE x = id
      BY <1>2, <2>5, <3>1, <3>2 DEF Told, Holds
    <3>3. CASE x # id
      BY <2>5, <3>1, <3>3 DEF Told, Holds
    <3>4. QED BY <3>2, <3>3
  <2>7. QED BY <2>5, <2>6 DEF e
<1>3. QED BY <1>1, <1>2

\* A history whose entries say no more than the old one's fits the store.
LEMMA FitsSound ==
  ASSUME NEW s \in Stores, NEW r \in Stores, NEW id, SoundBut(s, id),
         r.live = s.live, r.pending \subseteq s.pending,
         Distinct(r.history), Len(r.history) <= MaxHistory,
         \A i \in DOMAIN r.history :
           \/ r.history[i].id # id /\ \E j \in DOMAIN s.history : r.history[i] = s.history[j]
           \/ /\ \A k \in DOMAIN s.live :
                   s.live[k].id = r.history[i].id => s.live[k].actions = r.history[i].actions
              /\ r.history[i].id \in r.pending => r.history[i].actions
  PROVE  Sound(r)
<1>1. ASSUME NEW i \in DOMAIN r.live, NEW j \in DOMAIN r.history,
             r.live[i].id = r.history[j].id
      PROVE  r.live[i].actions = r.history[j].actions
  <2>1. i \in DOMAIN s.live /\ s.live[i].id = r.history[j].id
    BY <1>1
  <2>2. ASSUME NEW k \in DOMAIN s.history, r.history[j] = s.history[k], r.history[j].id # id
        PROVE  s.live[i].actions = r.history[j].actions
    BY <2>1, <2>2 DEF SoundBut
  <2>3. QED BY <2>1, <2>2
<1>2. ASSUME NEW j \in DOMAIN r.history, r.history[j].id \in r.pending
      PROVE  r.history[j].actions
  BY <1>2 DEF SoundBut
<1>3. QED BY <1>1, <1>2 DEF Sound, SoundBut

\* upsertHistory() stores the notification, last, and keeps the rest sound.
LEMMA UpsertHistoryKeeps ==
  ASSUME NEW s \in Stores, NEW n \in Notification, SoundBut(s, n.id),
         \A i \in DOMAIN s.live : s.live[i].id = n.id => s.live[i].actions = n.actions,
         n.id \in s.pending => n.actions
  PROVE  LET r == UpsertHistory(s, n)
         IN /\ Keeps(s, r) /\ r.live = s.live /\ r.pending \subseteq s.pending
            /\ n.id \in IdsOf(r.history)
            /\ IdsOf(r.history) \subseteq IdsOf(s.history) \union {n.id}
<1> DEFINE e == [id |-> n.id, actions |-> n.actions]
           w == Without(s.history, n.id)
           g == Upserted(s, n)
           r == UpsertHistory(s, n)
<1>1. /\ s.history \in Seq(HistoryEntry) /\ Distinct(s.history)
      /\ Len(s.history) <= MaxHistory /\ Len(s.history) \in Nat
  BY StoresAre DEF SoundBut
<1>2. e \in HistoryEntry /\ e.id = n.id /\ e.actions = n.actions
  BY DEF Notification, HistoryEntry
<1>3. /\ w \in Seq(HistoryEntry) /\ Len(w) <= Len(s.history) /\ Distinct(w)
      /\ IdsOf(w) = IdsOf(s.history) \ {n.id}
      /\ \A i \in DOMAIN w : \E j \in DOMAIN s.history : w[i] = s.history[j]
  BY <1>1, WithoutIs
<1>4. g = Append(w, e)
  BY DEF Upserted
<1> HIDE DEF e, w, g
<1>5. /\ g \in Seq(HistoryEntry) /\ Len(g) = Len(w) + 1 /\ Distinct(g)
      /\ IdsOf(g) = IdsOf(s.history) \union {n.id}
      /\ w # <<>> => g[1].id # n.id
      /\ \A i \in DOMAIN g : g[i] = e \/ \E j \in DOMAIN w : g[i] = w[j]
  BY <1>2, <1>3, <1>4, AppendIs
<1>6. Len(w) \in Nat /\ Len(g) \in Nat /\ Len(g) <= MaxHistory + 1
  BY <1>1, <1>3, <1>5, LenProperties, NotificationAssumption
<1>7. \A i \in DOMAIN g :
        \/ g[i].id # n.id /\ \E j \in DOMAIN s.history : g[i] = s.history[j]
        \/ /\ \A k \in DOMAIN s.live :
                s.live[k].id = g[i].id => s.live[k].actions = g[i].actions
           /\ g[i].id \in s.pending => g[i].actions
  <2> SUFFICES ASSUME NEW i \in DOMAIN g
               PROVE  \/ g[i].id # n.id /\ \E j \in DOMAIN s.history : g[i] = s.history[j]
                      \/ /\ \A k \in DOMAIN s.live :
                              s.live[k].id = g[i].id => s.live[k].actions = g[i].actions
                         /\ g[i].id \in s.pending => g[i].actions
    OBVIOUS
  <2>1. CASE g[i] = e
    BY <1>2, <2>1
  <2>2. ASSUME NEW j \in DOMAIN w, g[i] = w[j]
        PROVE  g[i].id # n.id /\ \E k \in DOMAIN s.history : g[i] = s.history[k]
    <3>1. w[j].id \in IdsOf(w)
      BY DEF IdsOf
    <3>2. QED BY <1>3, <2>2, <3>1
  <2>3. QED BY <1>5, <2>1, <2>2
<1>8. CASE Len(g) > MaxHistory
  <2> DEFINE t == Tail(g)
             m == EmitPending(s, g[1].id)
  <2>1. w # <<>>
    <3>1. Len(w) # 0
      BY <1>5, <1>6, <1>8, NotificationAssumption
    <3>2. QED BY <3>1, EmptySeq
  <2>2. g # <<>>
    BY <1>5, <1>6, EmptySeq
  <2>3. /\ t \in Seq(HistoryEntry) /\ Len(t) = Len(g) - 1 /\ Distinct(t)
        /\ IdsOf(t) = IdsOf(g) \ {g[1].id}
        /\ \A i \in DOMAIN t : \E j \in DOMAIN g : t[i] = g[j]
    BY <1>5, <2>2, TailIs
  <2>4. /\ m \in Stores /\ m.live = s.live /\ m.pending = s.pending \ {g[1].id}
        /\ \A x \in Ids : Told(m, x) = Told(s, x)
    BY EmitPendingKeeps
  <2>5. r = [m EXCEPT !.history = t, !.persist = TRUE]
    BY <1>8 DEF UpsertHistory, g
  <2> HIDE DEF t, m, r
  <2>6. /\ r \in Stores /\ r.live = m.live /\ r.history = t /\ r.persist = TRUE
        /\ r.pending = m.pending /\ \A x \in Ids : Told(r, x) = Told(m, x)
    BY <2>3, <2>4, <2>5 DEF Stores, Told
  <2>7. Len(t) <= MaxHistory
    BY <1>6, <2>3, NotificationAssumption
  <2>8. \A i \in DOMAIN r.history :
          \/ /\ r.history[i].id # n.id
             /\ \E j \in DOMAIN s.history : r.history[i] = s.history[j]
          \/ /\ \A k \in DOMAIN s.live :
                  s.live[k].id = r.history[i].id => s.live[k].actions = r.history[i].actions
             /\ r.history[i].id \in r.pending => r.history[i].actions
    BY <1>7, <2>3, <2>4, <2>6
  <2>9. Sound(r)
    BY <2>3, <2>4, <2>6, <2>7, <2>8, FitsSound
  <2>10. \A x \in IdsOf(s.history) \ IdsOf(r.history) : x \notin r.pending
    BY <1>5, <2>3, <2>4, <2>6
  <2>11. Keeps(s, r)
    BY <2>4, <2>6, <2>9, <2>10 DEF Keeps
  <2>12. n.id \in IdsOf(r.history)
    BY <1>5, <2>1, <2>3, <2>6
  <2>13. QED BY <1>5, <2>3, <2>4, <2>6, <2>11, <2>12 DEF r
<1>9. CASE ~(Len(g) > MaxHistory)
  <2>1. r = [s EXCEPT !.history = g, !.persist = TRUE]
    BY <1>9 DEF UpsertHistory, g
  <2> HIDE DEF r
  <2>2. /\ r \in Stores /\ r.live = s.live /\ r.history = g /\ r.persist = TRUE
        /\ r.pending = s.pending /\ \A x \in Ids : Told(r, x) = Told(s, x)
    BY <1>5, <2>1 DEF Stores, Told
  <2>3. Len(g) <= MaxHistory
    BY <1>6, <1>9, NotificationAssumption
  <2>4. Sound(r)
    BY <1>5, <1>7, <2>2, <2>3, FitsSound
  <2>5. QED BY <1>5, <2>2, <2>4 DEF Keeps, r
<1>10. QED BY <1>8, <1>9

\* removeHistoryEntry() leaves neither the entry nor its deferred signal.
LEMMA RemoveHistoryEntryKeeps ==
  ASSUME NEW s \in Stores, NEW id \in Ids, SoundBut(s, id)
  PROVE  LET r == RemoveHistoryEntry(s, id)
         IN /\ Keeps(s, r) /\ r.live = s.live /\ r.pending \subseteq s.pending
            /\ IdsOf(r.history) = IdsOf(s.history) \ {id}
<1> DEFINE r == RemoveHistoryEntry(s, id)
<1>1. CASE id \notin IdsOf(s.history)
  <2>1. r = s
    BY <1>1 DEF RemoveHistoryEntry
  <2>2. \A j \in DOMAIN s.history : s.history[j].id # id
    BY <1>1 DEF IdsOf
  <2>3. Sound(s)
    BY <2>2 DEF Sound, SoundBut
  <2>4. QED BY <1>1, <2>1, <2>3 DEF Keeps
<1>2. CASE id \in IdsOf(s.history)
  <2> DEFINE m == EmitPending(s, id)
             h == Without(s.history, id)
  <2>1. /\ s.history \in Seq(HistoryEntry) /\ Distinct(s.history)
        /\ Len(s.history) <= MaxHistory /\ Len(s.history) \in Nat
    BY StoresAre DEF SoundBut
  <2>2. /\ m \in Stores /\ m.live = s.live /\ m.history = s.history
        /\ m.pending = s.pending \ {id} /\ \A x \in Ids : Told(m, x) = Told(s, x)
    BY EmitPendingKeeps
  <2>3. /\ h \in Seq(HistoryEntry) /\ Len(h) <= Len(s.history) /\ Distinct(h)
        /\ IdsOf(h) = IdsOf(s.history) \ {id}
        /\ \A i \in DOMAIN h : \E j \in DOMAIN s.history : h[i] = s.history[j]
    BY <2>1, WithoutIs
  <2>4. r = [m EXCEPT !.history = h, !.persist = TRUE]
    BY <1>2, <2>2 DEF RemoveHistoryEntry
  <2> HIDE DEF m, h, r
  <2>5. /\ r \in Stores /\ r.live = m.live /\ r.history = h /\ r.persist = TRUE
        /\ r.pending = m.pending /\ \A x \in Ids : Told(r, x) = Told(m, x)
    BY <2>2, <2>3, <2>4 DEF Stores, Told
  <2>6. Len(h) <= MaxHistory
    BY <2>1, <2>3, LenProperties, NotificationAssumption
  <2>7. \A i \in DOMAIN h :
          h[i].id # id /\ \E j \in DOMAIN s.history : h[i] = s.history[j]
    BY <2>3 DEF IdsOf
  <2>8. Sound(r)
    BY <2>2, <2>3, <2>5, <2>6, <2>7, FitsSound
  <2>9. QED BY <2>2, <2>3, <2>5, <2>8 DEF Keeps, r
<1>3. QED BY <1>1, <1>2

\* close() of a notification on display tells its end or defers it, and keeps an entry it
\* waits in.
LEMMA CloseLiveKeeps ==
  ASSUME NEW s \in Stores, Sound(s), NEW id \in Ids, id \in IdsOf(s.live), id \notin s.pending,
         NEW reason, NEW later
  PROVE  LET r == CloseLive(s, id, reason, later)
         IN /\ Keeps(s, r) /\ IdsOf(r.history) \subseteq IdsOf(s.history) \union {id}
            /\ reason = "dismissed" => r.pending \subseteq s.pending
            /\ r.pending \subseteq s.pending \union {id}
            /\ reason # "expired" => r.pending \subseteq s.pending
            /\ reason = "expired" /\ SavesWhenClosed(later, Entry(s.live, id))
                 => id \in IdsOf(r.history)
            /\ reason = "expired" /\ id \in IdsOf(s.history) => id \in IdsOf(r.history)
<1> DEFINE n    == Entry(s.live, id)
           kept == CASE SavesWhenClosed(later, n) /\ reason = "dismissed" ->
                          RemoveHistoryEntry(s, id)
                     [] SavesWhenClosed(later, n) /\ reason # "dismissed" -> UpsertHistory(s, n)
                     [] OTHER -> s
           v    == Without(s.live, id)
           r    == CloseLive(s, id, reason, later)
<1>1. /\ s.live \in Seq(Notification) /\ Distinct(s.live) /\ SoundBut(s, id)
      /\ \A i \in DOMAIN s.live : s.live[i] \in Notification
  BY StoresAre DEF Sound, SoundBut
<1>2. PICK p \in DOMAIN s.live : n = s.live[p] /\ s.live[p].id = id
  BY DEF Entry, Position, IdsOf
<1>3. n \in Notification /\ n.id = id
  BY <1>1, <1>2
<1>4. \A i \in DOMAIN s.live : s.live[i].id = n.id => s.live[i].actions = n.actions
  BY <1>1, <1>2 DEF Distinct
<1>5. r = LET closed == [kept EXCEPT !.live = v]
          IN IF reason = "expired" /\ n.actions
             THEN [closed EXCEPT !.pending = @ \union {id}]
             ELSE [closed EXCEPT !.signals[id] = @ + 1]
  <2>1. kept.live = s.live
    <3>1. CASE SavesWhenClosed(later, n) /\ reason = "dismissed"
      BY <1>1, <3>1, RemoveHistoryEntryKeeps
    <3>2. CASE SavesWhenClosed(later, n) /\ reason # "dismissed"
      BY <1>1, <1>3, <1>4, <3>2, UpsertHistoryKeeps
    <3>3. QED BY <3>1, <3>2
  <2>2. QED BY <2>1 DEF CloseLive
<1>6. /\ Keeps(s, kept) /\ kept.live = s.live /\ kept.pending \subseteq s.pending
      /\ IdsOf(kept.history) \subseteq IdsOf(s.history) \union {id}
      /\ reason = "expired" => IdsOf(s.history) \intersect {id} \subseteq IdsOf(kept.history)
      /\ reason = "expired" /\ SavesWhenClosed(later, n) => id \in IdsOf(kept.history)
  <2>1. CASE SavesWhenClosed(later, n) /\ reason = "dismissed"
    <3>1. kept = RemoveHistoryEntry(s, id) /\ reason # "expired"
      BY <2>1
    <3>2. QED BY <1>1, <3>1, RemoveHistoryEntryKeeps
  <2>2. CASE SavesWhenClosed(later, n) /\ reason # "dismissed"
    <3>1. kept = UpsertHistory(s, n)
      BY <2>2
    <3>2. QED BY <1>1, <1>3, <1>4, <3>1, UpsertHistoryKeeps
  <2>3. CASE ~SavesWhenClosed(later, n)
    <3>1. kept = s
      BY <2>3
    <3>2. QED BY <2>3, <3>1 DEF Keeps
  <2>4. QED BY <2>1, <2>2, <2>3
<1>7. /\ v \in Seq(Notification) /\ Distinct(v) /\ IdsOf(v) = IdsOf(s.live) \ {id}
      /\ \A i \in DOMAIN v : \E j \in DOMAIN s.live : v[i] = s.live[j]
  BY <1>1, WithoutIs
<1> HIDE DEF kept, v, r, n
<1>8. kept \in Stores /\ Sound(kept) /\ \A x \in Ids : Told(kept, x) = Told(s, x)
  BY <1>6 DEF Keeps
<1>9. /\ r \in Stores /\ r.live = v /\ r.history = kept.history /\ r.persist = kept.persist
      /\ \/ /\ reason = "expired" /\ n.actions
            /\ r.pending = kept.pending \union {id} /\ r.signals = kept.signals
         \/ /\ r.pending = kept.pending
            /\ r.signals = [kept.signals EXCEPT ![id] = @ + 1]
  <2>1. CASE reason = "expired" /\ n.actions
    BY <1>5, <1>7, <1>8, <2>1 DEF Stores
  <2>2. CASE ~(reason = "expired" /\ n.actions)
    <3> DEFINE told == [kept.signals EXCEPT ![id] = @ + 1]
    <3>1. kept.signals \in [Ids -> Nat]
      BY <1>8 DEF Stores
    <3>2. told \in [Ids -> Nat]
      BY <3>1
    <3>3. r = [kept EXCEPT !.live = v, !.signals = told]
      BY <1>5, <1>7, <1>8, <2>2 DEF Stores
    <3> HIDE DEF told
    <3>4. /\ r \in Stores /\ r.live = v /\ r.history = kept.history
          /\ r.persist = kept.persist /\ r.pending = kept.pending /\ r.signals = told
      BY <1>7, <1>8, <3>2, <3>3 DEF Stores
    <3>5. QED BY <3>4 DEF told
  <2>3. QED BY <2>1, <2>2
<1>10. \A x \in Ids : Told(r, x) = Told(s, x)
  <2> SUFFICES ASSUME NEW x \in Ids PROVE Told(r, x) = Told(kept, x)
    BY <1>8
  <2>1. kept.signals \in [Ids -> Nat] /\ kept.signals[x] \in Nat
    BY <1>8 DEF Stores
  <2>2. id \notin kept.pending /\ kept.live = s.live
    BY <1>6
  <2>3. CASE x = id
    <3>1. Told(kept, x) = kept.signals[x] + 1
      BY <2>1, <2>2, <2>3 DEF Told, Holds
    <3>2. Told(r, x) = kept.signals[x] + 1
      BY <1>7, <1>9, <2>1, <2>2, <2>3 DEF Told, Holds
    <3>3. QED BY <3>1, <3>2
  <2>4. CASE x # id
    BY <1>7, <1>9, <2>1, <2>2, <2>4 DEF Told, Holds
  <2>5. QED BY <2>3, <2>4
<1>11. Sound(r)
  <2>1. Distinct(r.live) /\ Distinct(r.history) /\ Len(r.history) <= MaxHistory
    BY <1>7, <1>8, <1>9 DEF Sound
  <2>2. ASSUME NEW i \in DOMAIN r.live, NEW j \in DOMAIN r.history,
               r.live[i].id = r.history[j].id
        PROVE  r.live[i].actions = r.history[j].actions
    <3>1. PICK k \in DOMAIN kept.live : r.live[i] = kept.live[k]
      BY <1>6, <1>7, <1>9
    <3>2. QED BY <1>8, <1>9, <2>2, <3>1 DEF Sound
  <2>3. ASSUME NEW j \in DOMAIN r.history, r.history[j].id \in r.pending
        PROVE  r.history[j].actions
    <3>1. CASE r.history[j].id \in kept.pending
      BY <1>8, <1>9, <3>1 DEF Sound
    <3>2. CASE r.history[j].id \notin kept.pending
      <4>1. r.history[j].id = id /\ n.actions
        BY <1>9, <2>3, <3>2
      <4>2. p \in DOMAIN kept.live /\ kept.live[p].id = id /\ kept.live[p].actions
        BY <1>2, <1>6, <4>1
      <4>3. kept.live[p].actions = kept.history[j].actions
        BY <1>8, <1>9, <4>1, <4>2 DEF Sound
      <4>4. QED BY <1>9, <4>2, <4>3
    <3>3. QED BY <3>1, <3>2
  <2>4. QED BY <2>1, <2>2, <2>3 DEF Sound
<1>12. \A x \in IdsOf(s.history) \ IdsOf(r.history) : x \notin r.pending
  BY <1>6, <1>9 DEF Keeps
<1>13. r.persist \/ (r.history = s.history /\ r.persist = s.persist)
  BY <1>6, <1>9 DEF Keeps
<1>14. SavesWhenClosed(later, Entry(s.live, id)) = SavesWhenClosed(later, n)
  BY DEF n
<1>15. QED BY <1>6, <1>9, <1>10, <1>11, <1>12, <1>13, <1>14 DEF Keeps, r

LEMMA KeepsTransitive ==
  ASSUME NEW s, NEW m, NEW r, Keeps(s, m), Keeps(m, r), r.pending \subseteq m.pending
  PROVE  Keeps(s, r)
BY DEF Keeps

\* emitPendingDBusClose() keeps a sound store sound.
LEMMA EmitPendingSound ==
  ASSUME NEW s \in Stores, Sound(s), NEW id
  PROVE  Keeps(s, EmitPending(s, id)) /\ Sound(EmitPending(s, id))
<1> DEFINE e == EmitPending(s, id)
<1>1. /\ e \in Stores /\ e.live = s.live /\ e.history = s.history /\ e.persist = s.persist
      /\ e.pending = s.pending \ {id} /\ \A x \in Ids : Told(e, x) = Told(s, x)
  BY EmitPendingKeeps
<1> HIDE DEF e
<1>2. Sound(e)
  BY <1>1 DEF Sound
<1>3. QED BY <1>1, <1>2 DEF Keeps, e

-----------------------------------------------------------------------------
(* The store as a whole.                                                   *)

LEMMA StoreFields ==
  /\ Store.live = live /\ Store.history = history /\ Store.pending = pending
  /\ Store.signals = signals /\ Store.persist = persist
BY DEF Store

LEMMA StoreTypes == TypeOK => Store \in Stores
BY DEF TypeOK, Store, Stores

\* What the fates say of one id.
LEMMA FateOf ==
  ASSUME IInv, NEW id \in Ids
  PROVE  /\ signals[id] \in Nat /\ Told(Store, id) \in Nat
         /\ id \in IdsOf(live) => id \in given /\ id \notin pending
         /\ id \in pending \union suppressed \union silenced => id \in given
         /\ id \notin given => Told(Store, id) = 0
<1>1. signals[id] \in Nat
  BY DEF IInv, TypeOK
<1>2. Told(Store, id) = signals[id] + Holds(id \in IdsOf(live)) + Holds(id \in pending)
  BY StoreFields DEF Told
<1>3. Told(Store, id) + Holds(id \in suppressed \union silenced) = Holds(id \in given)
  BY DEF IInv, Fates
<1>4. QED BY <1>1, <1>2, <1>3 DEF Holds

LEMMA LiveIds == TypeOK => IdsOf(live) \subseteq Ids /\ IdsOf(history) \subseteq Ids
BY StoreTypes, StoreFields, StoresAre

\* The next store is what the helpers made of this one.
LEMMA NextStore ==
  ASSUME NEW r \in Stores, Becomes(r)
  PROVE  Store' = r
BY DEF Becomes, Store, Stores

\* The eviction, removal or clearing of an entry takes its deferred signal with it.
NoOrphans == \A id \in IdsOf(history) \ IdsOf(history') : id \notin pending'

\* No signal is deferred but for an entry or for an id that never got one.
LEMMA ListedStep ==
  ASSUME Listed, NoOrphans, unlisted \subseteq unlisted',
         pending' \subseteq pending \union IdsOf(history') \union unlisted'
  PROVE  Listed'
<1> SUFFICES ASSUME NEW id \in pending' PROVE id \in IdsOf(history') \union unlisted'
  BY DEF Listed, IdsOf
<1>1. CASE id \in IdsOf(history') \union unlisted'
  BY <1>1
<1>2. CASE id \in pending
  BY <1>2 DEF Listed, NoOrphans
<1>3. QED BY <1>1, <1>2

\* A step that rewrites the store as the helpers do, and hands out no id.
LEMMA RewriteStep ==
  ASSUME IInv, NEW r, Keeps(Store, r), Becomes(r),
         IdsOf(r.history) \subseteq IdsOf(history) \union given,
         UNCHANGED <<environment, suppressed, nextId, given, silenced>>,
         unlisted \subseteq unlisted', unlisted' \subseteq Ids,
         r.pending \subseteq pending \union IdsOf(r.history) \union unlisted'
  PROVE  IInv' /\ NoOrphans
<1>1. r \in Stores /\ Sound(r) /\ \A x \in Ids : Told(r, x) = Told(Store, x)
  BY DEF Keeps
<1>2. Store' = r
  BY <1>1, NextStore
<1>3. /\ suppressed' = suppressed /\ nextId' = nextId /\ given' = given
      /\ silenced' = silenced /\ disk' = disk /\ restarts' = restarts
      /\ durable' = durable
  BY DEF environment
<1>4. Sound(Store)' /\ (Store \in Stores)'
  BY <1>1, <1>2 DEF Sound
<1>5. TypeOK'
  <2>1. TypeOK
    BY DEF IInv
  <2>2. /\ live' = r.live /\ history' = r.history /\ pending' = r.pending
        /\ signals' = r.signals /\ persist' = r.persist
    BY DEF Becomes
  <2>3. /\ r.live \in Seq(Notification) /\ r.history \in Seq(HistoryEntry)
        /\ r.pending \subseteq Ids /\ r.signals \in [Ids -> Nat] /\ r.persist \in BOOLEAN
        /\ Len(r.history) <= MaxHistory
    BY <1>1, StoresAre DEF Sound
  <2>4. QED BY <1>3, <2>1, <2>2, <2>3 DEF TypeOK, Saved
<1>6. Fates'
  <2>1. \A x \in Ids : Told(Store', x) = Told(Store, x)
    BY <1>1, <1>2
  <2>2. Fates
    BY DEF IInv
  <2>3. QED BY <1>3, <2>1, <2>2 DEF Fates, Told
<1>7. history' = r.history /\ persist' = r.persist /\ pending' = r.pending
  BY DEF Becomes
<1>8. Filed'
  BY <1>3, <1>7, StoreFields DEF IInv, Filed, Keeps
<1>9. \A id \in (given \union IdsOf(history))' : id < nextId'
  BY <1>3, <1>7 DEF IInv
<1>10. NoOrphans
  BY <1>7, StoreFields DEF Keeps, NoOrphans
<1>11. Listed'
  BY <1>7, <1>10, ListedStep DEF IInv
<1>12. QED BY <1>4, <1>5, <1>6, <1>8, <1>9, <1>10, <1>11 DEF IInv

\* The same, of a step that defers no signal.
LEMMA StoreStep ==
  ASSUME IInv, NEW r, Keeps(Store, r), Becomes(r),
         IdsOf(r.history) \subseteq IdsOf(history) \union given,
         r.pending \subseteq pending, UNCHANGED <<environment, ids>>
  PROVE  IInv' /\ NoOrphans
<1>1. /\ UNCHANGED <<environment, suppressed, nextId, given, silenced>>
      /\ unlisted' = unlisted
  BY DEF ids
<1>2. unlisted \subseteq Ids
  BY DEF IInv, TypeOK
<1>3. QED BY <1>1, <1>2, RewriteStep

\* A step of the suppressed ids alone.
LEMMA IdsStep ==
  ASSUME IInv, UNCHANGED <<storeVars, environment>>,
         suppressed' \subseteq Ids, silenced' \subseteq Ids, given' \subseteq Ids,
         unlisted' = unlisted,
         nextId' \in 1..(MaxId + 1), nextId <= nextId',
         \A id \in given' : id \in given \/ id < nextId',
         \A id \in Ids : Holds(id \in suppressed' \union silenced') - Holds(id \in given')
                         = Holds(id \in suppressed \union silenced) - Holds(id \in given)
  PROVE  IInv' /\ NoOrphans
<1>1. /\ live' = live /\ history' = history /\ pending' = pending /\ signals' = signals
      /\ persist' = persist /\ disk' = disk /\ restarts' = restarts /\ durable' = durable
  BY DEF storeVars, environment
<1>2. Store' = Store
  BY <1>1 DEF Store
<1>3. TypeOK'
  BY <1>1 DEF IInv, TypeOK, Saved
<1>4. Sound(Store)'
  BY <1>2 DEF IInv, Sound
<1>5. Filed' /\ Listed'
  <2>1. disk.nextId <= nextId'
    BY NotificationAssumption DEF IInv, TypeOK, Saved, Filed
  <2>2. QED BY <1>1, <2>1 DEF IInv, Filed, Listed
<1>6. Fates'
  <2> SUFFICES ASSUME NEW id \in Ids
               PROVE  Told(Store', id) + Holds(id \in suppressed' \union silenced')
                        = Holds(id \in given')
    BY DEF Fates, Told
  <2>1. Told(Store, id) \in Nat /\ Told(Store', id) = Told(Store, id)
    BY <1>2, FateOf
  <2>2. Told(Store, id) + Holds(id \in suppressed \union silenced) = Holds(id \in given)
    BY DEF IInv, Fates
  <2>3. QED BY <2>1, <2>2 DEF Holds
<1>7. \A id \in given' \union IdsOf(history') : id < nextId'
  <2>1. \A id \in given \union IdsOf(history) : id \in Ids
    BY LiveIds DEF IInv, TypeOK
  <2>2. nextId \in Nat /\ nextId' \in Nat /\ Ids \subseteq Nat
    BY NotificationAssumption DEF IInv, TypeOK, Ids
  <2>3. QED BY <1>1, <2>1, <2>2 DEF IInv
<1>8. QED BY <1>1, <1>3, <1>4, <1>5, <1>6, <1>7 DEF IInv, NoOrphans

-----------------------------------------------------------------------------
(* The steps of Next.                                                      *)

LEMMA InitIInv == Init => IInv
<1> SUFFICES ASSUME Init PROVE IInv
  OBVIOUS
<1>1. /\ live = <<>> /\ history = <<>> /\ pending = {} /\ suppressed = {} /\ nextId = 1
      /\ persist = FALSE /\ disk = [history |-> <<>>, nextId |-> 1] /\ restarts = 0
      /\ given = {} /\ silenced = {} /\ signals = [id \in Ids |-> 0]
      /\ durable = {} /\ unlisted = {}
  BY DEF Init
<1>2. /\ <<>> \in Seq(Notification) /\ <<>> \in Seq(HistoryEntry) /\ Len(<<>>) = 0
      /\ 1 \in 1..(MaxId + 1) /\ 0 \in 0..MaxRestarts
  BY NotificationAssumption, EmptySeq
<1>3. TypeOK
  <2>1. disk \in Saved
    BY <1>1, <1>2 DEF Saved
  <2>2. signals \in [Ids -> Nat] /\ persist \in BOOLEAN
    BY <1>1
  <2>3. Len(history) <= MaxHistory
    BY <1>1, <1>2, NotificationAssumption
  <2>4. QED BY <1>1, <1>2, <2>1, <2>2, <2>3 DEF TypeOK
<1>4. IdsOf(live) = {} /\ IdsOf(history) = {} /\ DOMAIN live = {} /\ DOMAIN history = {}
  BY <1>1 DEF IdsOf
<1>5. Sound(Store)
  BY <1>1, <1>2, <1>4, StoreFields, NotificationAssumption DEF Sound, Distinct
<1>6. Fates
  BY <1>1, <1>4, StoreFields DEF Fates, Told, Holds
<1>7. Filed /\ Listed
  BY <1>1, <1>2, <1>4, NotificationAssumption DEF Filed, Listed, Distinct, IdsOf
<1>8. QED BY <1>1, <1>3, <1>4, <1>5, <1>6, <1>7 DEF IInv

LEMMA ReplaceLiveStep ==
  ASSUME IInv, NEW n \in Notification, NEW filter, ReplaceLive(n, filter)
  PROVE  IInv' /\ NoOrphans
<1> DEFINE placed == [i \in DOMAIN live |-> IF live[i].id = n.id THEN n ELSE live[i]]
           s      == [Store EXCEPT !.live = placed]
           r      == IF SavesHistory(filter, n.transient) THEN UpsertHistory(s, n)
                     ELSE RemoveHistoryEntry(s, n.id)
<1>1. /\ n.id \in IdsOf(live) /\ Becomes(r) /\ UNCHANGED <<environment, ids>>
      /\ n.id \in Ids
  BY DEF ReplaceLive, Notification
<1>2. TypeOK /\ Store \in Stores /\ Sound(Store) /\ live \in Seq(Notification)
  BY StoreTypes DEF IInv, TypeOK
<1>3. /\ DOMAIN live = 1..Len(live) /\ Len(live) \in Nat
      /\ \A i \in DOMAIN live : live[i] \in Notification
  BY <1>2, LenProperties, ElementOfSeq
<1>4. \A i \in DOMAIN live : placed[i] \in Notification /\ placed[i].id = live[i].id
  BY <1>3
<1>5. placed \in Seq(Notification) /\ DOMAIN placed = DOMAIN live
  <2>1. placed \in [1..Len(live) -> Notification]
    BY <1>3, <1>4
  <2>2. QED BY <1>3, <2>1, SeqDef
<1>6. IdsOf(placed) = IdsOf(live)
  BY <1>4, <1>5 DEF IdsOf
<1>7. \A i \in DOMAIN placed :
        IF placed[i].id = n.id THEN placed[i] = n ELSE placed[i] = live[i]
  BY <1>4
<1> HIDE DEF placed, r
<1>8. /\ s \in Stores /\ s.live = placed /\ s.history = history /\ s.pending = pending
      /\ s.signals = signals /\ s.persist = persist
  BY <1>2, <1>5, StoreFields DEF Stores
<1> HIDE DEF s
<1>9. SoundBut(s, n.id)
  <2>1. Distinct(s.live)
    BY <1>2, <1>4, <1>5, <1>8, StoreFields DEF Distinct, Sound
  <2>2. QED BY <1>2, <1>4, <1>5, <1>7, <1>8, <2>1, StoreFields DEF Sound, SoundBut
<1>10. n.id \notin s.pending
  BY <1>1, <1>8, FateOf
<1>11. /\ Keeps(s, r) /\ r.pending \subseteq pending
       /\ IdsOf(r.history) \subseteq IdsOf(history) \union {n.id}
  <2>1. CASE SavesHistory(filter, n.transient)
    <3>1. r = UpsertHistory(s, n)
      BY <2>1 DEF r
    <3>2. \A i \in DOMAIN s.live : s.live[i].id = n.id => s.live[i].actions = n.actions
      BY <1>7, <1>8
    <3>3. QED BY <1>8, <1>9, <1>10, <3>1, <3>2, UpsertHistoryKeeps
  <2>2. CASE ~SavesHistory(filter, n.transient)
    <3>1. r = RemoveHistoryEntry(s, n.id)
      BY <2>2 DEF r
    <3>2. QED BY <1>1, <1>8, <1>9, <3>1, RemoveHistoryEntryKeeps
  <2>3. QED BY <2>1, <2>2
<1>12. Keeps(Store, r)
  <2>1. \A x \in Ids : Told(s, x) = Told(Store, x)
    BY <1>6, <1>8, StoreFields DEF Told
  <2>2. QED BY <1>8, <1>11, <2>1, StoreFields DEF Keeps
<1>13. IdsOf(r.history) \subseteq IdsOf(history) \union given
  BY <1>1, <1>11, FateOf
<1>14. QED BY <1>1, <1>11, <1>12, <1>13, StoreStep

LEMMA CloseDisplayedStep ==
  ASSUME IInv, NEW id \in Ids, NEW reason, NEW later, CloseDisplayed(id, reason, later)
  PROVE  IInv' /\ NoOrphans
<1> DEFINE r == CloseLive(Store, id, reason, later)
<1>1. /\ id \in IdsOf(live) /\ Becomes(r)
      /\ UNCHANGED <<environment, suppressed, nextId, given, silenced>>
      /\ unlisted' = IF reason = "expired" /\ NeverListed(id, later)
                     THEN unlisted \union {id} ELSE unlisted
  BY DEF CloseDisplayed
<1>2. Store \in Stores /\ Sound(Store) /\ unlisted \subseteq Ids
  BY StoreTypes DEF IInv, TypeOK
<1>3. id \in IdsOf(Store.live) /\ id \notin Store.pending /\ id \in given
  BY <1>1, StoreFields, FateOf
<1>4. /\ Keeps(Store, r) /\ IdsOf(r.history) \subseteq IdsOf(history) \union {id}
      /\ r.pending \subseteq pending \union {id}
      /\ reason # "expired" => r.pending \subseteq pending
      /\ reason = "expired" /\ SavesWhenClosed(later, Entry(live, id))
           => id \in IdsOf(r.history)
      /\ reason = "expired" /\ id \in IdsOf(history) => id \in IdsOf(r.history)
  BY <1>2, <1>3, StoreFields, CloseLiveKeeps
<1> HIDE DEF r
<1>5. unlisted \subseteq unlisted' /\ unlisted' \subseteq Ids
  BY <1>1, <1>2
<1>6. r.pending \subseteq pending \union IdsOf(r.history) \union unlisted'
  <2>1. CASE reason = "expired" /\ NeverListed(id, later)
    BY <1>1, <1>4, <2>1
  <2>2. CASE reason = "expired" /\ ~NeverListed(id, later)
    BY <1>4, <2>2 DEF NeverListed
  <2>3. CASE reason # "expired"
    BY <1>4, <2>3
  <2>4. QED BY <2>1, <2>2, <2>3
<1>7. QED BY <1>1, <1>3, <1>4, <1>5, <1>6, RewriteStep

LEMMA RemoveFromTabStep ==
  ASSUME IInv, NEW id \in Ids, NEW later, RemoveFromTab(id, later)
  PROVE  IInv' /\ NoOrphans
<1> DEFINE m == IF id \in IdsOf(live) THEN CloseLive(Store, id, "dismissed", later) ELSE Store
           r == RemoveHistoryEntry(m, id)
<1>1. id \in IdsOf(history) /\ Becomes(r) /\ UNCHANGED <<environment, ids>>
  BY DEF RemoveFromTab
<1>2. Store \in Stores /\ Sound(Store)
  BY StoreTypes DEF IInv
<1>3. /\ Keeps(Store, m) /\ IdsOf(m.history) \subseteq IdsOf(history) \union {id}
      /\ m.pending \subseteq pending
  <2>1. CASE id \in IdsOf(live)
    <3>1. id \in IdsOf(Store.live) /\ id \notin Store.pending
      BY <2>1, StoreFields, FateOf
    <3>2. m = CloseLive(Store, id, "dismissed", later)
      BY <2>1
    <3>3. QED BY <1>2, <3>1, <3>2, StoreFields, CloseLiveKeeps
  <2>2. CASE id \notin IdsOf(live)
    <3>1. m = Store
      BY <2>2
    <3>2. QED BY <1>2, <3>1, StoreFields DEF Keeps
  <2>3. QED BY <2>1, <2>2
<1> HIDE DEF m
<1>4. m \in Stores /\ SoundBut(m, id)
  BY <1>3 DEF Keeps, Sound, SoundBut
<1>5. /\ Keeps(m, r) /\ r.pending \subseteq m.pending
      /\ IdsOf(r.history) = IdsOf(m.history) \ {id}
  BY <1>4, RemoveHistoryEntryKeeps
<1> HIDE DEF r
<1>6. Keeps(Store, r)
  BY <1>3, <1>5, KeepsTransitive
<1>7. QED BY <1>1, <1>3, <1>5, <1>6, StoreStep

LEMMA ClosePendingStep ==
  ASSUME IInv, NEW id \in Ids, ClosePending(id)
  PROVE  IInv' /\ NoOrphans
<1> DEFINE m == EmitPending(Store, id)
           r == RemoveHistoryEntry(m, id)
<1>1. Becomes(r) /\ UNCHANGED <<environment, ids>>
  BY DEF ClosePending
<1>2. Store \in Stores /\ Sound(Store)
  BY StoreTypes DEF IInv
<1>3. /\ Keeps(Store, m) /\ Sound(m) /\ m.history = history /\ m \in Stores
      /\ m.pending \subseteq pending
  BY <1>2, StoreFields, EmitPendingSound, EmitPendingKeeps
<1> HIDE DEF m
<1>4. SoundBut(m, id)
  BY <1>3 DEF Sound, SoundBut
<1>5. /\ Keeps(m, r) /\ r.pending \subseteq m.pending
      /\ IdsOf(r.history) = IdsOf(m.history) \ {id}
  BY <1>3, <1>4, RemoveHistoryEntryKeeps
<1> HIDE DEF r
<1>6. Keeps(Store, r)
  BY <1>3, <1>5, KeepsTransitive
<1>7. QED BY <1>1, <1>3, <1>5, <1>6, StoreStep

LEMMA InvokeFromHistoryStep ==
  ASSUME IInv, NEW id \in Ids, InvokeFromHistory(id)
  PROVE  IInv' /\ NoOrphans
<1> DEFINE Used(e) == IF e.id = id THEN [e EXCEPT !.actions = FALSE] ELSE e
           m       == EmitPending(Store, id)
           h       == [i \in DOMAIN history |-> Used(history[i])]
           r       == [m EXCEPT !.history = h, !.persist = TRUE]
<1>1. TypeOK /\ Store \in Stores /\ Sound(Store) /\ id \in pending
  BY StoreTypes DEF IInv, InvokeFromHistory
<1>2. /\ m \in Stores /\ m.live = live /\ m.history = history /\ m.pending = pending \ {id}
      /\ \A x \in Ids : Told(m, x) = Told(Store, x)
  BY <1>1, StoreFields, EmitPendingKeeps
<1>3. Becomes([m EXCEPT !.history = [i \in DOMAIN @ |-> Used(@[i])], !.persist = TRUE])
  BY DEF InvokeFromHistory
<1> HIDE DEF m
<1>4. Becomes(r) /\ UNCHANGED <<environment, ids>>
  BY <1>2, <1>3 DEF InvokeFromHistory, Stores
<1>5. /\ history \in Seq(HistoryEntry) /\ DOMAIN history = 1..Len(history)
      /\ Len(history) \in Nat /\ \A i \in DOMAIN history : history[i] \in HistoryEntry
  BY <1>1, LenProperties, ElementOfSeq DEF TypeOK
<1>6. \A i \in DOMAIN history :
        /\ h[i] \in HistoryEntry /\ h[i].id = history[i].id
        /\ history[i].id # id => h[i] = history[i]
  BY <1>5 DEF HistoryEntry
<1>7. h \in Seq(HistoryEntry) /\ DOMAIN h = DOMAIN history /\ Len(h) = Len(history)
  <2>1. h \in [1..Len(history) -> HistoryEntry]
    BY <1>5, <1>6
  <2>2. h \in Seq(HistoryEntry)
    BY <1>5, <2>1, SeqDef
  <2>3. DOMAIN h = 1..Len(h) /\ Len(h) \in Nat /\ DOMAIN h = 1..Len(history)
    BY <1>5, <2>2, LenProperties
  <2>4. QED BY <1>5, <2>2, <2>3
<1>8. IdsOf(h) = IdsOf(history)
  BY <1>6, <1>7 DEF IdsOf
<1> HIDE DEF h
<1>9. /\ r \in Stores /\ r.live = live /\ r.history = h /\ r.persist = TRUE
      /\ r.pending = m.pending /\ \A x \in Ids : Told(r, x) = Told(m, x)
  BY <1>2, <1>7 DEF Stores, Told
<1> HIDE DEF r
<1>10. Distinct(h) /\ Len(h) <= MaxHistory
  BY <1>1, <1>6, <1>7, StoreFields DEF Sound, Distinct
<1>11. SoundBut(Store, id)
  BY <1>1 DEF Sound, SoundBut
<1>12. \A k \in DOMAIN live : live[k].id # id
  BY <1>1, FateOf DEF IdsOf
<1>13. \A i \in DOMAIN r.history :
         \/ /\ r.history[i].id # id
            /\ \E j \in DOMAIN Store.history : r.history[i] = Store.history[j]
         \/ /\ \A k \in DOMAIN Store.live :
                 Store.live[k].id = r.history[i].id
                   => Store.live[k].actions = r.history[i].actions
            /\ r.history[i].id \in r.pending => r.history[i].actions
  BY <1>2, <1>6, <1>7, <1>9, <1>12, StoreFields
<1>14. Sound(r)
  BY <1>1, <1>2, <1>9, <1>10, <1>11, <1>13, StoreFields, FitsSound
<1>15. Keeps(Store, r)
  BY <1>2, <1>8, <1>9, <1>14, StoreFields DEF Keeps
<1>16. QED BY <1>2, <1>4, <1>8, <1>9, <1>15, StoreStep

LEMMA ClearHistoryStep ==
  ASSUME IInv, ClearHistory
  PROVE  IInv' /\ NoOrphans
<1> DEFINE over == pending \intersect IdsOf(history)
           told == [id \in Ids |-> IF id \in over THEN signals[id] + 1 ELSE signals[id]]
           r    == [live |-> live, history |-> <<>>, pending |-> pending \ over,
                    signals |-> told, persist |-> TRUE]
<1>1. Becomes(r) /\ UNCHANGED <<environment, ids>>
  BY DEF ClearHistory, Becomes
<1>2. TypeOK /\ Store \in Stores /\ Sound(Store)
  BY StoreTypes DEF IInv
<1>3. <<>> \in Seq(HistoryEntry) /\ Len(<<>>) = 0
  BY EmptySeq
<1>4. told \in [Ids -> Nat]
  BY <1>2 DEF TypeOK
<1>5. r \in Stores
  BY <1>2, <1>3, <1>4 DEF TypeOK, Stores
<1>6. Sound(r)
  BY <1>2, <1>3, NotificationAssumption, StoreFields DEF Sound, Distinct
<1>7. \A x \in Ids : Told(r, x) = Told(Store, x)
  <2> SUFFICES ASSUME NEW x \in Ids PROVE Told(r, x) = Told(Store, x)
    OBVIOUS
  <2>1. signals[x] \in Nat
    BY <1>2 DEF TypeOK
  <2>2. CASE x \in over
    <3>1. told[x] = signals[x] + 1 /\ x \in pending /\ x \notin pending \ over
      BY <2>2
    <3>2. QED BY <2>1, <3>1, StoreFields DEF Told, Holds
  <2>3. CASE x \notin over
    <3>1. told[x] = signals[x] /\ (x \in pending <=> x \in pending \ over)
      BY <2>3
    <3>2. QED BY <2>1, <3>1, StoreFields DEF Told, Holds
  <2>4. QED BY <2>2, <2>3
<1>8. Keeps(Store, r)
  BY <1>5, <1>6, <1>7, StoreFields DEF Keeps
<1>9. IdsOf(r.history) = {} /\ r.pending \subseteq pending
  BY DEF IdsOf
<1> HIDE DEF r
<1>10. QED BY <1>1, <1>8, <1>9, StoreStep

LEMMA SuppressNewStep ==
  ASSUME IInv, NEW filter, NEW transient, SuppressNew(filter, transient)
  PROVE  IInv' /\ NoOrphans
<1>1. /\ nextId \in Ids /\ nextId + 1 \in 1..(MaxId + 1) /\ nextId <= nextId + 1
  BY NotificationAssumption DEF IInv, TypeOK, SuppressNew, Ids
<1>2. /\ nextId' = nextId + 1 /\ suppressed' = suppressed \union {nextId}
      /\ given' = given \union {nextId} /\ silenced' = silenced
      /\ UNCHANGED <<storeVars, environment>> /\ unlisted' = unlisted
  BY DEF SuppressNew
<1>3. suppressed' \subseteq Ids /\ silenced' \subseteq Ids /\ given' \subseteq Ids
  BY <1>1, <1>2 DEF IInv, TypeOK
<1>4. nextId \notin given
  BY <1>1 DEF IInv, Ids
<1>5. \A id \in Ids : Holds(id \in suppressed' \union silenced') - Holds(id \in given')
                       = Holds(id \in suppressed \union silenced) - Holds(id \in given)
  <2>1. nextId \notin suppressed \union silenced
    BY <1>1, <1>4, FateOf
  <2>2. QED BY <1>2, <1>4, <2>1 DEF Holds
<1>6. \A id \in given' : id \in given \/ id < nextId'
  BY <1>1, <1>2 DEF Ids
<1>7. QED BY <1>1, <1>2, <1>3, <1>5, <1>6, IdsStep

\* Forgetting a suppressed id changes nothing of its fate.
LEMMA ForgetSuppressedKeeps ==
  ASSUME TypeOK, NEW replaced, ForgetSuppressed(replaced)
  PROVE  /\ suppressed' \subseteq Ids /\ silenced' \subseteq Ids
         /\ suppressed' \union silenced' = suppressed \union silenced
BY DEF TypeOK, ForgetSuppressed

LEMMA ForgetStep ==
  ASSUME IInv, NEW replaced, ForgetSuppressed(replaced),
         UNCHANGED <<storeVars, environment, nextId, given, unlisted>>
  PROVE  IInv' /\ NoOrphans
<1>1. /\ nextId' = nextId /\ given' = given /\ nextId \in 1..(MaxId + 1)
      /\ given \subseteq Ids /\ UNCHANGED <<storeVars, environment>> /\ nextId <= nextId
  BY NotificationAssumption DEF IInv, TypeOK
<1>2. /\ suppressed' \subseteq Ids /\ silenced' \subseteq Ids
      /\ suppressed' \union silenced' = suppressed \union silenced
  BY ForgetSuppressedKeeps DEF IInv
<1>3. QED BY <1>1, <1>2, IdsStep

LEMMA AddNewStep ==
  ASSUME IInv, NEW content \in Contents, NEW transient \in BOOLEAN, NEW actions \in BOOLEAN,
         NEW replaced, NEW filter, AddNew(content, transient, actions, replaced, filter)
  PROVE  IInv' /\ NoOrphans
<1> DEFINE n == [id |-> nextId, content |-> content, transient |-> transient,
                 actions |-> actions]
           s == [Store EXCEPT !.live = Append(@, n)]
           r == IF SavesHistory(filter, transient) THEN UpsertHistory(s, n) ELSE s
           l == Append(live, n)
<1>1. /\ nextId' = nextId + 1 /\ given' = given \union {nextId} /\ disk' = disk
      /\ restarts' = restarts /\ durable' = durable /\ unlisted' = unlisted
      /\ ForgetSuppressed(replaced) /\ Becomes(r) /\ nextId <= MaxId
  BY DEF AddNew, environment
<1>2. TypeOK /\ Store \in Stores /\ Sound(Store) /\ live \in Seq(Notification)
  BY StoreTypes DEF IInv, TypeOK
<1>3. nextId \in Ids /\ nextId + 1 \in 1..(MaxId + 1) /\ n \in Notification /\ n.id = nextId
  BY <1>1, <1>2, NotificationAssumption DEF TypeOK, Ids, Notification
<1>4. /\ nextId \notin given /\ nextId \notin IdsOf(live) /\ nextId \notin pending
      /\ nextId \notin IdsOf(history) /\ nextId \notin suppressed \union silenced
  <2>1. nextId \notin given /\ nextId \notin IdsOf(history)
    BY <1>3 DEF IInv, Ids
  <2>2. QED BY <1>3, <2>1, FateOf
<1>5. /\ l \in Seq(Notification) /\ IdsOf(l) = IdsOf(live) \union {nextId} /\ Distinct(l)
      /\ \A i \in DOMAIN l : l[i] = n \/ \E j \in DOMAIN live : l[i] = live[j]
  <2>1. Distinct(live)
    BY <1>2, StoreFields DEF Sound
  <2> HIDE DEF n
  <2>2. QED BY <1>2, <1>3, <1>4, <2>1, AppendIs
<1> HIDE DEF n, l, r
<1>6. /\ s \in Stores /\ s.live = l /\ s.history = history /\ s.pending = pending
      /\ s.signals = signals /\ s.persist = persist
  BY <1>2, <1>5, StoreFields DEF Stores, l
<1> HIDE DEF s
<1>7. Sound(s)
  <2>1. Distinct(s.history) /\ Len(s.history) <= MaxHistory
    BY <1>2, <1>6, StoreFields DEF Sound
  <2>2. ASSUME NEW i \in DOMAIN s.live, NEW j \in DOMAIN s.history,
               s.live[i].id = s.history[j].id
        PROVE  s.live[i].actions = s.history[j].actions
    <3>1. s.history[j].id \in IdsOf(history)
      BY <1>6 DEF IdsOf
    <3>2. l[i] # n
      BY <1>3, <1>4, <1>6, <2>2, <3>1
    <3>3. PICK k \in DOMAIN live : l[i] = live[k]
      BY <1>5, <1>6, <3>2
    <3>4. QED BY <1>2, <1>6, <2>2, <3>3, StoreFields DEF Sound
  <2>3. ASSUME NEW j \in DOMAIN s.history, s.history[j].id \in s.pending
        PROVE  s.history[j].actions
    BY <1>2, <1>6, <2>3, StoreFields DEF Sound
  <2>4. QED BY <1>5, <1>6, <2>1, <2>2, <2>3 DEF Sound
<1>8. /\ Keeps(s, r) /\ r.pending \subseteq pending
      /\ IdsOf(r.history) \subseteq IdsOf(history) \union {nextId}
  <2>1. CASE SavesHistory(filter, transient)
    <3>1. r = UpsertHistory(s, n)
      BY <2>1 DEF r
    <3>2. SoundBut(s, n.id)
      BY <1>7 DEF Sound, SoundBut
    <3>3. \A i \in DOMAIN s.live : s.live[i].id = n.id => s.live[i].actions = n.actions
      <4>1. \A j \in DOMAIN live : live[j].id # n.id
        BY <1>3, <1>4 DEF IdsOf
      <4>2. QED BY <1>5, <1>6, <4>1
    <3>4. QED BY <1>3, <1>4, <1>6, <3>1, <3>2, <3>3, UpsertHistoryKeeps
  <2>2. CASE ~SavesHistory(filter, transient)
    <3>1. r = s
      BY <2>2 DEF r
    <3>2. QED BY <1>6, <1>7, <3>1 DEF Keeps
  <2>3. QED BY <2>1, <2>2
<1>9. /\ r \in Stores /\ Sound(r) /\ \A x \in Ids : Told(r, x) = Told(s, x)
      /\ r.persist \/ (r.history = history /\ r.persist = persist)
      /\ \A x \in IdsOf(history) \ IdsOf(r.history) : x \notin r.pending
  BY <1>6, <1>8 DEF Keeps
<1>10. Store' = r
  BY <1>1, <1>9, NextStore
<1>11. /\ live' = r.live /\ history' = r.history /\ pending' = r.pending
       /\ signals' = r.signals /\ persist' = r.persist
  BY <1>1 DEF Becomes
<1>12. /\ suppressed' \subseteq Ids /\ silenced' \subseteq Ids
       /\ suppressed' \union silenced' = suppressed \union silenced
  BY <1>1, <1>2, ForgetSuppressedKeeps
<1>13. TypeOK'
  <2>1. /\ r.live \in Seq(Notification) /\ r.history \in Seq(HistoryEntry)
        /\ r.pending \subseteq Ids /\ r.signals \in [Ids -> Nat] /\ r.persist \in BOOLEAN
        /\ Len(r.history) <= MaxHistory
    BY <1>9, StoresAre DEF Sound
  <2>2. given' \subseteq Ids /\ disk' \in Saved
    BY <1>1, <1>2, <1>3 DEF TypeOK
  <2>3. QED BY <1>1, <1>2, <1>3, <1>11, <1>12, <2>1, <2>2 DEF TypeOK, Saved
<1>14. Sound(Store)'
  BY <1>9, <1>10 DEF Sound
<1>15. Fates'
  <2> SUFFICES ASSUME NEW x \in Ids
               PROVE  Told(Store', x) + Holds(x \in suppressed' \union silenced')
                        = Holds(x \in given')
    BY DEF Fates, Told
  <2>1. Told(Store', x) = Told(s, x)
    BY <1>9, <1>10
  <2>2. Told(Store, x) + Holds(x \in suppressed \union silenced) = Holds(x \in given)
    BY DEF IInv, Fates
  <2>3. signals[x] \in Nat
    BY <1>2 DEF TypeOK
  <2>4. CASE x = nextId
    <3>1. Told(Store, x) = 0
      BY <1>4, <2>4, FateOf
    <3>2. Told(s, x) = 1
      BY <1>4, <1>5, <1>6, <2>3, <2>4, <3>1, StoreFields DEF Told, Holds
    <3>3. QED BY <1>1, <1>4, <1>12, <2>1, <2>4, <3>2 DEF Holds
  <2>5. CASE x # nextId
    <3>1. Told(s, x) = Told(Store, x)
      BY <1>5, <1>6, <2>5, StoreFields DEF Told
    <3>2. x \in given' <=> x \in given
      BY <1>1, <2>5
    <3>3. QED BY <1>12, <2>1, <2>2, <3>1, <3>2
  <2>6. QED BY <2>4, <2>5
<1>16. Filed'
  <2>1. disk.nextId <= nextId'
    BY <1>1, NotificationAssumption DEF IInv, TypeOK, Saved, Filed
  <2>2. QED BY <1>1, <1>9, <1>11, <2>1 DEF IInv, Filed
<1>17. \A id \in (given \union IdsOf(history))' : id < nextId'
  <2>1. \A id \in given \union IdsOf(history) : id \in Ids /\ id < nextId
    BY <1>2, LiveIds DEF IInv, TypeOK
  <2>2. (given \union IdsOf(history))' \subseteq given \union IdsOf(history) \union {nextId}
    BY <1>1, <1>8, <1>11
  <2>3. QED BY <1>1, <1>3, <2>1, <2>2 DEF Ids
<1>18. NoOrphans
  BY <1>9, <1>11 DEF NoOrphans
<1>19. Listed'
  BY <1>1, <1>8, <1>11, <1>18, ListedStep DEF IInv
<1>20. QED BY <1>13, <1>14, <1>15, <1>16, <1>17, <1>18, <1>19 DEF IInv

\* The next id is above all that the file answers for.
LEMMA EarlierIds == IInv => \A id \in durable : id < nextId
<1> SUFFICES ASSUME IInv, NEW id \in durable PROVE id < nextId
  OBVIOUS
<1>1. id \in Nat /\ disk.nextId \in Nat /\ nextId \in Nat
  BY NotificationAssumption DEF IInv, TypeOK, Saved, Ids
<1>2. id < disk.nextId /\ disk.nextId <= nextId
  BY DEF IInv, Filed
<1>3. QED BY <1>1, <1>2

LEMMA PersistHistoryStep ==
  ASSUME IInv, PersistHistory
  PROVE  IInv' /\ NoOrphans
<1>1. /\ live' = live /\ history' = history /\ pending' = pending /\ signals' = signals
      /\ persist' = FALSE /\ disk' = [history |-> history, nextId |-> nextId]
      /\ restarts' = restarts /\ durable' = durable \union given /\ UNCHANGED ids
  BY DEF PersistHistory
<1>2. /\ suppressed' = suppressed /\ nextId' = nextId /\ given' = given
      /\ silenced' = silenced /\ unlisted' = unlisted
  BY <1>1 DEF ids
<1>3. TypeOK /\ Sound(Store) /\ Fates
  BY DEF IInv
<1>4. TypeOK'
  <2>1. disk' \in Saved
    BY <1>1, <1>3 DEF TypeOK, Saved
  <2>2. QED BY <1>1, <1>2, <1>3, <2>1 DEF TypeOK, Saved
<1>5. /\ Store'.live = Store.live /\ Store'.history = Store.history
      /\ Store'.pending = Store.pending /\ Store'.signals = Store.signals
  BY <1>1 DEF Store
<1>6. Sound(Store)'
  BY <1>3, <1>5 DEF Sound
<1>7. Fates'
  BY <1>2, <1>3, <1>5 DEF Fates, Told
<1>8. Filed'
  <2>1. disk'.history = history /\ disk'.nextId = nextId
    BY <1>1
  <2>2. \A id \in IdsOf(history) \union durable' : id < nextId
    BY <1>1, EarlierIds DEF IInv
  <2>3. nextId <= nextId
    BY NotificationAssumption DEF IInv, TypeOK
  <2>4. QED BY <1>1, <1>2, <1>3, <2>1, <2>2, <2>3, StoreFields DEF Filed, Sound
<1>9. \A id \in (given \union IdsOf(history))' : id < nextId'
  BY <1>1, <1>2 DEF IInv
<1>10. Listed'
  BY <1>1, <1>2 DEF IInv, Listed
<1>11. QED BY <1>1, <1>4, <1>6, <1>7, <1>8, <1>9, <1>10 DEF IInv, NoOrphans

LEMMA RestartStep ==
  ASSUME IInv, NEW saved \in Saved, Distinct(saved.history), Len(saved.history) <= MaxHistory,
         \A id \in IdsOf(saved.history) \union durable' : id < saved.nextId,
         durable' \subseteq Ids, Restart(saved)
  PROVE  IInv' /\ NoOrphans
<1>1. /\ disk' = saved /\ history' = saved.history /\ live' = <<>> /\ pending' = {}
      /\ suppressed' = {} /\ persist' = FALSE /\ given' = {} /\ silenced' = {}
      /\ unlisted' = {} /\ signals' = [id \in Ids |-> 0]
      /\ restarts < MaxRestarts /\ restarts' = restarts + 1
      /\ \A id \in IdsOf(saved.history) : id < nextId'
  BY DEF Restart
<1>2. nextId' = saved.nextId
  <2>1. /\ nextId' \in {saved.nextId} \union {id + 1 : id \in IdsOf(saved.history)}
        /\ saved.nextId <= nextId'
    BY DEF Restart
  <2>2. saved.history \in Seq(HistoryEntry) /\ saved.nextId \in 1..(MaxId + 1)
    BY DEF Saved
  <2>3. IdsOf(saved.history) \subseteq Ids
    <3>1. \A i \in DOMAIN saved.history : saved.history[i] \in HistoryEntry
      BY <2>2, LenProperties, ElementOfSeq
    <3>2. QED BY <3>1 DEF IdsOf, HistoryEntry
  <2>4. \A id \in IdsOf(saved.history) : id + 1 <= saved.nextId /\ id \in Nat
    BY <2>2, <2>3, NotificationAssumption DEF Ids
  <2>5. QED BY <2>1, <2>2, <2>4, NotificationAssumption
<1>3. TypeOK'
  <2>1. <<>> \in Seq(Notification) /\ saved.history \in Seq(HistoryEntry)
        /\ saved.nextId \in 1..(MaxId + 1)
    BY EmptySeq DEF Saved
  <2>2. restarts' \in 0..MaxRestarts
    BY <1>1, NotificationAssumption DEF IInv, TypeOK
  <2>3. signals' \in [Ids -> Nat]
    BY <1>1
  <2>4. QED BY <1>1, <1>2, <2>1, <2>2, <2>3 DEF TypeOK, Saved
<1>4. Store'.live = <<>> /\ Store'.history = saved.history /\ Store'.pending = {}
      /\ Store'.signals = [id \in Ids |-> 0]
  BY <1>1 DEF Store
<1>5. Sound(Store)'
  BY <1>4 DEF Sound, Distinct
<1>6. Fates'
  <2>1. IdsOf(<<>>) = {}
    BY DEF IdsOf
  <2>2. QED BY <1>1, <1>4, <2>1 DEF Fates, Told, Holds
<1>7. Filed' /\ Listed'
  <2>1. saved.nextId <= saved.nextId
    BY NotificationAssumption DEF Saved
  <2>2. QED BY <1>1, <1>2, <2>1 DEF Filed, Listed
<1>8. \A id \in (given \union IdsOf(history))' : id < nextId'
  BY <1>1, <1>2
<1>9. QED BY <1>1, <1>3, <1>5, <1>6, <1>7, <1>8 DEF IInv, NoOrphans

LEMMA NextStep == IInv /\ [Next]_vars => IInv' /\ (NoOrphans \/ UNCHANGED vars)
<1> SUFFICES ASSUME IInv, [Next]_vars PROVE IInv' /\ (NoOrphans \/ UNCHANGED vars)
  OBVIOUS
<1>1. ASSUME NEW filter \in Filters, NEW n \in Notification, ReplaceLive(n, filter)
      PROVE  IInv' /\ NoOrphans
  BY <1>1, ReplaceLiveStep
<1>2. ASSUME NEW filter \in Filters, NEW transient \in BOOLEAN, SuppressNew(filter, transient)
      PROVE  IInv' /\ NoOrphans
  BY <1>2, SuppressNewStep
<1>3. ASSUME NEW filter \in Filters, NEW transient \in BOOLEAN, NEW content \in Contents,
             NEW replaced, IgnoreDuplicate(content, transient, replaced, filter)
      PROVE  IInv' /\ NoOrphans
  <2>1. /\ ForgetSuppressed(replaced)
        /\ UNCHANGED <<storeVars, environment, nextId, given, unlisted>>
    BY <1>3 DEF IgnoreDuplicate
  <2>2. QED BY <2>1, ForgetStep
<1>4. ASSUME NEW filter \in Filters, NEW transient \in BOOLEAN, NEW content \in Contents,
             NEW replaced, NEW actions \in BOOLEAN,
             AddNew(content, transient, actions, replaced, filter)
      PROVE  IInv' /\ NoOrphans
  BY <1>4, AddNewStep
<1>5. ASSUME NEW id \in Ids, NEW later, NEW reason, CloseDisplayed(id, reason, later)
      PROVE  IInv' /\ NoOrphans
  BY <1>5, CloseDisplayedStep
<1>6. ASSUME NEW id \in Ids, NEW later, RemoveFromTab(id, later)
      PROVE  IInv' /\ NoOrphans
  BY <1>6, RemoveFromTabStep
<1>7. ASSUME NEW id \in Ids, CloseSuppressed(id)
      PROVE  IInv' /\ NoOrphans
  <2>1. /\ ForgetSuppressed(id)
        /\ UNCHANGED <<storeVars, environment, nextId, given, unlisted>>
    BY <1>7 DEF CloseSuppressed
  <2>2. QED BY <2>1, ForgetStep
<1>8. ASSUME NEW id \in Ids, ClosePending(id)
      PROVE  IInv' /\ NoOrphans
  BY <1>8, ClosePendingStep
<1>9. ASSUME NEW id \in Ids, InvokeFromHistory(id)
      PROVE  IInv' /\ NoOrphans
  BY <1>9, InvokeFromHistoryStep
<1>10. CASE ClearHistory
  BY <1>10, ClearHistoryStep
<1>11. CASE PersistHistory
  BY <1>11, PersistHistoryStep
<1>12. CASE Crash
  <2>1. Restart(disk) /\ durable' = durable
    BY <1>12 DEF Crash
  <2>2. /\ disk \in Saved /\ Distinct(disk.history) /\ Len(disk.history) <= MaxHistory
        /\ \A id \in IdsOf(disk.history) \union durable' : id < disk.nextId
        /\ durable' \subseteq Ids
    BY <2>1 DEF IInv, TypeOK, Filed
  <2>3. QED BY <2>1, <2>2, RestartStep
<1>13. CASE Quit
  <2> DEFINE saved == [history |-> history, nextId |-> nextId]
  <2>1. Restart(saved) /\ durable' = durable \union given
    BY <1>13 DEF Quit
  <2>2. /\ saved \in Saved /\ Distinct(saved.history) /\ Len(saved.history) <= MaxHistory
        /\ durable' \subseteq Ids
    BY <2>1, StoreFields DEF IInv, TypeOK, Saved, Sound
  <2>3. \A id \in IdsOf(saved.history) \union durable' : id < saved.nextId
    BY <2>1, EarlierIds DEF IInv
  <2> HIDE DEF saved
  <2>4. QED BY <2>1, <2>2, <2>3, RestartStep
<1>14. CASE UNCHANGED vars
  <2>1. /\ UNCHANGED <<live, history, pending, signals, persist>> /\ UNCHANGED <<disk, restarts>>
        /\ UNCHANGED <<suppressed, nextId, given, silenced, durable, unlisted>>
    BY <1>14 DEF vars, storeVars, environment, ids
  <2>2. Store' = Store
    BY <2>1 DEF Store
  <2>3. TypeOK' /\ Sound(Store)' /\ Fates' /\ Filed' /\ Listed'
    BY <2>1, <2>2 DEF IInv, TypeOK, Saved, Sound, Fates, Told, Filed, Listed
  <2>4. QED BY <1>14, <2>1, <2>3 DEF IInv
<1>15. QED
  BY <1>1, <1>2, <1>3, <1>4, <1>5, <1>6, <1>7, <1>8, <1>9, <1>10, <1>11, <1>12, <1>13, <1>14
  DEF Next

-----------------------------------------------------------------------------
(* The theorems.                                                           *)

LEMMA Invariance == Spec => []IInv
<1>1. IInv /\ [Next]_vars => IInv'
  BY NextStep
<1>2. QED BY InitIInv, <1>1, PTL DEF Spec

\* Every field keeps its type, and the history its limit.
THEOREM TypeCorrect == Spec => []TypeOK
<1>1. IInv => TypeOK
  BY DEF IInv
<1>2. QED BY Invariance, <1>1, PTL

\* No id handed out before a save comes back after a crash, and no change of the history goes
\* unsaved.
THEOREM SafeAfterRestart == Spec => []RestartSafe
<1>1. IInv => RestartSafe
  <2> SUFFICES ASSUME IInv PROVE RestartSafe
    OBVIOUS
  <2>1. Distinct(live) /\ Distinct(history) /\ Filed
    BY StoreFields DEF IInv, Sound
  <2>2. ASSUME NEW id \in IdsOf(live) \union IdsOf(history) \union pending \union suppressed
        PROVE  id < nextId
    <3>1. id \in Ids
      BY LiveIds DEF IInv, TypeOK
    <3>2. id \in given \union IdsOf(history)
      BY <3>1, FateOf
    <3>3. QED BY <3>2 DEF IInv
  <2>3. \A id \in durable : id < nextId
    BY EarlierIds
  <2>4. QED BY <2>1, <2>2, <2>3 DEF Filed, RestartSafe, IdsNeverReused, HistorySaved
<1>2. QED BY Invariance, <1>1, PTL

\* Every id handed out has exactly one fate, and a deferred one has an entry in the history
\* from which the user can still bring it about, but for an id that expired without one.
THEOREM EveryClientAnswered == Spec => []ClientsAreAnswered
<1>1. IInv => ClientsAreAnswered
  <2> SUFFICES ASSUME IInv PROVE ClientsAreAnswered
    OBVIOUS
  <2>1. ASSUME NEW id \in given
        PROVE  signals[id] + Holds(id \in IdsOf(live)) + Holds(id \in pending)
                 + Holds(id \in suppressed \union silenced) = 1
    <3>1. id \in Ids
      BY DEF IInv, TypeOK
    <3>2. Told(Store, id) + Holds(id \in suppressed \union silenced) = 1
      BY <3>1 DEF IInv, Fates, Holds
    <3>3. Told(Store, id) = signals[id] + Holds(id \in IdsOf(live)) + Holds(id \in pending)
      BY StoreFields DEF Told
    <3>4. QED BY <3>2, <3>3
  <2>2. OneFate
    BY <2>1 DEF OneFate, Holds
  <2>3. DeferredIsActionable
    <3> SUFFICES ASSUME NEW id \in pending \ unlisted
                 PROVE  \E i \in DOMAIN history : history[i].id = id /\ history[i].actions
      BY DEF DeferredIsActionable
    <3>1. PICK i \in DOMAIN history : history[i].id = id
      BY DEF IInv, Listed, IdsOf
    <3>2. QED BY <3>1, StoreFields DEF IInv, Sound
  <2>4. QED BY <2>2, <2>3 DEF ClientsAreAnswered
<1>2. QED BY Invariance, <1>1, PTL

\* An entry that leaves the history takes its deferred signal with it.
THEOREM NoSignalOrphaned == Spec => DeferredNotOrphaned
<1>1. IInv /\ [Next]_vars =>
        [\A id \in IdsOf(history) \ IdsOf(history') : id \notin pending']_vars
  BY NextStep DEF NoOrphans
<1>2. QED BY Invariance, <1>1, PTL DEF Spec, DeferredNotOrphaned

================================================================================
