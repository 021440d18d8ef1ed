----------------------------- MODULE ScriptRuntime -----------------------------
(***************************************************************************)
(* One plugin runtime (scripting/script_runtime.cpp) with its service host *)
(* (plugin_service_host.cpp), the shared workers (script_worker_pool.cpp)  *)
(* and the watchers of the plugins' state (plugin_state_store.cpp).        *)
(*                                                                         *)
(* Any thread may enqueue an event; whichever worker takes the drain runs  *)
(* the virtual machine, the "host", without a lock; results go back to the *)
(* main loop through the deferred calls. A step is a stretch of code       *)
(* between two acquisitions of the runtime's mutex. Time is abstract: an   *)
(* update that is throttled is one that does not come, and an entry may    *)
(* have left the windows of the health counters.                           *)
(***************************************************************************)
EXTENDS Naturals, Sequences, FiniteSets

CONSTANTS
  Workers,          \* number of threads of the pool
  Scripts,          \* what a script does when it is loaded, see Script
  MaxQueue,         \* kMaxQueuedEvents
  MaxConsecutive,   \* kMaxConsecutiveTimeouts
  MaxTimeouts,      \* kMaxTimeoutsPerWindow
  MaxErrors,        \* kMaxHardErrorsPerWindow
  MaxReloads,       \* bound: loads of the script
  MaxStamp,         \* bound: events accepted
  MaxSettings       \* bound: changes of the settings

\* watches: it watches a state key; runs: it runs a command; handles: it has onConfigChanged.
Script == [watches : BOOLEAN, runs : BOOLEAN, handles : BOOLEAN]

ASSUME ScriptAssumption ==
  /\ Scripts \subseteq Script
  /\ {Workers, MaxQueue, MaxConsecutive, MaxTimeouts, MaxErrors} \subseteq Nat \ {0}
  /\ {MaxReloads, MaxStamp, MaxSettings} \subseteq Nat

VARIABLES
  queue, generation, scheduled, stopping, stopped, updateQueued, updateRunning, unhealthy,
  consecutive, timeouts, errors,   \* consecutiveTimeouts, timeoutHistory, errorHistory
  pool,             \* drains posted to the workers
  worker,           \* what each worker does of the drain
  host,             \* the virtual machine: its script, and for its id the generation it was loaded for
  handles,          \* hasOnConfigChanged
  settings,         \* what getConfig() answers
  seeded,           \* lastSeededSettings of the service host
  watching,         \* hosts with a watcher in the plugins' state
  notifying,        \* watchers set() has copied and not called yet
  commands,         \* hosts with a command under way
  deferred,         \* results on their way to the main loop
  \* history
  stamp,            \* events accepted so far
  frame,            \* the stamp of the newest frame accepted
  faults            \* failed calls of this generation

health  == <<unhealthy, consecutive, timeouts, errors, faults>>
updates == <<updateQueued, updateRunning>>
mailbox == <<queue, generation, scheduled, pool, stamp, frame>>
ending  == <<stopping, stopped>>
machine == <<host, handles, settings, watching, commands>>
vars    == <<health, updates, mailbox, ending, machine, worker, seeded, notifying, deferred>>

Kinds    == {"reload", "update", "call", "hover", "frame", "command", "watch", "settings", "stop"}
NoScript == [watches |-> FALSE, runs |-> FALSE, handles |-> FALSE]
Event    == [kind : Kinds, gen : 0..MaxReloads, stamp : 0..MaxStamp, owner : 0..MaxReloads,
             value : 0..(MaxStamp + MaxSettings), script : Scripts \union {NoScript}]
NoHost   == [id |-> 0, script |-> NoScript]
NoEvent  == [kind |-> "stop", gen |-> 0, stamp |-> 0, owner |-> 0, value |-> 0,
             script |-> NoScript]
Call(kind) == [NoEvent EXCEPT !.kind = kind]

\* A worker: out of the drain, about to pop, with an event for the host, in the update that
\* follows a load, with a result to post, or with the host torn down. reached is the host called.
Idle    == [pc |-> "idle", event |-> NoEvent, reached |-> 0]
Busy(w) == worker[w].pc # "idle"
Threads == 1..Workers
At(w, pc)      == worker[w].pc = pc
Goes(w, state) == worker' = [worker EXCEPT ![w] = state]

\* stop() blocks the main thread until the worker is done.
MainFree == ~(stopping /\ ~stopped)

-----------------------------------------------------------------------------
(* enqueue(), from any thread. Several outcomes, each a conjunct for the   *)
(* caller's action.                                                        *)

Droppable(e) == e.kind \in {"update", "hover"}
Expendable   == {i \in DOMAIN queue : Droppable(queue[i])}
First(S)     == CHOOSE i \in S : \A j \in S : i <= j
Dropped(i)   == SubSeq(queue, 1, i - 1) \o SubSeq(queue, i + 1, Len(queue))
Frames       == {i \in DOMAIN queue : queue[i].kind = "frame"}


\* Mutant: off by one.
Full_OneMore == Len(queue) > MaxQueue

\* The limit of the queue.
Full == Len(queue) >= MaxQueue

Superseding(e) == e.kind = "frame" /\ Frames # {}
NoRoom(e)  == Full /\ (Droppable(e) \/ Expendable = {}) /\ ~Superseding(e)
Closed(e)  == stopping \/ (unhealthy /\ e.kind # "reload")
UpdateDue  == ~updateQueued /\ ~updateRunning

\* Mutant: a drain is posted for every event.
Schedule_Always == scheduled' = TRUE /\ pool' = pool + 1

\* The first event after the last drain posts a drain.
Schedule == scheduled' = TRUE /\ pool' = pool + (IF scheduled THEN 0 ELSE 1)

\* Refused: nothing changes and the event is gone.
Refuse(e) ==
  /\ Closed(e) \/ NoRoom(e)
  /\ UNCHANGED <<mailbox, updates, health>>

\* A frame takes the place of the one that waits for the same callback.
Supersede(e) ==
  /\ Superseding(e) /\ ~Closed(e) /\ stamp < MaxStamp
  /\ stamp' = stamp + 1 /\ frame' = stamp + 1
  /\ queue' = [queue EXCEPT ![First(Frames)].value = stamp + 1]
  /\ UNCHANGED <<generation, scheduled, pool, updates, health>>

\* Accepted, in place of the first event that may be dropped when the queue is full.
Admit(e) ==
  /\ ~Closed(e) /\ ~NoRoom(e) /\ ~Superseding(e) /\ stamp < MaxStamp
  /\ e.kind = "update" => UpdateDue
  /\ stamp' = stamp + 1
  /\ frame' = IF e.kind = "frame" THEN stamp + 1 ELSE frame
  /\ LET stamped == [e EXCEPT !.gen = generation, !.stamp = stamp + 1,
                              !.value = IF e.kind = "frame" THEN stamp + 1 ELSE @]
         room    == IF Full THEN Dropped(First(Expendable)) ELSE queue
     IN queue' = Append(room, stamped)
  /\ updateQueued' = \/ e.kind = "update"
                     \/ updateQueued /\ ~(Full /\ queue[First(Expendable)].kind = "update")
  /\ Schedule
  /\ UNCHANGED <<generation, updateRunning, health>>

\* A reload: the queue and the health counters start anew.
NewGeneration(e) ==
  /\ ~stopping /\ ~NoRoom(e) /\ stamp < MaxStamp /\ generation < MaxReloads
  /\ generation' = generation + 1 /\ stamp' = stamp + 1
  /\ queue' = <<[e EXCEPT !.gen = generation + 1, !.stamp = stamp + 1]>>
  /\ updateQueued' = FALSE /\ updateRunning' = FALSE
  /\ unhealthy' = FALSE /\ consecutive' = 0 /\ timeouts' = 0 /\ errors' = 0 /\ faults' = 0
  /\ Schedule
  /\ UNCHANGED frame

Enqueue(e) == Refuse(e) \/ Supersede(e) \/ Admit(e)

-----------------------------------------------------------------------------
Init ==
  /\ queue = <<>> /\ generation = 0 /\ scheduled = FALSE /\ stopping = FALSE /\ stopped = FALSE
  /\ updateQueued = FALSE /\ updateRunning = FALSE
  /\ unhealthy = FALSE /\ consecutive = 0 /\ timeouts = 0 /\ errors = 0 /\ faults = 0
  /\ pool = 0 /\ worker = [w \in Threads |-> Idle]
  /\ host = NoHost /\ handles = FALSE /\ settings = 0 /\ seeded = 0
  /\ watching = {} /\ notifying = {} /\ commands = {}
  /\ deferred = <<>> /\ stamp = 0 /\ frame = 0

-----------------------------------------------------------------------------
(* The main thread.                                                        *)

\* start() and reload(), whose caller cannot tell that it was refused.
Reload ==
  /\ MainFree
  /\ \E s \in Scripts :
       LET e == [Call("reload") EXCEPT !.script = s]
       IN NewGeneration(e) \/ Refuse(e)
  /\ UNCHANGED <<ending, machine, worker, seeded, notifying, deferred>>

\* enqueueUpdate(), enqueueCall() and enqueueCallArgs().
Input ==
  /\ MainFree /\ generation > 0
  /\ \E kind \in {"update", "call", "hover", "frame"} : Enqueue(Call(kind))
  /\ UNCHANGED <<ending, machine, worker, seeded, notifying, deferred>>

\* refresh() of a service that has onConfigChanged. Without it, and when its source moved, the
\* runtime is stopped and another made.
ChangeSettings ==
  /\ MainFree /\ handles /\ ~stopped /\ seeded < MaxSettings
  /\ seeded' = seeded + 1
  /\ Enqueue([Call("settings") EXCEPT !.value = seeded + 1])
  /\ UNCHANGED <<ending, machine, worker, notifying, deferred>>

\* unsubscribe() and stop(): the queue gives way to the stop, and the main thread waits.
Stop ==
  /\ ~stopping
  /\ stopping' = TRUE /\ updateQueued' = FALSE
  /\ queue' = <<[Call("stop") EXCEPT !.gen = generation, !.stamp = stamp]>>
  /\ Schedule
  /\ UNCHANGED <<stopped, updateRunning, generation, stamp, frame, health, machine, worker,
                 seeded, notifying, deferred>>

\* deliverResult().
Deliver ==
  /\ MainFree /\ deferred # <<>>
  /\ deferred' = Tail(deferred)
  /\ UNCHANGED <<health, updates, mailbox, ending, machine, worker, seeded, notifying>>

-----------------------------------------------------------------------------
(* Other threads.                                                          *)

\* set(): the watchers are copied under the store's lock and called without it.
SetState ==
  /\ ~(watching \subseteq notifying)
  /\ notifying' = notifying \union watching
  /\ UNCHANGED <<health, updates, mailbox, ending, machine, worker, seeded, deferred>>

\* enqueueStateWatchResult().
Notify ==
  /\ \E h \in notifying :
       /\ notifying' = notifying \ {h}
       /\ Enqueue([Call("watch") EXCEPT !.owner = h])
  /\ UNCHANGED <<ending, machine, worker, seeded, deferred>>

\* enqueueAsyncResult(), and likewise the other answers to what a script asked for.
CommandDone ==
  /\ \E h \in commands :
       /\ commands' = commands \ {h}
       /\ Enqueue([Call("command") EXCEPT !.owner = h])
  /\ UNCHANGED <<ending, host, handles, settings, watching, worker, seeded, notifying, deferred>>

-----------------------------------------------------------------------------
(* The workers.                                                            *)

\* runWorker() takes a drain. The threads are alike: the first one that waits.
Take(w) ==
  /\ ~Busy(w) /\ \A v \in 1..w - 1 : Busy(v)
  /\ pool > 0
  /\ pool' = pool - 1
  /\ Goes(w, [Idle EXCEPT !.pc = "drain"])
  /\ UNCHANGED <<queue, generation, scheduled, stamp, frame, health, updates, ending, machine,
                 seeded, notifying, deferred>>

\* drain() ends.
Leave(w) ==
  /\ At(w, "drain") /\ (queue = <<>> \/ stopped)
  /\ scheduled' = FALSE
  /\ Goes(w, Idle)
  /\ UNCHANGED <<queue, generation, pool, stamp, frame, health, updates, ending, machine, seeded,
                 notifying, deferred>>

\* drain() takes an event.
Pop(w) ==
  /\ At(w, "drain") /\ queue # <<>> /\ ~stopped
  /\ queue' = Tail(queue)
  /\ Goes(w, [Idle EXCEPT !.pc = "call", !.event = Head(queue)])
  /\ IF Head(queue).kind = "update"
     THEN updateQueued' = FALSE /\ updateRunning' = TRUE
     ELSE UNCHANGED updates
  /\ UNCHANGED <<generation, scheduled, pool, stamp, frame, health, ending, machine, seeded,
                 notifying, deferred>>

Least(a, b) == IF a <= b THEN a ELSE b
FewFaults   == Least(MaxConsecutive, Least(MaxTimeouts, MaxErrors))

\* updateHealth(): the verdict on a call that ended with this outcome. The counters count up to
\* the limit they are compared with.
Charge(e, outcome) ==
  /\ consecutive' = IF outcome = "timeout" THEN Least(consecutive + 1, MaxConsecutive) ELSE 0
  /\ timeouts' \in IF outcome = "timeout" THEN 1..Least(timeouts + 1, MaxTimeouts) ELSE {timeouts}
  /\ errors' \in IF outcome = "error" THEN 1..Least(errors + 1, MaxErrors) ELSE {errors}
  /\ unhealthy' = \/ unhealthy
                  \/ outcome = "timeout" /\ consecutive' >= MaxConsecutive
                  \/ outcome = "timeout" /\ timeouts' >= MaxTimeouts
                  \/ outcome = "error" /\ errors' >= MaxErrors
  /\ faults' = IF outcome # "ok" /\ e.gen = generation THEN Least(faults + 1, FewFaults) ELSE faults

\* Mutant: the old machine is torn down after the new one has been made.
Load_TearsDownLast(w) ==
  LET e == worker[w].event IN
  /\ At(w, "call") /\ e.kind = "reload"
  /\ host' = IF host = NoHost THEN [id |-> e.gen, script |-> e.script] ELSE NoHost
  /\ watching' = IF e.script.watches THEN {e.gen} ELSE {}
  /\ commands' = IF e.script.runs THEN commands \union {e.gen} ELSE commands
  /\ \E outcome \in {"ok", "timeout", "error"} :
       /\ Charge(e, outcome)
       /\ Goes(w, [pc |-> IF outcome = "ok" THEN "update" ELSE "post", event |-> e,
                    reached |-> e.gen])
  /\ UNCHANGED <<mailbox, updates, ending, handles, settings, seeded, notifying, deferred>>

\* processLoad() up to the health of the load: the old machine is torn down, the new one runs.
Load(w) ==
  LET e == worker[w].event IN
  /\ At(w, "call") /\ e.kind = "reload"
  /\ host' = [id |-> e.gen, script |-> e.script]
  /\ watching' = IF e.script.watches THEN {e.gen} ELSE {}
  /\ commands' = IF e.script.runs THEN commands \union {e.gen} ELSE commands
  /\ \E outcome \in {"ok", "timeout", "error"} :
       /\ Charge(e, outcome)
       /\ Goes(w, [pc |-> IF outcome = "ok" THEN "update" ELSE "post", event |-> e,
                    reached |-> e.gen])
  /\ UNCHANGED <<mailbox, updates, ending, handles, settings, seeded, notifying, deferred>>

\* The update that follows a load.
FirstUpdate(w) ==
  /\ At(w, "update")
  /\ \E outcome \in {"ok", "timeout", "error"} : Charge(worker[w].event, outcome)
  /\ Goes(w, [worker[w] EXCEPT !.pc = "post"])
  /\ UNCHANGED <<mailbox, updates, ending, machine, seeded, notifying, deferred>>

\* processEvent(): whether the event is one for the machine there is. A watcher is found by
\* the number of its callback alone.
Reaches(e) ==
  /\ host # NoHost
  /\ e.kind = "command" => e.owner = host.id
  /\ e.kind = "watch" => host.script.watches
  /\ e.kind = "settings" => host.script.handles

\* processEvent() of a call.
CallHost(w) ==
  LET e == worker[w].event IN
  /\ At(w, "call") /\ e.kind \notin {"reload", "stop"}
  /\ settings' = IF e.kind = "settings" /\ host # NoHost THEN e.value ELSE settings
  /\ IF Reaches(e)
     THEN \E outcome \in {"ok", "timeout", "error"} : Charge(e, outcome)
     ELSE UNCHANGED health
  /\ Goes(w, [pc |-> "post", event |-> e, reached |-> IF Reaches(e) THEN host.id ELSE 0])
  /\ UNCHANGED <<mailbox, updates, ending, host, handles, watching, commands, seeded, notifying,
                 deferred>>

\* Mutant: the newest result first.
Post_NewestFirst(w) ==
  LET e == worker[w].event IN
  /\ At(w, "post")
  /\ updateRunning' = (updateRunning /\ e.kind # "update")
  /\ handles' = IF e.kind = "reload" THEN host.script.handles ELSE handles
  /\ deferred' = IF worker[w].reached # 0
                 THEN <<[gen |-> e.gen, stamp |-> e.stamp]>> \o deferred ELSE deferred
  /\ Goes(w, [Idle EXCEPT !.pc = "drain"])
  /\ UNCHANGED <<mailbox, health, updateQueued, ending, host, settings, watching, commands, seeded,
                 notifying>>

\* drain() after a call: the update is over, its result is posted.
Post(w) ==
  LET e == worker[w].event IN
  /\ At(w, "post")
  /\ updateRunning' = (updateRunning /\ e.kind # "update")
  /\ handles' = IF e.kind = "reload" THEN host.script.handles ELSE handles
  /\ deferred' = IF worker[w].reached # 0
                 THEN Append(deferred, [gen |-> e.gen, stamp |-> e.stamp]) ELSE deferred
  /\ Goes(w, [Idle EXCEPT !.pc = "drain"])
  /\ UNCHANGED <<mailbox, health, updateQueued, ending, host, settings, watching, commands, seeded,
                 notifying>>

\* teardownHost() for the stop.
TearDown(w) ==
  /\ At(w, "call") /\ worker[w].event.kind = "stop"
  /\ host' = NoHost /\ watching' = {}
  /\ Goes(w, [worker[w] EXCEPT !.pc = "exit"])
  /\ UNCHANGED <<mailbox, health, updates, ending, handles, settings, commands, seeded, notifying,
                 deferred>>

\* The stop is over and the main thread goes on.
Exit(w) ==
  /\ At(w, "exit")
  /\ queue' = <<>> /\ stopped' = TRUE /\ scheduled' = FALSE
  /\ Goes(w, Idle)
  /\ UNCHANGED <<generation, pool, stamp, frame, health, updates, stopping, machine, seeded,
                 notifying, deferred>>

Work(w) ==
  \/ Take(w) \/ Leave(w) \/ Pop(w) \/ Load(w) \/ FirstUpdate(w) \/ CallHost(w) \/ Post(w)
  \/ TearDown(w) \/ Exit(w)

Next ==
  \/ Reload \/ Input \/ ChangeSettings \/ Stop \/ Deliver
  \/ SetState \/ Notify \/ CommandDone
  \/ \E w \in Threads : Work(w)

\* The pool's threads wait for tasks and nothing else, and every call has a time budget.
Fairness == \A w \in Threads : WF_vars(Work(w))

Spec == Init /\ [][Next]_vars /\ Fairness

-----------------------------------------------------------------------------
(* Properties.                                                             *)

TypeOK ==
  /\ queue \in Seq(Event) /\ Len(queue) <= MaxQueue
  /\ generation \in 0..MaxReloads /\ stamp \in 0..MaxStamp /\ frame \in 0..MaxStamp
  /\ {scheduled, stopping, stopped, updateQueued, updateRunning, unhealthy, handles} \subseteq BOOLEAN
  /\ {consecutive, timeouts, errors, pool, faults} \subseteq Nat
  /\ worker \in [Threads -> [pc : {"idle", "drain", "call", "update", "post", "exit"},
                             event : Event, reached : 0..MaxReloads]]
  /\ host \in [id : 0..MaxReloads, script : Scripts \union {NoScript}]
  /\ settings \in 0..MaxSettings /\ seeded \in 0..MaxSettings
  /\ watching \subseteq 1..MaxReloads /\ notifying \subseteq 1..MaxReloads
  /\ commands \subseteq 1..MaxReloads
  /\ deferred \in Seq([gen : 0..MaxReloads, stamp : 0..MaxStamp])

Drains == pool + Cardinality({w \in Threads : Busy(w)})

\* The host has no lock: at most one worker is ever in the drain of this runtime, and there is
\* one whenever an event waits (scheduled, enqueue() and drain()).
OneDrain ==
  /\ Drains = IF scheduled THEN 1 ELSE 0
  /\ queue # <<>> => scheduled

\* At most one update waits, and none while one of this generation runs: a slow script is not
\* fed more updates than it finishes (updateQueued, updateRunning).
Updating(w) == Busy(w) /\ worker[w].event.kind = "update" /\ worker[w].event.gen = generation
Waiting     == {i \in DOMAIN queue : queue[i].kind = "update"}
OneUpdate ==
  /\ Cardinality(Waiting) = IF updateQueued THEN 1 ELSE 0
  /\ (\E w \in Threads : Updating(w)) => updateRunning \/ stopping
  /\ ~(updateQueued /\ \E w \in Threads : Updating(w) /\ worker[w].pc # "post")

\* "a slow script can never accumulate stale spectrum frames" (enqueue()): one frame waits at
\* most, and it is the newest.
FramesAreFresh ==
  /\ Cardinality(Frames) <= 1
  /\ \A i \in Frames : queue[i].value = frame

\* An event is answered by the machine of the generation it was accepted in, and the answer to
\* a command by the machine that ran it, however reloads and slow calls interleave.
RightHost ==
  \A w \in Threads : LET e == worker[w].event IN
    worker[w].reached # 0 =>
      /\ e.gen = worker[w].reached
      /\ e.kind = "command" => e.owner = worker[w].reached

\* A script is disabled for its own failures, but for the one call of its predecessor that a
\* reload may find running (updateHealth() does not look at the generation).
DisabledForFaults == unhealthy => faults + 1 >= FewFaults

\* Results reach the main loop in the order in which their events were accepted, and before
\* those of the events that run or wait: what a script shows never goes back.
ResultsInOrder ==
  /\ \A i, j \in DOMAIN deferred : i < j => deferred[i].stamp < deferred[j].stamp
  /\ \A i \in DOMAIN deferred :
       /\ \A w \in Threads : worker[w].reached # 0 => deferred[i].stamp < worker[w].event.stamp
       /\ \A j \in DOMAIN queue : queue[j].kind # "stop" => deferred[i].stamp < queue[j].stamp

\* stop() blocks the main thread, and returns.
StopReturns == stopping ~> stopped

\* A reload that was accepted is carried out, by itself or by a later one, or the runtime stops.
ReloadHappens == \A g \in 1..MaxReloads : (generation = g) ~> (host.id >= g \/ stopping)

\* The queue, its flags and the workers agree between any two steps of any thread: no event is
\* left behind, none is drained twice, and neither updates nor frames pile up.
QueueCoherent == OneDrain /\ OneUpdate /\ FramesAreFresh

\* What a script is held to and what it shows is its own, and in order, across reloads.
EffectsBelong == RightHost /\ DisabledForFaults /\ ResultsInOrder

\* A reload and a stop reach the worker whatever it is doing, and take place.
ControlTakesEffect == StopReturns /\ ReloadHappens
=============================================================================
