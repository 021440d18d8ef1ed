----------------------------- MODULE TimerManager -----------------------------
(***************************************************************************)
(* The shell's timers (core/timer_manager.cpp): the manager's table of     *)
(* entries, the batch a tick() has taken out of it, the sets of in-flight  *)
(* and cancelled ids, and the Timer objects that own an id each.           *)
(*                                                                         *)
(* Everything runs on the main thread. Other code runs between ticks and   *)
(* inside the callbacks of a tick, where it may start, stop, move and      *)
(* destroy any Timer, the one that is ringing included.                    *)
(*                                                                         *)
(* The names that MainLoop has too carry a prefix, for the module of the   *)
(* theorems about both.                                                    *)
(***************************************************************************)
EXTENDS Naturals, FiniteSets

CONSTANTS
  Timers,     \* the Timer objects
  TimerDelays, \* the delays they are started with, in clock ticks
  NoEntry,    \* no entry, no Timer
  MaxId,      \* bound: ids given out
  MaxClock    \* bound: clock ticks

ASSUME TimerManagerAssumption ==
  /\ TimerDelays \subseteq Nat
  /\ MaxId \in Nat
  /\ MaxClock \in Nat
  /\ NoEntry \notin Timers
  /\ NoEntry \notin [id : Nat, dueAt : Nat, interval : Nat, repeating : BOOLEAN]

VARIABLES
  time,      \* steady_clock::now()
  nextId,    \* nextTimerId()
  entries,   \* timerEntries()
  inFlight,  \* inFlightTimerIds()
  canceled,  \* canceledTimerIds()
  dueEntries, \* dueEntries of the running tick() that are still to be looked at
  running,   \* the entry whose callback is on the stack, NoEntry when none is
  slot       \* m_id of each Timer, 0 when it holds none

tmVars == <<time, nextId, entries, inFlight, canceled, dueEntries, running, slot>>

TimerEntry == [id : 1..MaxId, dueAt : Nat, interval : Nat, repeating : BOOLEAN]

Ids(es) == {e.id : e \in es}

\* Code that uses timers runs outside tick() or in a callback of it.
UserCodeRuns == dueEntries = {} \/ running # NoEntry

\* TimerManager::cancel(): an entry of the table is erased, one of the running batch
\* can only be marked. No entry has the id 0.
EntriesWithout(id) == {e \in entries : e.id # id}

\* Mutant: an entry of the running batch is not marked.
CanceledWith_TableOnly(id) == canceled

\* Mutant: every id that is not in the table is marked, 0 included.
CanceledWith_NotInTable(id) ==
  IF id \notin Ids(entries) THEN canceled \union {id} ELSE canceled

CanceledWith(id) ==
  IF id \notin Ids(entries) /\ id \in inFlight THEN canceled \union {id} ELSE canceled

Cancel(id) ==
  /\ entries' = EntriesWithout(id)
  /\ canceled' = CanceledWith(id)

\* The entry tick() puts back after a callback.
Rearmed(entry) ==
  IF entry.repeating /\ entry.id \notin canceled
  THEN {[entry EXCEPT !.dueAt = time + entry.interval]} ELSE {}

-----------------------------------------------------------------------------
TMInit ==
  /\ time = 0
  /\ nextId = 1
  /\ entries = {}
  /\ inFlight = {}
  /\ canceled = {}
  /\ dueEntries = {}
  /\ running = NoEntry
  /\ slot = [t \in Timers |-> 0]

\* Timer::start() and Timer::startRepeating().
Start(t, delay, repeating) ==
  /\ UserCodeRuns
  /\ nextId <= MaxId
  /\ nextId' = nextId + 1
  /\ slot' = [slot EXCEPT ![t] = nextId]
  /\ canceled' = CanceledWith(slot[t])
  /\ entries' = EntriesWithout(slot[t]) \union
                {[id |-> nextId, dueAt |-> time + delay, interval |-> delay,
                  repeating |-> repeating]}
  /\ UNCHANGED <<time, inFlight, dueEntries, running>>

\* Timer::stop() and ~Timer().
Stop(t) ==
  /\ UserCodeRuns
  /\ slot[t] # 0
  /\ Cancel(slot[t])
  /\ slot' = [slot EXCEPT ![t] = 0]
  /\ UNCHANGED <<time, nextId, inFlight, dueEntries, running>>

\* Timer::operator=(Timer&&); the move constructor is the case slot[to] = 0.
Move(from, to) ==
  /\ UserCodeRuns
  /\ from # to
  /\ Cancel(slot[to])
  /\ slot' = [slot EXCEPT ![to] = slot[from], ![from] = 0]
  /\ UNCHANGED <<time, nextId, inFlight, dueEntries, running>>

-----------------------------------------------------------------------------
(* tick(), from the collection of the due entries to the last callback.    *)

\* Mutant: the clock is rounded up.
Due_Early == {e \in entries : e.dueAt <= time + 1}

\* Mutant: one entry per tick, the newest.
Due_Newest ==
  {e \in entries : e.dueAt <= time /\ \A f \in entries : f.dueAt <= time => f.id <= e.id}

Due == {e \in entries : e.dueAt <= time}

Tick ==
  /\ dueEntries = {} /\ running = NoEntry
  /\ Due # {}
  /\ dueEntries' = Due
  /\ entries' = entries \ Due
  /\ inFlight' = inFlight \union Ids(Due)
  /\ UNCHANGED <<time, nextId, canceled, running, slot>>

\* The order of the batch is that of an unordered_map: any.
SkipCanceled(entry) ==
  /\ running = NoEntry
  /\ entry \in dueEntries /\ entry.id \in canceled
  /\ dueEntries' = dueEntries \ {entry}
  /\ canceled' = canceled \ {entry.id}
  /\ inFlight' = inFlight \ {entry.id}
  /\ UNCHANGED <<time, nextId, entries, running, slot>>

CallbackBegins(entry) ==
  /\ running = NoEntry
  /\ entry \in dueEntries /\ entry.id \notin canceled
  /\ dueEntries' = dueEntries \ {entry}
  /\ running' = entry
  /\ UNCHANGED <<time, nextId, entries, inFlight, canceled, slot>>

CallbackEnds ==
  /\ running # NoEntry
  /\ running' = NoEntry
  /\ entries' = entries \union Rearmed(running)
  /\ canceled' = canceled \ {running.id}
  /\ inFlight' = inFlight \ {running.id}
  /\ UNCHANGED <<time, nextId, dueEntries, slot>>

ClockAdvances ==
  /\ time < MaxClock
  /\ time' = time + 1
  /\ UNCHANGED <<nextId, entries, inFlight, canceled, dueEntries, running, slot>>

TMNext ==
  \/ \E t \in Timers :
       \/ \E delay \in TimerDelays, repeating \in BOOLEAN : Start(t, delay, repeating)
       \/ Stop(t)
       \/ \E to \in Timers : Move(t, to)
  \/ Tick
  \/ \E entry \in dueEntries : SkipCanceled(entry) \/ CallbackBegins(entry)
  \/ CallbackEnds
  \/ ClockAdvances

\* MainLoop dispatches TimerPollSource whenever a deadline is over, and a callback
\* returns.
TMFairness ==
  /\ WF_tmVars(Tick)
  /\ WF_tmVars(\E entry \in dueEntries : SkipCanceled(entry) \/ CallbackBegins(entry))
  /\ WF_tmVars(CallbackEnds)

TMSpec     == TMInit /\ [][TMNext]_tmVars
TMFairSpec == TMSpec /\ TMFairness
-----------------------------------------------------------------------------
(* Properties.                                                             *)

TMTypeOK ==
  /\ time \in Nat
  /\ nextId \in 1..(MaxId + 1)
  /\ entries \subseteq TimerEntry
  /\ inFlight \subseteq 1..MaxId
  /\ canceled \subseteq 1..MaxId
  /\ dueEntries \subseteq TimerEntry
  /\ running \in TimerEntry \union {NoEntry}
  /\ slot \in [Timers -> 0..MaxId]

Owned(id) == \E t \in Timers : slot[t] = id

\* Entries the running tick() has taken out of the table and not yet finished with.
Taken == dueEntries \union (IF running = NoEntry THEN {} ELSE {running})

\* The bookkeeping that cancel() and tick() share: an id is in the table or in
\* flight, never both; it is in flight exactly while the tick has its entry; no id
\* has two Timers or two entries; and an entry without a Timer is exactly one that
\* is marked cancelled, so a destroyed Timer leaves nothing behind that could ring.
BookkeepingConsistent ==
  /\ inFlight = Ids(Taken)
  /\ Ids(entries) \intersect inFlight = {}
  /\ canceled = {id \in inFlight : ~Owned(id)}
  /\ \A e \in entries : Owned(e.id)
  /\ \A t, u \in Timers : slot[t] = slot[u] /\ slot[t] # 0 => t = u
  /\ \A d, e \in entries \union Taken : d.id = e.id => d = e

\* The Timers as their owners see them: the alarm in a Timer's slot is the entry of
\* that id, in the table or still to be looked at by the running tick.
AlarmIn(es, id)   == IF id \in Ids(es) THEN CHOOSE e \in es : e.id = id ELSE NoEntry
HolderIn(ids, id) == IF \E t \in Timers : ids[t] = id
                     THEN CHOOSE t \in Timers : ids[t] = id ELSE NoEntry

Promise == INSTANCE Alarms WITH
             Delays  <- TimerDelays,
             now     <- time,
             Off     <- NoEntry,
             Nobody  <- NoEntry,
             last    <- nextId - 1,
             alarm   <- [t \in Timers |-> AlarmIn(entries \union dueEntries, slot[t])],
             ringing <- running,
             ringer  <- IF running = NoEntry THEN NoEntry ELSE HolderIn(slot, running.id)

\* The manager keeps the promise of Alarms: what is stopped, restarted, moved away
\* from or destroyed never rings, nothing rings early or twice.
KeepsPromise == Promise!Spec

\* A timer whose time has come rings, unless its owner lets go of it first.
DueTimerRings ==
  \A id \in 1..MaxId :
    (\E e \in entries \union dueEntries : e.id = id /\ e.dueAt <= time)
      ~> (running # NoEntry /\ running.id = id) \/ ~Owned(id)
===============================================================================
