------------------------------- MODULE MainLoop -------------------------------
(***************************************************************************)
(* The shell's main loop (app/main_loop.cpp) with the queue that every     *)
(* other thread hands work to it through (core/deferred_call.cpp), and the *)
(* deadlines of its poll sources.                                          *)
(*                                                                         *)
(* A closure is the number of its callLater(). Worker threads push it and  *)
(* write the wake byte under two separate locks, so the loop may run in    *)
(* between. Poll sources are addresses: what is destroyed can come back at *)
(* the same address. Code of the shell runs in closures, Wayland events,   *)
(* source dispatches and frame callbacks, that is in every phase in which  *)
(* the main thread is not blocked in poll().                               *)
(*                                                                         *)
(* A point in time is kept as the clock ticks that are left until it, so   *)
(* that time has no end: a loop that never serves a source is a behaviour. *)
(***************************************************************************)
EXTENDS Naturals, Sequences

CONSTANTS
  Threads,    \* worker threads that call callLater()
  Sources,    \* the addresses of the poll sources other than the queue's own
  Sliding,    \* those that ask for a fixed time from now, as HttpClient::timeoutMs() does
  None,       \* no source
  Delays,     \* timeouts a source may ask for, in clock ticks
  Floor,      \* the timeout floor while the Wayland socket is full
  Never,      \* a time after every other: no deadline
  MaxPosts    \* bound: closures posted

ASSUME MainLoopAssumption ==
  /\ Sliding \subseteq Sources
  /\ Never \in Nat /\ MaxPosts \in Nat
  /\ Delays \union {Floor} \subseteq 0..(Never - 1)
  /\ None \notin Sources

VARIABLES
  \* DeferredCall
  posted,     \* closures pushed so far
  queue,      \* queue()
  wake,       \* a byte is in the wake pipe
  posting,    \* threads between push_back() and wakeMainLoop()
  \* MainLoop::run()
  phase,      \* where the main thread is
  batch,      \* closures taken and not yet run
  ran,        \* closures run so far
  wakeAt,     \* ticks until poll() gives up; Never outside it
  ready,      \* poll() found the wake pipe readable
  woken,      \* sources with a ready fd or an elapsed deadline, still to be looked at
  current,    \* the source whose dispatch() is on the stack
  deadlines,  \* ticks until m_sourceDeadlines, 0 when over, Never for an absent key
  \* the rest of the shell
  live,       \* what m_sourcesProvider() returns
  wants,      \* pollTimeoutMs() in ticks, Never for -1
  frames,     \* Surface::hasPendingFrameWork() || Surface::hasPendingRenders()
  stop        \* s_shutdownRequested

deferredVars == <<posted, queue, wake, posting>>
loopVars     == <<phase, batch, ran, wakeAt, ready, woken, current, deadlines>>
shellVars    == <<live, wants, frames>>
vars         == <<deferredVars, loopVars, shellVars, stop>>

Least(a, b) == IF a <= b THEN a ELSE b

Latest(a, b) == IF a <= b THEN b ELSE a

Init ==
  /\ posted = 0 /\ queue = <<>> /\ wake = FALSE /\ posting = {}
  /\ phase = "top" /\ batch = <<>> /\ ran = 0 /\ wakeAt = Never /\ ready = FALSE
  /\ woken = {} /\ current = None /\ deadlines = [s \in Sources |-> Never]
  /\ live \in SUBSET Sources
  /\ wants = [s \in Sources |-> Never] /\ frames = FALSE
  /\ stop = FALSE

-----------------------------------------------------------------------------
(* DeferredCall::callLater() on a worker thread.                           *)

Push(t) ==
  /\ t \notin posting
  /\ posted < MaxPosts
  /\ posted' = posted + 1
  /\ queue' = Append(queue, posted + 1)
  /\ posting' = posting \union {t}
  /\ UNCHANGED <<wake, loopVars, shellVars, stop>>

\* Mutant: only the first closure of a batch wakes the loop.
WakeMainLoop_First(t) ==
  /\ t \in posting
  /\ posting' = posting \ {t}
  /\ wake' = (wake \/ Len(queue) = 1)
  /\ UNCHANGED <<posted, queue, loopVars, shellVars, stop>>

WakeMainLoop(t) ==
  /\ t \in posting
  /\ posting' = posting \ {t}
  /\ wake' = TRUE
  /\ UNCHANGED <<posted, queue, loopVars, shellVars, stop>>

-----------------------------------------------------------------------------
(* Code of the shell that runs on the main thread.                         *)

MainThreadRuns == phase \notin {"poll", "drained", "exited"}

\* callLater() on the main thread: nothing of the loop runs between its two halves.
MainPosts ==
  /\ MainThreadRuns
  /\ posted < MaxPosts
  /\ posted' = posted + 1
  /\ queue' = Append(queue, posted + 1)
  /\ wake' = TRUE
  /\ UNCHANGED <<posting, loopVars, shellVars, stop>>

\* A timer is started or stopped, a retry is scheduled, a bus connection has messages.
SourceWants(s, when) ==
  /\ MainThreadRuns
  /\ s \in live
  /\ wants' = [wants EXCEPT ![s] = when]
  /\ UNCHANGED <<deferredVars, loopVars, live, frames, stop>>

\* A configuration reload makes an optional source or frees one, but not the one whose
\* dispatch() is running.
CreateSource(s) ==
  /\ MainThreadRuns
  /\ s \notin live
  /\ live' = live \union {s}
  /\ UNCHANGED <<deferredVars, loopVars, wants, frames, stop>>

DestroySource(s) ==
  /\ MainThreadRuns
  /\ s \in live /\ s # current
  /\ live' = live \ {s}
  /\ wants' = [wants EXCEPT ![s] = Never]
  /\ UNCHANGED <<deferredVars, loopVars, frames, stop>>

RequestFrame ==
  /\ MainThreadRuns
  /\ frames' = TRUE
  /\ UNCHANGED <<deferredVars, loopVars, live, wants, stop>>

-----------------------------------------------------------------------------
(* MainLoop::run().                                                        *)

\* Mutant: the queue is copied.
TakePending_Copy ==
  /\ batch' = queue
  /\ UNCHANGED <<posted, queue, wake, posting>>

\* DeferredCall::takePending().
TakePending ==
  /\ batch' = queue
  /\ queue' = <<>>
  /\ UNCHANGED <<posted, wake, posting>>

\* Mutant: pending frames are drawn before the loop ends.
BeginIteration_FramesFirst ==
  /\ phase = "top" /\ (~stop \/ frames)
  /\ phase' = "deferred"
  /\ TakePending
  /\ UNCHANGED <<ran, wakeAt, ready, woken, current, deadlines, shellVars, stop>>

\* The head of the loop: the shutdown flag is read, then the queue is taken.
BeginIteration ==
  /\ phase = "top" /\ ~stop
  /\ phase' = "deferred"
  /\ TakePending
  /\ UNCHANGED <<ran, wakeAt, ready, woken, current, deadlines, shellVars, stop>>

Exit ==
  /\ phase = "top" /\ stop
  /\ phase' = "exited"
  /\ UNCHANGED <<deferredVars, batch, ran, wakeAt, ready, woken, current, deadlines,
                 shellVars, stop>>

RunClosure ==
  /\ phase \in {"deferred", "taken"}
  /\ batch # <<>>
  /\ batch' = Tail(batch)
  /\ ran' = ran + 1
  /\ UNCHANGED <<deferredVars, phase, wakeAt, ready, woken, current, deadlines,
                 shellVars, stop>>

\* Mutant: the latest request replaces the deadline.
Deadline_Newest(s) == IF s \notin live THEN Never ELSE wants[s]

\* Mutant: -1 is taken for a timeout.
Deadline_Untested(s) ==
  IF s \notin live THEN Never
  ELSE Least(deadlines[s], IF wants[s] = Never THEN 0 - 1 ELSE wants[s])

\* What the deadline of a source becomes before poll(): gone with the source or its wish,
\* else the earliest time it has asked for since its last dispatch.
Deadline(s) ==
  IF s \notin live \/ wants[s] = Never THEN Never
  ELSE Least(deadlines[s], wants[s])

\* The fds and the timeout are collected and poll() is entered. A timeout below the floor is
\* raised while the Wayland socket is full (blocked).
Collect(blocked) ==
  /\ phase = "deferred" /\ batch = <<>>
  /\ phase' = "poll"
  /\ deadlines' = [s \in Sources |-> Deadline(s)]
  /\ \E earliest \in {Deadline(s) : s \in Sources} \union {Never} :
       /\ \A s \in Sources : earliest <= Deadline(s)
       /\ LET pollTimeout == IF frames THEN 0 ELSE earliest
          IN wakeAt' = IF blocked THEN Latest(pollTimeout, Floor) ELSE pollTimeout
  /\ UNCHANGED <<deferredVars, batch, ran, ready, woken, current, shellVars, stop>>

\* poll() returns at its timeout or with ready fds: the wake pipe, those of the sources fds,
\* or the Wayland socket.
PollReturns(wayland, fds) ==
  /\ phase = "poll"
  /\ fds \subseteq live
  /\ wayland \/ wake \/ fds # {} \/ wakeAt = 0
  /\ phase' = "events"
  /\ ready' = wake
  /\ woken' = fds
  /\ wakeAt' = Never
  /\ UNCHANGED <<deferredVars, batch, ran, current, deadlines, shellVars, stop>>

\* Wayland events have been dispatched and the clock is read for the source pass.
BeginPass ==
  /\ phase = "events"
  /\ phase' = "pass"
  /\ woken' = woken \union {s \in Sources : deadlines[s] = 0}
  /\ UNCHANGED <<deferredVars, batch, ran, wakeAt, ready, current, deadlines, shellVars,
                 stop>>

\* A source that was listed before poll() may have been freed by the code run since.
StillListed(s) == s \in live

\* Mutant: one source per iteration.
Dispatch_One(s) ==
  /\ phase = "pass" /\ current = None
  /\ s \in woken /\ StillListed(s)
  /\ woken' = {}
  /\ deadlines' = [deadlines EXCEPT ![s] = Never]
  /\ current' = s
  /\ UNCHANGED <<deferredVars, phase, batch, ran, wakeAt, ready, shellVars, stop>>

\* One source of the pass. The pass goes in the order of the list; any order is allowed
\* here.
Dispatch(s) ==
  /\ phase = "pass" /\ current = None
  /\ s \in woken /\ StillListed(s)
  /\ woken' = woken \ {s}
  /\ deadlines' = [deadlines EXCEPT ![s] = Never]
  /\ current' = s
  /\ UNCHANGED <<deferredVars, phase, batch, ran, wakeAt, ready, shellVars, stop>>

SkipFreed(s) ==
  /\ phase = "pass" /\ current = None
  /\ s \in woken /\ ~StillListed(s)
  /\ woken' = woken \ {s}
  /\ UNCHANGED <<deferredVars, phase, batch, ran, wakeAt, ready, current, deadlines,
                 shellVars, stop>>

\* dispatch() has read its fds and asks for its next wake, if any.
DispatchReturns(when) ==
  /\ phase = "pass" /\ current # None
  /\ current' = None
  /\ wants' = [wants EXCEPT ![current] = when]
  /\ UNCHANGED <<deferredVars, phase, batch, ran, wakeAt, ready, woken, deadlines, live,
                 frames, stop>>

\* DeferredCallPollSource::dispatch(): the pipe is emptied first, the queue taken after.
DrainWakeFd ==
  /\ phase = "pass" /\ current = None
  /\ ready
  /\ ready' = FALSE
  /\ wake' = FALSE
  /\ phase' = "drained"
  /\ UNCHANGED <<posted, queue, posting, batch, ran, wakeAt, woken, current, deadlines,
                 shellVars, stop>>

TakeDrained ==
  /\ phase = "drained"
  /\ phase' = "taken"
  /\ TakePending
  /\ UNCHANGED <<ran, wakeAt, ready, woken, current, deadlines, shellVars, stop>>

DrainedBatchDone ==
  /\ phase = "taken" /\ batch = <<>>
  /\ phase' = "pass"
  /\ UNCHANGED <<deferredVars, batch, ran, wakeAt, ready, woken, current, deadlines,
                 shellVars, stop>>

\* Surface::drainPendingFrameWork() and drainPendingRenders(); frames they ask for in turn
\* are RequestFrame at the top.
DrawFrames ==
  /\ phase = "pass" /\ current = None /\ woken = {} /\ ~ready
  /\ phase' = "top"
  /\ frames' = FALSE
  /\ UNCHANGED <<deferredVars, batch, ran, wakeAt, ready, woken, current, deadlines, live,
                 wants, stop>>
-----------------------------------------------------------------------------
(* The surroundings.                                                       *)

Ticked(left) == IF left \in {0, Never} THEN left ELSE left - 1

\* What a sliding source asks for moves with the clock.
TimePasses ==
  /\ wants' = [s \in Sources |-> IF s \in Sliding THEN wants[s] ELSE Ticked(wants[s])]
  /\ deadlines' = [s \in Sources |-> Ticked(deadlines[s])]
  /\ wakeAt' = Ticked(wakeAt)
  /\ UNCHANGED <<deferredVars, phase, batch, ran, ready, woken, current, live, frames, stop>>

\* SIGTERM or SIGINT: no thread blocks them, so the handler may run on any thread, and
\* poll() is interrupted only when that is the main thread.
TerminationSignal ==
  /\ ~stop
  /\ stop' = TRUE
  /\ \/ UNCHANGED <<phase, wakeAt>>
     \/ phase = "poll" /\ phase' = "top" /\ wakeAt' = Never
  /\ UNCHANGED <<deferredVars, batch, ran, ready, woken, current, deadlines, shellVars>>

Times == Delays \union {Never}

Next ==
  \/ \E t \in Threads : Push(t) \/ WakeMainLoop(t)
  \/ MainPosts
  \/ \E s \in Sources : \/ \E when \in Times : SourceWants(s, when)
                        \/ CreateSource(s) \/ DestroySource(s)
                        \/ Dispatch(s) \/ SkipFreed(s)
  \/ RequestFrame
  \/ BeginIteration \/ Exit \/ RunClosure
  \/ \E blocked \in BOOLEAN : Collect(blocked)
  \/ \E wayland \in BOOLEAN, fds \in SUBSET Sources : PollReturns(wayland, fds)
  \/ BeginPass
  \/ \E when \in Times : DispatchReturns(when)
  \/ DrainWakeFd \/ TakeDrained \/ DrainedBatchDone \/ DrawFrames
  \/ TimePasses \/ TerminationSignal

Spec == Init /\ [][Next]_vars

\* Handlers return, a poll() whose fd is ready or whose time is over returns, time passes,
\* and a thread that has pushed a closure goes on to write its byte. Nothing says that the
\* compositor sends events or that another thread posts.
MainSteps ==
  \/ BeginIteration \/ Exit \/ RunClosure
  \/ \E blocked \in BOOLEAN : Collect(blocked)
  \/ PollReturns(FALSE, {})
  \/ BeginPass
  \/ \E s \in Sources : Dispatch(s) \/ SkipFreed(s)
  \/ \E when \in Times : DispatchReturns(when)
  \/ DrainWakeFd \/ TakeDrained \/ DrainedBatchDone \/ DrawFrames

Fairness ==
  /\ WF_vars(MainSteps)
  /\ WF_vars(TimePasses)
  /\ \A t \in Threads : WF_vars(WakeMainLoop(t))

FairSpec == Spec /\ Fairness
-----------------------------------------------------------------------------
(* Properties.                                                             *)

Closures == 1..MaxPosts

TypeOK ==
  /\ posted \in 0..MaxPosts
  /\ queue \in Seq(Closures)
  /\ wake \in BOOLEAN
  /\ posting \subseteq Threads
  /\ phase \in {"top", "deferred", "poll", "events", "pass", "drained", "taken", "exited"}
  /\ batch \in Seq(Closures)
  /\ ran \in 0..MaxPosts
  /\ wakeAt \in 0..Never
  /\ ready \in BOOLEAN
  /\ woken \subseteq Sources
  /\ current \in Sources \union {None}
  /\ deadlines \in [Sources -> 0..Never]
  /\ live \subseteq Sources
  /\ wants \in [Sources -> 0..Never]
  /\ frames \in BOOLEAN
  /\ stop \in BOOLEAN

\* Closures run once each and in the order of their callLater(), whichever of the two
\* places of the loop takes them: what has run, what is taken and what is queued are the
\* closures posted so far.
RunsInOrder ==
  /\ ran + Len(batch) + Len(queue) = posted
  /\ \A i \in 1..Len(batch) : batch[i] = ran + i
  /\ \A i \in 1..Len(queue) : queue[i] = ran + Len(batch) + i

\* No wakeup is lost: a queued closure has its byte in the pipe, or its thread is about to
\* write it, or the main thread has yet to take the queue before it polls.
QueuedWorkWakesTheLoop ==
  queue # <<>> => wake \/ posting # {} \/ phase = "drained"

\* While the loop polls it will wake by the earliest time any live source has asked for since its
\* last dispatch, and at once for pending frames; a full Wayland socket delays that by the floor.
NeverOversleeps ==
  phase = "poll" =>
    /\ \A s \in live : wants[s] # Never =>
         wakeAt < Never /\ wakeAt <= Least(wants[s], deadlines[s]) + Floor
    /\ frames => wakeAt <= Floor

\* The loop is awake whenever it has something to do: no posted closure is left behind
\* in poll(), and poll() ends by the earliest time a source asked for.
LoopWakes == QueuedWorkWakesTheLoop /\ NeverOversleeps

\* An armed deadline is not put off while its source asks for a wake, however often the loop
\* comes round: a source that always asks for the same delay is not starved.
DeadlinesNotPostponed ==
  [][\A s \in Sources :
       deadlines[s] # Never /\ s \in live /\ wants[s] # Never /\ current' # s
         => deadlines'[s] <= deadlines[s]]_vars

\* Every closure posted is run, unless the shell ends first.
EveryClosureRuns ==
  \A c \in Closures : posted >= c ~> ran >= c \/ phase = "exited"

\* A source that asks for a wake is dispatched, unless it is freed or gives up asking: neither a
\* busy loop, nor a request that slides with the clock, nor one that is put off again and again
\* keeps it waiting for ever.
SourcesServed ==
  \A s \in Sources :
    s \in live /\ wants[s] # Never
      ~> current = s \/ s \notin live \/ wants[s] = Never \/ phase = "exited"

\* A termination request is honoured as soon as anything is posted to the loop, even when
\* another thread ran the handler and poll() was not interrupted.
StopHonoured == (stop /\ wake) ~> phase = "exited"

\* Nothing that waits for the loop is starved by the rest of it: neither a closure, nor a
\* source that asks for a wake, nor a request to stop that something wakes the loop for.
EverythingServed == EveryClosureRuns /\ SourcesServed /\ StopHonoured
===============================================================================
