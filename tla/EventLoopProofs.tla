---------------------------- MODULE EventLoopProofs ----------------------------
(***************************************************************************)
(* Theorems about the event loop of the main thread: MainLoop for every    *)
(* set of threads and sources and every bound (closures are neither lost   *)
(* nor reordered, no wakeup is lost, poll() does not oversleep, and no     *)
(* deadline is put off), and                                               *)
(* TimerManager for every set of Timers, every set of delays and every     *)
(* bound (the bookkeeping of cancel() and tick() is consistent, and the    *)
(* manager implements Alarms).                                             *)
(***************************************************************************)
EXTENDS MainLoop, TimerManager, TLAPS

(***************************** The main loop *****************************)

LEMMA TimesAreTimes == Times \subseteq 0..Never
BY MainLoopAssumption DEF Times

LEMMA DeadlineType ==
  ASSUME TypeOK, NEW s \in Sources
  PROVE  /\ Deadline(s) \in 0..Never
         /\ s \in live /\ wants[s] # Never =>
              /\ Deadline(s) = Least(wants[s], deadlines[s])
              /\ Deadline(s) <= deadlines[s] /\ Deadline(s) < Never
<1>1. deadlines[s] \in 0..Never /\ wants[s] \in 0..Never /\ Never \in Nat
  BY MainLoopAssumption DEF TypeOK
<1>2. QED BY <1>1 DEF Deadline, Least

\* What one tick does to a point in time.
LEMMA TickedIs ==
  ASSUME NEW left \in 0..Never
  PROVE  /\ Ticked(left) \in 0..Never /\ Ticked(left) <= left /\ left <= Ticked(left) + 1
         /\ left < Never => Ticked(left) < Never /\ (left = 0 \/ Ticked(left) = left - 1)
         /\ Ticked(left) # Never => left # Never
BY MainLoopAssumption DEF Ticked

\* The batch is empty outside of the two places that run it.
BatchRunsWhereTaken == batch # <<>> => phase \in {"deferred", "taken"}

\* The inductive invariant.
IInv == TypeOK /\ BatchRunsWhereTaken /\ RunsInOrder /\ QueuedWorkWakesTheLoop /\ NeverOversleeps

LEMMA InitIInv == Init => IInv
<1> SUFFICES ASSUME Init PROVE IInv
  OBVIOUS
<1>1. TypeOK
  <2>1. queue \in Seq(Closures) /\ batch \in Seq(Closures)
    BY DEF Init
  <2>2. /\ deadlines \in [Sources -> 0..Never] /\ wants \in [Sources -> 0..Never]
        /\ wakeAt \in 0..Never
        /\ posted \in 0..MaxPosts /\ ran \in 0..MaxPosts
    BY MainLoopAssumption DEF Init
  <2>3. /\ posting \subseteq Threads /\ woken \subseteq Sources /\ live \subseteq Sources
        /\ current \in Sources \union {None}
    BY DEF Init
  <2>4. QED BY <2>1, <2>2, <2>3 DEF Init, TypeOK
<1>2. BatchRunsWhereTaken /\ RunsInOrder /\ QueuedWorkWakesTheLoop /\ NeverOversleeps
  BY DEF Init, BatchRunsWhereTaken, RunsInOrder, QueuedWorkWakesTheLoop, NeverOversleeps
<1>3. QED BY <1>1, <1>2 DEF IInv

LEMMA TakeType ==
  ASSUME TypeOK, TakePending
  PROVE  /\ batch' \in Seq(Closures) /\ queue' \in Seq(Closures)
         /\ posted' \in 0..MaxPosts /\ wake' \in BOOLEAN /\ posting' \subseteq Threads
BY DEF TakePending, TypeOK

\* A closure posted anywhere goes to the end of the queue.
LEMMA PostKeepsOrder ==
  ASSUME TypeOK, RunsInOrder, posted < MaxPosts, posted' = posted + 1,
         queue' = Append(queue, posted + 1), UNCHANGED <<batch, ran>>
  PROVE  /\ posted' \in 0..MaxPosts /\ queue' \in Seq(Closures)
         /\ RunsInOrder'
<1>1. posted + 1 \in Closures /\ posted' \in 0..MaxPosts
  BY MainLoopAssumption DEF TypeOK, Closures
<1>2. queue' \in Seq(Closures) /\ Len(queue') = Len(queue) + 1
      /\ \A i \in 1..Len(queue') :
           queue'[i] = IF i = Len(queue) + 1 THEN posted + 1 ELSE queue[i]
  BY <1>1 DEF TypeOK
<1>3. /\ ran \in Nat /\ Len(batch) \in Nat /\ Len(queue) \in Nat /\ posted \in Nat
      /\ ran' = ran /\ batch' = batch /\ Len(batch') = Len(batch)
      /\ ran + Len(batch) + Len(queue) = posted
  BY DEF TypeOK, RunsInOrder
<1>4. RunsInOrder'
  <2>1. ran' + Len(batch') + Len(queue') = posted'
    BY <1>2, <1>3
  <2>2. \A i \in 1..Len(batch') : batch'[i] = ran' + i
    BY <1>3 DEF RunsInOrder
  <2>3. ASSUME NEW i \in 1..Len(queue') PROVE queue'[i] = ran' + Len(batch') + i
    <3>1. i \in 1..Len(queue) => queue[i] = ran + Len(batch) + i
      BY DEF RunsInOrder
    <3>2. i \in 1..Len(queue) \/ i = Len(queue) + 1
      BY <1>2, <1>3
    <3>3. CASE i \in 1..Len(queue)
      BY <1>2, <1>3, <3>1, <3>3
    <3>4. CASE i = Len(queue) + 1
      BY <1>2, <1>3, <3>4
    <3>5. QED BY <3>2, <3>3, <3>4
  <2>4. QED BY <2>1, <2>2, <2>3 DEF RunsInOrder
<1>5. QED BY <1>1, <1>2, <1>4

\* Taking the queue when the batch is empty keeps the order.
LEMMA TakeKeepsOrder ==
  ASSUME TypeOK, RunsInOrder, batch = <<>>, TakePending, UNCHANGED ran
  PROVE  RunsInOrder'
<1>1. /\ batch' = queue /\ queue' = <<>> /\ posted' = posted /\ Len(batch) = 0
      /\ Len(queue') = 0 /\ ran \in Nat /\ Len(queue) \in Nat
  BY DEF TakePending, TypeOK
<1>2. ran' + Len(batch') + Len(queue') = posted'
  BY <1>1 DEF RunsInOrder
<1>3. \A i \in 1..Len(batch') : batch'[i] = ran' + i
  BY <1>1 DEF RunsInOrder
<1>4. QED BY <1>1, <1>2, <1>3 DEF RunsInOrder

LEMMA RunKeepsOrder ==
  ASSUME TypeOK, RunsInOrder, RunClosure
  PROVE  /\ RunsInOrder' /\ batch' \in Seq(Closures) /\ ran' \in 0..MaxPosts
<1>1. /\ batch # <<>> /\ batch' = Tail(batch) /\ ran' = ran + 1 /\ UNCHANGED <<queue, posted>>
      /\ batch \in Seq(Closures) /\ ran \in Nat /\ Len(queue) \in Nat
      /\ posted \in Nat /\ posted <= MaxPosts /\ MaxPosts \in Nat
  BY MainLoopAssumption DEF RunClosure, deferredVars, TypeOK
<1>2. /\ batch' \in Seq(Closures) /\ Len(batch) \in Nat /\ Len(batch) > 0
      /\ Len(batch') = Len(batch) - 1
      /\ \A i \in 1..Len(batch') : batch'[i] = batch[i + 1]
  BY <1>1
<1>3. ran' + Len(batch') + Len(queue') = posted'
  BY <1>1, <1>2 DEF RunsInOrder
<1>4. \A i \in 1..Len(batch') : batch'[i] = ran' + i
  BY <1>1, <1>2 DEF RunsInOrder
<1>5. \A i \in 1..Len(queue') : queue'[i] = ran' + Len(batch') + i
  BY <1>1, <1>2 DEF RunsInOrder
<1>6. ran' \in 0..MaxPosts
  BY <1>1, <1>2, <1>3
<1>7. QED BY <1>2, <1>3, <1>4, <1>5, <1>6 DEF RunsInOrder

LEMMA CollectWakes ==
  ASSUME TypeOK, NEW blocked \in BOOLEAN, Collect(blocked)
  PROVE  /\ deadlines' \in [Sources -> 0..Never] /\ wakeAt' \in 0..Never
         /\ NeverOversleeps'
<1>1. /\ deadlines' = [s \in Sources |-> Deadline(s)]
      /\ UNCHANGED <<live, wants, frames>>
      /\ Floor \in Nat /\ Floor < Never /\ Never \in Nat
  BY MainLoopAssumption DEF Collect, shellVars
<1>2. PICK earliest \in {Deadline(s) : s \in Sources} \union {Never} :
        /\ \A s \in Sources : earliest <= Deadline(s)
        /\ LET pollTimeout == IF frames THEN 0 ELSE earliest
           IN wakeAt' = IF blocked THEN Latest(pollTimeout, Floor) ELSE pollTimeout
  BY DEF Collect
<1>3. earliest \in 0..Never
  BY <1>1, <1>2, DeadlineType
<1>4. PICK pollTimeout \in 0..Never :
        /\ pollTimeout <= earliest /\ (frames => pollTimeout = 0)
        /\ wakeAt' = pollTimeout \/ wakeAt' = Latest(pollTimeout, Floor)
  <2>1. /\ (IF frames THEN 0 ELSE earliest) \in 0..Never
        /\ (IF frames THEN 0 ELSE earliest) <= earliest
    BY <1>1, <1>3
  <2>2. QED BY <1>2, <2>1
<1>5. wakeAt' \in 0..Never
  BY <1>1, <1>4 DEF Latest
<1>6. ASSUME NEW s \in live, wants[s] # Never
      PROVE  wakeAt' < Never /\ wakeAt' <= Least(wants[s], deadlines'[s]) + Floor
  <2>1. s \in Sources /\ wants[s] \in 0..Never /\ deadlines[s] \in 0..Never
    BY <1>6 DEF TypeOK
  <2>2. /\ deadlines'[s] = Least(wants[s], deadlines[s]) /\ deadlines'[s] < Never
        /\ earliest <= deadlines'[s] /\ deadlines'[s] \in 0..Never
    BY <1>1, <1>2, <1>6, <2>1, DeadlineType
  <2>3. Least(wants[s], deadlines'[s]) = deadlines'[s]
    BY <1>1, <2>1, <2>2 DEF Least
  <2>4. QED BY <1>1, <1>3, <1>4, <2>2, <2>3 DEF Latest
<1>7. ASSUME frames PROVE wakeAt' <= Floor
  BY <1>1, <1>4, <1>7 DEF Latest
<1>8. NeverOversleeps'
  BY <1>1, <1>6, <1>7 DEF NeverOversleeps
<1>9. QED BY <1>1, <1>5, <1>8, DeadlineType

\* Time that passes in poll() brings what is asked for no nearer than the end of poll().
LEMMA TimeKeepsWake ==
  ASSUME TypeOK, TimePasses
  PROVE  /\ wants' \in [Sources -> 0..Never] /\ deadlines' \in [Sources -> 0..Never]
         /\ wakeAt' \in 0..Never
         /\ NeverOversleeps => NeverOversleeps'
<1>1. /\ UNCHANGED <<phase, live, frames>> /\ wakeAt' = Ticked(wakeAt) /\ wakeAt \in 0..Never
      /\ Floor \in Nat /\ Floor < Never /\ Never \in Nat
  <2>1. UNCHANGED <<phase, live, frames>> /\ wakeAt' = Ticked(wakeAt)
    BY DEF TimePasses
  <2>2. wakeAt \in 0..Never
    BY DEF TypeOK
  <2>3. QED BY <2>1, <2>2, MainLoopAssumption
<1>2. ASSUME NEW s \in Sources
      PROVE  /\ wants[s] \in 0..Never /\ deadlines[s] \in 0..Never
             /\ wants'[s] \in {wants[s], Ticked(wants[s])}
             /\ deadlines'[s] = Ticked(deadlines[s])
  BY DEF TimePasses, TypeOK
<1>3. wants' \in [Sources -> 0..Never] /\ deadlines' \in [Sources -> 0..Never]
  BY <1>2, TickedIs DEF TimePasses
<1>4. wakeAt' \in 0..Never
  BY <1>1, TickedIs
<1>5. ASSUME NeverOversleeps, phase' = "poll", NEW s \in live', wants'[s] # Never
      PROVE  wakeAt' < Never /\ wakeAt' <= Least(wants'[s], deadlines'[s]) + Floor
  <2>1. s \in Sources /\ s \in live
    BY <1>1, <1>5 DEF TypeOK
  <2> DEFINE w == wants[s]
             d == deadlines[s]
             w1 == wants'[s]
             d1 == deadlines'[s]
  <2>2. /\ w \in 0..Never /\ d \in 0..Never /\ w1 \in 0..Never /\ d1 \in 0..Never
        /\ w <= w1 + 1 /\ d <= d1 + 1 /\ w # Never
    BY <1>1, <1>2, <1>5, <2>1, TickedIs
  <2>3. wakeAt < Never /\ wakeAt <= Least(w, d) + Floor
    BY <1>1, <1>5, <2>1, <2>2 DEF NeverOversleeps
  <2>4. wakeAt' \in 0..Never /\ wakeAt' < Never /\ (wakeAt' = 0 \/ wakeAt' = wakeAt - 1)
    BY <1>1, <2>3 DEF Ticked
  <2>5. wakeAt' <= Least(w1, d1) + Floor
    <3> HIDE DEF w, d, w1, d1
    <3>1. QED BY <1>1, <2>2, <2>3, <2>4 DEF Least
  <2>6. QED BY <2>4, <2>5
<1>6. NeverOversleeps /\ phase' = "poll" /\ frames' => wakeAt' <= Floor
  BY <1>1, TickedIs DEF NeverOversleeps
<1>7. QED BY <1>3, <1>4, <1>5, <1>6 DEF NeverOversleeps

\* One step per group of actions that leaves the same variables alone.
LEMMA TypeStep == IInv /\ [Next]_vars => TypeOK'
<1> SUFFICES ASSUME IInv, [Next]_vars PROVE TypeOK'
  OBVIOUS
<1> USE DEF deferredVars, loopVars, shellVars
<1>0. TypeOK /\ RunsInOrder /\ Times \subseteq 0..Never
  BY TimesAreTimes DEF IInv
<1>1. ASSUME NEW t \in Threads, Push(t) PROVE TypeOK'
  <2>1. posted' \in 0..MaxPosts /\ queue' \in Seq(Closures)
    BY <1>0, <1>1, PostKeepsOrder DEF Push
  <2>2. QED BY <1>0, <1>1, <2>1 DEF Push, TypeOK
<1>2. ASSUME NEW t \in Threads, WakeMainLoop(t) PROVE TypeOK'
  BY <1>0, <1>2 DEF WakeMainLoop, TypeOK
<1>3. CASE MainPosts
  <2>1. posted' \in 0..MaxPosts /\ queue' \in Seq(Closures)
    BY <1>0, <1>3, PostKeepsOrder DEF MainPosts
  <2>2. QED BY <1>0, <1>3, <2>1 DEF MainPosts, TypeOK
<1>4. ASSUME NEW s \in Sources, NEW when \in Times, SourceWants(s, when) PROVE TypeOK'
  BY <1>0, <1>4 DEF SourceWants, TypeOK
<1>5. ASSUME NEW s \in Sources, CreateSource(s) PROVE TypeOK'
  BY <1>0, <1>5 DEF CreateSource, TypeOK
<1>6. ASSUME NEW s \in Sources, DestroySource(s) PROVE TypeOK'
  BY <1>0, <1>6, MainLoopAssumption DEF DestroySource, TypeOK
<1>8. ASSUME NEW s \in Sources, Dispatch(s) PROVE TypeOK'
  BY <1>0, <1>8, MainLoopAssumption DEF Dispatch, TypeOK
<1>9. ASSUME NEW s \in Sources, SkipFreed(s) PROVE TypeOK'
  BY <1>0, <1>9 DEF SkipFreed, TypeOK
<1>10. CASE RequestFrame
  BY <1>0, <1>10 DEF RequestFrame, TypeOK
<1>11. CASE BeginIteration
  BY <1>0, <1>11, TakeType DEF BeginIteration, TypeOK
<1>12. CASE Exit
  BY <1>0, <1>12 DEF Exit, TypeOK
<1>13. CASE RunClosure
  <2>1. batch' \in Seq(Closures) /\ ran' \in 0..MaxPosts
    BY <1>0, <1>13, RunKeepsOrder
  <2>2. QED BY <1>0, <1>13, <2>1 DEF RunClosure, TypeOK
<1>14. ASSUME NEW blocked \in BOOLEAN, Collect(blocked) PROVE TypeOK'
  <2>1. deadlines' \in [Sources -> 0..Never] /\ wakeAt' \in 0..Never
    BY <1>0, <1>14, CollectWakes
  <2>2. /\ phase' = "poll"
        /\ UNCHANGED <<deferredVars, batch, ran, ready, woken, current, shellVars, stop>>
    BY <1>14 DEF Collect
  <2>3. QED BY <1>0, <2>1, <2>2 DEF TypeOK
<1>15. ASSUME NEW wayland \in BOOLEAN, NEW fds \in SUBSET Sources, PollReturns(wayland, fds)
       PROVE  TypeOK'
  BY <1>0, <1>15, MainLoopAssumption DEF PollReturns, TypeOK
<1>16. CASE BeginPass
  BY <1>0, <1>16 DEF BeginPass, TypeOK
<1>17. ASSUME NEW when \in Times, DispatchReturns(when) PROVE TypeOK'
  BY <1>0, <1>17 DEF DispatchReturns, TypeOK
<1>18. CASE DrainWakeFd
  BY <1>0, <1>18 DEF DrainWakeFd, TypeOK
<1>19. CASE TakeDrained
  BY <1>0, <1>19, TakeType DEF TakeDrained, TypeOK
<1>20. CASE DrainedBatchDone
  BY <1>0, <1>20 DEF DrainedBatchDone, TypeOK
<1>21. CASE DrawFrames
  BY <1>0, <1>21 DEF DrawFrames, TypeOK
<1>22. CASE TimePasses
  <2>1. /\ wants' \in [Sources -> 0..Never] /\ deadlines' \in [Sources -> 0..Never]
        /\ wakeAt' \in 0..Never
    BY <1>0, <1>22, TimeKeepsWake
  <2>2. QED BY <1>0, <1>22, <2>1 DEF TimePasses, TypeOK
<1>23. CASE TerminationSignal
  BY <1>0, <1>23, MainLoopAssumption DEF TerminationSignal, TypeOK
<1>24. CASE UNCHANGED vars
  BY <1>0, <1>24 DEF vars, TypeOK
<1>25. QED BY <1>1, <1>2, <1>3, <1>4, <1>5, <1>6, <1>8, <1>9, <1>10, <1>11, <1>12, <1>13,
              <1>14, <1>15, <1>16, <1>17, <1>18, <1>19, <1>20, <1>21, <1>22, <1>23, <1>24
       DEF Next

\* The steps that post or take closures; every other one leaves them alone.
LEMMA OrderStep == IInv /\ [Next]_vars => BatchRunsWhereTaken' /\ RunsInOrder'
<1> SUFFICES ASSUME IInv, [Next]_vars PROVE BatchRunsWhereTaken' /\ RunsInOrder'
  OBVIOUS
<1> USE DEF deferredVars, loopVars, shellVars
<1>0. TypeOK /\ RunsInOrder /\ BatchRunsWhereTaken
  BY DEF IInv
<1>1. CASE \/ \E t \in Threads : Push(t)
           \/ MainPosts
  <2>1. /\ posted < MaxPosts /\ posted' = posted + 1 /\ queue' = Append(queue, posted + 1)
        /\ UNCHANGED <<batch, ran, phase>>
    BY <1>1 DEF Push, MainPosts
  <2>2. QED BY <1>0, <2>1, PostKeepsOrder DEF BatchRunsWhereTaken
<1>2. CASE BeginIteration \/ TakeDrained
  <2>1. phase \in {"top", "drained"} /\ phase' \in {"deferred", "taken"} /\ TakePending
        /\ UNCHANGED ran
    BY <1>2 DEF BeginIteration, TakeDrained
  <2>2. batch = <<>>
    BY <1>0, <2>1 DEF BatchRunsWhereTaken
  <2>3. QED BY <1>0, <2>1, <2>2, TakeKeepsOrder DEF BatchRunsWhereTaken
<1>3. CASE RunClosure
  <2>1. RunsInOrder'
    BY <1>0, <1>3, RunKeepsOrder
  <2>2. QED BY <1>3, <2>1 DEF RunClosure, BatchRunsWhereTaken
<1>4. CASE \/ Exit \/ (\E blocked \in BOOLEAN : Collect(blocked))
           \/ (\E wayland \in BOOLEAN, fds \in SUBSET Sources : PollReturns(wayland, fds))
           \/ BeginPass \/ DrainWakeFd \/ DrainedBatchDone \/ DrawFrames \/ TerminationSignal
  <2>1. /\ UNCHANGED <<posted, queue, batch, ran>>
        /\ \/ phase' = phase
           \/ phase \notin {"deferred", "taken"}
           \/ batch = <<>>
    BY <1>4 DEF Exit, Collect, PollReturns, BeginPass, DrainWakeFd, DrainedBatchDone,
                DrawFrames, TerminationSignal
  <2>2. QED BY <1>0, <2>1 DEF BatchRunsWhereTaken, RunsInOrder
<1>5. CASE \/ \E t \in Threads : WakeMainLoop(t)
           \/ \E s \in Sources : \/ \E when \in Times : SourceWants(s, when)
                                 \/ CreateSource(s) \/ DestroySource(s)
                                 \/ Dispatch(s) \/ SkipFreed(s)
           \/ RequestFrame \/ (\E when \in Times : DispatchReturns(when)) \/ TimePasses
           \/ UNCHANGED vars
  <2>1. UNCHANGED <<posted, queue, batch, ran, phase>>
    BY <1>5 DEF WakeMainLoop, SourceWants, CreateSource, DestroySource, Dispatch, SkipFreed,
                RequestFrame, DispatchReturns, TimePasses, vars
  <2>2. QED BY <1>0, <2>1 DEF BatchRunsWhereTaken, RunsInOrder
<1>6. QED BY <1>1, <1>2, <1>3, <1>4, <1>5 DEF Next

\* A byte leaves the pipe only in drainWakeFd(), and what posts a closure writes one.
LEMMA WakeStep == IInv /\ [Next]_vars => QueuedWorkWakesTheLoop'
<1> SUFFICES ASSUME IInv, [Next]_vars PROVE QueuedWorkWakesTheLoop'
  OBVIOUS
<1> USE DEF deferredVars, loopVars, shellVars
<1>1. QueuedWorkWakesTheLoop
  BY DEF IInv
<1>2. CASE \E t \in Threads : Push(t) \/ WakeMainLoop(t)
  BY <1>2 DEF Push, WakeMainLoop, QueuedWorkWakesTheLoop
<1>3. CASE MainPosts \/ BeginIteration \/ TakeDrained \/ DrainWakeFd
  BY <1>3 DEF MainPosts, BeginIteration, TakeDrained, DrainWakeFd, TakePending,
              QueuedWorkWakesTheLoop
<1>4. CASE \/ Exit \/ RunClosure \/ (\E blocked \in BOOLEAN : Collect(blocked))
           \/ (\E wayland \in BOOLEAN, fds \in SUBSET Sources : PollReturns(wayland, fds))
           \/ BeginPass \/ DrainedBatchDone \/ DrawFrames \/ TerminationSignal
  <2>1. UNCHANGED <<queue, wake, posting>> /\ (phase = "drained" => phase' = "drained")
    BY <1>4 DEF Exit, RunClosure, Collect, PollReturns, BeginPass, DrainedBatchDone, DrawFrames,
                TerminationSignal
  <2>2. QED BY <1>1, <2>1 DEF QueuedWorkWakesTheLoop
<1>5. CASE \/ \E s \in Sources : \/ \E when \in Times : SourceWants(s, when)
                                 \/ CreateSource(s) \/ DestroySource(s)
                                 \/ Dispatch(s) \/ SkipFreed(s)
           \/ RequestFrame \/ (\E when \in Times : DispatchReturns(when)) \/ TimePasses
           \/ UNCHANGED vars
  <2>1. UNCHANGED <<queue, wake, posting, phase>>
    BY <1>5 DEF SourceWants, CreateSource, DestroySource, Dispatch, SkipFreed, RequestFrame,
                DispatchReturns, TimePasses, vars
  <2>2. QED BY <1>1, <2>1 DEF QueuedWorkWakesTheLoop
<1>6. QED BY <1>2, <1>3, <1>4, <1>5 DEF Next

\* The timeout is chosen on the way into poll(); nothing of the main thread runs there.
LEMMA SleepStep == IInv /\ [Next]_vars => NeverOversleeps'
<1> SUFFICES ASSUME IInv, [Next]_vars PROVE NeverOversleeps'
  OBVIOUS
<1> USE DEF deferredVars, loopVars, shellVars
<1>0. TypeOK /\ NeverOversleeps
  BY DEF IInv
<1>1. CASE \E blocked \in BOOLEAN : Collect(blocked)
  BY <1>0, <1>1, CollectWakes
<1>2. CASE TimePasses
  BY <1>0, <1>2, TimeKeepsWake
<1>3. CASE \/ \E t \in Threads : Push(t) \/ WakeMainLoop(t)
           \/ UNCHANGED vars
           \/ TerminationSignal
  <2>1. UNCHANGED <<live, wants, deadlines, frames>> /\ (phase' = "poll" => phase = "poll" /\ wakeAt' = wakeAt)
    BY <1>3 DEF Push, WakeMainLoop, TerminationSignal, vars
  <2>2. QED BY <1>0, <2>1 DEF NeverOversleeps
<1>4. CASE \/ MainPosts \/ RequestFrame
           \/ \E s \in Sources : \/ \E when \in Times : SourceWants(s, when)
                                 \/ CreateSource(s) \/ DestroySource(s)
           \/ BeginIteration \/ Exit \/ RunClosure
           \/ (\E wayland \in BOOLEAN, fds \in SUBSET Sources : PollReturns(wayland, fds))
           \/ BeginPass
           \/ (\E s \in Sources : Dispatch(s) \/ SkipFreed(s))
           \/ DrainWakeFd \/ TakeDrained \/ DrainedBatchDone \/ DrawFrames
  <2>1. phase' # "poll"
    BY <1>4 DEF MainThreadRuns, MainPosts, RequestFrame, SourceWants, CreateSource, DestroySource,
                BeginIteration, Exit, RunClosure, PollReturns, BeginPass, Dispatch, SkipFreed,
                DrainWakeFd, TakeDrained, DrainedBatchDone, DrawFrames
  <2>2. QED BY <2>1 DEF NeverOversleeps
<1>5. CASE \E when \in Times : DispatchReturns(when)
  <2>1. phase' # "poll"
    BY <1>5 DEF DispatchReturns
  <2>2. QED BY <2>1 DEF NeverOversleeps
<1>6. QED BY <1>1, <1>2, <1>3, <1>4, <1>5 DEF Next

LEMMA StepIInv == IInv /\ [Next]_vars => IInv'
BY TypeStep, OrderStep, WakeStep, SleepStep DEF IInv

\* The loop's variables keep their types, for any threads, sources and bounds.
THEOREM TypeCorrect == Spec => []TypeOK
<1>1. IInv => TypeOK
  BY DEF IInv
<1>2. QED BY <1>1, InitIInv, StepIInv, PTL DEF Spec

\* Each closure handed to callLater() runs once and in its turn.
THEOREM ClosuresAlwaysRunInOrder == Spec => []RunsInOrder
<1>1. IInv => RunsInOrder
  BY DEF IInv
<1>2. QED BY <1>1, InitIInv, StepIInv, PTL DEF Spec

\* The loop never sleeps on a queued closure without a byte in the pipe or on its way.
THEOREM NoWakeupIsLost == Spec => []QueuedWorkWakesTheLoop
<1>1. IInv => QueuedWorkWakesTheLoop
  BY DEF IInv
<1>2. QED BY <1>1, InitIInv, StepIInv, PTL DEF Spec

\* poll() never sleeps past the earliest time a live source has asked for since its last dispatch
\* by more than the floor.
THEOREM PollNeverOversleeps == Spec => []NeverOversleeps
<1>1. IInv => NeverOversleeps
  BY DEF IInv
<1>2. QED BY <1>1, InitIInv, StepIInv, PTL DEF Spec

\* In every reachable state the loop is awake, or will wake in time, for whatever it has
\* to do.
THEOREM LoopAlwaysWakes == Spec => []LoopWakes
BY NoWakeupIsLost, PollNeverOversleeps, PTL DEF LoopWakes

\* However often the loop comes round, an armed deadline of a live source that still wants a
\* wake is never put off before the source is dispatched: requests that slide with the clock
\* cannot starve it.
THEOREM DeadlinesNeverPostponed == Spec => DeadlinesNotPostponed
<1> DEFINE Kept == \A s \in Sources :
                     deadlines[s] # Never /\ s \in live /\ wants[s] # Never /\ current' # s
                       => deadlines'[s] <= deadlines[s]
<1>1. IInv /\ [Next]_vars => [Kept]_vars
  <2> SUFFICES ASSUME IInv, [Next]_vars, NEW s \in Sources, deadlines[s] # Never, s \in live,
                      wants[s] # Never, current' # s
               PROVE  deadlines'[s] <= deadlines[s]
    OBVIOUS
  <2>1. /\ TypeOK /\ deadlines \in [Sources -> 0..Never] /\ deadlines[s] \in 0..Never
        /\ Never \in Nat
    BY MainLoopAssumption DEF IInv, TypeOK
  <2> USE DEF deferredVars, loopVars, shellVars
  <2>2. CASE \E blocked \in BOOLEAN : Collect(blocked)
    <3>1. deadlines'[s] = Deadline(s)
      BY <2>2 DEF Collect
    <3>2. QED BY <2>1, <3>1, DeadlineType
  <2>3. CASE \E r \in Sources : Dispatch(r)
    <3>1. PICK r \in Sources : deadlines' = [deadlines EXCEPT ![r] = Never] /\ current' = r
      BY <2>3 DEF Dispatch
    <3>2. deadlines'[s] = deadlines[s]
      BY <2>1, <3>1
    <3>3. QED BY <2>1, <3>2
  <2>4. CASE \/ \E t \in Threads : Push(t) \/ WakeMainLoop(t)
             \/ MainPosts \/ RequestFrame
             \/ \E r \in Sources : \/ \E when \in Times : SourceWants(r, when)
                                   \/ CreateSource(r) \/ DestroySource(r)
                                   \/ SkipFreed(r)
             \/ BeginIteration \/ Exit \/ RunClosure
             \/ (\E wayland \in BOOLEAN, fds \in SUBSET Sources : PollReturns(wayland, fds))
             \/ BeginPass \/ (\E when \in Times : DispatchReturns(when))
             \/ DrainWakeFd \/ TakeDrained \/ DrainedBatchDone \/ DrawFrames
             \/ TerminationSignal \/ UNCHANGED vars
    <3>1. deadlines' = deadlines
      BY <2>4 DEF Push, WakeMainLoop, MainPosts, RequestFrame, SourceWants, CreateSource,
                  DestroySource, SkipFreed, BeginIteration, Exit, RunClosure,
                  PollReturns, BeginPass, DispatchReturns, DrainWakeFd, TakeDrained,
                  DrainedBatchDone, DrawFrames, TerminationSignal, vars
    <3>2. QED BY <2>1, <3>1
  <2>5. CASE TimePasses
    <3>1. deadlines'[s] = Ticked(deadlines[s])
      BY <2>5 DEF TimePasses
    <3>2. QED BY <2>1, <3>1, TickedIs
  <2>6. QED BY <2>2, <2>3, <2>4, <2>5 DEF Next
<1>2. QED BY <1>1, InitIInv, StepIInv, PTL DEF Spec, DeadlinesNotPostponed

(******************************* The timers *******************************)

\* Ids are given out once; what tick() has taken out of the table is due and is rung
\* or skipped once.
IdsAreFresh ==
  /\ \A e \in entries \union Taken : e.id < nextId
  /\ \A t \in Timers : slot[t] < nextId
  /\ \A e \in dueEntries : e.dueAt <= time
  /\ running \notin dueEntries

\* The inductive invariant.
TMInv == TMTypeOK /\ BookkeepingConsistent /\ IdsAreFresh

LEMMA InitTMInv == TMInit => TMInv
<1> SUFFICES ASSUME TMInit PROVE TMInv
  OBVIOUS
<1>1. TMTypeOK
  BY TimerManagerAssumption DEF TMInit, TMTypeOK
<1>2. BookkeepingConsistent
  BY DEF TMInit, BookkeepingConsistent, Ids, Taken, Owned
<1>3. IdsAreFresh
  BY DEF TMInit, IdsAreFresh, Taken
<1>4. QED BY <1>1, <1>2, <1>3 DEF TMInv

\* NoEntry is no entry.
LEMMA EntryIsSome ==
  ASSUME NEW e \in TimerEntry
  PROVE  e # NoEntry /\ e.id \in Nat /\ e.id # 0
BY TimerManagerAssumption DEF TimerEntry

LEMMA TMTypeStep == TMTypeOK /\ [TMNext]_tmVars => TMTypeOK'
<1> SUFFICES ASSUME TMTypeOK, [TMNext]_tmVars PROVE TMTypeOK'
  OBVIOUS
<1> USE TimerManagerAssumption
<1>1. ASSUME NEW t \in Timers, NEW delay \in TimerDelays, NEW repeating \in BOOLEAN,
             Start(t, delay, repeating)
      PROVE  TMTypeOK'
  <2>1. [id |-> nextId, dueAt |-> time + delay, interval |-> delay, repeating |-> repeating]
          \in TimerEntry
    BY <1>1 DEF Start, TMTypeOK, TimerEntry
  <2>2. entries' \subseteq TimerEntry
    BY <1>1, <2>1 DEF Start, TMTypeOK, EntriesWithout
  <2>3. canceled' \subseteq 1..MaxId
    BY <1>1 DEF Start, TMTypeOK, CanceledWith
  <2>4. nextId' \in 1..(MaxId + 1) /\ slot' \in [Timers -> 0..MaxId]
    BY <1>1 DEF Start, TMTypeOK
  <2>5. QED BY <1>1, <2>2, <2>3, <2>4 DEF Start, TMTypeOK
<1>2. ASSUME NEW t \in Timers, Stop(t) PROVE TMTypeOK'
  <2>1. entries' \subseteq TimerEntry /\ canceled' \subseteq 1..MaxId
    BY <1>2 DEF Stop, Cancel, TMTypeOK, EntriesWithout, CanceledWith
  <2>2. slot' \in [Timers -> 0..MaxId]
    BY <1>2 DEF Stop, TMTypeOK
  <2>3. QED BY <1>2, <2>1, <2>2 DEF Stop, TMTypeOK
<1>3. ASSUME NEW from \in Timers, NEW to \in Timers, Move(from, to) PROVE TMTypeOK'
  <2>1. entries' \subseteq TimerEntry /\ canceled' \subseteq 1..MaxId
    BY <1>3 DEF Move, Cancel, TMTypeOK, EntriesWithout, CanceledWith
  <2>2. slot' \in [Timers -> 0..MaxId]
    BY <1>3 DEF Move, TMTypeOK
  <2>3. QED BY <1>3, <2>1, <2>2 DEF Move, TMTypeOK
<1>4. CASE Tick
  BY <1>4 DEF Tick, TMTypeOK, Due, Ids, TimerEntry
<1>5. ASSUME NEW entry \in dueEntries, SkipCanceled(entry) PROVE TMTypeOK'
  BY <1>5 DEF SkipCanceled, TMTypeOK
<1>6. ASSUME NEW entry \in dueEntries, CallbackBegins(entry) PROVE TMTypeOK'
  BY <1>6 DEF CallbackBegins, TMTypeOK
<1>7. CASE CallbackEnds
  <2>1. running \in TimerEntry
    BY <1>7 DEF CallbackEnds, TMTypeOK
  <2>2. Rearmed(running) \subseteq TimerEntry
    BY <2>1 DEF Rearmed, TimerEntry, TMTypeOK
  <2>3. QED BY <1>7, <2>2 DEF CallbackEnds, TMTypeOK
<1>8. CASE ClockAdvances
  BY <1>8 DEF ClockAdvances, TMTypeOK
<1>9. CASE UNCHANGED tmVars
  BY <1>9 DEF tmVars, TMTypeOK
<1>10. QED BY <1>1, <1>2, <1>3, <1>4, <1>5, <1>6, <1>7, <1>8, <1>9 DEF TMNext

\* Every entry of the table or of the running tick is a TimerEntry.
LEMMA EntryTypes ==
  ASSUME TMTypeOK
  PROVE  /\ entries \subseteq TimerEntry /\ Taken \subseteq TimerEntry
         /\ \A e \in entries \union Taken : e.id \in 1..MaxId /\ e # NoEntry
BY EntryIsSome DEF TMTypeOK, Taken, TimerEntry

\* What cancelling the id of a Timer, and forgetting it there, does: shared by start(),
\* stop() and the assignment of a Timer.
LEMMA CancelKeepsBookkeeping ==
  ASSUME TMInv, NEW t \in Timers,
         Cancel(slot[t]), UNCHANGED <<inFlight, dueEntries, running>>
  PROVE  /\ inFlight' = Ids(Taken')
         /\ Ids(entries') \intersect inFlight' = {}
         /\ canceled' = {id \in inFlight' : \A u \in Timers : u # t => slot[u] # id}
         /\ \A e \in entries' : \E u \in Timers : u # t /\ slot[u] = e.id
         /\ entries' = {e \in entries : e.id # slot[t]}
         /\ Taken' = Taken
         /\ \A d, e \in entries' \union Taken' : d.id = e.id => d = e
<1>1. Taken' = Taken /\ inFlight' = inFlight /\ dueEntries' = dueEntries
  BY DEF Taken
<1>2. entries' = {e \in entries : e.id # slot[t]}
  BY DEF Cancel, EntriesWithout
<1>3. inFlight' = Ids(Taken') /\ Ids(entries') \intersect inFlight' = {}
  BY <1>1, <1>2 DEF TMInv, BookkeepingConsistent, Ids
<1>4. \A e \in entries' : \E u \in Timers : u # t /\ slot[u] = e.id
  BY <1>2 DEF TMInv, BookkeepingConsistent, Owned
<1>5. canceled' = {id \in inFlight' : \A u \in Timers : u # t => slot[u] # id}
  <2>1. \A id \in inFlight : id \in Nat /\ id # 0 /\ id \notin Ids(entries)
    BY EntryTypes DEF TMInv, BookkeepingConsistent, TMTypeOK, Ids
  <2>2. canceled = {id \in inFlight : ~\E u \in Timers : slot[u] = id}
    BY DEF TMInv, BookkeepingConsistent, Owned
  <2>3. \A u \in Timers : slot[u] = slot[t] /\ slot[u] # 0 => u = t
    BY DEF TMInv, BookkeepingConsistent
  <2>4. CASE slot[t] \in inFlight
    <3>1. canceled' = canceled \union {slot[t]}
      BY <2>1, <2>4 DEF Cancel, CanceledWith
    <3>2. QED BY <1>1, <2>1, <2>2, <2>3, <2>4, <3>1
  <2>5. CASE slot[t] \notin inFlight
    <3>1. canceled' = canceled
      BY <2>5 DEF Cancel, CanceledWith
    <3>2. QED BY <1>1, <2>2, <2>5, <3>1
  <2>6. QED BY <2>4, <2>5
<1>6. \A d, e \in entries' \union Taken' : d.id = e.id => d = e
  BY <1>1, <1>2 DEF TMInv, BookkeepingConsistent
<1>7. QED BY <1>1, <1>2, <1>3, <1>4, <1>5, <1>6

LEMMA StartKeeps ==
  ASSUME TMInv, NEW t \in Timers, NEW delay \in TimerDelays, NEW repeating \in BOOLEAN,
         Start(t, delay, repeating)
  PROVE  BookkeepingConsistent' /\ IdsAreFresh'
<1> DEFINE new == [id |-> nextId, dueAt |-> time + delay, interval |-> delay,
                   repeating |-> repeating]
<1>1. /\ UNCHANGED <<time, inFlight, dueEntries, running>>
      /\ Taken' = Taken
      /\ entries' = {e \in entries : e.id # slot[t]} \union {new}
      /\ slot' = [slot EXCEPT ![t] = nextId]
      /\ nextId' = nextId + 1
  BY DEF Start, Taken, EntriesWithout
<1>2. /\ nextId \in Nat /\ nextId # 0
      /\ \A u \in Timers : slot[u] \in Nat /\ slot[u] < nextId
      /\ \A e \in entries \union Taken : e.id \in Nat /\ e.id < nextId
  BY EntryTypes, TimerManagerAssumption DEF TMInv, TMTypeOK, IdsAreFresh
<1>3. /\ \A u \in Timers : u # t => slot'[u] = slot[u]
      /\ slot'[t] = nextId
  BY <1>1 DEF TMInv, TMTypeOK
<1>4. inFlight' = Ids(Taken')
  BY <1>1 DEF TMInv, BookkeepingConsistent
<1>5. Ids(entries') \intersect inFlight' = {}
  <2>1. nextId \notin inFlight
    BY <1>2 DEF TMInv, BookkeepingConsistent, Ids
  <2>2. QED BY <1>1, <2>1 DEF TMInv, BookkeepingConsistent, Ids
<1>6. canceled' = {id \in inFlight' : ~Owned(id)'}
  <2>1. \A id \in inFlight : id \in Nat /\ id # 0 /\ id \notin Ids(entries) /\ id # nextId
    BY <1>2, EntryTypes DEF TMInv, BookkeepingConsistent, TMTypeOK, Ids
  <2>2. canceled = {id \in inFlight : ~\E u \in Timers : slot[u] = id}
    BY DEF TMInv, BookkeepingConsistent, Owned
  <2>3. \A u \in Timers : slot[u] = slot[t] /\ slot[u] # 0 => u = t
    BY DEF TMInv, BookkeepingConsistent
  <2>4. CASE slot[t] \in inFlight
    <3>1. canceled' = canceled \union {slot[t]}
      BY <2>1, <2>4 DEF Start, CanceledWith
    <3>2. QED BY <1>1, <1>3, <2>1, <2>2, <2>3, <2>4, <3>1 DEF Owned
  <2>5. CASE slot[t] \notin inFlight
    <3>1. canceled' = canceled
      BY <2>5 DEF Start, CanceledWith
    <3>2. QED BY <1>1, <1>3, <2>1, <2>2, <2>5, <3>1 DEF Owned
  <2>6. QED BY <2>4, <2>5
<1>7. \A e \in entries' : Owned(e.id)'
  BY <1>1, <1>3 DEF TMInv, BookkeepingConsistent, Owned
<1>8. \A u, v \in Timers : slot'[u] = slot'[v] /\ slot'[u] # 0 => u = v
  BY <1>2, <1>3 DEF TMInv, BookkeepingConsistent
<1>9. \A d, e \in entries' \union Taken' : d.id = e.id => d = e
  BY <1>1, <1>2 DEF TMInv, BookkeepingConsistent
<1>10. IdsAreFresh'
  <2>1. \A e \in entries' \union Taken' : e.id < nextId'
    BY <1>1, <1>2
  <2>2. \A u \in Timers : slot'[u] < nextId'
    BY <1>1, <1>2, <1>3
  <2>3. QED BY <1>1, <2>1, <2>2 DEF IdsAreFresh, TMInv
<1>11. QED BY <1>4, <1>5, <1>6, <1>7, <1>8, <1>9, <1>10 DEF BookkeepingConsistent

LEMMA StopKeeps ==
  ASSUME TMInv, NEW t \in Timers, Stop(t)
  PROVE  BookkeepingConsistent' /\ IdsAreFresh'
<1>1. Cancel(slot[t]) /\ UNCHANGED <<time, nextId, inFlight, dueEntries, running>>
  BY DEF Stop
<1>2. /\ \A u \in Timers : u # t => slot'[u] = slot[u]
      /\ slot'[t] = 0
  BY DEF Stop, TMInv, TMTypeOK
<1>3. \A id \in inFlight' : id # 0
  BY <1>1, EntryTypes DEF TMInv, TMTypeOK
<1>4. BookkeepingConsistent'
  <2>1. canceled' = {id \in inFlight' : ~Owned(id)'}
    BY <1>1, <1>2, <1>3, CancelKeepsBookkeeping DEF Owned
  <2>2. \A e \in entries' : Owned(e.id)'
    BY <1>1, <1>2, CancelKeepsBookkeeping DEF Owned
  <2>3. \A u, v \in Timers : slot'[u] = slot'[v] /\ slot'[u] # 0 => u = v
    BY <1>2 DEF TMInv, BookkeepingConsistent
  <2>4. QED BY <1>1, <2>1, <2>2, <2>3, CancelKeepsBookkeeping DEF BookkeepingConsistent
<1>5. IdsAreFresh'
  <2>1. entries' \subseteq entries /\ Taken' = Taken
    BY <1>1, CancelKeepsBookkeeping
  <2>2. nextId \in Nat /\ 0 < nextId
    BY TimerManagerAssumption DEF TMInv, TMTypeOK
  <2>3. QED BY <1>1, <1>2, <2>1, <2>2 DEF TMInv, IdsAreFresh
<1>6. QED BY <1>4, <1>5

LEMMA MoveKeeps ==
  ASSUME TMInv, NEW from \in Timers, NEW to \in Timers, Move(from, to)
  PROVE  BookkeepingConsistent' /\ IdsAreFresh'
<1>1. /\ Cancel(slot[to]) /\ UNCHANGED <<time, nextId, inFlight, dueEntries, running>>
      /\ from # to
  BY DEF Move
<1>2. /\ \A u \in Timers : u # from /\ u # to => slot'[u] = slot[u]
      /\ slot'[from] = 0
      /\ slot'[to] = slot[from]
  BY DEF Move, TMInv, TMTypeOK
<1>3. \A id \in inFlight' \union Ids(entries') : id # 0
  <2>1. entries' \subseteq entries
    BY <1>1, CancelKeepsBookkeeping
  <2>2. QED BY <1>1, <2>1, EntryTypes DEF TMInv, TMTypeOK, Ids
<1>4. BookkeepingConsistent'
  <2>1. \A id : id # 0 => (Owned(id)' <=> \E u \in Timers : u # to /\ slot[u] = id)
    BY <1>1, <1>2 DEF Owned
  <2>2. canceled' = {id \in inFlight' : ~Owned(id)'}
    BY <1>1, <1>3, <2>1, CancelKeepsBookkeeping
  <2>3. \A e \in entries' : Owned(e.id)'
    BY <1>1, <1>3, <2>1, CancelKeepsBookkeeping DEF Ids
  <2>4. \A u, v \in Timers : slot'[u] = slot'[v] /\ slot'[u] # 0 => u = v
    BY <1>2 DEF TMInv, BookkeepingConsistent
  <2>5. QED BY <1>1, <2>2, <2>3, <2>4, CancelKeepsBookkeeping DEF BookkeepingConsistent
<1>5. IdsAreFresh'
  <2>1. entries' \subseteq entries /\ Taken' = Taken
    BY <1>1, CancelKeepsBookkeeping
  <2>2. nextId \in Nat /\ 0 < nextId
    BY TimerManagerAssumption DEF TMInv, TMTypeOK
  <2>3. QED BY <1>1, <1>2, <2>1, <2>2 DEF TMInv, IdsAreFresh
<1>6. QED BY <1>4, <1>5

LEMMA TickKeeps ==
  ASSUME TMInv, Tick
  PROVE  BookkeepingConsistent' /\ IdsAreFresh'
<1>1. /\ dueEntries = {} /\ running = NoEntry
      /\ dueEntries' = Due /\ entries' = entries \ Due /\ inFlight' = inFlight \union Ids(Due)
      /\ UNCHANGED <<time, nextId, canceled, running, slot>>
  BY DEF Tick
<1>2. Taken = {} /\ inFlight = {} /\ canceled = {} /\ Taken' = Due /\ Due \subseteq entries
  BY <1>1 DEF Taken, Due, Ids, TMInv, BookkeepingConsistent
<1>3. inFlight' = Ids(Taken')
  BY <1>1, <1>2
<1>4. \A e \in entries' \union Taken' : e \in entries /\ Owned(e.id)'
  BY <1>1, <1>2 DEF TMInv, BookkeepingConsistent, Owned
<1>5. Ids(entries') \intersect inFlight' = {}
  BY <1>1, <1>2 DEF TMInv, BookkeepingConsistent, Ids
<1>6. canceled' = {id \in inFlight' : ~Owned(id)'}
  BY <1>1, <1>2, <1>3, <1>4 DEF Ids
<1>7. BookkeepingConsistent'
  BY <1>1, <1>3, <1>4, <1>5, <1>6 DEF TMInv, BookkeepingConsistent
<1>8. IdsAreFresh'
  <2>1. running' \notin dueEntries'
    BY <1>1, <1>2, EntryTypes DEF TMInv
  <2>2. QED BY <1>1, <1>2, <1>4, <2>1 DEF TMInv, IdsAreFresh, Due
<1>9. QED BY <1>7, <1>8

LEMMA SkipKeeps ==
  ASSUME TMInv, NEW entry \in dueEntries, SkipCanceled(entry)
  PROVE  BookkeepingConsistent' /\ IdsAreFresh'
<1>1. /\ running = NoEntry
      /\ dueEntries' = dueEntries \ {entry} /\ canceled' = canceled \ {entry.id}
      /\ inFlight' = inFlight \ {entry.id}
      /\ UNCHANGED <<time, nextId, entries, running, slot>>
  BY DEF SkipCanceled
<1>2. Taken = dueEntries /\ Taken' = dueEntries'
  BY <1>1 DEF Taken
<1>3. inFlight' = Ids(Taken')
  BY <1>1, <1>2 DEF TMInv, BookkeepingConsistent, Ids
<1>4. BookkeepingConsistent'
  BY <1>1, <1>2, <1>3 DEF TMInv, BookkeepingConsistent, Owned
<1>5. IdsAreFresh'
  BY <1>1, <1>2 DEF TMInv, IdsAreFresh
<1>6. QED BY <1>4, <1>5

LEMMA CallbackBeginsKeeps ==
  ASSUME TMInv, NEW entry \in dueEntries, CallbackBegins(entry)
  PROVE  BookkeepingConsistent' /\ IdsAreFresh'
<1>1. /\ dueEntries' = dueEntries \ {entry} /\ running = NoEntry /\ running' = entry /\ entry # NoEntry
      /\ UNCHANGED <<time, nextId, entries, inFlight, canceled, slot>>
  BY EntryTypes DEF CallbackBegins, Taken, TMInv
<1>2. Taken' = Taken
  BY <1>1 DEF Taken
<1>3. BookkeepingConsistent'
  BY <1>1, <1>2 DEF TMInv, BookkeepingConsistent, Owned
<1>4. IdsAreFresh'
  BY <1>1, <1>2 DEF TMInv, IdsAreFresh
<1>5. QED BY <1>3, <1>4

LEMMA CallbackEndsKeeps ==
  ASSUME TMInv, CallbackEnds
  PROVE  BookkeepingConsistent' /\ IdsAreFresh'
<1>1. /\ running # NoEntry /\ running' = NoEntry
      /\ entries' = entries \union Rearmed(running)
      /\ canceled' = canceled \ {running.id} /\ inFlight' = inFlight \ {running.id}
      /\ UNCHANGED <<time, nextId, dueEntries, slot>>
  BY DEF CallbackEnds
<1>2. Taken = dueEntries \union {running} /\ Taken' = dueEntries /\ running \in TimerEntry
  BY <1>1 DEF Taken, TMInv, TMTypeOK
<1>3. \A e \in Rearmed(running) : e.id = running.id /\ running.id \notin canceled
  BY <1>2 DEF Rearmed, TimerEntry
<1>4. /\ running \notin dueEntries
      /\ \A e \in dueEntries : e.id # running.id
      /\ inFlight = Ids(dueEntries) \union {running.id} /\ running.id \in inFlight
      /\ running.id \notin Ids(entries)
  BY <1>2 DEF TMInv, BookkeepingConsistent, IdsAreFresh, Ids
<1>5. inFlight' = Ids(Taken')
  BY <1>1, <1>2, <1>4 DEF Ids
<1>6. Ids(entries') \intersect inFlight' = {}
  BY <1>1, <1>3 DEF TMInv, BookkeepingConsistent, Ids
<1>7. canceled' = {id \in inFlight' : ~Owned(id)'}
  BY <1>1 DEF TMInv, BookkeepingConsistent, Owned
<1>8. \A e \in entries' : Owned(e.id)'
  BY <1>1, <1>3, <1>4 DEF TMInv, BookkeepingConsistent, Owned
<1>9. \A d, e \in entries' \union Taken' : d.id = e.id => d = e
  <2>1. \A e \in entries \union dueEntries : e.id # running.id
    BY <1>4 DEF Ids
  <2>2. \A d, e \in Rearmed(running) : d = e
    BY DEF Rearmed
  <2>3. \A d, e \in entries \union dueEntries : d.id = e.id => d = e
    BY <1>2 DEF TMInv, BookkeepingConsistent
  <2>4. QED BY <1>1, <1>2, <1>3, <2>1, <2>2, <2>3
<1>10. BookkeepingConsistent'
  BY <1>1, <1>5, <1>6, <1>7, <1>8, <1>9 DEF TMInv, BookkeepingConsistent
<1>11. IdsAreFresh'
  <2>1. running.id < nextId
    BY <1>2 DEF TMInv, IdsAreFresh
  <2>2. \A e \in entries' \union Taken' : e.id < nextId'
    BY <1>1, <1>2, <1>3, <2>1 DEF TMInv, IdsAreFresh
  <2>3. running' \notin dueEntries'
    BY <1>1, <1>2, EntryTypes DEF TMInv
  <2>4. QED BY <1>1, <2>2, <2>3 DEF TMInv, IdsAreFresh
<1>12. QED BY <1>10, <1>11

\* One step per action of Next.
LEMMA StepTMInv == TMInv /\ [TMNext]_tmVars => TMInv'
<1> SUFFICES ASSUME TMInv, [TMNext]_tmVars PROVE TMInv'
  OBVIOUS
<1>1. TMTypeOK'
  BY TMTypeStep DEF TMInv
<1>2. BookkeepingConsistent' /\ IdsAreFresh'
  <2>1. CASE ClockAdvances
    <3>1. time \in Nat /\ time' = time + 1
      BY <2>1 DEF ClockAdvances, TMInv, TMTypeOK
    <3>2. \A e \in dueEntries : e.dueAt \in Nat /\ e.dueAt <= time
      BY DEF TMInv, TMTypeOK, IdsAreFresh, TimerEntry
    <3>3. \A e \in dueEntries' : e.dueAt <= time'
      BY <2>1, <3>1, <3>2 DEF ClockAdvances
    <3>4. QED BY <2>1, <3>3
          DEF ClockAdvances, TMInv, BookkeepingConsistent, IdsAreFresh, Taken, Owned
  <2>2. CASE UNCHANGED tmVars
    BY <2>2 DEF tmVars, TMInv, BookkeepingConsistent, IdsAreFresh, Taken, Owned
  <2>3. QED BY <2>1, <2>2, StartKeeps, StopKeeps, MoveKeeps, TickKeeps, SkipKeeps,
               CallbackBeginsKeeps, CallbackEndsKeeps DEF TMNext
<1>3. QED BY <1>1, <1>2 DEF TMInv

\* The timers' variables keep their types, for any Timers, delays and bounds.
THEOREM TimersTypeCorrect == TMSpec => []TMTypeOK
<1>1. TMInv => TMTypeOK
  BY DEF TMInv
<1>2. QED BY <1>1, InitTMInv, StepTMInv, PTL DEF TMSpec

\* The table, the batch of the running tick and the marks of cancel() agree in every
\* state: nothing that lost its Timer can ring.
THEOREM BookkeepingAlwaysConsistent == TMSpec => []BookkeepingConsistent
<1>1. TMInv => BookkeepingConsistent
  BY DEF TMInv
<1>2. QED BY <1>1, InitTMInv, StepTMInv, PTL DEF TMSpec

-----------------------------------------------------------------------------
(* The manager implements Alarms.                                          *)

LEMMA AlarmFound ==
  ASSUME NEW es, NEW e \in es, \A d \in es : d.id = e.id => d = e
  PROVE  AlarmIn(es, e.id) = e
BY DEF AlarmIn, Ids

LEMMA AlarmNone ==
  ASSUME NEW es, NEW id, \A e \in es : e.id # id
  PROVE  AlarmIn(es, id) = NoEntry
BY DEF AlarmIn, Ids

\* A change elsewhere in the table does not change the alarm of an id.
LEMMA AlarmSame ==
  ASSUME NEW es, NEW fs, NEW id,
         \A d, e \in es : d.id = e.id => d = e,
         \A e \in es : e.id = id => e \in fs,
         \A e \in fs : e.id = id => e \in es
  PROVE  AlarmIn(fs, id) = AlarmIn(es, id)
<1>1. CASE \E e \in es : e.id = id
  <2>1. PICK e \in es : e.id = id
    BY <1>1
  <2>2. AlarmIn(es, e.id) = e
    BY AlarmFound
  <2>3. AlarmIn(fs, e.id) = e
    BY <2>1, AlarmFound
  <2>4. QED BY <2>1, <2>2, <2>3
<1>2. CASE \A e \in es : e.id # id
  <2>1. AlarmIn(es, id) = NoEntry
    BY <1>2, AlarmNone
  <2>2. AlarmIn(fs, id) = NoEntry
    BY <1>2, AlarmNone
  <2>3. QED BY <2>1, <2>2
<1>3. QED BY <1>1, <1>2

LEMMA HolderFound ==
  ASSUME NEW ids, NEW t \in Timers, \A u \in Timers : ids[u] = ids[t] => u = t
  PROVE  HolderIn(ids, ids[t]) = t
BY DEF HolderIn

LEMMA HolderNone ==
  ASSUME NEW ids, NEW id, \A t \in Timers : ids[t] # id
  PROVE  HolderIn(ids, id) = NoEntry
BY DEF HolderIn

\* The refinement mapping.
Pending   == entries \union dueEntries
AlarmBar  == [t \in Timers |-> AlarmIn(Pending, slot[t])]
RingerBar == IF running = NoEntry THEN NoEntry ELSE HolderIn(slot, running.id)

\* What the bookkeeping says of the alarms: no two pending entries, and no pending and
\* running entry, have the same id, and an id has one holder.
LEMMA MappingFacts ==
  ASSUME TMInv
  PROVE  /\ \A d, e \in Pending : d.id = e.id => d = e
         /\ \A e \in Pending : e \in TimerEntry /\ e.id # 0 /\ e.id < nextId
         /\ \A t, u \in Timers : slot[t] = slot[u] /\ slot[t] # 0 => t = u
         /\ running # NoEntry => /\ running \in TimerEntry /\ running.id # 0
                              /\ running.id < nextId
                              /\ \A e \in Pending : e.id # running.id
<1>1. \A d, e \in Pending : d.id = e.id => d = e
  BY DEF TMInv, BookkeepingConsistent, Taken, Pending
<1>2. \A e \in Pending : e \in TimerEntry /\ e.id # 0 /\ e.id < nextId
  BY EntryTypes, EntryIsSome DEF TMInv, IdsAreFresh, Taken, Pending
<1>3. ASSUME running # NoEntry
      PROVE  /\ running \in TimerEntry /\ running.id # 0 /\ running.id < nextId
             /\ \A e \in Pending : e.id # running.id
  <2>1. running \in Taken /\ running \in TimerEntry
    BY <1>3 DEF Taken, TMInv, TMTypeOK
  <2>2. \A e \in entries : e.id # running.id
    BY <2>1 DEF TMInv, BookkeepingConsistent, Ids
  <2>3. \A e \in dueEntries : e.id # running.id
    BY <2>1 DEF TMInv, BookkeepingConsistent, IdsAreFresh, Taken
  <2>4. QED BY <2>1, <2>2, <2>3, EntryIsSome DEF TMInv, IdsAreFresh, Pending
<1>4. QED BY <1>1, <1>2, <1>3 DEF TMInv, BookkeepingConsistent

\* Who holds the ringing alarm, by the slots.
LEMMA RingerIs ==
  ASSUME TMInv, running # NoEntry
  PROVE  /\ \A t \in Timers : slot[t] = running.id => RingerBar = t
         /\ (\A t \in Timers : slot[t] # running.id) => RingerBar = NoEntry
<1>1. ASSUME NEW t \in Timers, slot[t] = running.id PROVE RingerBar = t
  <2>1. \A u \in Timers : slot[u] = slot[t] => u = t
    BY <1>1, MappingFacts
  <2>2. HolderIn(slot, slot[t]) = t
    BY <2>1, HolderFound
  <2>3. QED BY <1>1, <2>2 DEF RingerBar
<1>2. QED BY <1>1, HolderNone DEF RingerBar

\* A Timer that lets go of its id lets go of the ringing alarm, and no other does.
LEMMA LetGo ==
  ASSUME TMInv, TMInv', NEW t \in Timers, UNCHANGED running,
         running # NoEntry => slot'[t] # running.id,
         \A u \in Timers : u # t => slot'[u] = slot[u]
  PROVE  RingerBar' = IF RingerBar = t THEN NoEntry ELSE RingerBar
<1>1. CASE running = NoEntry
  BY <1>1 DEF RingerBar
<1>2. CASE running # NoEntry
  <2>1. CASE slot[t] = running.id
    <3>1. RingerBar = t
      BY <1>2, <2>1, RingerIs
    <3>2. \A u \in Timers : slot'[u] # running.id
      BY <1>2, <2>1, MappingFacts
    <3>3. RingerBar' = NoEntry
      BY <1>2, <3>2, HolderNone DEF RingerBar
    <3>4. QED BY <3>1, <3>3
  <2>2. CASE \E u \in Timers : u # t /\ slot[u] = running.id
    <3>1. PICK u \in Timers : u # t /\ slot[u] = running.id
      BY <2>2
    <3>2. RingerBar = u
      BY <1>2, <3>1, RingerIs
    <3>3. HolderIn(slot', slot'[u]) = u
      <4>1. \A v \in Timers : slot'[v] = slot'[u] => v = u
        BY <1>2, <3>1, MappingFacts
      <4>2. QED BY <4>1, HolderFound
    <3>4. RingerBar' = u
      BY <1>2, <3>1, <3>3 DEF RingerBar
    <3>5. QED BY <3>1, <3>2, <3>4
  <2>3. CASE \A u \in Timers : slot[u] # running.id
    <3>1. RingerBar = NoEntry
      BY <1>2, <2>3, RingerIs
    <3>2. \A u \in Timers : slot'[u] # running.id
      BY <1>2, <2>3
    <3>3. RingerBar' = NoEntry
      BY <1>2, <3>2, HolderNone DEF RingerBar
    <3>4. QED BY <3>1, <3>3
  <2>4. QED BY <2>1, <2>2, <2>3
<1>3. QED BY <1>1, <1>2

LEMMA StartRefines ==
  ASSUME TMInv, TMInv', NEW t \in Timers, NEW delay \in TimerDelays, NEW repeating \in BOOLEAN,
         Start(t, delay, repeating)
  PROVE  Promise!Set(t, delay, repeating)
<1> DEFINE new == [id |-> nextId, dueAt |-> time + delay, interval |-> delay,
                   repeating |-> repeating]
<1>1. /\ UNCHANGED <<time, running, dueEntries>> /\ nextId' = nextId + 1
      /\ entries' = {e \in entries : e.id # slot[t]} \union {new}
      /\ slot' = [slot EXCEPT ![t] = nextId]
  BY DEF Start, EntriesWithout
<1>2. /\ slot'[t] = nextId /\ \A u \in Timers : u # t => slot'[u] = slot[u]
      /\ nextId \in Nat /\ nextId # 0 /\ nextId # slot[t]
      /\ \A u \in Timers : slot[u] \in Nat /\ slot[u] < nextId
  BY <1>1, TimerManagerAssumption DEF TMInv, TMTypeOK, IdsAreFresh
<1>3. \A e \in Pending : e.id \in Nat /\ e.id # nextId /\ e.id # 0
  BY <1>2, MappingFacts, EntryIsSome
<1>4. AlarmBar' = [AlarmBar EXCEPT ![t] = new]
  <2>1. AlarmIn(Pending', slot'[t]) = new
    <3>1. new \in Pending' /\ \A e \in Pending' : e.id = new.id => e = new
      BY <1>1, <1>3 DEF Pending
    <3>2. AlarmIn(Pending', new.id) = new
      BY <3>1, AlarmFound
    <3>3. QED BY <1>2, <3>2
  <2>2. ASSUME NEW u \in Timers, u # t
        PROVE  AlarmIn(Pending', slot'[u]) = AlarmIn(Pending, slot[u])
    <3>1. slot[u] # nextId /\ (slot[u] = slot[t] => slot[u] = 0)
      BY <1>2, <2>2, MappingFacts
    <3>2. \A e \in Pending : e.id = slot[u] => e \in Pending'
      <4>1. \A e \in Pending : e.id = slot[u] => e.id # slot[t]
        BY <1>3, <3>1
      <4>2. QED BY <1>1, <4>1 DEF Pending
    <3>3. \A e \in Pending' : e.id = slot[u] => e \in Pending
      BY <1>1, <3>1 DEF Pending
    <3>4. AlarmIn(Pending', slot[u]) = AlarmIn(Pending, slot[u])
      BY <3>2, <3>3, MappingFacts, AlarmSame
    <3>5. QED BY <1>2, <2>2, <3>4
  <2>3. QED BY <2>1, <2>2 DEF AlarmBar
<1>5. RingerBar' = IF RingerBar = t THEN NoEntry ELSE RingerBar
  <2>1. running # NoEntry => slot'[t] # running.id
    BY <1>2, MappingFacts
  <2>2. QED BY <1>1, <1>2, <2>1, LetGo
<1>6. nextId' - 1 = (nextId - 1) + 1
  BY <1>1, <1>2
<1>7. new = [id |-> (nextId - 1) + 1, dueAt |-> time + delay, interval |-> delay,
             repeating |-> repeating]
  BY <1>2
<1>8. QED BY <1>1, <1>4, <1>5, <1>6, <1>7 DEF Promise!Set, AlarmBar, RingerBar, Pending

LEMMA StopRefines ==
  ASSUME TMInv, TMInv', NEW t \in Timers, Stop(t)
  PROVE  Promise!Clear(t)
<1>1. /\ UNCHANGED <<time, nextId, running, dueEntries>>
      /\ entries' = {e \in entries : e.id # slot[t]}
      /\ slot'[t] = 0 /\ \A u \in Timers : u # t => slot'[u] = slot[u]
      /\ slot[t] # 0
  BY DEF Stop, Cancel, EntriesWithout, TMInv, TMTypeOK
<1>2. AlarmBar' = [AlarmBar EXCEPT ![t] = NoEntry]
  <2>1. AlarmIn(Pending', slot'[t]) = NoEntry
    <3>1. \A e \in Pending' : e.id # slot'[t]
      BY <1>1, MappingFacts DEF Pending
    <3>2. QED BY <3>1, AlarmNone
  <2>2. ASSUME NEW u \in Timers, u # t
        PROVE  AlarmIn(Pending', slot'[u]) = AlarmIn(Pending, slot[u])
    <3>1. slot[u] # slot[t]
      BY <1>1, <2>2, MappingFacts
    <3>2. /\ \A e \in Pending : e.id = slot[u] => e \in Pending'
          /\ \A e \in Pending' : e.id = slot[u] => e \in Pending
      BY <1>1, <3>1 DEF Pending
    <3>3. AlarmIn(Pending', slot[u]) = AlarmIn(Pending, slot[u])
      BY <3>2, MappingFacts, AlarmSame
    <3>4. QED BY <1>1, <2>2, <3>3
  <2>3. QED BY <2>1, <2>2 DEF AlarmBar
<1>3. RingerBar' = IF RingerBar = t THEN NoEntry ELSE RingerBar
  BY <1>1, MappingFacts, LetGo
<1>4. QED BY <1>1, <1>2, <1>3 DEF Promise!Clear, AlarmBar, RingerBar, Pending

LEMMA MoveRefines ==
  ASSUME TMInv, TMInv', NEW from \in Timers, NEW to \in Timers, Move(from, to)
  PROVE  Promise!HandOver(from, to)
<1>1. /\ UNCHANGED <<time, nextId, running, dueEntries>>
      /\ from # to
      /\ entries' = {e \in entries : e.id # slot[to]}
      /\ slot'[from] = 0 /\ slot'[to] = slot[from]
      /\ \A u \in Timers : u # from /\ u # to => slot'[u] = slot[u]
  BY DEF Move, Cancel, EntriesWithout, TMInv, TMTypeOK
<1>2. ASSUME NEW u \in Timers, u # to
      PROVE  AlarmIn(Pending', slot[u]) = AlarmIn(Pending, slot[u])
  <2>1. \A e \in Pending : e.id = slot[u] => e.id # slot[to]
    BY <1>2, MappingFacts
  <2>2. /\ \A e \in Pending : e.id = slot[u] => e \in Pending'
        /\ \A e \in Pending' : e.id = slot[u] => e \in Pending
    BY <1>1, <2>1 DEF Pending
  <2>3. QED BY <2>2, MappingFacts, AlarmSame
<1>3. AlarmBar' = [AlarmBar EXCEPT ![to] = AlarmBar[from], ![from] = NoEntry]
  <2>1. AlarmIn(Pending', slot'[from]) = NoEntry
    <3>1. \A e \in Pending' : e.id # slot'[from]
      BY <1>1, MappingFacts DEF Pending
    <3>2. QED BY <3>1, AlarmNone
  <2>2. AlarmIn(Pending', slot'[to]) = AlarmIn(Pending, slot[from])
    BY <1>1, <1>2
  <2>3. \A u \in Timers : u # from /\ u # to
                          => AlarmIn(Pending', slot'[u]) = AlarmIn(Pending, slot[u])
    BY <1>1, <1>2
  <2>4. QED BY <1>1, <2>1, <2>2, <2>3 DEF AlarmBar
<1>4. RingerBar' = CASE RingerBar = from -> to
                     [] RingerBar = to   -> NoEntry
                     [] OTHER            -> RingerBar
  <2>1. NoEntry \notin Timers
    BY TimerManagerAssumption
  <2>2. CASE running = NoEntry
    BY <1>1, <2>1, <2>2 DEF RingerBar
  <2>3. CASE running # NoEntry
    <3>1. \A u \in Timers : slot'[u] = slot'[to] /\ slot'[u] # 0 => u = to
      BY <1>1, MappingFacts
    <3>2. running.id # 0
      BY <2>3, MappingFacts
    <3>3. CASE slot[from] = running.id
      <4>1. RingerBar = from
        BY <2>3, <3>3, RingerIs
      <4>2. HolderIn(slot', slot'[to]) = to
        <5>1. \A u \in Timers : slot'[u] = slot'[to] => u = to
          BY <1>1, <3>1, <3>2, <3>3
        <5>2. QED BY <5>1, HolderFound
      <4>3. RingerBar' = to
        BY <1>1, <2>3, <3>3, <4>2 DEF RingerBar
      <4>4. QED BY <1>1, <4>1, <4>3
    <3>4. CASE slot[to] = running.id
      <4>1. RingerBar = to
        BY <2>3, <3>4, RingerIs
      <4>2. \A u \in Timers : slot'[u] # running.id
        BY <1>1, <3>2, <3>4, MappingFacts
      <4>3. RingerBar' = NoEntry
        BY <1>1, <2>3, <4>2, HolderNone DEF RingerBar
      <4>4. QED BY <1>1, <4>1, <4>3
    <3>5. CASE \E u \in Timers : u # from /\ u # to /\ slot[u] = running.id
      <4>1. PICK u \in Timers : u # from /\ u # to /\ slot[u] = running.id
        BY <3>5
      <4>2. RingerBar = u
        BY <2>3, <4>1, RingerIs
      <4>3. HolderIn(slot', slot'[u]) = u
        <5>1. \A v \in Timers : slot'[v] = slot'[u] => v = u
          BY <1>1, <3>2, <4>1, MappingFacts
        <5>2. QED BY <5>1, HolderFound
      <4>4. RingerBar' = u
        BY <1>1, <2>3, <4>1, <4>3 DEF RingerBar
      <4>5. QED BY <4>1, <4>2, <4>4
    <3>6. CASE \A u \in Timers : slot[u] # running.id
      <4>1. RingerBar = NoEntry
        BY <2>3, <3>6, RingerIs
      <4>2. \A u \in Timers : slot'[u] # running.id
        BY <1>1, <3>2, <3>6
      <4>3. RingerBar' = NoEntry
        BY <1>1, <2>3, <4>2, HolderNone DEF RingerBar
      <4>4. QED BY <2>1, <4>1, <4>3
    <3>7. QED BY <3>3, <3>4, <3>5, <3>6
  <2>4. QED BY <2>2, <2>3
<1>5. QED BY <1>1, <1>3, <1>4 DEF Promise!HandOver, AlarmBar, RingerBar, Pending

\* Taking entries out of the table and skipping cancelled ones are invisible.
LEMMA TickRefines ==
  ASSUME TMInv, Tick
  PROVE  UNCHANGED Promise!vars
<1>1. Pending' = Pending
  BY DEF Tick, Due, Pending
<1>2. UNCHANGED <<time, nextId, running, slot>>
  BY DEF Tick
<1>3. AlarmBar' = AlarmBar /\ RingerBar' = RingerBar
  BY <1>1, <1>2 DEF AlarmBar, RingerBar
<1>4. QED BY <1>2, <1>3 DEF Promise!vars, AlarmBar, RingerBar, Pending

LEMMA SkipRefines ==
  ASSUME TMInv, NEW entry \in dueEntries, SkipCanceled(entry)
  PROVE  UNCHANGED Promise!vars
<1>1. /\ UNCHANGED <<time, nextId, running, slot, entries>>
      /\ dueEntries' = dueEntries \ {entry}
  BY DEF SkipCanceled
<1>2. \A t \in Timers : slot[t] # entry.id
  BY DEF SkipCanceled, TMInv, BookkeepingConsistent, Owned
<1>3. ASSUME NEW t \in Timers PROVE AlarmIn(Pending', slot[t]) = AlarmIn(Pending, slot[t])
  <2>1. /\ \A e \in Pending : e.id = slot[t] => e \in Pending'
        /\ \A e \in Pending' : e.id = slot[t] => e \in Pending
    BY <1>1, <1>2 DEF Pending
  <2>2. QED BY <2>1, MappingFacts, AlarmSame
<1>4. AlarmBar' = AlarmBar /\ RingerBar' = RingerBar
  BY <1>1, <1>3 DEF AlarmBar, RingerBar
<1>5. QED BY <1>1, <1>4 DEF Promise!vars, AlarmBar, RingerBar, Pending

LEMMA CallbackBeginsRefines ==
  ASSUME TMInv, NEW entry \in dueEntries, CallbackBegins(entry)
  PROVE  \E t \in Timers : Promise!Ring(t)
<1>1. /\ running = NoEntry /\ running' = entry /\ entry.id \notin canceled
      /\ dueEntries' = dueEntries \ {entry}
      /\ UNCHANGED <<time, nextId, entries, slot>>
  BY DEF CallbackBegins
<1>2. entry \in Taken /\ entry \in Pending /\ entry # NoEntry /\ entry.id # 0
  BY MappingFacts, EntryIsSome DEF Taken, Pending
<1>3. PICK t \in Timers : slot[t] = entry.id
  BY <1>1, <1>2 DEF TMInv, BookkeepingConsistent, Owned, Ids
<1>4. AlarmBar[t] = entry
  <2>1. AlarmIn(Pending, entry.id) = entry
    BY <1>2, MappingFacts, AlarmFound
  <2>2. QED BY <1>3, <2>1 DEF AlarmBar
<1>5. Pending' = Pending \ {entry}
  BY <1>1, <1>2 DEF Pending, TMInv, BookkeepingConsistent, Ids
<1>6. AlarmBar' = [AlarmBar EXCEPT ![t] = NoEntry]
  <2>1. AlarmIn(Pending', slot'[t]) = NoEntry
    <3>1. \A e \in Pending' : e.id # slot'[t]
      BY <1>1, <1>2, <1>3, <1>5, MappingFacts
    <3>2. QED BY <3>1, AlarmNone
  <2>2. ASSUME NEW u \in Timers, u # t
        PROVE  AlarmIn(Pending', slot'[u]) = AlarmIn(Pending, slot[u])
    <3>1. slot[u] # entry.id
      BY <1>2, <1>3, <2>2, MappingFacts
    <3>2. /\ \A e \in Pending : e.id = slot[u] => e \in Pending'
          /\ \A e \in Pending' : e.id = slot[u] => e \in Pending
      BY <1>5, <3>1
    <3>3. AlarmIn(Pending', slot[u]) = AlarmIn(Pending, slot[u])
      BY <3>2, MappingFacts, AlarmSame
    <3>4. QED BY <1>1, <3>3
  <2>3. QED BY <2>1, <2>2 DEF AlarmBar
<1>7. RingerBar' = t
  <2>1. HolderIn(slot', slot'[t]) = t
    <3>1. \A u \in Timers : slot'[u] = slot'[t] => u = t
      BY <1>1, <1>2, <1>3, MappingFacts
    <3>2. QED BY <3>1, HolderFound
  <2>2. QED BY <1>1, <1>2, <1>3, <2>1 DEF RingerBar
<1>8. entry.dueAt <= time
  BY DEF TMInv, IdsAreFresh
<1>9. Promise!Ring(t)
  BY <1>1, <1>2, <1>4, <1>6, <1>7, <1>8 DEF Promise!Ring, AlarmBar, RingerBar, Pending
<1>10. QED BY <1>9

\* A repeating alarm that still has a holder when its callback returns is set again.
LEMMA CallbackEndsRefines ==
  ASSUME TMInv, TMInv', CallbackEnds
  PROVE  Promise!Silence
<1>1. /\ running # NoEntry /\ running' = NoEntry
      /\ entries' = entries \union Rearmed(running)
      /\ UNCHANGED <<time, nextId, dueEntries, slot>>
  BY DEF CallbackEnds
<1>2. Pending' = Pending \union Rearmed(running)
  BY <1>1 DEF Pending
<1>3. RingerBar' = NoEntry
  BY <1>1 DEF RingerBar
<1>4. running.id \in inFlight
  BY <1>1 DEF TMInv, BookkeepingConsistent, Taken, Ids
<1>5. CASE running.repeating /\ Owned(running.id)
  <2> DEFINE again == [running EXCEPT !.dueAt = time + running.interval]
  <2>1. PICK t \in Timers : slot[t] = running.id
    BY <1>5 DEF Owned
  <2>2. RingerBar = t /\ t # NoEntry
    BY <1>1, <2>1, RingerIs, TimerManagerAssumption
  <2>3. running.id \notin canceled
    BY <1>5 DEF TMInv, BookkeepingConsistent
  <2>4. Rearmed(running) = {again} /\ again.id = running.id
    BY <1>1, <1>5, <2>3, MappingFacts DEF Rearmed, TimerEntry
  <2>5. AlarmBar' = [AlarmBar EXCEPT ![t] = again]
    <3>1. AlarmIn(Pending', slot'[t]) = again
      <4>1. again \in Pending' /\ \A e \in Pending' : e.id = again.id => e = again
        BY <1>1, <1>2, <2>4, MappingFacts
      <4>2. AlarmIn(Pending', again.id) = again
        BY <4>1, AlarmFound
      <4>3. QED BY <1>1, <2>1, <2>4, <4>2
    <3>2. ASSUME NEW u \in Timers, u # t
          PROVE  AlarmIn(Pending', slot'[u]) = AlarmIn(Pending, slot[u])
      <4>1. slot[u] # running.id
        BY <1>1, <2>1, <3>2, MappingFacts
      <4>2. /\ \A e \in Pending : e.id = slot[u] => e \in Pending'
            /\ \A e \in Pending' : e.id = slot[u] => e \in Pending
        BY <1>2, <2>4, <4>1
      <4>3. AlarmIn(Pending', slot[u]) = AlarmIn(Pending, slot[u])
        BY <4>2, MappingFacts, AlarmSame
      <4>4. QED BY <1>1, <4>3
    <3>3. QED BY <3>1, <3>2 DEF AlarmBar
  <2>6. QED BY <1>1, <1>3, <1>5, <2>2, <2>5
        DEF Promise!Silence, AlarmBar, RingerBar, Pending
<1>6. CASE ~(running.repeating /\ Owned(running.id))
  <2>1. Rearmed(running) = {}
    BY <1>4, <1>6 DEF Rearmed, TMInv, BookkeepingConsistent
  <2>2. AlarmBar' = AlarmBar
    BY <1>1, <1>2, <2>1 DEF AlarmBar
  <2>3. running.repeating => RingerBar = NoEntry
    BY <1>1, <1>6, RingerIs DEF Owned
  <2>4. QED BY <1>1, <1>3, <2>2, <2>3 DEF Promise!Silence, AlarmBar, RingerBar, Pending
<1>7. QED BY <1>5, <1>6

LEMMA ClockAdvancesRefines ==
  ASSUME ClockAdvances
  PROVE  Promise!Wait
<1>1. AlarmBar' = AlarmBar /\ RingerBar' = RingerBar
  BY DEF ClockAdvances, AlarmBar, RingerBar, Pending
<1>2. QED BY <1>1 DEF ClockAdvances, Promise!Wait, AlarmBar, RingerBar, Pending

LEMMA StutterRefines ==
  ASSUME UNCHANGED tmVars
  PROVE  UNCHANGED Promise!vars
<1>1. AlarmBar' = AlarmBar /\ RingerBar' = RingerBar
  BY DEF tmVars, AlarmBar, RingerBar, Pending
<1>2. QED BY <1>1 DEF tmVars, Promise!vars, AlarmBar, RingerBar, Pending

\* The manager's initial states and steps are those of Alarms.
LEMMA InitRefines ==
  ASSUME TMInit
  PROVE  Promise!Init
<1>1. \A t \in Timers : AlarmIn(Pending, slot[t]) = NoEntry
  BY AlarmNone DEF TMInit, Pending
<1>2. AlarmBar = [t \in Timers |-> NoEntry]
  BY <1>1 DEF AlarmBar
<1>3. QED BY <1>2 DEF TMInit, Promise!Init, AlarmBar, Pending

LEMMA StepRefines == TMInv /\ TMInv' /\ [TMNext]_tmVars => [Promise!Next]_(Promise!vars)
<1> SUFFICES ASSUME TMInv, TMInv', [TMNext]_tmVars PROVE Promise!Next \/ UNCHANGED Promise!vars
  OBVIOUS
<1>1. ASSUME NEW t \in Timers, NEW delay \in TimerDelays, NEW repeating \in BOOLEAN,
             Start(t, delay, repeating)
      PROVE  Promise!Next
  BY <1>1, StartRefines DEF Promise!Next
<1>2. ASSUME NEW t \in Timers, Stop(t) PROVE Promise!Next
  BY <1>2, StopRefines DEF Promise!Next
<1>3. ASSUME NEW from \in Timers, NEW to \in Timers, Move(from, to) PROVE Promise!Next
  BY <1>3, MoveRefines DEF Promise!Next
<1>4. ASSUME NEW entry \in dueEntries, CallbackBegins(entry) PROVE Promise!Next
  BY <1>4, CallbackBeginsRefines DEF Promise!Next
<1>5. CASE CallbackEnds
  BY <1>5, CallbackEndsRefines DEF Promise!Next
<1>6. CASE ClockAdvances
  BY <1>6, ClockAdvancesRefines DEF Promise!Next
<1>7. QED BY <1>1, <1>2, <1>3, <1>4, <1>5, <1>6, TickRefines, SkipRefines, StutterRefines
      DEF TMNext

\* The timers implement Alarms, for any Timers, delays and bounds: a stopped, restarted,
\* moved-from or destroyed Timer never rings, nothing rings early, a one-shot rings once.
THEOREM PromiseAlwaysKept == TMSpec => KeepsPromise
<1>1. TMSpec => []TMInv
  BY InitTMInv, StepTMInv, PTL DEF TMSpec
<1>2. TMSpec => Promise!Init /\ [][Promise!Next]_(Promise!vars)
  BY <1>1, InitRefines, StepRefines, PTL DEF TMSpec
<1>3. QED BY <1>2 DEF KeepsPromise, Promise!Spec
================================================================================
