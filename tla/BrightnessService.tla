--------------------------- MODULE BrightnessService --------------------------
(* The brightness of external monitors, set and read over DDC by the slow      *)
(* ddcutil program: the main thread shows and queues what was asked for, a     *)
(* worker thread carries it out one command at a time and posts the results,   *)
(* which an eventfd brings back to the main loop. brightness_service.cpp.      *)
(*                                                                             *)
(* A brightness is the number of the wish it comes from, 0 for any other (set  *)
(* before, or with the monitor's own buttons).                                 *)
EXTENDS Naturals, Sequences, FiniteSets

CONSTANTS
  Displays,         \* the connectors with a monitor that ddcutil may find
  FailureThreshold, \* kDdcFailureThreshold
  MaxAsks,          \* bound: the wishes
  MaxGenerations,   \* bound: the times the displays are enumerated
  MaxAnswers        \* bound: the results waiting for the main loop

ASSUME BrightnessAssumption ==
  /\ FailureThreshold \in Nat \ {0}
  /\ MaxAsks \in Nat /\ MaxGenerations \in Nat \ {0} /\ MaxAnswers \in Nat \ {0}

VARIABLES
  generation,   \* generation
  known,        \* the ids of internals whose backend is Ddcutil
  level,        \* pub.brightness of these
  epoch,        \* ddcWriteEpoch
  failures,     \* failureCount, not counted beyond FailureThreshold
  cooling,      \* quarantined, and cooldownUntil has not passed
  detect,       \* detectGeneration while detectPending, 0 otherwise
  writes,       \* pendingWrites
  refreshes,    \* pendingRefreshes
  task,         \* what the worker is carrying out
  unsignalled,  \* the worker has pushed a result and not written to eventFd yet
  completions,  \* completions
  event,        \* eventFd is readable
  drained,      \* processCompletions() is about to take the queue
  ready,        \* the results it took and has not applied yet
  wishes,       \* history: the wishes accepted so far
  asked,        \* history: display -> the last of them that was for it
  hw            \* the brightness the monitor really has

displayVars == <<known, level, epoch, failures, cooling>>
queueVars == <<detect, writes, refreshes>>
workerVars == <<task, unsignalled>>
wishVars == <<wishes, asked>>
loopVars == <<event, drained, ready>>
vars == <<generation, displayVars, queueVars, workerVars, completions, loopVars, wishVars, hw>>

None == [type |-> "none"]
NoJobs == [d \in Displays |-> None]

\* DdcJob, as it is queued and as it comes back in a WorkerCompletion.
Job(type, d, value) ==
  [type |-> type, display |-> d, generation |-> generation, epoch |-> epoch[d],
   value |-> value, ok |-> FALSE]
Detection(g) == [type |-> "detect", generation |-> g]

Zero == [d \in Displays |-> 0]

\* The constructor: rebuildState() has run once, ddcutil is enabled and installed.
Init ==
  /\ generation = 1
  /\ known = {} /\ level = Zero /\ epoch = Zero /\ failures = Zero
  /\ cooling = {}
  /\ detect = 1 /\ writes = NoJobs /\ refreshes = NoJobs
  /\ task = None /\ unsignalled = FALSE
  /\ completions = <<>> /\ ready = <<>>
  /\ event = FALSE /\ drained = FALSE
  /\ wishes = 0 /\ asked = Zero /\ hw = Zero

-------------------------------------------------------------------------------
(* The main thread: the displays, wishes, refreshes                           *)

\* The main thread is in the main loop, not inside handlePollEvents().
MainIsFree == ~drained /\ ready = <<>>

\* rebuildState(): the configuration is reloaded or the outputs have changed. The
\* displays are forgotten until they are detected again, if ddcutil is enabled.
Rebuild ==
  /\ MainIsFree /\ generation < MaxGenerations
  /\ generation' = generation + 1
  /\ known' = {} /\ level' = Zero /\ epoch' = Zero /\ failures' = Zero /\ cooling' = {}
  /\ writes' = NoJobs /\ refreshes' = NoJobs
  /\ detect' \in {0, generation'}
  /\ UNCHANGED <<workerVars, completions, loopVars, wishVars, hw>>

\* Mutant: a reading that was queued before the wish stays in its queue.
Ask_KeepsRefresh(d) ==
  /\ MainIsFree /\ d \in known \ cooling /\ wishes < MaxAsks
  /\ wishes' = wishes + 1
  /\ asked' = [asked EXCEPT ![d] = wishes']
  /\ epoch' = [epoch EXCEPT ![d] = @ + 1]
  /\ level' = [level EXCEPT ![d] = wishes']
  /\ writes' = [writes EXCEPT ![d] = [Job("set", d, wishes') EXCEPT !.epoch = epoch'[d]]]
  /\ UNCHANGED <<generation, known, failures, cooling, detect, refreshes, workerVars,
                 completions, loopVars, hw>>

\* setDdcBrightness(d): the wish is shown at once and replaces the one still queued.
\* (setAllBrightness() is one of these after another.)
Ask(d) ==
  /\ MainIsFree /\ d \in known \ cooling /\ wishes < MaxAsks
  /\ wishes' = wishes + 1
  /\ asked' = [asked EXCEPT ![d] = wishes']
  /\ epoch' = [epoch EXCEPT ![d] = @ + 1]
  /\ level' = [level EXCEPT ![d] = wishes']
  /\ writes' = [writes EXCEPT ![d] = [Job("set", d, wishes') EXCEPT !.epoch = epoch'[d]]]
  /\ refreshes' = [refreshes EXCEPT ![d] = None]
  /\ UNCHANGED <<generation, known, failures, cooling, detect, workerVars, completions,
                 loopVars, hw>>

\* queueDdcRefreshes(): all displays but those cooling down or with a write queued.
QueueRefreshes ==
  /\ MainIsFree
  /\ refreshes' = [d \in Displays |->
                     IF d \in known \ cooling /\ writes[d] = None
                     THEN Job("refresh", d, 0) ELSE refreshes[d]]
  /\ UNCHANGED <<generation, displayVars, detect, writes, workerVars, completions,
                 loopVars, wishVars, hw>>

\* cooldownUntil passes.
CoolDown(d) ==
  /\ d \in cooling
  /\ cooling' = cooling \ {d}
  /\ UNCHANGED <<generation, known, level, epoch, failures, queueVars, workerVars,
                 completions, loopVars, wishVars, hw>>

\* Somebody turns the brightness with the buttons of the monitor.
Buttons(d) ==
  /\ hw' = [hw EXCEPT ![d] = 0]
  /\ UNCHANGED <<generation, displayVars, queueVars, workerVars, completions, loopVars, wishVars>>

-------------------------------------------------------------------------------
(* The worker thread: workerLoop()                                            *)

WorkerIsFree ==
  task = None /\ ~unsignalled /\ Len(completions) + Len(ready) < MaxAnswers

TakeDetect ==
  /\ WorkerIsFree /\ detect # 0
  /\ task' = Detection(detect)
  /\ detect' = 0
  /\ UNCHANGED <<generation, displayVars, writes, refreshes, unsignalled, completions,
                 loopVars, wishVars, hw>>

TakeWrite(d) ==
  /\ WorkerIsFree /\ detect = 0 /\ writes[d] # None
  /\ task' = writes[d]
  /\ writes' = [writes EXCEPT ![d] = None]
  /\ refreshes' = [refreshes EXCEPT ![d] = None]
  /\ UNCHANGED <<generation, displayVars, detect, unsignalled, completions, loopVars, wishVars, hw>>

TakeRefresh(d) ==
  /\ WorkerIsFree /\ detect = 0 /\ writes = NoJobs /\ refreshes[d] # None
  /\ task' = refreshes[d]
  /\ refreshes' = [refreshes EXCEPT ![d] = None]
  /\ UNCHANGED <<generation, displayVars, detect, writes, unsignalled, completions,
                 loopVars, wishVars, hw>>

\* The first half of enqueueCompletion(): the result is in the queue.
Post(result) ==
  /\ completions' = Append(completions, result)
  /\ task' = None /\ unsignalled' = TRUE
  /\ UNCHANGED <<generation, displayVars, queueVars, loopVars, wishVars>>

\* detectDdcDisplays(): what each monitor answers; which of them do is chosen when the
\* result is applied, it shows nowhere before.
FinishDetect ==
  /\ task.type = "detect"
  /\ Post([type |-> "detect", generation |-> task.generation, read |-> hw])
  /\ UNCHANGED hw

\* "ddcutil setvcp": one that fails or times out may have reached the monitor.
FinishWrite ==
  /\ task.type = "set"
  /\ LET reached == [hw EXCEPT ![task.display] = task.value] IN
     \/ hw' = reached /\ Post([task EXCEPT !.ok = TRUE])
     \/ hw' \in {hw, reached} /\ Post(task)

\* "ddcutil getvcp".
FinishRefresh ==
  /\ task.type = "refresh"
  /\ \E ok \in BOOLEAN :
       Post([task EXCEPT !.value = hw[task.display], !.ok = ok])
  /\ UNCHANGED hw

\* The second half of enqueueCompletion(): the write to eventFd.
Signal ==
  /\ unsignalled
  /\ unsignalled' = FALSE
  /\ event' = TRUE
  /\ UNCHANGED <<generation, displayVars, queueVars, task, completions, drained, ready,
                 wishVars, hw>>

-------------------------------------------------------------------------------
(* The main loop: handlePollEvents()                                          *)

\* drainWorkerEvent().
Drain ==
  /\ MainIsFree /\ event
  /\ event' = FALSE
  /\ drained' = TRUE
  /\ UNCHANGED <<generation, displayVars, queueVars, workerVars, completions, ready, wishVars, hw>>

\* Mutant: one result is taken each time the eventfd is readable.
Collect_One ==
  /\ drained
  /\ drained' = FALSE
  /\ LET n == IF completions = <<>> THEN 0 ELSE 1 IN
     /\ ready' = SubSeq(completions, 1, n)
     /\ completions' = SubSeq(completions, n + 1, Len(completions))
  /\ UNCHANGED <<generation, displayVars, queueVars, workerVars, event, wishVars, hw>>

\* processCompletions() takes the queue.
Collect ==
  /\ drained
  /\ drained' = FALSE
  /\ ready' = completions /\ completions' = <<>>
  /\ UNCHANGED <<generation, displayVars, queueVars, workerVars, event, wishVars, hw>>

\* The first result was dealt with.
Applied ==
  /\ ready' = Tail(ready)
  /\ UNCHANGED <<generation, queueVars, workerVars, completions, event, drained, wishVars, hw>>

\* applyDetectCompletion(): the displays are made anew. Any monitor may be missing: ddcutil
\* fails, or the configuration ignores or disables the monitor.
ApplyDetection(result) ==
  /\ \E found \in SUBSET Displays :
       /\ known' = found
       /\ level' = [d \in Displays |-> IF d \in found THEN result.read[d] ELSE 0]
  /\ epoch' = Zero /\ failures' = Zero /\ cooling' = {}

\* Mutant: a result is applied whatever was asked for since.
ApplyAnswer_AnyEpoch(result) ==
  LET d == result.display IN
  IF d \notin known
  THEN UNCHANGED displayVars
  ELSE IF result.ok
  THEN /\ level' = [level EXCEPT ![d] = result.value]
       /\ failures' = [failures EXCEPT ![d] = 0]
       /\ cooling' = cooling \ {d}
       /\ UNCHANGED <<known, epoch>>
  ELSE /\ failures' = [failures EXCEPT ![d] = IF @ < FailureThreshold THEN @ + 1 ELSE @]
       /\ cooling' = IF failures'[d] = FailureThreshold THEN cooling \union {d} ELSE cooling
       /\ UNCHANGED <<known, level, epoch>>

\* applyDdcUpdateCompletion().
ApplyAnswer(result) ==
  LET d == result.display IN
  IF d \notin known \/ result.epoch # epoch[d]
  THEN UNCHANGED displayVars
  ELSE IF result.ok
  THEN /\ level' = [level EXCEPT ![d] = result.value]
       /\ failures' = [failures EXCEPT ![d] = 0]
       /\ cooling' = cooling \ {d}
       /\ UNCHANGED <<known, epoch>>
  ELSE /\ failures' = [failures EXCEPT ![d] = IF @ < FailureThreshold THEN @ + 1 ELSE @]
       /\ cooling' = IF failures'[d] = FailureThreshold THEN cooling \union {d} ELSE cooling
       /\ UNCHANGED <<known, level, epoch>>

\* applyCompletion() of the first result.
Apply ==
  /\ ready # <<>>
  /\ LET result == Head(ready) IN
     \/ result.generation # generation /\ UNCHANGED displayVars
     \/ result.generation = generation /\ result.type = "detect" /\ ApplyDetection(result)
     \/ result.generation = generation /\ result.type # "detect" /\ ApplyAnswer(result)
  /\ Applied

-------------------------------------------------------------------------------
WorkerStep ==
  \/ TakeDetect \/ FinishDetect \/ FinishWrite \/ FinishRefresh \/ Signal
  \/ \E d \in Displays : TakeWrite(d) \/ TakeRefresh(d)

LoopStep == Drain \/ Collect \/ Apply

Next ==
  \/ Rebuild \/ QueueRefreshes
  \/ \E d \in Displays : Ask(d) \/ CoolDown(d) \/ Buttons(d)
  \/ WorkerStep \/ LoopStep

Spec == Init /\ [][Next]_vars

\* The worker is a thread whose commands all have a time limit (kDdcSetTimeout,
\* kDdcQueryTimeout, kDdcDetectTimeout), and the main loop polls watchFd().
FairSpec == Spec /\ WF_vars(WorkerStep) /\ WF_vars(LoopStep)

-------------------------------------------------------------------------------
(* Properties                                                                 *)

\* The results under way, the oldest first.
Results == ready \o completions

\* The job belongs to the last wish for its display, or to none if there was none.
Newest(job) ==
  /\ job.type \in {"set", "refresh"}
  /\ job.generation = generation /\ job.epoch = epoch[job.display]

IsLastWish(job, d) == job.type = "set" /\ job.display = d /\ Newest(job)
IsDetection(job) == job.type = "detect" /\ job.generation = generation

\* The last wish for d is queued, is being written, or its result is not applied yet.
Outstanding(d) ==
  \/ writes[d] # None
  \/ IsLastWish(task, d)
  \/ \E i \in 1..Len(Results) : IsLastWish(Results[i], d)

\* The displays of this enumeration have yet to be detected.
Detecting ==
  \/ detect # 0
  \/ IsDetection(task)
  \/ \E i \in 1..Len(Results) : IsDetection(Results[i])

Levels == 0..MaxAsks
Generations == 1..MaxGenerations
Jobs(type) ==
  [type : {type}, display : Displays, generation : Generations, epoch : Levels,
   value : Levels, ok : BOOLEAN]
Detections == [type : {"detect"}, generation : Generations]
DetectResults == [type : {"detect"}, generation : Generations, read : [Displays -> Levels]]
Answers == Jobs("set") \union Jobs("refresh") \union DetectResults

TypesHold ==
  /\ generation \in Generations /\ wishes \in Levels
  /\ known \subseteq Displays /\ cooling \subseteq known
  /\ level \in [Displays -> Levels] /\ epoch \in [Displays -> 0..wishes]
  /\ failures \in [Displays -> 0..FailureThreshold]
  /\ detect \in {0, generation}
  /\ writes \in [Displays -> Jobs("set") \union {None}]
  /\ refreshes \in [Displays -> Jobs("refresh") \union {None}]
  /\ task \in Jobs("set") \union Jobs("refresh") \union Detections \union {None}
  /\ completions \in Seq(Answers) /\ ready \in Seq(Answers)
  /\ unsignalled \in BOOLEAN /\ event \in BOOLEAN /\ drained \in BOOLEAN
  /\ asked \in [Displays -> Levels] /\ hw \in [Displays -> Levels]

\* A job is queued only for a display of this enumeration, it carries the last wish for it,
\* and no brightness is read while another is about to be written.
QueuesCoherent ==
  /\ Detecting => known = {}
  /\ \A d \in Displays :
       /\ writes[d] # None => d \in known /\ writes[d] = Job("set", d, asked[d])
       /\ refreshes[d] # None => d \in known /\ refreshes[d] = Job("refresh", d, 0)
       /\ writes[d] = None \/ refreshes[d] = None

\* The displays, the wishes and the three queues are well typed, and what waits in the
\* queues agrees with what the main thread knows of the displays.
TypeOK == TypesHold /\ QueuesCoherent

\* What the shell shows is true, whichever writes, readings and detections are in flight: it
\* is the last wish as long as that is not settled, and afterwards, unless a command has
\* failed since the last that succeeded, it is what the monitor really has (or had before
\* somebody turned it).
ShownIsTrue ==
  \A d \in known :
    IF Outstanding(d)
    THEN level[d] = asked[d]
    ELSE failures[d] = 0 => hw[d] \in {level[d], 0}

\* No result is left behind: every detection and every wish is settled in the end, although
\* the worker pushes its result and rings the eventfd in two steps, and so does the main loop
\* when it silences the eventfd and takes the queue.
WishesSettle ==
  /\ Detecting ~> ~Detecting
  /\ \A d \in Displays : Outstanding(d) ~> ~Outstanding(d)
===============================================================================
