----------------------- MODULE BrightnessServiceProofs -----------------------
(* What the shell shows of the brightness of a monitor is true, for any       *)
(* monitors and any number of wishes, enumerations and results in flight.      *)
EXTENDS BrightnessService, TLAPS

Places == 1..Len(Results)
Same(a) == a.generation = generation
IsJob(a) == a.type \in {"set", "refresh"}

\* A result of this enumeration: its detection, then nothing else is under way, or the answer
\* to a job for a display that is known.
AnswerOK(a) ==
  /\ a.generation <= generation
  /\ Same(a) => detect = 0
  /\ IsDetection(a) =>
       /\ known = {} /\ task = None
       /\ \A d \in Displays : hw[d] \in {a.read[d], 0}
  /\ Same(a) /\ IsJob(a) => a.display \in known /\ a.epoch <= epoch[a.display]
  /\ Newest(a) =>
       /\ writes[a.display] = None
       /\ a.type = "set" => a.value = asked[a.display]
       /\ a.ok => hw[a.display] \in {a.value, 0}

\* a is before b: the detection is alone, and no reading is before the write it belongs to.
OrderOK(a, b) ==
  Same(a) /\ Same(b) =>
    /\ IsJob(a) /\ IsJob(b)
    /\ Newest(a) /\ IsLastWish(b, a.display) => a.type = "set"

\* The task of the worker, which comes after all results. A write that an enumeration or a
\* newer wish has overtaken has a newer one behind it, or concerns no known display.
TaskOK ==
  task # None =>
    /\ task.generation <= generation
    /\ IF Same(task) THEN detect = 0 ELSE known = {}
    /\ IsDetection(task) => known = {} /\ \A i \in Places : ~Same(Results[i])
    /\ Same(task) /\ IsJob(task) =>
         task.display \in known /\ task.epoch <= epoch[task.display]
    /\ Newest(task) => writes[task.display] = None
    /\ task.type = "set" =>
         /\ ~task.ok
         /\ task.display \in known => Newest(task) \/ writes[task.display] # None
         /\ Newest(task) =>
              /\ task.value = asked[task.display]
              /\ \A i \in Places : Newest(Results[i]) => Results[i].display # task.display

AnswersOK == \A i \in Places : AnswerOK(Results[i])
Ordered == \A i, j \in Places : i < j => OrderOK(Results[i], Results[j])
Flow == AnswersOK /\ Ordered /\ TaskOK

\* While the main loop is about to take the queue it has nothing left of the last one.
DrainOK == drained => ready = <<>>

IInv == TypesHold /\ QueuesCoherent /\ ShownIsTrue /\ Flow /\ DrainOK

-----------------------------------------------------------------------------
(* Records and sequences                                                      *)

\* What the fields of a job are.
LEMMA JobFields ==
  ASSUME NEW t, NEW x \in Jobs(t)
  PROVE  /\ x.type = t /\ x.display \in Displays /\ x.generation \in Generations
         /\ x.epoch \in Levels /\ x.value \in Levels /\ x.ok \in BOOLEAN
BY DEF Jobs

\* What the fields of the other members of the queues are; none of them is taken for another.
LEMMA OtherFields ==
  /\ None.type = "none"
  /\ \A x \in Detections : x.type = "detect" /\ x.generation \in Generations
  /\ \A x \in DetectResults :
       x.type = "detect" /\ x.generation \in Generations /\ x.read \in [Displays -> Levels]
BY DEF None, Detections, DetectResults

\* The job that Job() makes.
LEMMA JobIs ==
  ASSUME generation \in Generations, NEW d \in Displays, epoch[d] \in Levels, NEW v \in Levels,
         NEW t
  PROVE  /\ Job(t, d, v) \in Jobs(t)
         /\ Job(t, d, v).type = t /\ Job(t, d, v).display = d
         /\ Job(t, d, v).generation = generation /\ Job(t, d, v).epoch = epoch[d]
         /\ Job(t, d, v).value = v /\ ~Job(t, d, v).ok
BY DEF Job, Jobs

\* A result is posted behind all others.
LEMMA ConcatAppend ==
  ASSUME NEW S, NEW p \in Seq(S), NEW q \in Seq(S), NEW x \in S
  PROVE  /\ Len(p \o q) \in Nat
         /\ Len(p \o Append(q, x)) = Len(p \o q) + 1
         /\ (p \o Append(q, x))[Len(p \o q) + 1] = x
         /\ \A i \in 1..Len(p \o q) : (p \o Append(q, x))[i] = (p \o q)[i]
<1>1. /\ Len(p) \in Nat /\ Len(q) \in Nat /\ Append(q, x) \in Seq(S)
      /\ Len(Append(q, x)) = Len(q) + 1
  OBVIOUS
<1>2. Len(p \o q) = Len(p) + Len(q) /\ Len(p \o Append(q, x)) = Len(p) + Len(q) + 1
  BY <1>1
<1>3. (p \o Append(q, x))[Len(p \o q) + 1] = x
  BY <1>1, <1>2
<1>4. \A i \in 1..Len(p \o q) : (p \o Append(q, x))[i] = (p \o q)[i]
  BY <1>1, <1>2
<1>5. QED BY <1>1, <1>2, <1>3, <1>4

\* The first result is dropped.
LEMMA ConcatTail ==
  ASSUME NEW S, NEW p \in Seq(S), NEW q \in Seq(S), p # <<>>
  PROVE  /\ Len(p \o q) \in Nat \ {0}
         /\ Len(Tail(p) \o q) = Len(p \o q) - 1
         /\ (p \o q)[1] = Head(p) /\ Head(p) \in S /\ Tail(p) \in Seq(S)
         /\ \A i \in 1..(Len(p \o q) - 1) : (Tail(p) \o q)[i] = (p \o q)[i + 1]
<1>1. /\ Len(p) \in Nat \ {0} /\ Len(q) \in Nat /\ Tail(p) \in Seq(S)
      /\ Len(Tail(p)) = Len(p) - 1 /\ Head(p) \in S /\ Head(p) = p[1]
      /\ \A i \in 1..(Len(p) - 1) : Tail(p)[i] = p[i + 1]
  OBVIOUS
<1>2. Len(p \o q) = Len(p) + Len(q) /\ Len(Tail(p) \o q) = Len(p) - 1 + Len(q)
  BY <1>1
<1>3. (p \o q)[1] = Head(p)
  BY <1>1, <1>2
<1>4. \A i \in 1..(Len(p \o q) - 1) : (Tail(p) \o q)[i] = (p \o q)[i + 1]
  BY <1>1, <1>2
<1>5. QED BY <1>1, <1>2, <1>3, <1>4

\* The results are answers.
LEMMA ResultsType ==
  ASSUME TypesHold
  PROVE  /\ Results \in Seq(Answers) /\ Len(Results) \in Nat
         /\ \A i \in Places : Results[i] \in Answers
<1>1. Results \in Seq(Answers)
  BY DEF TypesHold, Results
<1>2. QED BY <1>1 DEF Places

-----------------------------------------------------------------------------
\* The initial states.
LEMMA InitInv == Init => IInv
<1> SUFFICES ASSUME Init PROVE IInv
  OBVIOUS
<1> USE BrightnessAssumption
<1>1. Results = <<>> /\ Len(Results) = 0 /\ Places = {}
  BY DEF Init, Results, Places
<1>2. TypesHold
  <2>1. /\ Zero \in [Displays -> Levels] /\ Zero \in [Displays -> 0..0]
        /\ Zero \in [Displays -> 0..FailureThreshold]
    BY DEF Zero, Levels
  <2>2. /\ NoJobs \in [Displays -> Jobs("set") \union {None}]
        /\ NoJobs \in [Displays -> Jobs("refresh") \union {None}]
    BY DEF NoJobs
  <2>3. 1 \in Generations /\ 0 \in Levels
    BY DEF Generations, Levels
  <2>4. <<>> \in Seq(Answers)
    OBVIOUS
  <2>5. QED BY <2>1, <2>2, <2>3, <2>4 DEF Init, TypesHold
<1>3. QueuesCoherent
  BY <1>1 DEF Init, QueuesCoherent, NoJobs
<1>4. ShownIsTrue /\ DrainOK
  BY DEF Init, ShownIsTrue, DrainOK
<1>5. Flow
  BY <1>1 DEF Init, Flow, AnswersOK, Ordered, TaskOK
<1>6. QED BY <1>2, <1>3, <1>4, <1>5 DEF IInv

-----------------------------------------------------------------------------
(* Steps that disturb little                                                  *)

\* What a step leaves alone when it touches neither displays, wishes, writes nor results.
LEMMA Frame ==
  ASSUME Flow, ShownIsTrue, Results' = Results,
         UNCHANGED <<generation, known, level, epoch, failures, detect, writes, task, asked, hw>>
  PROVE  Flow' /\ ShownIsTrue' /\ (Detecting' <=> Detecting)
<1>1. Places' = Places
  BY DEF Places
<1>2. AnswersOK'
  BY <1>1 DEF Flow, AnswersOK, AnswerOK, Same, IsJob, IsDetection, Newest
<1>3. Ordered'
  BY <1>1 DEF Flow, Ordered, OrderOK, Same, IsJob, IsLastWish, Newest
<1>4. TaskOK'
  BY <1>1 DEF Flow, TaskOK, Same, IsJob, IsDetection, Newest
<1>5. ASSUME NEW d PROVE Outstanding(d)' <=> Outstanding(d)
  BY DEF Outstanding, IsLastWish, Newest
<1>6. ShownIsTrue'
  BY <1>5 DEF ShownIsTrue
<1>7. Detecting' <=> Detecting
  BY DEF Detecting, IsDetection
<1>8. QED BY <1>2, <1>3, <1>4, <1>6, <1>7 DEF Flow

\* Readings are queued.
LEMMA QueueRefreshesInv == IInv /\ QueueRefreshes => IInv'
<1> SUFFICES ASSUME IInv, QueueRefreshes PROVE IInv'
  OBVIOUS
<1> USE DEF IInv
<1>1. /\ UNCHANGED <<generation, known, level, epoch, failures, cooling, detect, writes, task,
                     unsignalled, completions, event, drained, ready, wishes, asked, hw>>
      /\ Results' = Results
  BY DEF QueueRefreshes, displayVars, workerVars, loopVars, wishVars, Results
<1>2. Flow' /\ ShownIsTrue' /\ (Detecting' <=> Detecting)
  BY <1>1, Frame
<1>3. ASSUME NEW d \in Displays
      PROVE  Job("refresh", d, 0) \in Jobs("refresh") /\ Job("refresh", d, 0)' = Job("refresh", d, 0)
  <2>1. generation \in Generations /\ epoch[d] \in Levels /\ 0 \in Levels
    BY BrightnessAssumption DEF TypesHold, Levels
  <2>2. QED BY <1>1, <2>1, JobIs DEF Job
<1>4. refreshes' \in [Displays -> Jobs("refresh") \union {None}]
  BY <1>3 DEF QueueRefreshes, TypesHold
<1>5. TypesHold'
  BY <1>1, <1>4 DEF TypesHold
<1>6. QueuesCoherent'
  <2> SUFFICES ASSUME NEW d \in Displays
               PROVE  /\ writes'[d] # None => d \in known' /\ writes'[d] = Job("set", d, asked[d])'
                      /\ refreshes'[d] # None => d \in known' /\ refreshes'[d] = Job("refresh", d, 0)'
                      /\ writes'[d] = None \/ refreshes'[d] = None
    BY <1>1, <1>2 DEF QueuesCoherent
  <2>1. writes'[d] # None => d \in known' /\ writes'[d] = Job("set", d, asked[d])'
    BY <1>1 DEF QueuesCoherent, Job
  <2>2. CASE d \in known \ cooling /\ writes[d] = None
    <3>1. refreshes'[d] = Job("refresh", d, 0)
      BY <2>2 DEF QueueRefreshes
    <3>2. QED BY <1>1, <1>3, <2>1, <2>2, <3>1
  <2>3. CASE ~(d \in known \ cooling /\ writes[d] = None)
    <3>1. refreshes'[d] = refreshes[d]
      BY <2>3 DEF QueueRefreshes
    <3>2. QED BY <1>1, <1>3, <2>1, <3>1 DEF QueuesCoherent
  <2>4. QED BY <2>2, <2>3
<1>7. DrainOK'
  BY <1>1 DEF DrainOK
<1>8. QED BY <1>2, <1>5, <1>6, <1>7

\* The queues stay coherent when nothing they speak of changes.
LEMMA QueuesFrame ==
  ASSUME QueuesCoherent, Detecting' => Detecting,
         UNCHANGED <<generation, known, epoch, writes, refreshes, asked>>
  PROVE  QueuesCoherent'
BY DEF QueuesCoherent, Job

\* A display has cooled down, the worker rings, the main loop silences the eventfd or takes
\* the queue.
LEMMA SmallInv ==
  IInv /\ ((\E d \in Displays : CoolDown(d)) \/ Signal \/ Drain \/ Collect) => IInv'
<1> SUFFICES ASSUME IInv, (\E d \in Displays : CoolDown(d)) \/ Signal \/ Drain \/ Collect PROVE IInv'
  OBVIOUS
<1> USE DEF IInv
<1>1. /\ UNCHANGED <<generation, known, level, epoch, failures, detect, writes, refreshes, task,
                     wishes, asked, hw>>
      /\ cooling' \subseteq cooling
  BY DEF CoolDown, Signal, Drain, Collect, displayVars, queueVars, workerVars, loopVars, wishVars
<1>2. /\ Results' = Results /\ DrainOK'
      /\ completions' \in Seq(Answers) /\ ready' \in Seq(Answers)
  <2>1. CASE Collect
    <3>1. ready = <<>> /\ ready' = completions /\ completions' = <<>> /\ ~drained'
      BY <2>1 DEF Collect, DrainOK
    <3>2. <<>> \in Seq(Answers) /\ completions \in Seq(Answers)
      BY DEF TypesHold
    <3>3. Results' = Results
      BY <3>1, <3>2 DEF Results
    <3>4. QED BY <3>1, <3>2, <3>3 DEF DrainOK
  <2>2. CASE Drain
    BY <2>2 DEF Drain, MainIsFree, Results, DrainOK, TypesHold
  <2>3. CASE Signal
    BY <2>3 DEF Signal, Results, DrainOK, TypesHold
  <2>4. CASE \E d \in Displays : CoolDown(d)
    BY <2>4 DEF CoolDown, loopVars, Results, DrainOK, TypesHold
  <2>5. QED BY <2>1, <2>2, <2>3, <2>4
<1>3. Flow' /\ ShownIsTrue' /\ (Detecting' <=> Detecting)
  BY <1>1, <1>2, Frame
<1>4. QueuesCoherent'
  BY <1>1, <1>3, QueuesFrame
<1>5. unsignalled' \in BOOLEAN /\ event' \in BOOLEAN /\ drained' \in BOOLEAN
  BY DEF CoolDown, Signal, Drain, Collect, workerVars, loopVars, TypesHold
<1>6. TypesHold'
  BY <1>1, <1>2, <1>5 DEF TypesHold
<1>7. QED BY <1>2, <1>3, <1>4, <1>6

\* Somebody turns the brightness at the monitor.
LEMMA ButtonsInv == IInv /\ (\E d \in Displays : Buttons(d)) => IInv'
<1> SUFFICES ASSUME IInv, NEW d \in Displays, Buttons(d) PROVE IInv'
  OBVIOUS
<1> USE DEF IInv
<1>1. /\ UNCHANGED <<generation, known, level, epoch, failures, cooling, detect, writes, refreshes,
                     task, unsignalled, completions, event, drained, ready, wishes, asked>>
      /\ Results' = Results /\ Places' = Places
  BY DEF Buttons, displayVars, queueVars, workerVars, loopVars, wishVars, Results, Places
<1>2. hw' \in [Displays -> Levels] /\ \A e \in Displays : hw'[e] \in {hw[e], 0}
  BY BrightnessAssumption DEF Buttons, TypesHold, Levels
<1>3. TypesHold'
  BY <1>1, <1>2 DEF TypesHold
<1>4. ASSUME NEW i \in Places PROVE AnswerOK(Results[i])'
  <2>1. AnswerOK(Results[i]) /\ (Same(Results[i]) /\ IsJob(Results[i]) => Results[i].display \in Displays)
    BY DEF Flow, AnswersOK, AnswerOK, TypesHold
  <2>2. Newest(Results[i]) => Results[i].display \in Displays
    BY <2>1 DEF Newest, Same, IsJob
  <2>3. QED BY <1>1, <1>2, <2>1, <2>2 DEF AnswerOK, Same, IsJob, IsDetection, Newest
<1>5. Ordered'
  BY <1>1 DEF Flow, Ordered, OrderOK, Same, IsJob, IsLastWish, Newest
<1>6. TaskOK'
  BY <1>1 DEF Flow, TaskOK, Same, IsJob, IsDetection, Newest
<1>7. ASSUME NEW e PROVE Outstanding(e)' <=> Outstanding(e)
  BY <1>1 DEF Outstanding, IsLastWish, Newest
<1>8. ShownIsTrue'
  BY <1>1, <1>2, <1>7 DEF ShownIsTrue, TypesHold
<1>9. Detecting' <=> Detecting
  BY <1>1 DEF Detecting, IsDetection
<1>10. QueuesCoherent'
  BY <1>1, <1>9, QueuesFrame
<1>11. Flow' /\ DrainOK'
  BY <1>1, <1>4, <1>5, <1>6 DEF Flow, AnswersOK, DrainOK
<1>12. QED BY <1>3, <1>8, <1>10, <1>11

-----------------------------------------------------------------------------
(* The main thread                                                            *)

\* After an enumeration everything under way is of an older one.
LEMMA RebuildInv == IInv /\ Rebuild => IInv'
<1> SUFFICES ASSUME IInv, Rebuild PROVE IInv'
  OBVIOUS
<1> USE DEF IInv
<1>1. /\ UNCHANGED <<task, unsignalled, completions, event, drained, ready, wishes, asked, hw>>
      /\ Results' = Results /\ Places' = Places
  BY DEF Rebuild, workerVars, loopVars, wishVars, Results, Places
<1>2. /\ generation \in Nat /\ generation' \in Generations /\ generation' = generation + 1
      /\ 0 \in Levels /\ 0 \in 0..wishes
  BY BrightnessAssumption DEF Rebuild, TypesHold, Generations, Levels
<1>3. /\ known' = {} /\ cooling' = {} /\ level' = Zero /\ epoch' = Zero /\ failures' = Zero
      /\ writes' = NoJobs /\ refreshes' = NoJobs /\ detect' \in {0, generation'}
  BY DEF Rebuild
<1>4. TypesHold'
  <2>1. /\ level' \in [Displays -> Levels] /\ epoch' \in [Displays -> 0..wishes]
        /\ failures' \in [Displays -> 0..FailureThreshold]
    BY <1>2, <1>3, BrightnessAssumption DEF Zero
  <2>2. /\ writes' \in [Displays -> Jobs("set") \union {None}]
        /\ refreshes' \in [Displays -> Jobs("refresh") \union {None}]
    BY <1>3 DEF NoJobs
  <2>3. QED BY <1>1, <1>2, <1>3, <2>1, <2>2 DEF TypesHold
<1>5. \A i \in Places : ~Same(Results[i])' /\ Results[i].generation <= generation'
  <2> TAKE i \in Places
  <2>1. Results[i].generation \in Nat
    BY ResultsType, JobFields, OtherFields DEF Answers, Generations
  <2>2. Results[i].generation <= generation
    BY DEF Flow, AnswersOK, AnswerOK
  <2>3. QED BY <1>1, <1>2, <2>1, <2>2 DEF Same
<1>6. task # None => ~Same(task)' /\ task.generation <= generation'
  <2> HAVE task # None
  <2>1. task.generation \in Nat
    BY JobFields, OtherFields DEF TypesHold, Generations
  <2>2. task.generation <= generation
    BY DEF Flow, TaskOK
  <2>3. QED BY <1>1, <1>2, <2>1, <2>2 DEF Same
<1>7. AnswersOK' /\ Ordered'
  BY <1>1, <1>5 DEF AnswersOK, AnswerOK, Ordered, OrderOK, Same, IsDetection, Newest
<1>8. TaskOK'
  <2>1. task # None /\ task.type = "set" => ~task.ok
    BY DEF Flow, TaskOK
  <2>2. QED BY <1>1, <1>3, <1>6, <2>1 DEF TaskOK, Same, IsDetection, Newest
<1>9. QueuesCoherent'
  BY <1>3 DEF QueuesCoherent, NoJobs
<1>10. ShownIsTrue' /\ DrainOK'
  BY <1>1, <1>3 DEF ShownIsTrue, DrainOK
<1>11. QED BY <1>4, <1>7, <1>8, <1>9, <1>10 DEF Flow

\* After a wish for d everything under way for d is of an older one.
LEMMA AskInv == IInv /\ (\E d \in Displays : Ask(d)) => IInv'
<1> SUFFICES ASSUME IInv, NEW d \in Displays, Ask(d) PROVE IInv'
  OBVIOUS
<1> USE DEF IInv
<1>1. /\ UNCHANGED <<generation, known, failures, cooling, detect, task, unsignalled, completions,
                     event, drained, ready, hw>>
      /\ Results' = Results /\ Places' = Places
  BY DEF Ask, workerVars, loopVars, Results, Places
<1>2. /\ d \in known /\ wishes \in Nat /\ wishes' = wishes + 1 /\ wishes' \in Levels
      /\ epoch[d] \in Nat /\ epoch[d] <= wishes /\ epoch'[d] = epoch[d] + 1
      /\ \A e \in Displays : e # d => epoch'[e] = epoch[e] /\ level'[e] = level[e]
                                   /\ asked'[e] = asked[e] /\ writes'[e] = writes[e]
                                   /\ refreshes'[e] = refreshes[e]
      /\ level'[d] = wishes' /\ asked'[d] = wishes' /\ refreshes'[d] = None
  BY BrightnessAssumption DEF Ask, TypesHold, Levels
<1>3. epoch'[d] \in Levels /\ epoch'[d] \in 0..wishes'
  BY <1>2, BrightnessAssumption DEF Levels
<1>4. /\ writes'[d] = Job("set", d, asked[d])' /\ writes'[d] \in Jobs("set")
  <2>1. writes'[d] = [Job("set", d, wishes') EXCEPT !.epoch = epoch'[d]]
    BY DEF Ask, TypesHold
  <2>2. writes'[d] = [type |-> "set", display |-> d, generation |-> generation,
                      epoch |-> epoch'[d], value |-> wishes', ok |-> FALSE]
    BY <2>1 DEF Job
  <2>3. generation \in Generations
    BY DEF TypesHold
  <2>4. writes'[d] \in Jobs("set")
    BY <1>2, <1>3, <2>2, <2>3 DEF Jobs
  <2>5. QED BY <1>1, <1>2, <2>2, <2>4 DEF Job
<1>5. writes'[d] # None
  BY <1>4, JobFields, OtherFields
<1>6. TypesHold'
  <2>1. level' \in [Displays -> Levels] /\ asked' \in [Displays -> Levels]
    BY <1>2 DEF Ask, TypesHold
  <2>2. epoch' \in [Displays -> 0..wishes']
    <3>1. 0..wishes \subseteq 0..wishes'
      BY <1>2
    <3>2. QED BY <1>2, <1>3, <3>1 DEF Ask, TypesHold
  <2>3. writes' \in [Displays -> Jobs("set") \union {None}]
    BY <1>2, <1>4 DEF Ask, TypesHold
  <2>4. refreshes' \in [Displays -> Jobs("refresh") \union {None}]
    BY DEF Ask, TypesHold
  <2>5. QED BY <1>1, <1>2, <2>1, <2>2, <2>3, <2>4 DEF TypesHold
<1>7. ASSUME NEW a, a.display \in Displays, a.epoch \in Nat, Same(a) /\ IsJob(a) => a.epoch <= epoch[a.display]
      PROVE  /\ Newest(a)' <=> Newest(a) /\ a.display # d
             /\ Same(a) /\ IsJob(a) => a.epoch <= epoch'[a.display]
  <2>1. CASE a.display = d
    BY <1>1, <1>2, <1>7, <2>1 DEF Newest, Same, IsJob
  <2>2. CASE a.display # d
    BY <1>1, <1>2, <1>7, <2>2 DEF Newest, Same, IsJob
  <2>3. QED BY <2>1, <2>2
<1>8. \A i \in Places :
        /\ Newest(Results[i])' => Newest(Results[i]) /\ Results[i].display # d
                                  /\ Results[i].display \in Displays
        /\ Same(Results[i]) /\ IsJob(Results[i]) => Results[i].epoch <= epoch'[Results[i].display]
        /\ Newest(Results[i]) /\ Results[i].display # d => Newest(Results[i])'
  <2> TAKE i \in Places
  <2>1. Results[i] \in Answers /\ AnswerOK(Results[i])
    BY ResultsType DEF Flow, AnswersOK
  <2>2. CASE Results[i] \in DetectResults
    <3>1. Results[i].type = "detect"
      BY <2>2, OtherFields
    <3>2. QED BY <1>1, <3>1 DEF Newest, IsJob
  <2>3. CASE Results[i] \notin DetectResults
    <3>1. Results[i].display \in Displays /\ Results[i].epoch \in Nat
      BY <2>1, <2>3, JobFields DEF Answers, Levels
    <3>2. Same(Results[i]) /\ IsJob(Results[i]) => Results[i].epoch <= epoch[Results[i].display]
      BY <2>1 DEF AnswerOK
    <3>3. PICK a : a = Results[i]
      OBVIOUS
    <3>4. /\ Newest(a)' <=> Newest(a) /\ a.display # d
          /\ Same(a) /\ IsJob(a) => a.epoch <= epoch'[a.display]
      BY <1>7, <3>1, <3>2, <3>3
    <3>5. Newest(Results[i])' <=> Newest(a)'
      BY <1>1, <3>3 DEF Newest
    <3>6. QED BY <3>1, <3>3, <3>4, <3>5
  <2>4. QED BY <2>2, <2>3
<1>9. AnswersOK'
  BY <1>1, <1>2, <1>8 DEF Flow, AnswersOK, AnswerOK, Same, IsJob, IsDetection
<1>10. Ordered'
  BY <1>1, <1>8 DEF Flow, Ordered, OrderOK, Same, IsJob, IsLastWish
<1>11. IsJob(task) =>
        /\ task.display \in Displays
        /\ Newest(task)' <=> Newest(task) /\ task.display # d
        /\ Same(task) => task.epoch <= epoch'[task.display]
  <2> HAVE IsJob(task)
  <2>1. task \in Jobs("set") \union Jobs("refresh")
    BY OtherFields DEF TypesHold, IsJob
  <2>2. task # None
    BY OtherFields DEF IsJob
  <2>3. /\ task.display \in Displays /\ task.epoch \in Nat
        /\ Same(task) => task.epoch <= epoch[task.display]
    BY <2>1, <2>2, JobFields DEF Flow, TaskOK, Levels
  <2>4. PICK a : a = task
    OBVIOUS
  <2>5. /\ Newest(a)' <=> Newest(a) /\ a.display # d
        /\ Same(a) => a.epoch <= epoch'[a.display]
    BY <1>7, <2>3, <2>4 DEF Same, IsJob
  <2>6. Newest(task)' <=> Newest(a)'
    BY <1>1, <2>4 DEF Newest
  <2>7. QED BY <2>3, <2>4, <2>5, <2>6
<1>12. TaskOK'
  <2>1. task # None =>
          /\ task.generation <= generation
          /\ IF Same(task) THEN detect = 0 ELSE known = {}
          /\ IsDetection(task) => known = {} /\ \A i \in Places : ~Same(Results[i])
          /\ Same(task) /\ IsJob(task) => task.display \in known
    BY DEF Flow, TaskOK
  <2>2. task # None /\ Newest(task)' => writes'[task.display] = None
    <3> HAVE task # None /\ Newest(task)'
    <3>1. IsJob(task)
      BY <1>1 DEF Newest, IsJob
    <3>2. QED BY <1>2, <1>11, <3>1 DEF Flow, TaskOK
  <2>3. ASSUME task # None, task.type = "set"
        PROVE  /\ ~task.ok
               /\ task.display \in known => Newest(task)' \/ writes'[task.display] # None
               /\ Newest(task)' =>
                    /\ task.value = asked'[task.display]
                    /\ \A i \in Places : Newest(Results[i])' => Results[i].display # task.display
    <3>1. IsJob(task)
      BY <2>3 DEF IsJob
    <3>2. QED BY <1>2, <1>5, <1>8, <1>11, <2>3, <3>1 DEF Flow, TaskOK
  <2>4. QED BY <1>1, <1>11, <2>1, <2>2, <2>3 DEF TaskOK, Same, IsJob, IsDetection
<1>13. Detecting' <=> Detecting
  BY <1>1 DEF Detecting, IsDetection
<1>14. QueuesCoherent'
  <2>1. Detecting' => known' = {}
    BY <1>1, <1>13 DEF QueuesCoherent
  <2>2. ASSUME NEW e \in Displays
        PROVE  /\ writes'[e] # None => e \in known' /\ writes'[e] = Job("set", e, asked[e])'
               /\ refreshes'[e] # None => e \in known' /\ refreshes'[e] = Job("refresh", e, 0)'
               /\ writes'[e] = None \/ refreshes'[e] = None
    <3>1. CASE e = d
      BY <1>1, <1>2, <1>4, <3>1
    <3>2. CASE e # d
      BY <1>1, <1>2, <3>2 DEF QueuesCoherent, Job
    <3>3. QED BY <3>1, <3>2
  <2>3. QED BY <2>1, <2>2 DEF QueuesCoherent
<1>15. ShownIsTrue'
  <2> SUFFICES ASSUME NEW e \in known'
               PROVE  IF Outstanding(e)' THEN level'[e] = asked'[e]
                      ELSE failures'[e] = 0 => hw'[e] \in {level'[e], 0}
    BY DEF ShownIsTrue
  <2>1. e \in Displays
    BY <1>1 DEF TypesHold
  <2>2. CASE e = d
    <3>1. Outstanding(e)'
      BY <1>5, <2>2 DEF Outstanding
    <3>2. QED BY <1>2, <2>2, <3>1
  <2>3. CASE e # d
    <3>1. IsLastWish(task, e)' <=> IsLastWish(task, e)
      BY <1>1, <1>11, <2>3 DEF IsLastWish, IsJob
    <3>2. \A i \in Places : IsLastWish(Results[i], e)' <=> IsLastWish(Results[i], e)
      BY <1>1, <1>8, <2>3 DEF IsLastWish
    <3>3. Outstanding(e)' <=> Outstanding(e)
      BY <1>1, <1>2, <2>1, <2>3, <3>1, <3>2 DEF Outstanding, Places
    <3>4. QED BY <1>1, <1>2, <2>1, <2>3, <3>3 DEF ShownIsTrue
  <2>4. QED BY <2>2, <2>3
<1>16. DrainOK'
  BY <1>1 DEF DrainOK
<1>17. QED BY <1>6, <1>9, <1>10, <1>12, <1>14, <1>15, <1>16 DEF Flow

-----------------------------------------------------------------------------
(* The worker                                                                 *)

\* No detection has been taken before: nothing of this enumeration is under way.
LEMMA TakeDetectInv == IInv /\ TakeDetect => IInv'
<1> SUFFICES ASSUME IInv, TakeDetect PROVE IInv'
  OBVIOUS
<1> USE DEF IInv
<1>1. /\ UNCHANGED <<generation, known, level, epoch, failures, cooling, writes, refreshes,
                     unsignalled, completions, event, drained, ready, wishes, asked, hw>>
      /\ Results' = Results /\ Places' = Places
      /\ detect # 0 /\ detect' = 0 /\ task' = Detection(detect)
  BY DEF TakeDetect, displayVars, loopVars, wishVars, Results, Places
<1>2. /\ detect = generation /\ known = {} /\ task'.type = "detect"
      /\ task'.generation = generation /\ task' \in Detections
  BY <1>1 DEF TypesHold, QueuesCoherent, Detecting, Detection, Detections
<1>3. \A i \in Places : ~Same(Results[i])
  BY <1>1 DEF Flow, AnswersOK, AnswerOK
<1>4. TypesHold'
  BY <1>1, <1>2 DEF TypesHold
<1>5. AnswersOK' /\ Ordered'
  <2>1. \A i \in Places : Results[i].generation <= generation
    BY DEF Flow, AnswersOK, AnswerOK
  <2>2. QED BY <1>1, <1>3, <2>1 DEF AnswersOK, AnswerOK, Ordered, OrderOK, Same, IsDetection, Newest
<1>6. TaskOK'
  <2>1. generation <= generation
    BY DEF TypesHold, Generations
  <2>2. QED BY <1>1, <1>2, <1>3, <2>1 DEF TaskOK, Same, IsJob, IsDetection, Newest
<1>7. QueuesCoherent'
  BY <1>1, <1>2 DEF QueuesCoherent, Job
<1>8. ShownIsTrue' /\ DrainOK'
  BY <1>1, <1>2 DEF ShownIsTrue, DrainOK
<1>9. QED BY <1>4, <1>5, <1>6, <1>7, <1>8 DEF Flow

\* The write that is taken is of the last wish, and no reading since then is under way.
LEMMA TakeWriteInv == IInv /\ (\E d \in Displays : TakeWrite(d)) => IInv'
<1> SUFFICES ASSUME IInv, NEW d \in Displays, TakeWrite(d) PROVE IInv'
  OBVIOUS
<1> USE DEF IInv
<1>1. /\ UNCHANGED <<generation, known, level, epoch, failures, cooling, detect,
                     unsignalled, completions, event, drained, ready, wishes, asked, hw>>
      /\ Results' = Results /\ Places' = Places
      /\ detect = 0 /\ task = None /\ writes[d] # None /\ task' = writes[d]
  BY DEF TakeWrite, WorkerIsFree, displayVars, loopVars, wishVars, Results, Places
<1>2. /\ writes'[d] = None /\ refreshes'[d] = None
      /\ \A e \in Displays : e # d => writes'[e] = writes[e] /\ refreshes'[e] = refreshes[e]
  BY DEF TakeWrite, TypesHold
<1>3. /\ d \in known /\ known # {} /\ task' \in Jobs("set") /\ task'.type = "set" /\ task'.display = d
      /\ task'.generation = generation /\ task'.epoch = epoch[d] /\ task'.value = asked[d]
      /\ ~task'.ok
  <2>1. d \in known /\ writes[d] = Job("set", d, asked[d])
    BY <1>1 DEF QueuesCoherent
  <2>2. generation \in Generations /\ epoch[d] \in Levels /\ asked[d] \in Levels
    BY BrightnessAssumption DEF TypesHold, Levels
  <2>3. PICK v \in Levels : v = asked[d]
    BY <2>2
  <2>4. task' = Job("set", d, v)
    BY <1>1, <2>1, <2>3
  <2>5. /\ Job("set", d, v) \in Jobs("set") /\ Job("set", d, v).type = "set"
        /\ Job("set", d, v).display = d /\ Job("set", d, v).generation = generation
        /\ Job("set", d, v).epoch = epoch[d] /\ Job("set", d, v).value = v
        /\ ~Job("set", d, v).ok
    BY <2>2, JobIs
  <2>6. QED BY <2>1, <2>3, <2>4, <2>5
<1>4. TypesHold'
  <2>1. /\ writes' \in [Displays -> Jobs("set") \union {None}]
        /\ refreshes' \in [Displays -> Jobs("refresh") \union {None}]
    BY DEF TakeWrite, TypesHold
  <2>2. QED BY <1>1, <1>3, <2>1 DEF TypesHold
<1>5. \A i \in Places :
        /\ ~IsDetection(Results[i])
        /\ Newest(Results[i]) => Results[i].display # d /\ Results[i].display \in Displays
  BY <1>1, <1>3 DEF Flow, AnswersOK, AnswerOK, Newest, Same, IsJob, TypesHold
<1>6. ASSUME NEW i \in Places PROVE AnswerOK(Results[i])'
  <2>1. AnswerOK(Results[i]) /\ ~IsDetection(Results[i])
    BY <1>5 DEF Flow, AnswersOK
  <2>2. Newest(Results[i]) => writes'[Results[i].display] = writes[Results[i].display]
    BY <1>2, <1>5
  <2>3. QED BY <1>1, <2>1, <2>2 DEF AnswerOK, Same, IsJob, IsDetection, Newest
<1>7. Ordered'
  BY <1>1 DEF Flow, Ordered, OrderOK, Same, IsJob, IsLastWish, Newest
<1>8. TaskOK'
  <2>1. generation <= generation /\ epoch[d] <= epoch[d]
    BY DEF TypesHold, Generations
  <2>2. QED BY <1>1, <1>2, <1>3, <1>5, <2>1 DEF TaskOK, Same, IsJob, IsDetection, Newest
<1>9. QueuesCoherent'
  <2>1. ~Detecting'
    <3>1. ~IsDetection(task)' /\ \A i \in Places : ~IsDetection(Results[i])'
      BY <1>1, <1>3, <1>5 DEF IsDetection
    <3>2. QED BY <1>1, <3>1 DEF Detecting, Places
  <2>2. ASSUME NEW e \in Displays
        PROVE  /\ writes'[e] # None => e \in known' /\ writes'[e] = Job("set", e, asked[e])'
               /\ refreshes'[e] # None => e \in known' /\ refreshes'[e] = Job("refresh", e, 0)'
               /\ writes'[e] = None \/ refreshes'[e] = None
    <3>1. CASE e = d
      BY <1>2, <3>1
    <3>2. CASE e # d
      BY <1>1, <1>2, <3>2 DEF QueuesCoherent, Job
    <3>3. QED BY <3>1, <3>2
  <2>3. QED BY <2>1, <2>2 DEF QueuesCoherent
<1>10. ShownIsTrue'
  <2> SUFFICES ASSUME NEW e \in known'
               PROVE  IF Outstanding(e)' THEN level'[e] = asked'[e]
                      ELSE failures'[e] = 0 => hw'[e] \in {level'[e], 0}
    BY DEF ShownIsTrue
  <2>1. e \in Displays
    BY <1>1 DEF TypesHold
  <2>2. Outstanding(e)' <=> Outstanding(e)
    <3>1. CASE e = d
      <4>1. IsLastWish(task, d)'
        BY <1>1, <1>3 DEF IsLastWish, Newest
      <4>2. QED BY <1>1, <3>1, <4>1 DEF Outstanding
    <3>2. CASE e # d
      <4>1. ~IsLastWish(task, e) /\ ~IsLastWish(task, e)'
        BY <1>1, <1>3, <3>2, OtherFields DEF IsLastWish
      <4>2. \A i \in Places : IsLastWish(Results[i], e)' <=> IsLastWish(Results[i], e)
        BY <1>1 DEF IsLastWish, Newest
      <4>3. QED BY <1>1, <1>2, <2>1, <3>2, <4>1, <4>2 DEF Outstanding, Places
    <3>3. QED BY <3>1, <3>2
  <2>3. QED BY <1>1, <2>2 DEF ShownIsTrue
<1>11. DrainOK'
  BY <1>1 DEF DrainOK
<1>12. QED BY <1>1, <1>4, <1>6, <1>7, <1>8, <1>9, <1>10, <1>11 DEF Flow, AnswersOK

\* A reading is taken only when no write is queued.
LEMMA TakeRefreshInv == IInv /\ (\E d \in Displays : TakeRefresh(d)) => IInv'
<1> SUFFICES ASSUME IInv, NEW d \in Displays, TakeRefresh(d) PROVE IInv'
  OBVIOUS
<1> USE DEF IInv
<1>1. /\ UNCHANGED <<generation, known, level, epoch, failures, cooling, detect, writes,
                     unsignalled, completions, event, drained, ready, wishes, asked, hw>>
      /\ Results' = Results /\ Places' = Places
      /\ detect = 0 /\ task = None /\ refreshes[d] # None /\ task' = refreshes[d]
      /\ writes[d] = None
  BY DEF TakeRefresh, WorkerIsFree, displayVars, loopVars, wishVars, Results, Places, NoJobs
<1>2. \A e \in Displays : refreshes'[e] # None => refreshes'[e] = refreshes[e]
  BY DEF TakeRefresh, TypesHold
<1>3. /\ d \in known /\ known # {} /\ task' \in Jobs("refresh") /\ task'.type = "refresh"
      /\ task'.display = d /\ task'.generation = generation /\ task'.epoch = epoch[d]
  <2>1. d \in known /\ refreshes[d] = Job("refresh", d, 0)
    BY <1>1 DEF QueuesCoherent
  <2>2. generation \in Generations /\ epoch[d] \in Levels /\ 0 \in Levels
    BY BrightnessAssumption DEF TypesHold, Levels
  <2>3. task' = Job("refresh", d, 0)
    BY <1>1, <2>1
  <2>4. /\ Job("refresh", d, 0) \in Jobs("refresh") /\ Job("refresh", d, 0).type = "refresh"
        /\ Job("refresh", d, 0).display = d /\ Job("refresh", d, 0).generation = generation
        /\ Job("refresh", d, 0).epoch = epoch[d]
    BY <2>2, JobIs
  <2>5. QED BY <2>1, <2>3, <2>4
<1>4. TypesHold'
  <2>1. refreshes' \in [Displays -> Jobs("refresh") \union {None}]
    BY DEF TakeRefresh, TypesHold
  <2>2. QED BY <1>1, <1>3, <2>1 DEF TypesHold
<1>5. \A i \in Places : ~IsDetection(Results[i])
  BY <1>3 DEF Flow, AnswersOK, AnswerOK
<1>6. AnswersOK'
  BY <1>1, <1>5 DEF Flow, AnswersOK, AnswerOK, Same, IsJob, IsDetection, Newest
<1>7. Ordered'
  BY <1>1 DEF Flow, Ordered, OrderOK, Same, IsJob, IsLastWish, Newest
<1>8. TaskOK'
  <2>1. generation <= generation /\ epoch[d] <= epoch[d]
    BY DEF TypesHold, Generations
  <2>2. QED BY <1>1, <1>3, <2>1 DEF TaskOK, Same, IsJob, IsDetection, Newest
<1>9. QueuesCoherent'
  <2>1. ~Detecting'
    BY <1>1, <1>3, <1>5 DEF Detecting, IsDetection, Places
  <2>2. QED BY <1>1, <1>2, <2>1 DEF QueuesCoherent, Job
<1>10. ShownIsTrue'
  <2>1. ASSUME NEW e PROVE Outstanding(e)' <=> Outstanding(e)
    <3>1. ~IsLastWish(task, e) /\ ~IsLastWish(task, e)'
      BY <1>1, <1>3, OtherFields DEF IsLastWish
    <3>2. \A i \in Places : IsLastWish(Results[i], e)' <=> IsLastWish(Results[i], e)
      BY <1>1 DEF IsLastWish, Newest
    <3>3. QED BY <1>1, <3>1, <3>2 DEF Outstanding, Places
  <2>2. QED BY <1>1, <2>1 DEF ShownIsTrue
<1>11. DrainOK'
  BY <1>1 DEF DrainOK
<1>12. QED BY <1>4, <1>6, <1>7, <1>8, <1>9, <1>10, <1>11 DEF Flow

\* What posting a result changes.
LEMMA Posted ==
  ASSUME TypesHold, NEW result \in Answers, Post(result)
  PROVE  /\ UNCHANGED <<generation, known, level, epoch, failures, cooling, detect, writes,
                        refreshes, event, drained, ready, wishes, asked>>
         /\ task' = None /\ unsignalled' = TRUE /\ completions' \in Seq(Answers)
         /\ Len(Results) \in Nat /\ Places' = Places \union {Len(Results) + 1}
         /\ Results'[Len(Results) + 1] = result
         /\ \A i \in Places : Results'[i] = Results[i] /\ i < Len(Results) + 1
<1>1. /\ UNCHANGED <<generation, known, level, epoch, failures, cooling, detect, writes,
                     refreshes, event, drained, ready, wishes, asked>>
      /\ task' = None /\ unsignalled' = TRUE
      /\ completions' = Append(completions, result)
  BY DEF Post, displayVars, queueVars, loopVars, wishVars
<1>2. ready \in Seq(Answers) /\ completions \in Seq(Answers)
  BY DEF TypesHold
<1>3. Results' = ready \o Append(completions, result)
  BY <1>1 DEF Results
<1>4. /\ Len(Results) \in Nat /\ Len(Results') = Len(Results) + 1
      /\ Results'[Len(Results) + 1] = result
      /\ \A i \in 1..Len(Results) : Results'[i] = Results[i]
  BY <1>2, <1>3, ConcatAppend DEF Results
<1>5. Places' = Places \union {Len(Results) + 1} /\ \A i \in Places : i < Len(Results) + 1
  BY <1>4 DEF Places
<1>6. completions' \in Seq(Answers)
  BY <1>1, <1>2
<1>7. QED BY <1>1, <1>4, <1>5, <1>6 DEF Places

\* A result may be posted that is the answer to the task, whatever it has done to the monitor.
LEMMA PostInv ==
  ASSUME IInv, NEW result \in Answers, Post(result), AnswerOK(result)',
         task # None, hw' \in [Displays -> Levels],
         IsDetection(result) <=> IsDetection(task),
         \A e \in Displays : IsLastWish(result, e) <=> IsLastWish(task, e),
         \A e \in known : ~Outstanding(e) => hw'[e] = hw[e],
         \A i \in Places : Newest(Results[i]) =>
                             hw'[Results[i].display] = hw[Results[i].display]
  PROVE  IInv'
<1> USE DEF IInv
<1>1. /\ UNCHANGED <<generation, known, level, epoch, failures, cooling, detect, writes,
                     refreshes, event, drained, ready, wishes, asked>>
      /\ task' = None /\ unsignalled' = TRUE /\ completions' \in Seq(Answers)
      /\ Len(Results) \in Nat /\ Places' = Places \union {Len(Results) + 1}
      /\ Results'[Len(Results) + 1] = result
      /\ \A i \in Places : Results'[i] = Results[i] /\ i < Len(Results) + 1
  BY Posted
<1>2. TypesHold'
  BY <1>1 DEF TypesHold
<1>3. \A i \in Places : AnswerOK(Results[i]) /\ ~IsDetection(Results[i])
  BY DEF Flow, AnswersOK, AnswerOK
<1>4. ASSUME NEW i \in Places PROVE AnswerOK(Results[i])'
  <2>1. AnswerOK(Results[i]) /\ ~IsDetection(Results[i]) /\ Results'[i] = Results[i]
    BY <1>1, <1>3
  <2>2. Newest(Results[i]) => hw'[Results[i].display] = hw[Results[i].display]
    OBVIOUS
  <2>3. QED BY <1>1, <2>1, <2>2 DEF AnswerOK, Same, IsJob, IsDetection, Newest
<1>5. AnswersOK'
  BY <1>1, <1>4 DEF AnswersOK, AnswerOK, Same, IsJob, IsDetection, Newest
<1>6. ASSUME NEW i \in Places PROVE OrderOK(Results[i], result)
  <2> SUFFICES ASSUME Same(Results[i]), Same(result) PROVE OrderOK(Results[i], result)
    BY DEF OrderOK
  <2>1. IsJob(Results[i])
    <3>1. Results[i] \in Answers
      BY ResultsType
    <3>2. QED BY <1>3, <3>1, JobFields, OtherFields DEF Answers, IsDetection, IsJob, Same
  <2>2. IsJob(result)
    <3>1. ~IsDetection(result)
      BY DEF Flow, TaskOK
    <3>2. QED BY <3>1, JobFields, OtherFields DEF Answers, IsDetection, IsJob, Same
  <2>3. ~(Newest(Results[i]) /\ IsLastWish(result, Results[i].display))
    <3> SUFFICES ASSUME Newest(Results[i]), IsLastWish(result, Results[i].display) PROVE FALSE
      OBVIOUS
    <3>1. Results[i].display \in Displays
      BY <1>3, <2>1 DEF AnswerOK, TypesHold
    <3>2. IsLastWish(task, Results[i].display)
      BY <3>1
    <3>3. QED BY <3>2 DEF Flow, TaskOK, IsLastWish
  <2>4. QED BY <2>1, <2>2, <2>3 DEF OrderOK
<1>7. Ordered'
  <2> SUFFICES ASSUME NEW i \in Places', NEW j \in Places', i < j
               PROVE  OrderOK(Results[i], Results[j])'
    BY DEF Ordered
  <2>1. i \in Places /\ Results'[i] = Results[i]
    BY <1>1 DEF Places
  <2>2. CASE j = Len(Results) + 1
    BY <1>1, <1>6, <2>1, <2>2 DEF OrderOK, Same, IsJob, IsLastWish, Newest
  <2>3. CASE j # Len(Results) + 1
    <3>1. j \in Places /\ Results'[j] = Results[j]
      BY <1>1, <2>3
    <3>2. OrderOK(Results[i], Results[j])
      BY <2>1, <3>1 DEF Flow, Ordered
    <3>3. QED BY <1>1, <2>1, <3>1, <3>2 DEF OrderOK, Same, IsJob, IsLastWish, Newest
  <2>4. QED BY <2>2, <2>3
<1>8. TaskOK'
  BY <1>1 DEF TaskOK
<1>9. ASSUME NEW e \in Displays PROVE Outstanding(e)' <=> Outstanding(e)
  <2>1. ~IsLastWish(task, e)'
    BY <1>1, OtherFields DEF IsLastWish
  <2>2. \A i \in Places : IsLastWish(Results[i], e)' <=> IsLastWish(Results[i], e)
    BY <1>1 DEF IsLastWish, Newest
  <2>3. IsLastWish(result, e)' <=> IsLastWish(task, e)
    BY <1>1 DEF IsLastWish, Newest
  <2>4. (\E i \in Places : IsLastWish(Results[i], e))' <=>
          IsLastWish(task, e) \/ \E i \in Places : IsLastWish(Results[i], e)
    BY <1>1, <2>2, <2>3 DEF IsLastWish
  <2>5. QED BY <1>1, <2>1, <2>4 DEF Outstanding, Places
<1>10. Detecting' <=> Detecting
  <2>1. ~IsDetection(task)'
    BY <1>1, OtherFields DEF IsDetection
  <2>2. \A i \in Places : IsDetection(Results[i])' <=> IsDetection(Results[i])
    BY <1>1 DEF IsDetection
  <2>3. IsDetection(result)' <=> IsDetection(task)
    BY <1>1 DEF IsDetection
  <2>4. (\E i \in Places : IsDetection(Results[i]))' <=>
          IsDetection(task) \/ \E i \in Places : IsDetection(Results[i])
    BY <1>1, <2>2, <2>3 DEF IsDetection
  <2>5. QED BY <1>1, <2>1, <2>4 DEF Detecting, Places
<1>11. ShownIsTrue'
  <2>1. known \subseteq Displays
    BY DEF TypesHold
  <2>2. QED BY <1>1, <1>9, <2>1 DEF ShownIsTrue
<1>12. QueuesCoherent'
  BY <1>1, <1>10, QueuesFrame
<1>13. DrainOK'
  BY <1>1 DEF DrainOK
<1>14. QED BY <1>2, <1>5, <1>7, <1>8, <1>11, <1>12, <1>13 DEF Flow

\* What the task of the worker is worth when it is a job.
LEMMA TaskFacts ==
  ASSUME IInv, IsJob(task)
  PROVE  /\ task # None /\ task \in Jobs(task.type) /\ task.display \in Displays
         /\ task.generation \in Nat /\ task.generation <= generation
         /\ Same(task) => detect = 0 /\ task.display \in known /\ task.epoch <= epoch[task.display]
         /\ Newest(task) => writes[task.display] = None
         /\ ~IsDetection(task)
<1>1. task \in Jobs(task.type)
  <2>1. task \in Jobs("set") \union Jobs("refresh")
    BY OtherFields DEF TypesHold, IsJob, IInv
  <2>2. QED BY <2>1, JobFields
<1>2. task # None /\ ~IsDetection(task)
  BY OtherFields DEF IsJob, IsDetection
<1>3. task.display \in Displays /\ task.generation \in Nat
  BY <1>1, JobFields DEF Generations
<1>4. QED BY <1>1, <1>2, <1>3 DEF IInv, Flow, TaskOK, IsJob

\* The monitors have been enumerated.
LEMMA FinishDetectInv == IInv /\ FinishDetect => IInv'
<1> SUFFICES ASSUME IInv, FinishDetect PROVE IInv'
  OBVIOUS
<1> USE DEF IInv
<1>1. task.type = "detect" /\ hw' = hw
  BY DEF FinishDetect
<1>2. /\ task \in Detections /\ task # None /\ task.generation \in Generations
      /\ task.generation <= generation
  <2>1. task \in Detections
    BY <1>1, JobFields, OtherFields DEF TypesHold
  <2>2. task # None
    BY <1>1, OtherFields
  <2>3. QED BY <2>1, <2>2, OtherFields DEF Flow, TaskOK
<1>3. hw \in [Displays -> Levels]
  BY DEF TypesHold
<1>4. PICK result \in Answers :
        /\ Post(result) /\ result.type = "detect"
        /\ result.generation = task.generation /\ result.read = hw
  <2>1. [type |-> "detect", generation |-> task.generation, read |-> hw] \in Answers
    BY <1>2, <1>3 DEF Answers, DetectResults
  <2>2. QED BY <2>1 DEF FinishDetect
<1>5. /\ UNCHANGED <<generation, known, level, epoch, failures, cooling, detect, writes,
                     refreshes, event, drained, ready, wishes, asked>>
      /\ task' = None
  BY <1>4, Posted
<1>6. /\ IsDetection(result) <=> IsDetection(task)
      /\ \A e \in Displays : ~IsLastWish(result, e) /\ ~IsLastWish(task, e)
      /\ ~IsJob(result) /\ ~Newest(result)'
  BY <1>1, <1>4 DEF IsDetection, IsLastWish, IsJob, Newest
<1>7. AnswerOK(result)'
  <2>1. /\ Same(result) => detect = 0
        /\ IsDetection(result) => known = {}
    BY <1>1, <1>2, <1>4 DEF Flow, TaskOK, Same, IsDetection
  <2>2. QED BY <1>1, <1>2, <1>4, <1>5, <1>6, <2>1 DEF AnswerOK, Same, IsJob, IsDetection
<1>8. QED BY <1>1, <1>2, <1>3, <1>4, <1>6, <1>7, PostInv

\* A brightness has been read.
LEMMA FinishRefreshInv == IInv /\ FinishRefresh => IInv'
<1> SUFFICES ASSUME IInv, task.type = "refresh", hw' = hw, NEW ok \in BOOLEAN,
                    Post([task EXCEPT !.value = hw[task.display], !.ok = ok])
             PROVE  IInv'
  BY DEF FinishRefresh
<1> USE DEF IInv
<1>1. /\ IsJob(task) /\ task # None /\ task \in Jobs("refresh") /\ task.display \in Displays
      /\ task.generation \in Nat /\ task.generation <= generation /\ ~IsDetection(task)
  BY TaskFacts DEF IsJob
<1>2. hw \in [Displays -> Levels]
  BY DEF TypesHold
<1>3. PICK result \in Jobs("refresh") :
        /\ Post(result) /\ result.type = "refresh" /\ result.display = task.display
        /\ result.generation = task.generation /\ result.epoch = task.epoch
        /\ result.value = hw[task.display]
  <2>1. PICK result : result = [task EXCEPT !.value = hw[task.display], !.ok = ok]
    OBVIOUS
  <2>2. /\ result \in Jobs("refresh") /\ result.type = "refresh" /\ result.display = task.display
        /\ result.generation = task.generation /\ result.epoch = task.epoch
        /\ result.value = hw[task.display]
    BY <1>1, <1>2, <2>1 DEF Jobs
  <2>3. QED BY <2>1, <2>2
<1>4. result \in Answers
  BY <1>3 DEF Answers
<1>5. /\ UNCHANGED <<generation, known, level, epoch, failures, cooling, detect, writes,
                     refreshes, event, drained, ready, wishes, asked>>
      /\ task' = None
  BY <1>3, <1>4, Posted
<1>6. /\ IsDetection(result) <=> IsDetection(task)
      /\ \A e \in Displays : ~IsLastWish(result, e) /\ ~IsLastWish(task, e)
  BY <1>1, <1>3 DEF IsDetection, IsLastWish
<1>7. AnswerOK(result)'
  <2>1. /\ Same(task) => detect = 0 /\ task.display \in known /\ task.epoch <= epoch[task.display]
        /\ Newest(task) => writes[task.display] = None
    BY <1>1, TaskFacts
  <2>2. Newest(result)' => Newest(task)
    BY <1>3, <1>5 DEF Newest
  <2>3. QED BY <1>1, <1>3, <1>5, <2>1, <2>2 DEF AnswerOK, Same, IsJob, IsDetection
<1>8. QED BY <1>1, <1>2, <1>3, <1>4, <1>6, <1>7, PostInv

\* A brightness has been set, or failed to be, and may have reached the monitor all the same.
LEMMA FinishWriteInv == IInv /\ FinishWrite => IInv'
<1> SUFFICES ASSUME IInv, FinishWrite PROVE IInv'
  OBVIOUS
<1> USE DEF IInv
<1>1. /\ IsJob(task) /\ task # None /\ task \in Jobs("set") /\ task.type = "set"
      /\ task.display \in Displays /\ task.value \in Levels
      /\ task.generation \in Nat /\ task.generation <= generation /\ ~IsDetection(task)
  BY TaskFacts, JobFields DEF FinishWrite, IsJob
<1>2. hw \in [Displays -> Levels]
  BY DEF TypesHold
<1>3. PICK result \in Jobs("set") :
        /\ Post(result) /\ result.type = "set" /\ result.display = task.display
        /\ result.generation = task.generation /\ result.epoch = task.epoch
        /\ result.value = task.value
        /\ hw' \in {hw, [hw EXCEPT ![task.display] = task.value]}
        /\ result.ok => hw' = [hw EXCEPT ![task.display] = task.value]
  <2>1. CASE /\ hw' = [hw EXCEPT ![task.display] = task.value]
             /\ Post([task EXCEPT !.ok = TRUE])
    <3>1. PICK result : result = [task EXCEPT !.ok = TRUE]
      OBVIOUS
    <3>2. /\ result \in Jobs("set") /\ result.type = "set" /\ result.display = task.display
          /\ result.generation = task.generation /\ result.epoch = task.epoch
          /\ result.value = task.value
      BY <1>1, <3>1 DEF Jobs
    <3>3. QED BY <2>1, <3>1, <3>2
  <2>2. CASE /\ hw' \in {hw, [hw EXCEPT ![task.display] = task.value]}
             /\ Post(task)
    <3>1. PICK result : result = task
      OBVIOUS
    <3>2. ~result.ok
      BY <1>1, <3>1 DEF Flow, TaskOK
    <3>3. QED BY <1>1, <2>2, <3>1, <3>2
  <2>3. QED BY <2>1, <2>2 DEF FinishWrite
<1>4. result \in Answers
  BY <1>3 DEF Answers
<1>5. /\ UNCHANGED <<generation, known, level, epoch, failures, cooling, detect, writes,
                     refreshes, event, drained, ready, wishes, asked>>
      /\ task' = None
  BY <1>3, <1>4, Posted
<1>6. /\ IsDetection(result) <=> IsDetection(task)
      /\ \A e \in Displays : IsLastWish(result, e) <=> IsLastWish(task, e)
  BY <1>1, <1>3 DEF IsDetection, IsLastWish, Newest
<1>7. /\ hw' \in [Displays -> Levels]
      /\ \A e \in Displays : e # task.display => hw'[e] = hw[e]
      /\ result.ok => hw'[task.display] = task.value
  BY <1>1, <1>2, <1>3
<1>8. /\ Same(task) => detect = 0 /\ task.display \in known /\ task.epoch <= epoch[task.display]
      /\ Newest(task) => writes[task.display] = None
  BY <1>1, TaskFacts
<1>9. /\ task.display \in known => Newest(task) \/ writes[task.display] # None
      /\ Newest(task) =>
           /\ task.value = asked[task.display]
           /\ \A i \in Places : Newest(Results[i]) => Results[i].display # task.display
  BY <1>1 DEF Flow, TaskOK
<1>10. AnswerOK(result)'
  <2>1. Newest(result)' <=> Newest(task)
    BY <1>1, <1>3, <1>5 DEF Newest
  <2>2. QED BY <1>1, <1>3, <1>5, <1>7, <1>8, <1>9, <2>1 DEF AnswerOK, Same, IsJob, IsDetection
<1>11. \A e \in known : ~Outstanding(e) => hw'[e] = hw[e]
  <2> SUFFICES ASSUME NEW e \in known, ~Outstanding(e) PROVE e # task.display
    BY <1>7 DEF TypesHold
  <2>1. writes[e] = None /\ ~IsLastWish(task, e)
    BY DEF Outstanding
  <2>2. QED BY <1>1, <1>9, <2>1 DEF IsLastWish
<1>12. ASSUME NEW i \in Places, Newest(Results[i])
       PROVE  hw'[Results[i].display] = hw[Results[i].display]
  <2>1. /\ Results[i].display \in known /\ Results[i].display \in Displays
        /\ writes[Results[i].display] = None
    BY <1>12 DEF Flow, AnswersOK, AnswerOK, Newest, Same, IsJob, TypesHold
  <2>2. Results[i].display # task.display
    BY <1>9, <1>12, <2>1
  <2>3. QED BY <1>7, <2>1, <2>2
<1>13. QED BY <1>1, <1>3, <1>4, <1>6, <1>7, <1>10, <1>11, <1>12, PostInv

-----------------------------------------------------------------------------
(* The results reach the displays                                             *)

\* The first result goes, the others move up.
LEMMA AppliedFacts ==
  ASSUME TypesHold, ready # <<>>, Applied
  PROVE  /\ UNCHANGED <<generation, detect, writes, refreshes, task, unsignalled, completions,
                        event, drained, wishes, asked, hw>>
         /\ ready' \in Seq(Answers)
         /\ 1 \in Places /\ Head(ready) = Results[1]
         /\ \A i \in Places' : /\ i \in Nat /\ i + 1 \in Places /\ i + 1 > 1
                               /\ Results'[i] = Results[i + 1]
         /\ \A i \in Places : i # 1 => /\ i > 1 /\ i - 1 \in Places'
                                       /\ Results'[i - 1] = Results[i]
<1>1. /\ UNCHANGED <<generation, detect, writes, refreshes, task, unsignalled, completions,
                     event, drained, wishes, asked, hw>>
      /\ ready' = Tail(ready)
  BY DEF Applied, queueVars, workerVars, wishVars
<1>2. ready \in Seq(Answers) /\ completions \in Seq(Answers)
  BY DEF TypesHold
<1>3. Results' = Tail(ready) \o completions
  BY <1>1 DEF Results
<1>4. /\ Len(Results) \in Nat \ {0} /\ Len(Results') = Len(Results) - 1
      /\ Results[1] = Head(ready) /\ Tail(ready) \in Seq(Answers)
      /\ \A i \in 1..(Len(Results) - 1) : Results'[i] = Results[i + 1]
  BY <1>2, <1>3, ConcatTail DEF Results
<1>5. \A i \in Places' : i \in Nat /\ i + 1 \in Places /\ i + 1 > 1 /\ Results'[i] = Results[i + 1]
  BY <1>4 DEF Places
<1>6. \A i \in Places : i # 1 => i > 1 /\ i - 1 \in Places' /\ Results'[i - 1] = Results[i]
  <2> TAKE i \in Places
  <2> HAVE i # 1
  <2>1. i > 1 /\ i - 1 \in 1..(Len(Results) - 1) /\ i - 1 + 1 = i
    BY <1>4 DEF Places
  <2>2. Results'[i - 1] = Results[i - 1 + 1]
    BY <1>4, <2>1
  <2>3. QED BY <1>4, <2>1, <2>2 DEF Places
<1>7. QED BY <1>1, <1>4, <1>5, <1>6 DEF Places

\* A result that is no detection of this enumeration goes, and what it has changed of the
\* displays is only their brightness and their failures.
LEMMA DropInv ==
  ASSUME IInv, ready # <<>>, Applied, UNCHANGED <<known, epoch>>,
         level' \in [Displays -> Levels], failures' \in [Displays -> 0..FailureThreshold],
         cooling' \subseteq known, ~IsDetection(Head(ready))
  PROVE  /\ TypesHold' /\ QueuesCoherent' /\ Flow' /\ DrainOK'
         /\ \A e \in Displays :
              Outstanding(e)' <=> \/ writes[e] # None \/ IsLastWish(task, e)
                                  \/ \E i \in Places : i # 1 /\ IsLastWish(Results[i], e)
<1> USE DEF IInv
<1>1. /\ UNCHANGED <<generation, known, epoch, detect, writes, refreshes, task, unsignalled,
                     completions, event, drained, wishes, asked, hw>>
      /\ ready' \in Seq(Answers)
      /\ 1 \in Places /\ Head(ready) = Results[1]
      /\ \A i \in Places' : /\ i \in Nat /\ i + 1 \in Places /\ i + 1 > 1
                            /\ Results'[i] = Results[i + 1]
      /\ \A i \in Places : i # 1 => /\ i > 1 /\ i - 1 \in Places'
                                    /\ Results'[i - 1] = Results[i]
  BY AppliedFacts
<1>2. TypesHold'
  BY <1>1 DEF TypesHold
<1>3. AnswersOK'
  <2> SUFFICES ASSUME NEW i \in Places' PROVE AnswerOK(Results[i])'
    BY DEF AnswersOK
  <2>1. AnswerOK(Results[i + 1]) /\ Results'[i] = Results[i + 1]
    BY <1>1 DEF Flow, AnswersOK
  <2>2. QED BY <1>1, <2>1 DEF AnswerOK, Same, IsJob, IsDetection, Newest
<1>4. Ordered'
  <2> SUFFICES ASSUME NEW i \in Places', NEW j \in Places', i < j
               PROVE  OrderOK(Results[i], Results[j])'
    BY DEF Ordered
  <2>1. /\ i + 1 \in Places /\ j + 1 \in Places /\ i + 1 < j + 1
        /\ Results'[i] = Results[i + 1] /\ Results'[j] = Results[j + 1]
    BY <1>1
  <2>2. OrderOK(Results[i + 1], Results[j + 1])
    BY <2>1 DEF Flow, Ordered
  <2>3. QED BY <1>1, <2>1, <2>2 DEF OrderOK, Same, IsJob, IsLastWish, Newest
<1>5. TaskOK'
  <2>1. TaskOK
    BY DEF Flow
  <2>2. \A i \in Places' :
          /\ i + 1 \in Places /\ Results'[i] = Results[i + 1]
          /\ Same(Results[i])' => Same(Results[i + 1])
          /\ Newest(Results[i])' => Newest(Results[i + 1])
    BY <1>1 DEF Same, Newest
  <2>3. /\ UNCHANGED <<generation, known, epoch, detect, writes, task, asked>>
        /\ Same(task)' <=> Same(task)
        /\ IsJob(task)' <=> IsJob(task)
        /\ Newest(task)' <=> Newest(task)
        /\ IsDetection(task)' <=> IsDetection(task)
    BY <1>1 DEF Same, IsJob, IsDetection, Newest
  <2>4. /\ task # None /\ IsDetection(task) => \A i \in Places : ~Same(Results[i])
        /\ task # None /\ task.type = "set" /\ Newest(task) =>
             \A i \in Places : Newest(Results[i]) => Results[i].display # task.display
    BY <2>1 DEF TaskOK
  <2>5. ASSUME task # None, IsDetection(task), NEW i \in Places' PROVE ~Same(Results[i])'
    BY <2>2, <2>4, <2>5
  <2>6. ASSUME task # None, task.type = "set", Newest(task), NEW i \in Places', Newest(Results[i])'
        PROVE  Results'[i].display # task.display
    <3>1. i + 1 \in Places /\ Results'[i] = Results[i + 1] /\ Newest(Results[i + 1])
      BY <2>2, <2>6
    <3>2. QED BY <2>4, <2>6, <3>1
  <2>7. QED BY <2>1, <2>3, <2>5, <2>6 DEF TaskOK
<1>6. Detecting' => Detecting
  <2>1. IsDetection(task)' => IsDetection(task)
    BY <1>1 DEF IsDetection
  <2>2. \A i \in Places' : IsDetection(Results[i])' => i + 1 \in Places /\ IsDetection(Results[i + 1])
    BY <1>1 DEF IsDetection
  <2>3. QED BY <1>1, <2>1, <2>2 DEF Detecting, Places
<1>7. QueuesCoherent'
  BY <1>1, <1>6, QueuesFrame
<1>8. DrainOK'
  BY <1>1 DEF DrainOK
<1>9. ASSUME NEW e \in Displays
      PROVE  Outstanding(e)' <=> \/ writes[e] # None \/ IsLastWish(task, e)
                                 \/ \E i \in Places : i # 1 /\ IsLastWish(Results[i], e)
  <2>1. (\E i \in Places : IsLastWish(Results[i], e))'
          <=> \E i \in Places : i # 1 /\ IsLastWish(Results[i], e)
    <3>1. ASSUME NEW i \in Places', IsLastWish(Results[i], e)'
          PROVE  i + 1 \in Places /\ i + 1 # 1 /\ IsLastWish(Results[i + 1], e)
      BY <1>1, <3>1 DEF IsLastWish, Newest
    <3>2. ASSUME NEW i \in Places, i # 1, IsLastWish(Results[i], e)
          PROVE  \E j \in Places' : IsLastWish(Results[j], e)'
      <4>1. PICK j \in Places' : Results'[j] = Results[i]
        BY <1>1, <3>2
      <4>2. IsLastWish(Results[j], e)'
        BY <1>1, <3>2, <4>1 DEF IsLastWish, Newest
      <4>3. QED BY <4>2
    <3>3. QED BY <3>1, <3>2
  <2>2. IsLastWish(task, e)' <=> IsLastWish(task, e)
    BY <1>1 DEF IsLastWish, Newest
  <2>3. QED BY <1>1, <2>1, <2>2 DEF Outstanding, Places
<1>10. QED BY <1>2, <1>3, <1>4, <1>5, <1>7, <1>8, <1>9 DEF Flow

\* A result that belongs to no wish that counts any more changes nothing.
LEMMA ApplyStaleInv ==
  ASSUME IInv, ready # <<>>, Applied, UNCHANGED displayVars,
         ~IsDetection(Head(ready)), ~Newest(Head(ready))
  PROVE  IInv'
<1> USE DEF IInv
<1>1. /\ UNCHANGED <<known, level, epoch, failures, cooling>>
      /\ level \in [Displays -> Levels] /\ failures \in [Displays -> 0..FailureThreshold]
      /\ cooling \subseteq known /\ known \subseteq Displays
  BY DEF displayVars, TypesHold
<1>2. /\ TypesHold' /\ QueuesCoherent' /\ Flow' /\ DrainOK'
      /\ \A e \in Displays :
           Outstanding(e)' <=> \/ writes[e] # None \/ IsLastWish(task, e)
                               \/ \E i \in Places : i # 1 /\ IsLastWish(Results[i], e)
  BY <1>1, DropInv
<1>3. 1 \in Places /\ Head(ready) = Results[1] /\ hw' = hw /\ asked' = asked
  BY AppliedFacts
<1>4. ASSUME NEW e \in Displays PROVE Outstanding(e)' <=> Outstanding(e)
  <2>1. ~IsLastWish(Results[1], e)
    BY <1>3 DEF IsLastWish
  <2>2. QED BY <1>2, <2>1 DEF Outstanding, Places
<1>5. ShownIsTrue'
  BY <1>1, <1>3, <1>4 DEF ShownIsTrue
<1>6. QED BY <1>2, <1>5

\* The displays have been detected, and nothing else of this enumeration is under way.
LEMMA ApplyDetectionInv ==
  ASSUME IInv, ready # <<>>, Applied, IsDetection(Head(ready)), ApplyDetection(Head(ready))
  PROVE  IInv'
<1> USE DEF IInv
<1>1. /\ UNCHANGED <<generation, detect, writes, refreshes, task, unsignalled, completions,
                     event, drained, wishes, asked, hw>>
      /\ ready' \in Seq(Answers)
      /\ 1 \in Places /\ Head(ready) = Results[1]
      /\ \A i \in Places' : /\ i \in Nat /\ i + 1 \in Places /\ i + 1 > 1
                            /\ Results'[i] = Results[i + 1]
  BY AppliedFacts
<1>2. PICK result \in Answers : result = Head(ready)
  BY <1>1, ResultsType
<1>3. /\ result.type = "detect" /\ result.read \in [Displays -> Levels] /\ Same(result)
      /\ ~IsJob(result)
  BY <1>2, JobFields, OtherFields DEF Answers, IsDetection, Same, IsJob
<1>4. /\ known = {} /\ task = None /\ detect = 0
      /\ \A d \in Displays : hw[d] \in {result.read[d], 0}
  BY <1>1, <1>2, <1>3 DEF Flow, AnswersOK, AnswerOK
<1>5. \A d \in Displays : writes[d] = None /\ refreshes[d] = None
  BY <1>4 DEF QueuesCoherent
<1>6. ASSUME NEW i \in Places'
      PROVE  ~Same(Results[i])' /\ Results'[i].generation <= generation
  <2>1. OrderOK(Results[1], Results[i + 1]) /\ AnswerOK(Results[i + 1])
    BY <1>1 DEF Flow, Ordered, AnswersOK
  <2>2. ~Same(Results[i + 1])
    BY <1>1, <1>2, <1>3, <2>1 DEF OrderOK
  <2>3. QED BY <1>1, <2>1, <2>2 DEF AnswerOK, Same
<1>7. PICK found \in SUBSET Displays :
        /\ known' = found
        /\ level' = [d \in Displays |-> IF d \in found THEN result.read[d] ELSE 0]
        /\ epoch' = Zero /\ failures' = Zero /\ cooling' = {}
  BY <1>2 DEF ApplyDetection
<1>8. TypesHold'
  <2>1. 0 \in Levels /\ 0 \in 0..wishes /\ 0 \in 0..FailureThreshold
    BY BrightnessAssumption DEF TypesHold, Levels
  <2>2. level' \in [Displays -> Levels]
    BY <1>3, <1>7, <2>1
  <2>3. epoch' \in [Displays -> 0..wishes] /\ failures' \in [Displays -> 0..FailureThreshold]
    BY <1>7, <2>1 DEF Zero
  <2>4. QED BY <1>1, <1>7, <2>2, <2>3 DEF TypesHold
<1>9. AnswersOK' /\ Ordered'
  <2>1. AnswersOK'
    BY <1>1, <1>6 DEF AnswersOK, AnswerOK, Same, IsDetection, Newest
  <2>2. Ordered'
    BY <1>6 DEF Ordered, OrderOK, Same
  <2>3. QED BY <2>1, <2>2
<1>10. TaskOK' /\ DrainOK'
  BY <1>1, <1>4 DEF TaskOK, DrainOK
<1>11. QueuesCoherent'
  <2>1. ~Detecting'
    BY <1>1, <1>4, <1>6, OtherFields DEF Detecting, IsDetection, Same, Places
  <2>2. QED BY <1>1, <1>5, <2>1 DEF QueuesCoherent
<1>12. ShownIsTrue'
  <2>1. ASSUME NEW e \in Displays PROVE ~Outstanding(e)'
    BY <1>1, <1>4, <1>5, <1>6, OtherFields DEF Outstanding, IsLastWish, Newest, Same, Places
  <2>2. ASSUME NEW e \in known' PROVE hw'[e] \in {level'[e], 0}
    BY <1>1, <1>4, <1>7
  <2>3. known' \subseteq Displays
    BY <1>7
  <2>4. QED BY <2>1, <2>2, <2>3 DEF ShownIsTrue
<1>13. QED BY <1>8, <1>9, <1>10, <1>11, <1>12 DEF Flow

\* The answer to the last wish, or to a reading since then, settles what is shown.
LEMMA ApplyNewestInv ==
  ASSUME IInv, ready # <<>>, Applied, Newest(Head(ready)), ApplyAnswer(Head(ready))
  PROVE  IInv'
<1> USE DEF IInv
<1>1. PICK result \in Answers : result = Head(ready) /\ result = Results[1] /\ 1 \in Places
  BY AppliedFacts, ResultsType
<1>2. PICK d \in known : d = result.display
  BY <1>1 DEF Flow, AnswersOK, AnswerOK, Newest, Same, IsJob
<1>3. /\ d \in Displays /\ IsJob(result) /\ Newest(result) /\ ~IsDetection(result)
      /\ result.epoch = epoch[d] /\ result.value \in Levels
  BY <1>1, <1>2, JobFields, OtherFields
     DEF TypesHold, Newest, IsJob, IsDetection, Answers
<1>4. /\ writes[d] = None
      /\ result.type = "set" => result.value = asked[d]
      /\ result.ok => hw[d] \in {result.value, 0}
  BY <1>1, <1>2, <1>3 DEF Flow, AnswersOK, AnswerOK
<1>5. \/ /\ result.ok
         /\ level' = [level EXCEPT ![d] = result.value]
         /\ failures' = [failures EXCEPT ![d] = 0]
         /\ cooling' = cooling \ {d}
         /\ UNCHANGED <<known, epoch>>
      \/ /\ failures' = [failures EXCEPT ![d] = IF @ < FailureThreshold THEN @ + 1 ELSE @]
         /\ cooling' = IF failures'[d] = FailureThreshold THEN cooling \union {d} ELSE cooling
         /\ UNCHANGED <<known, level, epoch>>
  BY <1>1, <1>2, <1>3 DEF ApplyAnswer
<1>6. /\ UNCHANGED <<known, epoch>> /\ level' \in [Displays -> Levels]
      /\ failures' \in [Displays -> 0..FailureThreshold] /\ cooling' \subseteq known
      /\ \A e \in Displays : e # d => level'[e] = level[e] /\ failures'[e] = failures[e]
      /\ \/ result.ok /\ level'[d] = result.value
         \/ failures'[d] # 0 /\ level'[d] = level[d]
  <2>1. /\ level \in [Displays -> Levels] /\ failures \in [Displays -> 0..FailureThreshold]
        /\ cooling \subseteq known /\ FailureThreshold \in Nat \ {0}
    BY BrightnessAssumption DEF TypesHold
  <2>2. CASE /\ result.ok
             /\ level' = [level EXCEPT ![d] = result.value]
             /\ failures' = [failures EXCEPT ![d] = 0]
             /\ cooling' = cooling \ {d}
             /\ UNCHANGED <<known, epoch>>
    BY <1>3, <2>1, <2>2
  <2>3. CASE /\ failures' = [failures EXCEPT ![d] = IF @ < FailureThreshold THEN @ + 1 ELSE @]
             /\ cooling' = IF failures'[d] = FailureThreshold THEN cooling \union {d} ELSE cooling
             /\ UNCHANGED <<known, level, epoch>>
    BY <1>3, <2>1, <2>3
  <2>4. QED BY <1>5, <2>2, <2>3
<1>7. /\ TypesHold' /\ QueuesCoherent' /\ Flow' /\ DrainOK'
      /\ \A e \in Displays :
           Outstanding(e)' <=> \/ writes[e] # None \/ IsLastWish(task, e)
                               \/ \E i \in Places : i # 1 /\ IsLastWish(Results[i], e)
  BY <1>1, <1>3, <1>6, DropInv
<1>8. hw' = hw /\ asked' = asked
  BY AppliedFacts
<1>9. ShownIsTrue'
  <2> SUFFICES ASSUME NEW e \in known'
               PROVE  IF Outstanding(e)' THEN level'[e] = asked'[e]
                      ELSE failures'[e] = 0 => hw'[e] \in {level'[e], 0}
    BY DEF ShownIsTrue
  <2>1. e \in known /\ e \in Displays
    BY <1>6 DEF TypesHold
  <2>2. CASE e # d
    <3>1. ~IsLastWish(Results[1], e)
      BY <1>1, <1>2, <2>2 DEF IsLastWish
    <3>2. Outstanding(e)' <=> Outstanding(e)
      BY <1>7, <2>1, <3>1 DEF Outstanding, Places
    <3>3. QED BY <1>6, <1>8, <2>1, <2>2, <3>2 DEF ShownIsTrue
  <2>3. CASE e = d /\ result.ok /\ level'[d] = result.value
    <3>1. Outstanding(d)' => result.type = "set"
      <4>1. ASSUME IsLastWish(task, d) PROVE FALSE
        <5>1. Newest(Results[1]) => Results[1].display # task.display
          BY <1>1, <4>1, OtherFields DEF Flow, TaskOK, IsLastWish
        <5>2. QED BY <1>1, <1>2, <1>3, <4>1, <5>1 DEF IsLastWish
      <4>2. ASSUME NEW i \in Places, i # 1, IsLastWish(Results[i], d) PROVE result.type = "set"
        <5>1. OrderOK(Results[1], Results[i])
          BY <1>1, <4>2 DEF Flow, Ordered, Places
        <5>2. QED BY <1>1, <1>2, <1>3, <4>2, <5>1 DEF OrderOK, IsLastWish, Newest, Same
      <4>3. QED BY <1>3, <1>4, <1>7, <4>1, <4>2
    <3>2. QED BY <1>4, <1>8, <2>3, <3>1
  <2>4. CASE e = d /\ failures'[d] # 0 /\ level'[d] = level[d]
    <3>1. Outstanding(d)' => Outstanding(d)
      BY <1>3, <1>7 DEF Outstanding, Places
    <3>2. QED BY <1>8, <2>1, <2>4, <3>1 DEF ShownIsTrue
  <2>5. QED BY <1>6, <2>2, <2>3, <2>4
<1>10. QED BY <1>7, <1>9

LEMMA ApplyInv == IInv /\ Apply => IInv'
<1> SUFFICES ASSUME IInv, Apply PROVE IInv'
  OBVIOUS
<1> USE DEF IInv
<1>1. ready # <<>> /\ Applied
  BY DEF Apply
<1>2. PICK result \in Answers : result = Head(ready) /\ result = Results[1] /\ 1 \in Places
  BY <1>1, AppliedFacts, ResultsType
<1>3. CASE IsDetection(result)
  BY <1>1, <1>2, <1>3, ApplyDetectionInv DEF Apply, IsDetection
<1>4. CASE Newest(result)
  <2>1. ApplyAnswer(Head(ready))
    BY <1>2, <1>4 DEF Apply, Newest
  <2>2. QED BY <1>1, <1>2, <1>4, <2>1, ApplyNewestInv
<1>5. CASE ~IsDetection(result) /\ ~Newest(result)
  <2>1. UNCHANGED displayVars
    <3>1. CASE result.generation # generation
      BY <1>2, <3>1 DEF Apply
    <3>2. CASE result.generation = generation
      <4>1. result.type \in {"set", "refresh"}
        BY <1>5, <3>2, JobFields, OtherFields DEF Answers, IsDetection
      <4>2. result.epoch # epoch[result.display]
        BY <1>5, <3>2, <4>1 DEF Newest
      <4>3. ApplyAnswer(result)
        BY <1>2, <3>2, <4>1 DEF Apply
      <4>4. QED BY <4>2, <4>3 DEF ApplyAnswer
    <3>3. QED BY <3>1, <3>2
  <2>2. QED BY <1>1, <1>2, <1>5, <2>1, ApplyStaleInv
<1>6. QED BY <1>3, <1>4, <1>5

-----------------------------------------------------------------------------
\* Every step keeps the invariant.
LEMMA NextInv == IInv /\ [Next]_vars => IInv'
<1> SUFFICES ASSUME IInv, [Next]_vars PROVE IInv'
  OBVIOUS
<1>1. CASE Rebuild \/ QueueRefreshes
  BY <1>1, RebuildInv, QueueRefreshesInv
<1>2. CASE \E d \in Displays : Ask(d) \/ CoolDown(d) \/ Buttons(d)
  BY <1>2, AskInv, SmallInv, ButtonsInv
<1>3. CASE WorkerStep
  BY <1>3, TakeDetectInv, TakeWriteInv, TakeRefreshInv, FinishDetectInv, FinishWriteInv,
     FinishRefreshInv, SmallInv DEF WorkerStep
<1>4. CASE LoopStep
  BY <1>4, SmallInv, ApplyInv DEF LoopStep
<1>5. CASE UNCHANGED vars
  <2>1. /\ UNCHANGED <<generation, known, level, epoch, failures, cooling, detect, writes,
                       refreshes, task, unsignalled, completions, event, drained, ready,
                       wishes, asked, hw>>
        /\ Results' = Results
    BY <1>5 DEF vars, displayVars, queueVars, workerVars, loopVars, wishVars, Results
  <2>2. Flow' /\ ShownIsTrue' /\ (Detecting' <=> Detecting)
    BY <2>1, Frame DEF IInv
  <2>3. QueuesCoherent'
    BY <2>1, <2>2, QueuesFrame DEF IInv
  <2>4. TypesHold' /\ DrainOK'
    BY <2>1 DEF IInv, TypesHold, DrainOK
  <2>5. QED BY <2>2, <2>3, <2>4 DEF IInv
<1>6. QED BY <1>1, <1>2, <1>3, <1>4, <1>5 DEF Next

\* The queues of the worker always agree with the displays and the wishes, whichever outputs
\* come and go: no job of an older enumeration waits, and no reading with a write.
THEOREM QueuesAlwaysCoherent == Spec => []TypeOK
<1>1. IInv => TypeOK
  BY DEF IInv, TypeOK
<1>2. QED BY <1>1, InitInv, NextInv, PTL DEF Spec

\* What the shell shows of a monitor is always true, for any number of monitors, wishes,
\* enumerations and results in flight: generations, epochs and the order of the queues are
\* enough to keep what is out of date away from the displays.
THEOREM ShownIsAlwaysTrue == Spec => []ShownIsTrue
<1>1. IInv => ShownIsTrue
  BY DEF IInv
<1>2. QED BY <1>1, InitInv, NextInv, PTL DEF Spec
=============================================================================
