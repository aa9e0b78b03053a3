-------------------------- MODULE Pipeline_proofs --------------------------
(***************************************************************************)
(* Theorems about Pipeline, for any number of workers, any pipeline order, *)
(* steps, uploads and any bounds; and, in the second part, that Pipeline   *)
(* implements Processing.                                                  *)
(***************************************************************************)
EXTENDS Pipeline, TLAPS

-----------------------------------------------------------------------------
(***************************************************************************)
(* The helpers                                                             *)
(***************************************************************************)

\* The step a run is at is a step.
LEMMA HereIsStep ==
  ASSUME TypeOK, NEW w \in Workers, run[w].pos <= Len(Order)
  PROVE  Here(w) \in Steps
  <1>1. run[w].pos \in 1..Len(Order)
    BY OrderAssumption DEF TypeOK, Run
  <1> QED
    BY <1>1, OrderAssumption DEF Here, Steps

\* A session copy, loaded or not, and the row a flush leaves are well formed.
LEMMA FlushType ==
  ASSUME NEW row \in Row, NEW cached \in CachedRow,
         NEW status \in {"READY", "PROCESSING"}, NEW reason \in BOOLEAN
  PROVE  /\ Seen(row, cached) \in Row
         /\ Flush(row, cached, status, reason) \in Row
  BY DEF Row, CachedRow, Expired, Seen, Flush

\* A worker with nothing to do is a typed one.
LEMMA IdleRunType == IdleRun \in Run
  <1>1. (CHOOSE u \in Uploads : TRUE) \in Uploads
    BY UploadsAssumption
  <1>2. 1 \in 1..(Len(Order) + 1)
    BY OrderAssumption
  <1>3. [force |-> FALSE, retries |-> 0] \in Message
    BY BoundsAssumption DEF Message
  <1> QED
    BY <1>1, <1>2, <1>3 DEF IdleRun, Run, CachedRow

\* The reaper touches nothing but job rows and its own list.
LEMMA ReaperFrame ==
  ASSUME ReapStuckJobs
  PROVE  UNCHANGED <<video, match, upload, outbox, queue, run, lost,
                     requests, faults, uploads, redeliveries>>
  BY DEF ReapStuckJobs, ReaperLoads, ReaperWrites, counters

\* ... and of a row nothing but the status, whatever that has become.
LEMMA ReaperJobs ==
  ASSUME TypeOK, ReapStuckJobs
  PROVE  /\ job' \in [Steps -> JobRow]
         /\ reaping' \in [Reapers -> SUBSET Steps]
         /\ \A s \in Steps : /\ job'[s].mark = job[s].mark
                             /\ job'[s].ran = job[s].ran
                             /\ job'[s].status \in {job[s].status, "PENDING"}
  <1>t. job \in [Steps -> JobRow] /\ reaping \in [Reapers -> SUBSET Steps]
    BY DEF TypeOK
  <1>1. ASSUME NEW r \in Reapers, ReaperLoads(r)
        PROVE  job' = job /\ reaping' \in [Reapers -> SUBSET Steps]
    BY <1>1, <1>t DEF ReaperLoads, RunningJobs
  <1>2. ASSUME NEW r \in Reapers, ReaperWrites(r)
        PROVE  /\ job' = [s \in Steps |-> IF s \in reaping[r]
                                         THEN [job[s] EXCEPT !.status = "PENDING"]
                                         ELSE job[s]]
               /\ reaping' \in [Reapers -> SUBSET Steps]
    BY <1>2, <1>t DEF ReaperWrites
  <1>3. \A s \in Steps : LET row == [job[s] EXCEPT !.status = "PENDING"] IN
          /\ row \in JobRow /\ row.mark = job[s].mark /\ row.ran = job[s].ran
          /\ row.status = "PENDING"
    BY <1>t DEF JobRow
  <1> QED
    BY <1>t, <1>1, <1>2, <1>3 DEF ReapStuckJobs

\* A message handed out twice is put into the queue and nothing else changes.
LEMMA RedeliveredFrame ==
  ASSUME NEW w \in Workers, Redelivered(w)
  PROVE  UNCHANGED <<video, match, upload, job, outbox, run, reaping, lost,
                     requests, faults, uploads>>
  BY DEF Redelivered

-----------------------------------------------------------------------------
(***************************************************************************)
(* Type correctness                                                        *)
(***************************************************************************)

\* The initial state is typed.
LEMMA InitType == Init => TypeOK
  <1> SUFFICES ASSUME Init PROVE TypeOK
    OBVIOUS
  <1>1. video \in Row /\ match \in Row
    BY DEF Init, Row
  <1>2. job \in [Steps -> JobRow]
    BY UploadsAssumption DEF Init, JobRow
  <1>3. run \in [Workers -> Run]
    BY IdleRunType DEF Init
  <1>4. /\ outbox \in [BOOLEAN -> Nat] /\ queue \in [Message -> Nat]
        /\ lost \in BOOLEAN /\ reaping \in [Reapers -> SUBSET Steps]
    BY DEF Init
  <1>5. /\ requests \in 0..MaxRequests /\ faults \in 0..MaxFaults
        /\ uploads \in 0..MaxUploads /\ redeliveries \in 0..MaxRedeliveries
    BY BoundsAssumption DEF Init
  <1> QED
    BY <1>1, <1>2, <1>3, <1>4, <1>5 DEF Init, TypeOK

\* What the worker's own step does to its run, the job rows and the two rows.
LEMMA WorkerStepType ==
  ASSUME TypeOK, StepInOrder, NEW w \in Workers, WorkerStep(w)
  PROVE  TypeOK'
  <1> USE DEF TypeOK, counters
  <1>t. /\ run[w] \in Run /\ Len(Order) \in Nat
        /\ run[w].pc \in {"step", "failing"} => run[w].pos <= Len(Order)
        /\ Seen(video, run[w].video) \in Row /\ Seen(match, run[w].match) \in Row
    BY FlushType, OrderAssumption DEF Run, StepInOrder
  <1>p. run[w].pos <= Len(Order) => run[w].pos + 1 \in 1..(Len(Order) + 1)
    BY <1>t DEF Run
  <1>h. run[w].pos <= Len(Order) => Here(w) \in Steps
    BY HereIsStep
  <1>u. Expired \in CachedRow /\ Row \subseteq CachedRow
    BY DEF CachedRow
  <1>r. Refreshed(w) \in Run /\ Refreshed(w).pos = run[w].pos
    BY <1>t, <1>u DEF Refreshed, SeenUpload, Run
  <1>e. ASSUME NEW status \in {"SUCCEEDED", "SKIPPED", "FAILED"}
        PROVE  Ended(w, status) \in [Steps -> JobRow]
    <2>1. \A s \in Steps :
            [job[s] EXCEPT !.status = status, !.ran = status # "FAILED"] \in JobRow
      BY <1>e DEF JobRow
    <2> QED
      BY <2>1 DEF Ended
  <1>1. CASE StepUnavailable(w)
    <2>1. job' \in [Steps -> JobRow]
      <3>1. \A s \in Steps : [job[s] EXCEPT !.status = "PENDING"] \in JobRow
        BY DEF JobRow
      <3> QED
        BY <3>1, <1>1 DEF StepUnavailable
    <2>2. run' \in [Workers -> Run]
      <3>1. [run[w] EXCEPT !.pos = @ + 1] \in Run
        BY <1>1, <1>t, <1>p DEF StepUnavailable, Walking, Run
      <3> QED
        BY <3>1, <1>1 DEF StepUnavailable
    <2> QED
      BY <2>1, <2>2, <1>1 DEF StepUnavailable
  <1>2. CASE StepCached(w)
    <2>1. [Refreshed(w) EXCEPT !.pos = @ + 1] \in Run
      BY <1>2, <1>r, <1>p DEF StepCached, Walking, Run
    <2> QED
      BY <2>1, <1>2 DEF StepCached
  <1>3. CASE MarkRunning(w)
    <2>1. [Refreshed(w) EXCEPT !.pc = "step"] \in Run
      BY <1>r DEF Run
    <2>2. [status |-> "RUNNING", mark |-> SeenUpload(w), ran |-> FALSE] \in JobRow
      BY <1>t DEF JobRow, SeenUpload, Run
    <2> QED
      BY <2>1, <2>2, <1>3 DEF MarkRunning
  <1>4. CASE MarkSucceeded(w)
    <2>1. [run[w] EXCEPT !.pc = "walk", !.pos = @ + 1,
                         !.workdir = @ \cup {Here(w)}] \in Run
      BY <1>4, <1>t, <1>p, <1>h DEF MarkSucceeded, Run
    <2> QED
      BY <2>1, <1>e, <1>4 DEF MarkSucceeded
  <1>5. CASE PersistSucceeded(w)
    <2>1. [run[w] EXCEPT !.pc = "walk", !.pos = @ + 1,
                         !.video = Ready, !.match = Ready] \in Run
      <3>1. Ready \in CachedRow
        BY <1>u DEF Ready, Row
      <3> QED
        BY <3>1, <1>5, <1>t, <1>p DEF PersistSucceeded, Run
    <2>2. /\ Flush(video, run[w].video, "READY", FALSE) \in Row
          /\ Flush(match, run[w].match, "READY", FALSE) \in Row
      BY <1>t, FlushType DEF Run
    <2> QED
      BY <2>1, <2>2, <1>e, <1>5 DEF PersistSucceeded
  <1>6. CASE MarkSkipped(w)
    <2>1. [run[w] EXCEPT !.pc = "walk", !.pos = @ + 1,
                         !.video = Expired, !.match = Expired] \in Run
      BY <1>6, <1>t, <1>p, <1>u DEF MarkSkipped, Run
    <2> QED
      BY <2>1, <1>e, <1>6 DEF MarkSkipped
  <1>7. CASE MarkFailed(w)
    <2>1. [run[w] EXCEPT !.pc = IF FailsMatch(w) THEN "failing" ELSE "walk",
                         !.pos = IF FailsMatch(w) THEN @ ELSE @ + 1,
                         !.video = Expired, !.match = Expired] \in Run
      <3>1. CASE FailsMatch(w)
        BY <3>1, <1>t, <1>u DEF Run
      <3>2. CASE ~FailsMatch(w)
        BY <3>2, <1>7, <1>t, <1>p, <1>u DEF MarkFailed, Run
      <3> QED
        BY <3>1, <3>2
    <2> QED
      BY <2>1, <1>e, <1>7 DEF MarkFailed
  <1>8. CASE FailVideo(w)
    <2>1. [run[w] EXCEPT !.pc = "done"] \in Run
      BY <1>t DEF Run
    <2> QED
      BY <2>1, <1>8 DEF FailVideo, Row
  <1>9. CASE Settle(w)
    <2>1. [run[w] EXCEPT !.pc = "done"] \in Run
      BY <1>t DEF Run
    <2>2. video' \in Row /\ match' \in Row
      <3> DEFINE v == Seen(video, run[w].video)
                 m == Seen(match, run[w].match)
      <3>1. /\ v \in CachedRow /\ v.reason \in BOOLEAN
            /\ m \in CachedRow /\ m.reason \in BOOLEAN
        BY <1>t, <1>u DEF Row
      <3> HIDE DEF v, m
      <3>2. /\ Flush(video, v, "READY", v.reason) \in Row
            /\ Flush(video, v, "PROCESSING", v.reason) \in Row
            /\ Flush(match, m, "READY", m.reason) \in Row
        BY <3>1, FlushType
      <3>3. \/ /\ video' = Flush(video, v, "READY", v.reason)
               /\ match' = Flush(match, m, "READY", m.reason)
            \/ video' = Flush(video, v, "PROCESSING", v.reason) /\ match' = match
        BY <1>9 DEF Settle, v, m
      <3> QED
        BY <3>2, <3>3
    <2> QED
      BY <2>1, <2>2, <1>9 DEF Settle
  <1>10. CASE Acknowledge(w)
    BY <1>10, IdleRunType DEF Acknowledge
  <1> QED
    BY <1>1, <1>2, <1>3, <1>4, <1>5, <1>6, <1>7, <1>8, <1>9, <1>10
    DEF WorkerStep, FinishStep

\* Sending a message, taking one and putting one back keep the queue's type.
LEMMA QueueType ==
  ASSUME TypeOK, NEW m \in Message
  PROVE  /\ [queue EXCEPT ![m] = @ + 1] \in [Message -> Nat]
         /\ queue[m] > 0 => [queue EXCEPT ![m] = @ - 1] \in [Message -> Nat]
  BY DEF TypeOK

\* Every step keeps the types, once the step a worker stands at is in order.
LEMMA NextType == TypeOK /\ StepInOrder /\ [Next]_vars => TypeOK'
  <1> SUFFICES ASSUME TypeOK, StepInOrder, [Next]_vars PROVE TypeOK'
    OBVIOUS
  <1> USE DEF counters
  <1>1. ASSUME NEW force \in BOOLEAN, ProcessMatch(force) PROVE TypeOK'
    <2>1. [status |-> "PROCESSING", reason |-> FALSE] \in Row
      BY DEF Row
    <2>2. requests + 1 \in 0..MaxRequests
      BY <1>1, BoundsAssumption DEF ProcessMatch, TypeOK
    <2>3. outbox' \in [BOOLEAN -> Nat]
      BY <1>1 DEF ProcessMatch, TypeOK
    <2> QED
      BY <2>1, <2>2, <2>3, <1>1 DEF ProcessMatch, TypeOK
  <1>2. ASSUME NEW force \in BOOLEAN, EnqueueProcessing(force) PROVE TypeOK'
    <2>1. [force |-> force, retries |-> 0] \in Message
      BY BoundsAssumption DEF Message
    <2>2. outbox' \in [BOOLEAN -> Nat]
      BY <1>2 DEF EnqueueProcessing, TypeOK
    <2> QED
      BY <2>1, <2>2, <1>2, QueueType DEF EnqueueProcessing, TypeOK
  <1>3. ASSUME NEW force \in BOOLEAN, QueueUnavailable(force) PROVE TypeOK'
    <2>1. faults + 1 \in 0..MaxFaults
      BY <1>3, BoundsAssumption DEF QueueUnavailable, TypeOK
    <2>2. outbox' \in [BOOLEAN -> Nat]
      BY <1>3 DEF QueueUnavailable, TypeOK
    <2> QED
      BY <2>1, <2>2, <1>3 DEF QueueUnavailable, TypeOK
  <1>4. ASSUME NEW u \in Uploads, CompleteUpload(u) \/ CompleteSegment(u)
        PROVE  TypeOK'
    <2>1. uploads + 1 \in 0..MaxUploads
      BY <1>4, BoundsAssumption DEF CompleteUpload, CompleteSegment, MayConfirm, TypeOK
    <2>2. [status |-> "UPLOADED", reason |-> FALSE] \in Row
      BY DEF Row
    <2> QED
      BY <2>1, <2>2, <1>4 DEF CompleteUpload, CompleteSegment, TypeOK
  <1>5. ASSUME NEW w \in Workers, NEW m \in Message, StartRun(w, m) PROVE TypeOK'
    <2>1. Processing(video) \in Row /\ Processing(match) \in Row
      BY DEF TypeOK, Row, Processing
    <2>2. 1 \in 1..(Len(Order) + 1)
      BY OrderAssumption
    <2>3. [pc |-> "walk", msg |-> m, pos |-> 1,
           video |-> Processing(video), match |-> Processing(match),
           upload |-> upload, workdir |-> {}] \in Run
      BY <2>1, <2>2 DEF TypeOK, Run, CachedRow
    <2>4. queue' \in [Message -> Nat]
      BY <1>5, QueueType DEF StartRun
    <2> QED
      BY <2>1, <2>3, <2>4, <1>5 DEF StartRun, TypeOK
  <1>6. ASSUME NEW w \in Workers, WorkerStep(w) PROVE TypeOK'
    BY <1>6, WorkerStepType
  <1>7. ASSUME NEW w \in Workers, WorkerLost(w) PROVE TypeOK'
    <2>1. faults + 1 \in 0..MaxFaults
      BY <1>7, BoundsAssumption DEF WorkerLost, TypeOK
    <2>2. run[w].msg \in Message
      BY DEF TypeOK, Run
    <2> QED
      BY <2>1, <2>2, <1>7, IdleRunType, QueueType DEF WorkerLost, Requeued, TypeOK
  <1>8. ASSUME NEW w \in Workers, AutoRetry(w) PROVE TypeOK'
    <2>1. faults + 1 \in 0..MaxFaults
      BY <1>8, BoundsAssumption DEF AutoRetry, TypeOK
    <2>2. run[w].msg.retries < MaxRetries =>
            [run[w].msg EXCEPT !.retries = @ + 1] \in Message
      <3>1. run[w].msg \in Message
        BY DEF TypeOK, Run
      <3> QED
        BY <3>1, BoundsAssumption DEF Message
    <2>3. queue' \in [Message -> Nat] /\ lost' \in BOOLEAN
      <3>1. CASE run[w].msg.retries < MaxRetries
        BY <3>1, <2>2, <1>8, QueueType DEF AutoRetry, TypeOK
      <3>2. CASE ~(run[w].msg.retries < MaxRetries)
        BY <3>2, <1>8 DEF AutoRetry, TypeOK
      <3> QED
        BY <3>1, <3>2
    <2> QED
      BY <2>1, <2>3, <1>8, IdleRunType DEF AutoRetry, TypeOK
  <1>9. CASE ReapStuckJobs
    BY <1>9, ReaperFrame, ReaperJobs DEF TypeOK
  <1>10. ASSUME NEW w \in Workers, Redelivered(w) PROVE TypeOK'
    <2>1. redeliveries + 1 \in 0..MaxRedeliveries
      BY <1>10, BoundsAssumption DEF Redelivered, TypeOK
    <2>2. run[w].msg \in Message
      BY DEF TypeOK, Run
    <2> QED
      BY <2>1, <2>2, <1>10, QueueType DEF Redelivered, Requeued, TypeOK
  <1>11. CASE UNCHANGED vars
    BY <1>11 DEF vars, TypeOK
  <1> QED
    BY <1>1, <1>2, <1>3, <1>4, <1>5, <1>6, <1>7, <1>8, <1>9, <1>10, <1>11 DEF Next

\* Only MarkRunning enters a step, and it does so at a registered step.
LEMMA NextStepInOrder == TypeOK /\ StepInOrder /\ [Next]_vars => StepInOrder'
  <1> SUFFICES ASSUME TypeOK, StepInOrder, [Next]_vars,
                      NEW v \in Workers, run'[v].pc \in {"step", "failing"}
               PROVE  run'[v].pos <= Len(Order) /\ Here(v)' \in Registered[v]
    BY DEF StepInOrder
  <1>1. CASE run'[v] = run[v]
    BY <1>1 DEF StepInOrder, Here
  <1>2. ASSUME NEW w \in Workers, WorkerStep(w), run'[v] # run[v]
        PROVE  run'[v].pos <= Len(Order) /\ Here(v)' \in Registered[v]
    <2> USE <1>2 DEF TypeOK, Run
    <2>1. CASE MarkRunning(w)
      <3>1. v = w
        BY <2>1 DEF MarkRunning
      <3>2. run'[w].pos = run[w].pos
        BY <2>1 DEF MarkRunning, Refreshed
      <3> QED
        BY <2>1, <3>1, <3>2 DEF MarkRunning, Walking, Here
    <2>2. CASE MarkFailed(w)
      <3>1. v = w /\ run[w].pc = "step"
        BY <2>2 DEF MarkFailed
      <3>2. run'[w].pos = run[w].pos
        BY <2>2, <3>1 DEF MarkFailed
      <3> QED
        BY <3>1, <3>2 DEF StepInOrder, Here
    <2>3. CASE StepUnavailable(w) \/ StepCached(w)
      <3>1. v = w
        BY <2>3 DEF StepUnavailable, StepCached
      <3>2. run'[w].pc = "walk"
        BY <2>3 DEF StepUnavailable, StepCached, Walking, Refreshed
      <3> QED
        BY <3>1, <3>2
    <2>4. CASE MarkSucceeded(w) \/ PersistSucceeded(w) \/ MarkSkipped(w)
      <3>1. v = w /\ run'[w].pc = "walk"
        <4>1. CASE MarkSucceeded(w)
          BY <4>1 DEF MarkSucceeded
        <4>2. CASE PersistSucceeded(w)
          BY <4>2 DEF PersistSucceeded
        <4>3. CASE MarkSkipped(w)
          BY <4>3 DEF MarkSkipped
        <4> QED
          BY <2>4, <4>1, <4>2, <4>3
      <3> QED
        BY <3>1
    <2>5. CASE FailVideo(w) \/ Settle(w) \/ Acknowledge(w)
      <3>1. v = w /\ run'[w].pc \in {"done", "idle"}
        BY <2>5 DEF FailVideo, Settle, Acknowledge, IdleRun
      <3> QED
        BY <3>1
    <2> QED
      BY <1>2, <2>1, <2>2, <2>3, <2>4, <2>5 DEF WorkerStep, FinishStep
  <1>3. ASSUME NEW w \in Workers, WorkerLost(w) \/ AutoRetry(w), run'[v] # run[v]
        PROVE  FALSE
    BY <1>3 DEF TypeOK, WorkerLost, AutoRetry, IdleRun
  <1>4. ASSUME NEW w \in Workers, NEW m \in Message, StartRun(w, m), run'[v] # run[v]
        PROVE  FALSE
    BY <1>4 DEF TypeOK, StartRun
  <1>5. ASSUME run'[v] # run[v]
        PROVE  \E w \in Workers : \/ WorkerStep(w) \/ WorkerLost(w) \/ AutoRetry(w)
                                  \/ \E m \in Message : StartRun(w, m)
    BY <1>5, ReaperFrame, RedeliveredFrame
    DEF Next, vars, ProcessMatch, EnqueueProcessing, QueueUnavailable,
        CompleteUpload, CompleteSegment
  <1> QED
    BY <1>1, <1>2, <1>3, <1>4, <1>5

\* Every reachable state is well typed: in particular a walk never leaves the
\* order, no retry exceeds max_retries and the queue never owes a message.
THEOREM TypeCorrect == Spec => [](TypeOK /\ StepInOrder)
  <1>1. Init => StepInOrder
    BY DEF Init, StepInOrder, IdleRun
  <1>2. TypeOK /\ StepInOrder /\ [Next]_vars => (TypeOK /\ StepInOrder)'
    BY NextType, NextStepInOrder
  <1> QED
    BY InitType, <1>1, <1>2, PTL DEF Spec
-----------------------------------------------------------------------------
(***************************************************************************)
(* Nobody waits for ever on a match: StatusOwned is inductive              *)
(***************************************************************************)

\* A step of one worker leaves the other workers' runs alone.
LEMMA OtherRuns ==
  ASSUME TypeOK, NEW w \in Workers, WorkerStep(w), NEW v \in Workers, v # w
  PROVE  run'[v] = run[v]
  <1> USE DEF TypeOK
  <1>1. CASE StepUnavailable(w) \/ StepCached(w) \/ MarkRunning(w)
    BY <1>1 DEF StepUnavailable, StepCached, MarkRunning
  <1>2. CASE MarkSucceeded(w)
    BY <1>2 DEF MarkSucceeded
  <1>3. CASE PersistSucceeded(w)
    BY <1>3 DEF PersistSucceeded
  <1>4. CASE MarkSkipped(w)
    BY <1>4 DEF MarkSkipped
  <1>5. CASE MarkFailed(w)
    BY <1>5 DEF MarkFailed
  <1>6. CASE FailVideo(w) \/ Settle(w) \/ Acknowledge(w)
    BY <1>6 DEF FailVideo, Settle, Acknowledge
  <1> QED
    BY <1>1, <1>2, <1>3, <1>4, <1>5, <1>6 DEF WorkerStep, FinishStep

\* ... and neither the API's requests nor the broker's messages.
LEMMA WorkerStepFrame ==
  ASSUME NEW w \in Workers, WorkerStep(w)
  PROVE  UNCHANGED <<upload, outbox, queue, reaping, lost, requests, faults, uploads,
                     redeliveries>>
  BY DEF counters, WorkerStep, FinishStep, StepUnavailable, StepCached, MarkRunning,
         MarkSucceeded, PersistSucceeded, MarkSkipped, MarkFailed, FailVideo, Settle,
         Acknowledge

\* The flush of READY makes the row READY unless the copy already was.
LEMMA FlushReady ==
  ASSUME NEW row \in Row, NEW cached \in CachedRow, NEW reason \in BOOLEAN
  PROVE  \/ Flush(row, cached, "READY", reason).status = "READY"
         \/ /\ Flush(row, cached, "READY", reason).status = row.status
            /\ cached.status = "READY"
  BY DEF Flush, Seen, Expired, Row, CachedRow

\* Owners: the live runs that would still write READY to a row.
VideoOwner(w) == Live(w) /\ run[w].video.status # "READY"
MatchOwner(w) == Live(w) /\ run[w].match.status # "READY"

\* A worker's own step keeps each PROCESSING row owned.  It suffices that the
\* worker stays an owner, or that it was none, or that the row is settled.
LEMMA WorkerStepOwned ==
  ASSUME TypeOK, StepInOrder, Servable, NEW w \in Workers, WorkerStep(w)
  PROVE  /\ \/ video'.status # "PROCESSING"
            \/ video' = video /\ (VideoOwner(w) => VideoOwner(w)')
            \/ video'.status = video.status /\ ~VideoOwner(w)
         /\ \/ match'.status # "PROCESSING"
            \/ match' = match /\ (MatchOwner(w) => MatchOwner(w)')
            \/ match'.status = match.status /\ ~MatchOwner(w)
  <1> USE DEF VideoOwner, MatchOwner, Live
  <1>t. /\ run[w] \in Run /\ video \in Row /\ match \in Row
        /\ run[w].video \in CachedRow /\ run[w].match \in CachedRow
        /\ run \in [Workers -> Run]
    BY DEF TypeOK, Run
  <1>e. Expired.status # "READY"
    BY DEF Expired
  <1>1. CASE StepUnavailable(w)
    BY <1>1, <1>t DEF StepUnavailable
  <1>2. CASE StepCached(w) \/ MarkRunning(w)
    <2>1. /\ video' = video /\ match' = match
          /\ run'[w].pc \in {"walk", "step"}
          /\ run'[w].video = Seen(video, run[w].video)
          /\ run'[w].match = run[w].match
      <3>1. CASE StepCached(w)
        BY <3>1, <1>t DEF StepCached, Refreshed, Walking
      <3>2. CASE MarkRunning(w)
        BY <3>2, <1>t DEF MarkRunning, Refreshed
      <3> QED
        BY <1>2, <3>1, <3>2
    <2>2. video.status = "PROCESSING" /\ VideoOwner(w) => run'[w].video.status # "READY"
      BY <2>1 DEF Seen
    <2> QED
      BY <2>1, <2>2, <1>t
  <1>3. CASE MarkSucceeded(w)
    BY <1>3, <1>t DEF MarkSucceeded
  <1>4. CASE PersistSucceeded(w)
    BY <1>4, <1>t, FlushReady DEF PersistSucceeded
  <1>5. CASE MarkSkipped(w)
    BY <1>5, <1>t, <1>e DEF MarkSkipped
  <1>6. CASE MarkFailed(w)
    BY <1>6, <1>t, <1>e DEF MarkFailed
  <1>7. CASE FailVideo(w)
    BY <1>7 DEF FailVideo
  <1>8. CASE Settle(w)
    <2> DEFINE v == Seen(video, run[w].video)
               m == Seen(match, run[w].match)
    <2>1. /\ video' = Flush(video, v, "READY", v.reason)
          /\ match' = Flush(match, m, "READY", m.reason)
      BY <1>8 DEF Settle, Outstanding, Servable
    <2>2. /\ v \in CachedRow /\ v.reason \in BOOLEAN
          /\ m \in CachedRow /\ m.reason \in BOOLEAN
      BY <1>t DEF Seen, Row, CachedRow
    <2>3. /\ v.status = "READY" => video.status = "READY" \/ run[w].video.status = "READY"
          /\ m.status = "READY" => match.status = "READY" \/ run[w].match.status = "READY"
      BY DEF Seen
    <2> HIDE DEF v, m
    <2> QED
      BY <2>1, <2>2, <2>3, <1>t, FlushReady
  <1>9. CASE Acknowledge(w)
    BY <1>9 DEF Acknowledge
  <1> QED
    BY <1>1, <1>2, <1>3, <1>4, <1>5, <1>6, <1>7, <1>8, <1>9 DEF WorkerStep, FinishStep

\* Removing one message of the only kind of work there is must be made up for.
LEMMA NextStatusOwned ==
  TypeOK /\ StepInOrder /\ StatusOwned /\ [Next]_vars => StatusOwned'
  <1> SUFFICES ASSUME TypeOK, StepInOrder, StatusOwned, [Next]_vars, Servable
               PROVE  StatusOwned'
    BY DEF StatusOwned, Servable
  <1> USE DEF counters
  <1>s. /\ video.status = "PROCESSING" => Pending \/ \E w \in Workers : VideoOwner(w)
        /\ match.status = "PROCESSING" => Pending \/ \E w \in Workers : MatchOwner(w)
    BY DEF StatusOwned, VideoOwner, MatchOwner
  <1>g. SUFFICES
          /\ video'.status = "PROCESSING" => Pending' \/ \E w \in Workers : VideoOwner(w)'
          /\ match'.status = "PROCESSING" => Pending' \/ \E w \in Workers : MatchOwner(w)'
    BY DEF StatusOwned, VideoOwner, MatchOwner
  <1>1. ASSUME NEW force \in BOOLEAN, ProcessMatch(force) PROVE Pending'
    <2>1. outbox'[force] > 0
      BY <1>1 DEF ProcessMatch, TypeOK
    <2> QED
      BY <2>1 DEF Pending
  <1>2. ASSUME NEW force \in BOOLEAN, EnqueueProcessing(force) PROVE Pending'
    <2> DEFINE m == [force |-> force, retries |-> 0]
    <2>1. m \in Message
      BY BoundsAssumption DEF Message
    <2>2. queue'[m] = queue[m] + 1 /\ queue[m] \in Nat
      BY <1>2, <2>1 DEF EnqueueProcessing, TypeOK
    <2>3. queue'[m] > 0
      BY <2>2
    <2> QED
      BY <2>1, <2>3 DEF Pending
  <1>3. ASSUME NEW force \in BOOLEAN, QueueUnavailable(force) PROVE Pending'
    BY <1>3 DEF QueueUnavailable, Pending
  <1>4. ASSUME NEW u \in Uploads, CompleteUpload(u) \/ CompleteSegment(u)
        PROVE  /\ video'.status = "PROCESSING" => video' = video
               /\ UNCHANGED <<match, outbox, queue, run, lost>>
    BY <1>4 DEF CompleteUpload, CompleteSegment
  <1>5. ASSUME NEW w \in Workers, NEW m \in Message, StartRun(w, m)
        PROVE  VideoOwner(w)' /\ MatchOwner(w)'
    BY <1>5 DEF StartRun, VideoOwner, MatchOwner, Live, Processing, TypeOK, Row
  <1>6. ASSUME NEW w \in Workers, WorkerStep(w)
        PROVE  /\ video'.status = "PROCESSING" =>
                    Pending' \/ \E v \in Workers : VideoOwner(v)'
               /\ match'.status = "PROCESSING" =>
                    Pending' \/ \E v \in Workers : MatchOwner(v)'
    <2>1. UNCHANGED <<outbox, queue, lost>>
      BY <1>6, WorkerStepFrame
    <2>2. \A v \in Workers \ {w} : run'[v] = run[v]
      BY <1>6, OtherRuns
    <2>3. \A v \in Workers \ {w} : /\ VideoOwner(v)' <=> VideoOwner(v)
                                   /\ MatchOwner(v)' <=> MatchOwner(v)
      BY <2>2 DEF VideoOwner, MatchOwner, Live
    <2>4. Pending' <=> Pending
      BY <2>1 DEF Pending
    <2>5. /\ \/ video'.status # "PROCESSING"
             \/ video' = video /\ (VideoOwner(w) => VideoOwner(w)')
             \/ video'.status = video.status /\ ~VideoOwner(w)
          /\ \/ match'.status # "PROCESSING"
             \/ match' = match /\ (MatchOwner(w) => MatchOwner(w)')
             \/ match'.status = match.status /\ ~MatchOwner(w)
      BY <1>6, WorkerStepOwned
    <2> HIDE DEF VideoOwner, MatchOwner
    <2> QED
      BY <1>s, <2>3, <2>4, <2>5, <1>6
  <1>7. ASSUME NEW w \in Workers, WorkerLost(w) \/ Redelivered(w) PROVE Pending'
    <2>1. run[w].msg \in Message
      BY DEF TypeOK, Run
    <2>2. queue'[run[w].msg] = queue[run[w].msg] + 1 /\ queue[run[w].msg] \in Nat
      BY <1>7, <2>1 DEF WorkerLost, Redelivered, Requeued, TypeOK
    <2>3. queue'[run[w].msg] > 0
      BY <2>2
    <2> QED
      BY <2>1, <2>3 DEF Pending
  <1>8. ASSUME NEW w \in Workers, AutoRetry(w) PROVE Pending'
    <2> DEFINE m == [run[w].msg EXCEPT !.retries = @ + 1]
    <2>0. run[w].msg \in Message
      BY DEF TypeOK, Run
    <2>1. CASE lost'
      BY <2>1 DEF Pending
    <2>2. CASE ~lost'
      <3>1. run[w].msg.retries < MaxRetries /\ queue' = [queue EXCEPT ![m] = @ + 1]
        BY <2>2, <1>8 DEF AutoRetry
      <3>2. m \in Message
        BY <3>1, <2>0, BoundsAssumption DEF Message
      <3>3. queue'[m] = queue[m] + 1 /\ queue[m] \in Nat
        BY <3>1, <3>2 DEF TypeOK
      <3>4. queue'[m] > 0
        BY <3>3
      <3> QED
        BY <3>2, <3>4 DEF Pending
    <2> QED
      BY <2>1, <2>2
  <1>9. ASSUME ReapStuckJobs \/ UNCHANGED vars
        PROVE  UNCHANGED <<video, match, outbox, queue, run, lost>>
    BY <1>9, ReaperFrame DEF vars
  <1>10. ASSUME UNCHANGED <<match, outbox, queue, run, lost>>,
                video'.status = "PROCESSING" => video' = video
         PROVE  /\ video'.status = "PROCESSING" =>
                     Pending' \/ \E w \in Workers : VideoOwner(w)'
                /\ match'.status = "PROCESSING" =>
                     Pending' \/ \E w \in Workers : MatchOwner(w)'
    BY <1>s, <1>10 DEF Pending, VideoOwner, MatchOwner, Live
  <1> HIDE DEF VideoOwner, MatchOwner
  <1>11. CASE \E w \in Workers : WorkerStep(w)
    BY <1>6, <1>11
  <1>12. CASE (\E u \in Uploads : CompleteUpload(u) \/ CompleteSegment(u))
              \/ ReapStuckJobs \/ UNCHANGED vars
    BY <1>4, <1>9, <1>10, <1>12
  <1> QED
    BY <1>1, <1>2, <1>3, <1>5, <1>7, <1>8, <1>11, <1>12 DEF Next

\* A match is never left PROCESSING with nobody to finish it, for any number
\* of workers, overlapping runs, crashes and retries.
THEOREM NeverAbandoned == Spec => []ProcessingIsOwned
  <1>1. Init => StatusOwned
    BY DEF Init, StatusOwned
  <1>2. StatusOwned => ProcessingIsOwned
    BY DEF StatusOwned, ProcessingIsOwned, Owned
  <1> QED
    BY <1>1, <1>2, TypeCorrect, NextStatusOwned, PTL DEF Spec
-----------------------------------------------------------------------------
(***************************************************************************)
(* A RUNNING job is being run                                              *)
(***************************************************************************)

InStep(w, s) == run[w].pc = "step" /\ Here(w) = s

\* A worker's own step either leaves a step with a final mark on its job, or
\* enters one, or does neither.
LEMMA WorkerStepJobs ==
  ASSUME TypeOK, StepInOrder, NEW w \in Workers, WorkerStep(w),
         NEW s \in Steps, job'[s].status = "RUNNING"
  PROVE  \/ InStep(w, s)'
         \/ /\ job[s].status = "RUNNING"
            /\ ~InStep(w, s)
  <1> USE DEF InStep
  <1>t. run \in [Workers -> Run] /\ job \in [Steps -> JobRow]
    BY DEF TypeOK
  <1>1. CASE StepUnavailable(w)
    BY <1>1, <1>t DEF StepUnavailable, Walking, JobRow
  <1>2. CASE MarkRunning(w)
    <2>1. run'[w].pc = "step" /\ Here(w)' = Here(w)
      BY <1>2, <1>t DEF MarkRunning, Refreshed, Here, Run
    <2> QED
      BY <2>1, <1>2, <1>t DEF MarkRunning, Walking
  <1>3. ASSUME NEW status \in {"SUCCEEDED", "SKIPPED", "FAILED"}, job' = Ended(w, status)
        PROVE  job[s].status = "RUNNING" /\ s # Here(w)
    BY <1>3, <1>t DEF Ended, JobRow
  <1>4. CASE FinishStep(w)
    BY <1>3, <1>4 DEF FinishStep, MarkSucceeded, PersistSucceeded, MarkSkipped, MarkFailed
  <1>5. CASE StepCached(w) \/ FailVideo(w) \/ Settle(w) \/ Acknowledge(w)
    BY <1>5, <1>t DEF StepCached, Walking, FailVideo, Settle, Acknowledge
  <1> QED
    BY <1>1, <1>2, <1>4, <1>5 DEF WorkerStep

\* Without faults no job says RUNNING that no live run is executing, although
\* overlapping runs share the job rows and the reaper may reset any of them.
THEOREM NoPhantomRunning == Spec => []RunningIsOwned
  <1>1. Init => RunningIsOwned
    BY DEF Init, RunningIsOwned, RunningJobs
  <1>2. TypeOK /\ StepInOrder /\ RunningIsOwned /\ [Next]_vars => RunningIsOwned'
    <2> SUFFICES ASSUME TypeOK, StepInOrder, RunningIsOwned, [Next]_vars,
                        faults' = 0, NEW s \in Steps, job'[s].status = "RUNNING"
                 PROVE  \E w \in Workers : InStep(w, s)'
      BY DEF RunningIsOwned, RunningJobs, InStep
    <2> USE DEF counters
    <2>f. faults = 0 /\ faults \in Nat
      <3>1. faults \in Nat
        BY DEF TypeOK
      <3>2. faults' = faults \/ faults' = faults + 1
        <4>1. ASSUME NEW w \in Workers, WorkerStep(w) PROVE faults' = faults
          BY <4>1, WorkerStepFrame
        <4> QED
          BY <4>1, ReaperFrame DEF Next, vars, ProcessMatch, EnqueueProcessing, QueueUnavailable,
                      CompleteUpload, CompleteSegment, StartRun, WorkerLost, AutoRetry,
                      Redelivered
      <3> QED
        BY <3>1, <3>2
    <2>r. job[s].status = "RUNNING" => \E w \in Workers : InStep(w, s)
      BY <2>f DEF RunningIsOwned, RunningJobs, InStep
    <2>1. ASSUME NEW w \in Workers, WorkerStep(w) PROVE \E v \in Workers : InStep(v, s)'
      <3>1. \A v \in Workers \ {w} : InStep(v, s)' <=> InStep(v, s)
        BY <2>1, OtherRuns DEF InStep, Here
      <3>2. \/ InStep(w, s)'
            \/ job[s].status = "RUNNING" /\ ~InStep(w, s)
        BY <2>1, WorkerStepJobs
      <3> QED
        BY <3>1, <3>2, <2>r
    <2>2. ASSUME NEW w \in Workers, NEW m \in Message, StartRun(w, m)
          PROVE  \E v \in Workers : InStep(v, s)'
      <3>1. job[s].status = "RUNNING" /\ ~InStep(w, s)
        BY <2>2 DEF StartRun, InStep
      <3>2. \A v \in Workers \ {w} : run'[v] = run[v]
        BY <2>2 DEF StartRun, TypeOK
      <3> QED
        BY <3>1, <3>2, <2>r DEF InStep, Here
    <2>3. ASSUME NEW w \in Workers, WorkerLost(w) \/ AutoRetry(w) PROVE FALSE
      BY <2>3, <2>f DEF WorkerLost, AutoRetry
    <2>4. CASE ReapStuckJobs
      BY <2>4, <2>r, ReaperFrame, ReaperJobs DEF InStep, Here
    <2>5. ASSUME UNCHANGED <<job, run>> PROVE \E v \in Workers : InStep(v, s)'
      BY <2>5, <2>r DEF InStep, Here
    <2>6. CASE \/ \E force \in BOOLEAN : \/ ProcessMatch(force) \/ EnqueueProcessing(force)
                                         \/ QueueUnavailable(force)
               \/ \E u \in Uploads : CompleteUpload(u) \/ CompleteSegment(u)
               \/ \E w \in Workers : Redelivered(w)
               \/ UNCHANGED vars
      BY <2>5, <2>6, RedeliveredFrame DEF ProcessMatch, EnqueueProcessing, QueueUnavailable,
                        CompleteUpload, CompleteSegment, vars
    <2> HIDE DEF InStep
    <2> QED
      BY <2>1, <2>2, <2>3, <2>4, <2>6 DEF Next
  <1> QED
    BY <1>1, <1>2, TypeCorrect, PTL DEF Spec
-----------------------------------------------------------------------------
(***************************************************************************)
(* READY means done, as long as runs do not overlap                        *)
(***************************************************************************)

\* No two runs of the video are under way at once.
Alone == \A v, w \in Workers : Live(v) /\ Live(w) => v = w

\* Every image that registers PERSIST registers every required step.
PersistsLast(w) == PERSIST \in Registered[w] => Required \subseteq Registered[w]

AllRan == \A s \in Required : Ran(s)

\* A job's record of having run is only ever overwritten by MarkRunning or by
\* a failure, at the step the worker is at.
LEMMA RanStable ==
  ASSUME TypeOK, StepInOrder, NEW w \in Workers, WorkerStep(w),
         NEW s \in Steps, Ran(s),
         s = Here(w) => /\ ~MarkRunning(w)
                        /\ ~MarkFailed(w)
  PROVE  Ran(s)'
  <1> USE DEF Ran
  <1>t. job \in [Steps -> JobRow]
    BY DEF TypeOK
  <1>1. CASE StepUnavailable(w)
    BY <1>1, <1>t DEF StepUnavailable, JobRow
  <1>2. CASE MarkRunning(w)
    BY <1>2, <1>t DEF MarkRunning
  <1>3. CASE MarkSucceeded(w) \/ PersistSucceeded(w) \/ MarkSkipped(w)
    <2>1. PICK status \in {"SUCCEEDED", "SKIPPED"} : job' = Ended(w, status)
      BY <1>3 DEF MarkSucceeded, PersistSucceeded, MarkSkipped
    <2> QED
      BY <2>1, <1>t DEF Ended, JobRow
  <1>5. CASE MarkFailed(w)
    BY <1>5, <1>t DEF MarkFailed, Ended
  <1>4. CASE StepCached(w) \/ FailVideo(w) \/ Settle(w) \/ Acknowledge(w)
    BY <1>4 DEF StepCached, FailVideo, Settle, Acknowledge
  <1> QED
    BY <1>1, <1>2, <1>3, <1>4, <1>5 DEF WorkerStep, FinishStep

\* The steps behind a run stay done while it works on the step it is at.
LEMMA BehindStable ==
  ASSUME TypeOK, StepInOrder, NEW w \in Workers, WorkerStep(w), RanSoFar(w), Live(w),
         NEW i \in DOMAIN Order, i < run[w].pos,
         Order[i] \in Required \cap Registered[w]
  PROVE  Ran(Order[i])'
  <1>1. Ran(Order[i]) /\ Order[i] \in Steps
    BY DEF RanSoFar, Steps
  <1>2. MarkRunning(w) \/ MarkFailed(w) => Order[i] # Here(w)
    <2>1. MarkRunning(w) \/ MarkFailed(w) => run[w].pos <= Len(Order)
      BY DEF MarkRunning, MarkFailed, Walking, StepInOrder
    <2>2. run[w].pos \in Nat /\ run[w].pos >= 1 /\ Len(Order) \in Nat
      BY OrderAssumption DEF TypeOK, Run
    <2>3. run[w].pos <= Len(Order) => run[w].pos \in DOMAIN Order
      BY <2>2, OrderAssumption
    <2>4. i \in Nat
      BY OrderAssumption
    <2> QED
      BY <2>1, <2>2, <2>3, <2>4, OrderAssumption DEF Here
  <1> QED
    BY <1>1, <1>2, RanStable

\* A step of the worker at work keeps the steps behind it done and the rows
\* unfinished until it is past the last one.
LEMMA WorkerStepReady ==
  ASSUME TypeOK, StepInOrder, NEW w \in Workers, WorkerStep(w), PersistsLast(w),
         ReadyMeansRan, RanSoFar(w)
  PROVE  ReadyMeansRan' /\ RanSoFar(w)'
  <1> DEFINE InOrder(n) == \A i \in DOMAIN Order :
               i < n /\ Order[i] \in Required \cap Registered[w] => Ran(Order[i])'
             HereRan == job'[Here(w)].ran
  <1>t. /\ run[w].pos \in Nat /\ run[w].pos >= 1 /\ Len(Order) \in Nat
        /\ run \in [Workers -> Run] /\ job \in [Steps -> JobRow]
        /\ DOMAIN Order = 1..Len(Order)
    BY OrderAssumption DEF TypeOK, Run
  <1>b. Live(w) => InOrder(run[w].pos)
    BY BehindStable
  <1>n. ASSUME Live(w), run[w].pos <= Len(Order),
               Here(w) \in Required \cap Registered[w] => HereRan
        PROVE  InOrder(run[w].pos + 1)
    <2> SUFFICES ASSUME NEW i \in DOMAIN Order, i < run[w].pos + 1,
                        Order[i] \in Required \cap Registered[w]
                 PROVE  Ran(Order[i])'
      OBVIOUS
    <2>1. CASE i = run[w].pos
      BY <2>1, <1>n DEF Here, Ran
    <2>2. CASE i < run[w].pos
      BY <2>2, <1>n, <1>b
    <2> QED
      BY <2>1, <2>2, <1>t
  <1>a. ASSUME InOrder(Len(Order) + 1), Required \subseteq Registered[w] PROVE AllRan'
    <2> SUFFICES ASSUME NEW s \in Required PROVE Ran(s)'
      BY DEF AllRan
    <2>1. PICK i \in DOMAIN Order : s = Order[i]
      BY StepSetsAssumption DEF Steps
    <2> QED
      BY <2>1, <1>a, <1>t
  <1> HIDE DEF InOrder, HereRan
  <1>q. ASSUME UNCHANGED <<video, match>>, Live(w), run[w].pos <= Len(Order),
               run'[w].pos \in {run[w].pos, run[w].pos + 1}, InOrder(run'[w].pos)
        PROVE  ReadyMeansRan' /\ RanSoFar(w)'
    BY <1>q DEF RanSoFar, ReadyMeansRan, InOrder
  <1>1. CASE StepUnavailable(w)
    <2>1. /\ UNCHANGED <<video, match>> /\ Live(w) /\ run[w].pos <= Len(Order)
          /\ run'[w].pos = run[w].pos + 1 /\ Here(w) \notin Registered[w]
      BY <1>1, <1>t DEF StepUnavailable, Walking, Live, Run
    <2> QED
      BY <2>1, <1>n, <1>q
  <1>2. CASE StepCached(w)
    <2>1. /\ UNCHANGED <<video, match>> /\ Live(w) /\ run[w].pos <= Len(Order)
          /\ run'[w].pos = run[w].pos + 1
      BY <1>2, <1>t DEF StepCached, Walking, Live, Run, Refreshed
    <2>2. HereRan
      BY <1>2, <2>1, <1>t, HereIsStep DEF HereRan, StepCached, ShouldSkip, JobRow
    <2> QED
      BY <2>1, <2>2, <1>n, <1>q
  <1>3. CASE MarkRunning(w)
    <2>1. /\ UNCHANGED <<video, match>> /\ Live(w) /\ run[w].pos <= Len(Order)
          /\ run'[w].pos = run[w].pos
      BY <1>3, <1>t DEF MarkRunning, Walking, Live, Run, Refreshed
    <2> QED
      BY <2>1, <1>b, <1>q
  <1>4. CASE MarkSucceeded(w) \/ MarkSkipped(w)
    <2>1. /\ UNCHANGED <<video, match>> /\ Live(w)
          /\ job' = Ended(w, "SUCCEEDED") \/ job' = Ended(w, "SKIPPED")
      BY <1>4 DEF MarkSucceeded, MarkSkipped, Live
    <2>2. run'[w].pos = run[w].pos + 1
      <3>1. CASE MarkSucceeded(w)
        BY <3>1, <1>t DEF MarkSucceeded, Run
      <3>2. CASE MarkSkipped(w)
        BY <3>2, <1>t DEF MarkSkipped, Run
      <3> QED
        BY <1>4, <3>1, <3>2
    <2>3. run[w].pos <= Len(Order)
      BY <1>4 DEF MarkSucceeded, MarkSkipped, StepInOrder
    <2>4. HereRan
      BY <2>1, <2>3, <1>t, HereIsStep DEF HereRan, Ended, JobRow
    <2> QED
      BY <2>1, <2>2, <2>3, <2>4, <1>n, <1>q
  <1>5. CASE PersistSucceeded(w)
    <2>1. /\ Live(w) /\ run[w].pos <= Len(Order) /\ Here(w) \in Registered[w]
          /\ Here(w) = PERSIST
      BY <1>5 DEF PersistSucceeded, Live, StepInOrder
    <2>2. run[w].pos = Len(Order)
      BY <2>1, <1>t, OrderAssumption DEF PERSIST, Here
    <2>3. HereRan
      BY <2>1, <1>5, <1>t, HereIsStep DEF HereRan, PersistSucceeded, Ended, JobRow
    <2>4. InOrder(Len(Order) + 1)
      BY <2>1, <2>2, <2>3, <1>n
    <2>5. AllRan'
      BY <2>1, <2>4, <1>a DEF PersistsLast
    <2>6. run'[w].pos = Len(Order) + 1
      BY <1>5, <2>2, <1>t DEF PersistSucceeded, Run
    <2>7. ~(run'[w].pos <= Len(Order))
      BY <2>6, <1>t
    <2> QED
      BY <2>4, <2>5, <2>6, <2>7 DEF ReadyMeansRan, RanSoFar, AllRan, InOrder
  <1>6. CASE MarkFailed(w)
    <2>1. /\ UNCHANGED <<video, match>> /\ Live(w) /\ run[w].pos <= Len(Order)
      BY <1>6 DEF MarkFailed, Live, StepInOrder
    <2>2. CASE FailsMatch(w)
      <3>1. run'[w].pos = run[w].pos
        BY <2>2, <1>6, <1>t DEF MarkFailed, Run
      <3> QED
        BY <2>1, <3>1, <1>b, <1>q
    <2>3. CASE ~FailsMatch(w)
      <3>1. run'[w].pos = run[w].pos + 1
        BY <2>3, <1>6, <1>t DEF MarkFailed, Run
      <3> QED
        BY <2>1, <2>3, <3>1, <1>n, <1>q DEF FailsMatch
    <2> QED
      BY <2>2, <2>3
  <1>7. CASE FailVideo(w)
    BY <1>7, <1>t DEF FailVideo, ReadyMeansRan, RanSoFar, Live, Run
  <1>8. CASE Settle(w)
    <2>1. /\ Live(w) /\ run[w].pos = Len(Order) + 1 /\ job' = job /\ ~Live(w)'
      BY <1>8, <1>t DEF Settle, Live, Run, TypeOK
    <2>2. CASE Outstanding(w) = {}
      <3>1. AllRan'
        BY <2>1, <2>2, <1>a, <1>b DEF Outstanding
      <3> QED
        BY <3>1, <2>1 DEF AllRan, ReadyMeansRan, RanSoFar
    <2>3. CASE Outstanding(w) # {}
      <3>1. "READY" \in {video'.status, match'.status} =>
              "READY" \in {video.status, match.status}
        BY <1>8, <2>3 DEF Settle, Flush
      <3> QED
        BY <3>1, <2>1 DEF ReadyMeansRan, RanSoFar, Ran
    <2> QED
      BY <2>2, <2>3
  <1>9. CASE Acknowledge(w)
    BY <1>9, <1>t DEF Acknowledge, ReadyMeansRan, RanSoFar, Live, IdleRun, Ran
  <1> QED
    BY <1>1, <1>2, <1>3, <1>4, <1>5, <1>6, <1>7, <1>8, <1>9 DEF WorkerStep, FinishStep

\* What another worker does while this one has no run leaves this one's alone.
LEMMA OtherIsQuiet ==
  ASSUME TypeOK, Alone, NEW v \in Workers, WorkerStep(v), NEW w \in Workers, w # v, Live(w)
  PROVE  UNCHANGED <<video, match, upload, job>> /\ run'[w] = run[w]
  <1>1. ~Live(v)
    BY DEF Alone
  <1>2. Acknowledge(v)
    BY <1>1 DEF Live, Walking, WorkerStep, FinishStep, StepUnavailable, StepCached, MarkRunning,
       MarkSucceeded, PersistSucceeded, MarkSkipped, MarkFailed, FailVideo, Settle
  <1> QED
    BY <1>2, OtherRuns DEF Acknowledge

LEMMA NextReady ==
  ASSUME \A w \in Workers : PersistsLast(w), TypeOK, StepInOrder, Alone, Alone', ReadyMeansRan,
         \A w \in Workers : RanSoFar(w), [Next]_vars
  PROVE  ReadyMeansRan' /\ \A w \in Workers : RanSoFar(w)'
  <1> USE DEF counters
  <1>1. ASSUME NEW force \in BOOLEAN, ProcessMatch(force)
        PROVE  ReadyMeansRan' /\ \A w \in Workers : RanSoFar(w)'
    BY <1>1 DEF ProcessMatch, ReadyMeansRan, RanSoFar, Live, Ran
  <1>2. ASSUME NEW u \in Uploads, CompleteUpload(u)
        PROVE  ReadyMeansRan' /\ \A w \in Workers : RanSoFar(w)'
    BY <1>2 DEF CompleteUpload, ReadyMeansRan, RanSoFar, Live, Ran
  <1>3. ASSUME NEW v \in Workers, NEW m \in Message, StartRun(v, m)
        PROVE  ReadyMeansRan' /\ \A w \in Workers : RanSoFar(w)'
    <2>1. /\ run'[v].pos = 1 /\ run'[v].pc = "walk"
          /\ video'.status = "PROCESSING" /\ match'.status = "PROCESSING"
      BY <1>3 DEF StartRun, Processing, TypeOK, Row
    <2>2. \A i \in DOMAIN Order : ~(i < 1)
      BY OrderAssumption
    <2>3. \A w \in Workers : Live(w)' => w = v
      BY <2>1 DEF Alone, Live
    <2> QED
      BY <2>1, <2>2, <2>3 DEF ReadyMeansRan, RanSoFar
  <1>4. ASSUME NEW v \in Workers, WorkerStep(v)
        PROVE  ReadyMeansRan' /\ \A w \in Workers : RanSoFar(w)'
    <2>1. ReadyMeansRan' /\ RanSoFar(v)'
      BY <1>4, WorkerStepReady
    <2>2. ASSUME NEW w \in Workers, w # v PROVE RanSoFar(w)'
      <3>1. run'[w] = run[w]
        BY <1>4, <2>2, OtherRuns
      <3>2. CASE Live(w)
        <4>1. UNCHANGED <<video, match, job>>
          BY <1>4, <2>2, <3>2, OtherIsQuiet
        <4> QED
          BY <3>1, <3>2, <4>1 DEF RanSoFar, Live, Ran
      <3> QED
        BY <3>1, <3>2 DEF RanSoFar, Live
    <2> QED
      BY <2>1, <2>2
  <1>5. ASSUME NEW v \in Workers, WorkerLost(v) \/ AutoRetry(v)
        PROVE  ReadyMeansRan' /\ \A w \in Workers : RanSoFar(w)'
    BY <1>5 DEF WorkerLost, AutoRetry, TypeOK, ReadyMeansRan, RanSoFar, Live, IdleRun, Ran
  <1>6. CASE ReapStuckJobs
    <2>1. \A s \in Steps : Ran(s)' <=> Ran(s)
      BY <1>6, ReaperJobs DEF Ran
    <2>2. UNCHANGED <<video, match, run>>
      BY <1>6, ReaperFrame
    <2> QED
      BY <2>1, <2>2, StepSetsAssumption DEF ReadyMeansRan, RanSoFar, Live, Steps
  <1>7. ASSUME UNCHANGED <<video, match, job, run>>
        PROVE  ReadyMeansRan' /\ \A w \in Workers : RanSoFar(w)'
    BY <1>7 DEF ReadyMeansRan, RanSoFar, Live, Ran
  <1>8. CASE \/ \E force \in BOOLEAN : EnqueueProcessing(force) \/ QueueUnavailable(force)
             \/ \E u \in Uploads : CompleteSegment(u)
             \/ \E w \in Workers : Redelivered(w)
             \/ UNCHANGED vars
    BY <1>7, <1>8, RedeliveredFrame DEF EnqueueProcessing, QueueUnavailable, CompleteSegment, vars
  <1> QED
    BY <1>1, <1>2, <1>3, <1>4, <1>5, <1>6, <1>8 DEF Next

\* Only runs that overlap can leave a READY match or video with a required step
\* that has not run: as long as they never do, crashes, retries, redelivery, forced
\* and cached runs, timely and late reaper resets, new uploads and a division of
\* the steps over several images do not (_settle, runner.py).
THEOREM OnlyOverlapsSpoilReady ==
  ASSUME \A w \in Workers : PersistsLast(w)
  PROVE  Spec /\ []Alone => []ReadyMeansRan
  <1>1. Init => ReadyMeansRan /\ \A w \in Workers : RanSoFar(w)
    BY DEF Init, ReadyMeansRan, RanSoFar, Live, IdleRun
  <1>2. TypeOK /\ StepInOrder /\ Alone /\ Alone' /\ ReadyMeansRan
          /\ (\A w \in Workers : RanSoFar(w)) /\ [Next]_vars
          => ReadyMeansRan' /\ (\A w \in Workers : RanSoFar(w))'
    BY NextReady
  <1> QED
    BY <1>1, <1>2, TypeCorrect, PTL DEF Spec

\* A reset that finds each job it loaded still RUNNING, which no lock ensures.
FreshReset ==
  \A r \in Reapers : ReaperWrites(r) => \A s \in reaping[r] : job[s].status = "RUNNING"

\* A step that has run has a row that says so.
RowsSayRan == \A s \in Steps : job[s].ran => job[s].status \in {"SUCCEEDED", "SKIPPED"}

\* Only the reaper's late writes part the rows from what has run.
LEMMA NextRowsSayRan ==
  ASSUME TypeOK, StepInOrder, RowsSayRan, [Next /\ FreshReset]_vars
  PROVE  RowsSayRan'
  <1> SUFFICES ASSUME NEW s \in Steps, job'[s].ran
               PROVE  job'[s].status \in {"SUCCEEDED", "SKIPPED"}
    BY DEF RowsSayRan
  <1> USE DEF counters
  <1>t. job \in [Steps -> JobRow] /\ (job[s].ran => job[s].status \in {"SUCCEEDED", "SKIPPED"})
    BY DEF TypeOK, RowsSayRan
  <1>1. ASSUME NEW w \in Workers, WorkerStep(w)
        PROVE  job'[s].status \in {"SUCCEEDED", "SKIPPED"}
    <2>1. CASE StepUnavailable(w)
      BY <2>1, <1>t DEF StepUnavailable, JobRow
    <2>2. CASE MarkRunning(w)
      BY <2>2, <1>t DEF MarkRunning
    <2>3. CASE FinishStep(w)
      <3>1. PICK status \in {"SUCCEEDED", "SKIPPED", "FAILED"} : job' = Ended(w, status)
        BY <2>3 DEF FinishStep, MarkSucceeded, PersistSucceeded, MarkSkipped, MarkFailed
      <3> QED
        BY <3>1, <1>t DEF Ended, JobRow
    <2>4. CASE StepCached(w) \/ FailVideo(w) \/ Settle(w) \/ Acknowledge(w)
      BY <2>4, <1>t DEF StepCached, FailVideo, Settle, Acknowledge
    <2> QED
      BY <1>1, <2>1, <2>2, <2>3, <2>4 DEF WorkerStep
  <1>2. CASE ReapStuckJobs /\ FreshReset
    <2>1. ASSUME NEW r \in Reapers, ReaperLoads(r)
          PROVE  job'[s].status \in {"SUCCEEDED", "SKIPPED"}
      BY <2>1, <1>t DEF ReaperLoads
    <2>2. ASSUME NEW r \in Reapers, ReaperWrites(r)
          PROVE  job'[s].status \in {"SUCCEEDED", "SKIPPED"}
      <3>1. job'[s] = IF s \in reaping[r] THEN [job[s] EXCEPT !.status = "PENDING"] ELSE job[s]
        BY <2>2 DEF ReaperWrites
      <3>2. s \in reaping[r] => job[s].status = "RUNNING"
        BY <1>2, <2>2 DEF FreshReset
      <3>3. job[s].ran
        BY <1>2, ReaperJobs
      <3> QED
        BY <3>1, <3>2, <3>3, <1>t
    <2> QED
      BY <1>2, <2>1, <2>2 DEF ReapStuckJobs
  <1>3. ASSUME job' = job PROVE job'[s].status \in {"SUCCEEDED", "SKIPPED"}
    BY <1>3, <1>t
  <1>4. CASE \/ \E force \in BOOLEAN : \/ ProcessMatch(force) \/ EnqueueProcessing(force)
                                       \/ QueueUnavailable(force)
             \/ \E u \in Uploads : CompleteUpload(u) \/ CompleteSegment(u)
             \/ \E w \in Workers, m \in Message : StartRun(w, m)
             \/ \E w \in Workers : WorkerLost(w) \/ AutoRetry(w) \/ Redelivered(w)
             \/ UNCHANGED vars
    BY <1>3, <1>4 DEF ProcessMatch, EnqueueProcessing, QueueUnavailable, CompleteUpload,
       CompleteSegment, StartRun, WorkerLost, AutoRetry, Redelivered, vars
  <1> QED
    BY <1>1, <1>2, <1>4 DEF Next

\* The job rows of a READY match say what has run, too, as long as runs do not
\* overlap and the reaper never resets a job that has ended since it was read:
\* nothing else parts the two (reap_stuck_jobs, runner.py).
THEOREM OnlyStaleResetsHideResults ==
  ASSUME \A w \in Workers : PersistsLast(w)
  PROVE  Spec /\ []Alone /\ [][FreshReset]_vars => []ReadyRowsSayRan
  <1>1. Init => RowsSayRan
    BY DEF Init, RowsSayRan
  <1>2. TypeOK /\ StepInOrder /\ RowsSayRan /\ [Next]_vars /\ [FreshReset]_vars
          => RowsSayRan'
    BY NextRowsSayRan
  <1>3. RowsSayRan /\ ReadyMeansRan => ReadyRowsSayRan
    BY StepSetsAssumption DEF RowsSayRan, ReadyMeansRan, ReadyRowsSayRan, Ran
  <1> QED
    BY <1>1, <1>2, <1>3, OnlyOverlapsSpoilReady, TypeCorrect, PTL DEF Spec

-----------------------------------------------------------------------------
(***************************************************************************)
(* When runs do not overlap: one worker process serves the video, or one   *)
(* request has been made and its message was not handed out to a second    *)
(* worker while the first went on, however often workers die and retry.    *)
(***************************************************************************)
OneAtATime == requests + redeliveries <= 1 \/ \E w : Workers = {w}

\* What a request has become: an entry of the outbox, a message or a run.
Carriers ==
  {<<"outbox", force>> : force \in {f \in BOOLEAN : outbox[f] > 0}}
    \cup {<<"queue", m>> : m \in {n \in Message : queue[n] > 0}}
    \cup {<<"run", w>> : w \in {v \in Workers : run[v].pc # "idle"}}

\* The one request is in one place at a time.
OneCarrier ==
  /\ \A c, d \in Carriers : c = d
  /\ \A force \in BOOLEAN : outbox[force] <= 1
  /\ \A m \in Message : queue[m] <= 1
  /\ requests = 0 => Carriers = {}

\* A worker's own step gives up its run, at most.
LEMMA WorkerStepCarries ==
  ASSUME TypeOK, NEW w \in Workers, WorkerStep(w)
  PROVE  Carriers' \subseteq Carriers
  <1>1. run[w].pc # "idle"
    BY DEF WorkerStep, FinishStep, StepUnavailable, StepCached, MarkRunning, Walking, MarkSucceeded,
           PersistSucceeded, MarkSkipped, MarkFailed, FailVideo, Settle, Acknowledge
  <1>2. UNCHANGED <<outbox, queue>>
    BY WorkerStepFrame
  <1>3. \A v \in Workers : run'[v].pc # "idle" => run[v].pc # "idle"
    BY <1>1, OtherRuns
  <1> QED
    BY <1>2, <1>3 DEF Carriers

LEMMA NextOneCarrier ==
  ASSUME TypeOK, OneCarrier, [Next]_vars, requests' + redeliveries' <= 1
  PROVE  OneCarrier'
  <1> USE DEF counters
  <1>t. /\ outbox \in [BOOLEAN -> Nat] /\ queue \in [Message -> Nat] /\ run \in [Workers -> Run]
        /\ requests \in Nat /\ redeliveries \in Nat
    BY BoundsAssumption DEF TypeOK
  <1>c. \A c \in Carriers : requests # 0
    BY DEF OneCarrier
  \* Something is dropped and nothing is added.
  <1>d. ASSUME Carriers' \subseteq Carriers, requests' = requests,
               \A force \in BOOLEAN : outbox'[force] <= outbox[force],
               \A m \in Message : queue'[m] <= queue[m],
               outbox' \in [BOOLEAN -> Nat], queue' \in [Message -> Nat]
        PROVE  OneCarrier'
    <2>1. \A force \in BOOLEAN : outbox'[force] <= 1
      BY <1>d, <1>t DEF OneCarrier
    <2>2. \A m \in Message : queue'[m] <= 1
      BY <1>d, <1>t DEF OneCarrier
    <2> QED
      BY <2>1, <2>2, <1>d DEF OneCarrier
  \* The message m is put into the queue by what carried it.
  <1>q. ASSUME NEW c \in Carriers, NEW m \in Message, c # <<"queue", m>>,
               queue' = [queue EXCEPT ![m] = @ + 1], requests' = requests,
               Carriers' \subseteq (Carriers \ {c}) \cup {<<"queue", m>>},
               \A force \in BOOLEAN : outbox'[force] <= outbox[force],
               outbox' \in [BOOLEAN -> Nat]
        PROVE  OneCarrier'
    <2>1. \A d, e \in Carriers' : d = e
      BY <1>q DEF OneCarrier
    <2>2. \A n \in Message : queue[n] = 0
      <3> SUFFICES ASSUME NEW n \in Message, queue[n] # 0 PROVE FALSE
        BY <1>t
      <3>1. <<"queue", n>> \in Carriers /\ queue[n] <= 1 /\ queue[n] > 0
        BY <1>t DEF Carriers, OneCarrier
      <3>2. c = <<"queue", n>>
        BY <3>1 DEF OneCarrier
      <3>3. n # m
        BY <3>2, <1>q
      <3>4. queue'[n] = queue[n]
        BY <3>3, <1>q, <1>t
      <3>5. <<"queue", n>> \in Carriers'
        BY <3>4, <3>1 DEF Carriers
      <3>6. queue'[m] = queue[m] + 1 /\ queue[m] \in Nat
        BY <1>q, <1>t
      <3>7. <<"queue", m>> \in Carriers'
        BY <3>6 DEF Carriers
      <3> QED
        BY <3>3, <3>5, <3>7, <2>1
    <2>3. \A n \in Message : queue'[n] <= 1
      BY <2>2, <1>q, <1>t
    <2>4. \A force \in BOOLEAN : outbox'[force] <= 1
      BY <1>q, <1>t DEF OneCarrier
    <2> QED
      BY <2>1, <2>3, <2>4, <1>c, <1>q DEF OneCarrier
  <1>1. ASSUME NEW force \in BOOLEAN, ProcessMatch(force) PROVE OneCarrier'
    <2>1. Carriers = {} /\ requests' = 1
      <3>1. requests = 0 /\ requests' = 1
        <4>1. requests' = requests + 1 /\ redeliveries' = redeliveries
          BY <1>1 DEF ProcessMatch
        <4> QED
          BY <4>1, <1>t
      <3> QED
        BY <3>1 DEF OneCarrier
    <2>2. /\ \A f \in BOOLEAN : outbox[f] = 0
          /\ \A m \in Message : queue[m] = 0
          /\ \A w \in Workers : run[w].pc = "idle"
      <3>1. /\ \A f \in BOOLEAN : outbox[f] > 0 => <<"outbox", f>> \in Carriers
            /\ \A m \in Message : queue[m] > 0 => <<"queue", m>> \in Carriers
            /\ \A w \in Workers : run[w].pc # "idle" => <<"run", w>> \in Carriers
        BY DEF Carriers
      <3>2. /\ \A f \in BOOLEAN : ~(outbox[f] > 0)
            /\ \A m \in Message : ~(queue[m] > 0)
            /\ \A w \in Workers : run[w].pc = "idle"
        BY <2>1, <3>1
      <3> QED
        BY <3>2, <1>t
    <2>3. /\ outbox' = [outbox EXCEPT ![force] = @ + 1] /\ queue' = queue /\ run' = run
      BY <1>1 DEF ProcessMatch
    <2>4. Carriers' \subseteq {<<"outbox", force>>}
      BY <2>2, <2>3, <1>t DEF Carriers
    <2>5. /\ \A f \in BOOLEAN : outbox'[f] <= 1
          /\ \A m \in Message : queue'[m] <= 1
      BY <2>2, <2>3, <1>t
    <2> QED
      BY <2>1, <2>4, <2>5 DEF OneCarrier
  <1>2. ASSUME NEW force \in BOOLEAN, EnqueueProcessing(force) PROVE OneCarrier'
    <2> DEFINE m == [force |-> force, retries |-> 0]
    <2>1. m \in Message
      BY BoundsAssumption DEF Message
    <2>2. /\ outbox[force] > 0 /\ outbox' = [outbox EXCEPT ![force] = @ - 1]
          /\ queue' = [queue EXCEPT ![m] = @ + 1] /\ run' = run /\ requests' = requests
      BY <1>2 DEF EnqueueProcessing
    <2> HIDE DEF m
    <2>3. outbox[force] <= 1 /\ <<"outbox", force>> \in Carriers
      BY <2>2 DEF OneCarrier, Carriers
    <2>4. outbox'[force] = 0 /\ \A f \in BOOLEAN : outbox'[f] <= outbox[f]
      BY <2>2, <2>3, <1>t
    <2>5. Carriers' \subseteq (Carriers \ {<<"outbox", force>>}) \cup {<<"queue", m>>}
      BY <2>2, <2>4, <1>t DEF Carriers
    <2>6. outbox' \in [BOOLEAN -> Nat]
      BY <2>2, <1>t
    <2> QED
      BY <2>1, <2>2, <2>3, <2>4, <2>5, <2>6, <1>q
  <1>3. ASSUME NEW force \in BOOLEAN, QueueUnavailable(force) PROVE OneCarrier'
    <2>1. /\ outbox[force] > 0 /\ outbox' = [outbox EXCEPT ![force] = @ - 1]
          /\ queue' = queue /\ run' = run /\ requests' = requests
      BY <1>3 DEF QueueUnavailable
    <2>2. \A f \in BOOLEAN : outbox'[f] <= outbox[f] /\ outbox'[f] \in Nat
      BY <2>1, <1>t
    <2>3. Carriers' \subseteq Carriers
      BY <2>1, <2>2, <1>t DEF Carriers
    <2>4. outbox' \in [BOOLEAN -> Nat] /\ \A m \in Message : queue'[m] <= queue[m]
      BY <2>1, <2>2, <1>t
    <2> QED
      BY <2>1, <2>2, <2>3, <2>4, <1>t, <1>d
  <1>4. ASSUME NEW w \in Workers, NEW m \in Message, StartRun(w, m) PROVE OneCarrier'
    <2>1. /\ queue[m] > 0 /\ queue' = [queue EXCEPT ![m] = @ - 1]
          /\ outbox' = outbox /\ requests' = requests
          /\ \A v \in Workers \ {w} : run'[v] = run[v]
      BY <1>4, <1>t DEF StartRun
    <2>2. queue[m] <= 1 /\ <<"queue", m>> \in Carriers
      BY <2>1 DEF OneCarrier, Carriers
    <2>3. queue'[m] = 0 /\ \A n \in Message : queue'[n] <= queue[n]
      BY <2>1, <2>2, <1>t
    <2>4. Carriers' \subseteq (Carriers \ {<<"queue", m>>}) \cup {<<"run", w>>}
      BY <2>1, <2>3, <1>t DEF Carriers
    <2>5. \A d, e \in Carriers' : d = e
      BY <2>2, <2>4 DEF OneCarrier
    <2>6. /\ \A f \in BOOLEAN : outbox'[f] <= 1
          /\ \A n \in Message : queue'[n] <= 1
      <3>1. queue' \in [Message -> Int]
        BY <2>1, <1>t
      <3> QED
        BY <2>1, <2>3, <3>1, <1>t DEF OneCarrier
    <2> QED
      BY <2>1, <2>2, <2>5, <2>6, <1>c DEF OneCarrier
  <1>5. ASSUME NEW w \in Workers, WorkerStep(w) PROVE OneCarrier'
    <2>1. UNCHANGED <<outbox, queue, requests>> /\ Carriers' \subseteq Carriers
      BY <1>5, WorkerStepFrame, WorkerStepCarries
    <2>2. /\ \A f \in BOOLEAN : outbox'[f] <= outbox[f]
          /\ \A m \in Message : queue'[m] <= queue[m]
      BY <2>1, <1>t
    <2> QED
      BY <2>1, <2>2, <1>t, <1>d
  <1>6. ASSUME NEW w \in Workers, WorkerLost(w) \/ AutoRetry(w) PROVE OneCarrier'
    <2>1. /\ run[w].pc # "idle" /\ run' = [run EXCEPT ![w] = IdleRun]
          /\ outbox' = outbox /\ requests' = requests
      BY <1>6 DEF WorkerLost, AutoRetry, Live
    <2>2. <<"run", w>> \in Carriers
      BY <2>1 DEF Carriers
    <2>3. run'[w].pc = "idle" /\ \A v \in Workers \ {w} : run'[v] = run[v]
      BY <2>1, <1>t DEF IdleRun
    <2>4. run[w].msg \in Message
      BY <1>t DEF Run
    <2>5. CASE queue' = queue
      <3>1. Carriers' \subseteq Carriers
        BY <2>1, <2>3, <2>5 DEF Carriers
      <3>2. /\ \A f \in BOOLEAN : outbox'[f] <= outbox[f]
            /\ \A m \in Message : queue'[m] <= queue[m]
        BY <2>1, <2>5, <1>t
      <3> QED
        BY <3>1, <3>2, <2>1, <2>5, <1>t, <1>d
    <2>6. ASSUME NEW m \in Message, queue' = [queue EXCEPT ![m] = @ + 1] PROVE OneCarrier'
      <3>1. Carriers' \subseteq (Carriers \ {<<"run", w>>}) \cup {<<"queue", m>>}
        BY <2>1, <2>3, <2>6, <1>t DEF Carriers
      <3>2. <<"run", w>> # <<"queue", m>> /\ \A f \in BOOLEAN : outbox'[f] <= outbox[f]
        BY <2>1, <1>t
      <3> QED
        BY <3>1, <3>2, <2>1, <2>2, <2>6, <1>t, <1>q
    <2>7. CASE WorkerLost(w)
      BY <2>4, <2>6, <2>7 DEF WorkerLost, Requeued
    <2>8. CASE AutoRetry(w)
      <3> DEFINE m == [run[w].msg EXCEPT !.retries = @ + 1]
      <3>1. CASE run[w].msg.retries < MaxRetries /\ queue' = [queue EXCEPT ![m] = @ + 1]
        <4>1. m \in Message
          BY <3>1, <2>4, BoundsAssumption DEF Message
        <4> QED
          BY <4>1, <3>1, <2>6
      <3> QED
        BY <3>1, <2>5, <2>8 DEF AutoRetry
    <2> QED
      BY <1>6, <2>7, <2>8
  <1>7. ASSUME UNCHANGED <<outbox, queue, run, requests>> PROVE OneCarrier'
    BY <1>7 DEF OneCarrier, Carriers
  <1>8. CASE \/ ReapStuckJobs
             \/ \E u \in Uploads : CompleteUpload(u) \/ CompleteSegment(u)
             \/ UNCHANGED vars
    BY <1>7, <1>8, ReaperFrame DEF CompleteUpload, CompleteSegment, vars
  \* A second delivery of a message takes a request, too.
  <1>9. ASSUME NEW w \in Workers, Redelivered(w) PROVE FALSE
    <2>1. <<"run", w>> \in Carriers
      BY <1>9 DEF Redelivered, Carriers
    <2>2. requests' = requests /\ redeliveries' = redeliveries + 1
      BY <1>9 DEF Redelivered
    <2> QED
      BY <2>1, <2>2, <1>c, <1>t
  <1> QED
    BY <1>1, <1>2, <1>3, <1>4, <1>5, <1>6, <1>8, <1>9 DEF Next

\* The counters never go down.
LEMMA CountersGrow ==
  ASSUME TypeOK, [Next]_vars, requests' + redeliveries' <= 1
  PROVE  requests + redeliveries <= 1
  <1>t. requests \in Nat /\ redeliveries \in Nat
    BY BoundsAssumption DEF TypeOK
  <1>1. /\ requests' \in {requests, requests + 1}
        /\ redeliveries' \in {redeliveries, redeliveries + 1}
    <2>1. ASSUME NEW w \in Workers, WorkerStep(w)
          PROVE  requests' = requests /\ redeliveries' = redeliveries
      BY <2>1, WorkerStepFrame
    <2>2. ASSUME NEW w \in Workers, WorkerLost(w) \/ AutoRetry(w) \/ Redelivered(w)
          PROVE  requests' = requests /\ redeliveries' \in {redeliveries, redeliveries + 1}
      BY <2>2 DEF WorkerLost, AutoRetry, Redelivered
    <2>3. ASSUME NEW force \in BOOLEAN, \/ ProcessMatch(force) \/ EnqueueProcessing(force)
                                       \/ QueueUnavailable(force)
          PROVE  redeliveries' = redeliveries /\ requests' \in {requests, requests + 1}
      BY <2>3 DEF ProcessMatch, EnqueueProcessing, QueueUnavailable, counters
    <2>4. CASE \/ \E u \in Uploads : CompleteUpload(u) \/ CompleteSegment(u)
               \/ \E w \in Workers, m \in Message : StartRun(w, m)
               \/ UNCHANGED vars
      BY <2>4 DEF CompleteUpload, CompleteSegment, StartRun, vars, counters
    <2> QED
      BY <2>1, <2>2, <2>3, <2>4, ReaperFrame DEF Next
  <1>2. /\ requests' \in Nat /\ redeliveries' \in Nat
        /\ requests <= requests' /\ redeliveries <= redeliveries'
    BY <1>t, <1>1
  <1>3. \A a, b, c, d \in Nat : a <= c /\ b <= d /\ c + d <= 1 => a + b <= 1
    OBVIOUS
  <1> QED
    BY <1>t, <1>2, <1>3

\* One request is worked on in one place, wherever a worker dies and however
\* often Celery hands the task out again (reject_on_worker_lost, autoretry_for),
\* until another request is made or the broker redelivers the message of a worker
\* that is still alive (acks_late).
THEOREM RunsAreAlone == Spec => [](OneAtATime => Alone)
  <1>1. CASE \E w : Workers = {w}
    <2>1. Alone
      BY <1>1 DEF Alone
    <2> QED
      BY <2>1, PTL
  <1>2. CASE ~\E w : Workers = {w}
    <2> DEFINE Once == requests + redeliveries <= 1
    <2>1. Init => OneCarrier
      <3> SUFFICES ASSUME Init PROVE OneCarrier
        OBVIOUS
      <3>1. /\ \A f \in BOOLEAN : outbox[f] = 0
            /\ \A m \in Message : queue[m] = 0
        BY DEF Init
      <3>2. \A w \in Workers : run[w].pc = "idle"
        BY DEF Init, IdleRun
      <3>3. Carriers = {}
        BY <3>1, <3>2 DEF Carriers
      <3> QED
        BY <3>1, <3>3 DEF OneCarrier
    <2>2. TypeOK /\ (Once => OneCarrier) /\ [Next]_vars => (Once => OneCarrier)'
      BY NextOneCarrier, CountersGrow
    <2>3. OneCarrier => Alone
      <3> SUFFICES ASSUME OneCarrier, NEW v \in Workers, NEW w \in Workers, Live(v), Live(w)
                   PROVE  v = w
        BY DEF Alone
      <3>1. <<"run", v>> \in Carriers /\ <<"run", w>> \in Carriers
        BY DEF Carriers, Live
      <3>2. <<"run", v>> = <<"run", w>>
        BY <3>1 DEF OneCarrier
      <3> QED
        BY <3>2
    <2>4. OneAtATime => Once
      BY <1>2 DEF OneAtATime
    <2> HIDE DEF Once
    <2> QED
      BY <2>1, <2>2, <2>3, <2>4, TypeCorrect, PTL DEF Spec
  <1> QED
    BY <1>1, <1>2

\* With one worker process, or one request whose message no second worker was
\* handed while the first went on and the steps divided over several, a READY
\* match has had every required step run to a good end.
THEOREM ReadyIsDone ==
  ASSUME \A w \in Workers : PersistsLast(w)
  PROVE  Spec /\ []OneAtATime => []ReadyMeansRan
  BY OnlyOverlapsSpoilReady, RunsAreAlone, PTL
-----------------------------------------------------------------------------
(***************************************************************************)
(* Pipeline implements Processing as long as runs do not overlap and       *)
(* uploads are confirmed between them.                                     *)
(***************************************************************************)

\* A required step's result stands and is the present upload's.
Fresh(s) == Ran(s) /\ job[s].mark = upload

FreshBefore(w, n) ==
  \A i \in DOMAIN Order :
    i < n /\ Order[i] \in Required \cap Registered[w] => Fresh(Order[i])

\* What is true of a run that is alone: its session copy is of this upload,
\* what it was required to do behind it is fresh, the match says PROCESSING
\* until the walk is over, and it only fails the match for a failed step.
OneRun(w) ==
  Live(w) =>
    /\ run[w].video = Expired \/ run[w].upload = upload
    /\ FreshBefore(w, run[w].pos)
    /\ run[w].pos <= Len(Order) =>
         video.status = "PROCESSING" /\ run[w].video.status # "READY"
    /\ video.status \in {"PROCESSING", "READY"}
    /\ run[w].pc = "step" => job[Here(w)].mark = upload /\ run[w].upload = upload
    /\ run[w].pc = "failing" => Here(w) \in Required /\ ~Ran(Here(w))

-----------------------------------------------------------------------------
(***************************************************************************)
(* The invariant is inductive                                              *)
(***************************************************************************)

\* A result is only disturbed at the step the worker is at.
LEMMA FreshStable ==
  ASSUME TypeOK, StepInOrder, NEW w \in Workers, WorkerStep(w),
         NEW s \in Steps, Fresh(s),
         s = Here(w) => ~MarkRunning(w) /\ ~MarkFailed(w)
  PROVE  Fresh(s)'
  <1>1. Ran(s)'
    BY RanStable DEF Fresh
  <1>2. upload' = upload
    BY WorkerStepFrame
  <1>t. job \in [Steps -> JobRow]
    BY DEF TypeOK
  <1>3. job'[s].mark = job[s].mark
    <2>1. CASE StepUnavailable(w)
      BY <2>1, <1>t DEF StepUnavailable, JobRow
    <2>2. CASE MarkRunning(w)
      BY <2>2, <1>t DEF MarkRunning
    <2>3. CASE FinishStep(w)
      <3>1. PICK status : job' = Ended(w, status)
        BY <2>3 DEF FinishStep, MarkSucceeded, PersistSucceeded, MarkSkipped, MarkFailed
      <3> QED
        BY <3>1, <1>t DEF Ended, JobRow
    <2>4. CASE StepCached(w) \/ FailVideo(w) \/ Settle(w) \/ Acknowledge(w)
      BY <2>4 DEF StepCached, FailVideo, Settle, Acknowledge
    <2> QED
      BY <2>1, <2>2, <2>3, <2>4 DEF WorkerStep
  <1> QED
    BY <1>1, <1>2, <1>3 DEF Fresh

\* The required steps behind a run stay fresh while it works on the one it is at.
LEMMA FreshBeforeStable ==
  ASSUME TypeOK, StepInOrder, NEW w \in Workers, WorkerStep(w), Live(w), OneRun(w),
         NEW i \in DOMAIN Order, i < run[w].pos, Order[i] \in Required \cap Registered[w]
  PROVE  Fresh(Order[i])'
  <1>1. Fresh(Order[i]) /\ Order[i] \in Steps
    BY DEF OneRun, FreshBefore, Steps
  <1>2. MarkRunning(w) \/ MarkFailed(w) => Order[i] # Here(w)
    <2>1. MarkRunning(w) \/ MarkFailed(w) => run[w].pos <= Len(Order)
      BY DEF MarkRunning, MarkFailed, Walking, StepInOrder
    <2>2. run[w].pos \in Nat /\ run[w].pos >= 1 /\ Len(Order) \in Nat
      BY OrderAssumption DEF TypeOK, Run
    <2>3. run[w].pos <= Len(Order) => run[w].pos \in DOMAIN Order
      BY <2>2, OrderAssumption
    <2>4. i \in Nat
      BY OrderAssumption
    <2> QED
      BY <2>1, <2>2, <2>3, <2>4, OrderAssumption DEF Here
  <1> QED
    BY <1>1, <1>2, FreshStable

\* What each of the worker's own steps does to its run, as far as OneRun and
\* the refinement care: it walks on, works on a step, or ends.
LEMMA WorkerStepOneRun ==
  ASSUME TypeOK, StepInOrder, NEW w \in Workers, WorkerStep(w), OneRun(w)
  PROVE  OneRun(w)'
  <1> DEFINE Behind(n) == \A i \in DOMAIN Order :
                            i < n /\ Order[i] \in Required \cap Registered[w]
                              => Fresh(Order[i])'
             HereFresh == /\ job'[Here(w)].ran
                          /\ job'[Here(w)].mark = upload
  <1>t. /\ run[w].pos \in Nat /\ run[w].pos >= 1 /\ Len(Order) \in Nat
        /\ run \in [Workers -> Run] /\ job \in [Steps -> JobRow]
        /\ DOMAIN Order = 1..Len(Order)
        /\ video \in Row /\ run[w].video \in CachedRow
    BY OrderAssumption DEF TypeOK, Run
  <1>u. upload' = upload
    BY WorkerStepFrame
  <1>b. Live(w) => Behind(run[w].pos)
    BY FreshBeforeStable
  <1>n. ASSUME Live(w), run[w].pos <= Len(Order),
               Here(w) \in Required \cap Registered[w] => HereFresh
        PROVE  Behind(run[w].pos + 1)
    <2> SUFFICES ASSUME NEW i \in DOMAIN Order, i < run[w].pos + 1,
                        Order[i] \in Required \cap Registered[w]
                 PROVE  Fresh(Order[i])'
      OBVIOUS
    <2>1. CASE i = run[w].pos
      BY <2>1, <1>n, <1>u DEF Here, Fresh, Ran
    <2>2. CASE i < run[w].pos
      BY <2>2, <1>n, <1>b
    <2> QED
      BY <2>1, <2>2, <1>t
  <1>h. run[w].pos <= Len(Order) => Here(w) \in Steps
    BY HereIsStep
  <1>x. Expired.status # "READY"
    BY DEF Expired
  <1> HIDE DEF Behind, HereFresh
  \* A step of a live run that changes neither the video nor leaves the walk.
  <1>q. ASSUME Live(w), video' = video, run[w].pos <= Len(Order),
               run'[w].pc = "walk", run'[w].pos = run[w].pos + 1, Behind(run[w].pos + 1),
               run'[w].video = Expired \/ run'[w].upload = upload,
               run'[w].video.status # "READY"
        PROVE  OneRun(w)'
    BY <1>q, <1>u DEF OneRun, FreshBefore, Behind
  <1>r. ASSUME Live(w)
        PROVE  /\ SeenUpload(w) = upload
               /\ Refreshed(w).upload = upload /\ Refreshed(w).pos = run[w].pos
               /\ Refreshed(w).pc = run[w].pc
               /\ run[w].pos <= Len(Order) => Refreshed(w).video.status # "READY"
               /\ Refreshed(w) \in Run
    <2>1. SeenUpload(w) = upload
      BY <1>r DEF OneRun, SeenUpload
    <2>2. run[w] \in Run
      BY <1>t
    <2>3. Refreshed(w).video = Seen(video, run[w].video)
      BY <2>2 DEF Refreshed, Run
    <2>4. Refreshed(w) \in Run
      BY <2>1, <2>2, <1>t DEF Refreshed, Run, Seen, CachedRow, TypeOK
    <2> QED
      BY <2>1, <2>2, <2>3, <2>4, <1>r DEF OneRun, Refreshed, Run, Seen
  <1>1. CASE StepUnavailable(w)
    <2>1. /\ Live(w) /\ video' = video /\ run[w].pos <= Len(Order)
          /\ run'[w].pc = "walk" /\ run'[w].pos = run[w].pos + 1
          /\ run'[w].video = run[w].video /\ run'[w].upload = run[w].upload
          /\ Here(w) \notin Registered[w]
      BY <1>1, <1>t DEF StepUnavailable, Walking, Live, Run
    <2> QED
      BY <2>1, <1>n, <1>q DEF OneRun
  <1>2. CASE StepCached(w)
    <2>1. /\ Live(w) /\ video' = video /\ run[w].pos <= Len(Order) /\ run[w].pc = "walk"
          /\ job' = job /\ job[Here(w)].status = "SUCCEEDED"
          /\ job[Here(w)].mark = SeenUpload(w)
          /\ run' = [run EXCEPT ![w] = [Refreshed(w) EXCEPT !.pos = @ + 1]]
      BY <1>2 DEF StepCached, Walking, Live, ShouldSkip
    <2>2. /\ run'[w].pc = "walk" /\ run'[w].pos = run[w].pos + 1
          /\ run'[w].upload = upload /\ run'[w].video.status # "READY"
      BY <2>1, <1>r, <1>t DEF Run
    <2>3. HereFresh
      BY <2>1, <1>r, <1>h, <1>t DEF HereFresh, JobRow
    <2>4. Behind(run[w].pos + 1)
      BY <2>1, <2>3, <1>n
    <2> QED
      BY <2>1, <2>2, <2>4, <1>q
  <1>3. CASE MarkRunning(w)
    <2>1. /\ Live(w) /\ video' = video /\ run[w].pos <= Len(Order)
          /\ job' = [job EXCEPT ![Here(w)] =
                       [status |-> "RUNNING", mark |-> SeenUpload(w), ran |-> FALSE]]
          /\ run' = [run EXCEPT ![w] = [Refreshed(w) EXCEPT !.pc = "step"]]
      BY <1>3 DEF MarkRunning, Walking, Live
    <2>2. /\ run'[w].pc = "step" /\ run'[w].pos = run[w].pos
          /\ run'[w].upload = upload /\ run'[w].video.status # "READY"
      BY <2>1, <1>r, <1>t DEF Run
    <2>3. job'[Here(w)].mark = upload /\ Here(w)' = Here(w)
      BY <2>1, <2>2, <1>r, <1>h, <1>t DEF Here
    <2> QED
      BY <2>1, <2>2, <2>3, <1>b, <1>u DEF OneRun, FreshBefore, Behind
  <1>4. CASE MarkSucceeded(w) \/ MarkSkipped(w)
    <2>1. /\ Live(w) /\ video' = video /\ run[w].pos <= Len(Order) /\ run[w].pc = "step"
          /\ job' = Ended(w, "SUCCEEDED") \/ job' = Ended(w, "SKIPPED")
      BY <1>4 DEF MarkSucceeded, MarkSkipped, Live, StepInOrder
    <2>2. /\ run'[w].pc = "walk" /\ run'[w].pos = run[w].pos + 1
          /\ \/ run'[w].video = Expired
             \/ run'[w].video = run[w].video /\ run'[w].upload = run[w].upload
      <3>1. CASE MarkSucceeded(w)
        BY <3>1, <1>t DEF MarkSucceeded, Run
      <3>2. CASE MarkSkipped(w)
        BY <3>2, <1>t DEF MarkSkipped, Run
      <3> QED
        BY <1>4, <3>1, <3>2
    <2>3. HereFresh
      BY <2>1, <1>h, <1>t DEF OneRun, Ended, JobRow, HereFresh
    <2>4. Behind(run[w].pos + 1)
      BY <2>1, <2>3, <1>n
    <2> QED
      BY <2>1, <2>2, <2>4, <1>q, <1>x DEF OneRun
  <1>5. CASE PersistSucceeded(w)
    <2>1. /\ Live(w) /\ run[w].pos <= Len(Order) /\ run[w].pc = "step"
          /\ Here(w) = PERSIST /\ job' = Ended(w, "SUCCEEDED")
          /\ video' = Flush(video, run[w].video, "READY", FALSE)
      BY <1>5 DEF PersistSucceeded, Live, StepInOrder
    <2>2. /\ run'[w].pc = "walk" /\ run'[w].pos = run[w].pos + 1
          /\ run'[w].upload = run[w].upload /\ run'[w].video # Expired
      BY <1>5, <1>t DEF PersistSucceeded, Run, Ready, Expired
    <2>3. HereFresh
      BY <2>1, <1>h, <1>t DEF OneRun, Ended, JobRow, HereFresh
    <2>4. Behind(run[w].pos + 1)
      BY <2>1, <2>3, <1>n
    <2>5. run[w].pos = Len(Order)
      BY <2>1, <1>t, OrderAssumption DEF PERSIST, Here
    <2>6. ~(run'[w].pos <= Len(Order))
      BY <2>2, <2>5, <1>t
    <2>7. run[w].upload = upload /\ run[w].video.status # "READY"
      BY <2>1 DEF OneRun
    <2>8. video'.status = "READY"
      BY <2>1, <2>7, <1>t DEF OneRun, Flush, Seen
    <2> QED
      BY <2>2, <2>4, <2>6, <2>7, <2>8, <1>u DEF OneRun, FreshBefore, Behind
  <1>6. CASE MarkFailed(w)
    <2>1. /\ Live(w) /\ video' = video /\ run[w].pos <= Len(Order)
          /\ job' = Ended(w, "FAILED")
      BY <1>6 DEF MarkFailed, Live, StepInOrder
    <2>2. run'[w].video = Expired
      BY <1>6, <1>t DEF MarkFailed, Run
    <2>3. CASE FailsMatch(w)
      <3>1. run'[w].pc = "failing" /\ run'[w].pos = run[w].pos /\ Here(w)' = Here(w)
        BY <2>3, <1>6, <1>t DEF MarkFailed, Run, Here
      <3>2. job'[Here(w)].ran = FALSE
        BY <2>1, <1>h, <1>t DEF Ended, JobRow
      <3> QED
        BY <2>1, <2>2, <2>3, <3>1, <3>2, <1>b, <1>x DEF OneRun, FreshBefore, Behind, FailsMatch, Ran
    <2>4. CASE ~FailsMatch(w)
      <3>1. run'[w].pc = "walk" /\ run'[w].pos = run[w].pos + 1
        BY <2>4, <1>6, <1>t DEF MarkFailed, Run
      <3> QED
        BY <2>1, <2>2, <2>4, <3>1, <1>n, <1>q, <1>x DEF FailsMatch
    <2> QED
      BY <2>3, <2>4
  <1>7. CASE FailVideo(w) \/ Settle(w) \/ Acknowledge(w)
    <2>1. run'[w].pc \in {"done", "idle"}
      BY <1>7, <1>t DEF FailVideo, Settle, Acknowledge, IdleRun, Run
    <2> QED
      BY <2>1 DEF OneRun, Live
  <1> QED
    BY <1>1, <1>2, <1>3, <1>4, <1>5, <1>6, <1>7 DEF WorkerStep, FinishStep

\* What keeps a confirmation from landing inside a run: the code does not
\* (complete_upload and complete_segment, video_service.py), the operator may.
ConfirmedBetweenRuns == uploads' # uploads => \A w \in Workers : ~Live(w)

\* A step of the operator who waits for the run to end is such a step.
LEMMA WaitingConfirmsBetweenRuns ==
  ASSUME ~UploadWhileRunning, TypeOK, [Next]_vars
  PROVE  [ConfirmedBetweenRuns]_vars
  <1> USE DEF counters
  <1>1. CASE \E u \in Uploads : CompleteUpload(u) \/ CompleteSegment(u)
    BY <1>1 DEF CompleteUpload, CompleteSegment, MayConfirm, ConfirmedBetweenRuns
  <1>2. CASE \/ \E force \in BOOLEAN : \/ ProcessMatch(force) \/ EnqueueProcessing(force)
                                       \/ QueueUnavailable(force)
             \/ \E w \in Workers, m \in Message : StartRun(w, m)
             \/ \E w \in Workers : WorkerLost(w) \/ AutoRetry(w) \/ Redelivered(w)
             \/ ReapStuckJobs
    <2>1. uploads' = uploads
      BY <1>2, ReaperFrame, RedeliveredFrame
      DEF ProcessMatch, EnqueueProcessing, QueueUnavailable, StartRun, WorkerLost, AutoRetry
    <2> QED
      BY <2>1 DEF ConfirmedBetweenRuns
  <1>3. ASSUME NEW w \in Workers, WorkerStep(w) PROVE ConfirmedBetweenRuns
    BY <1>3, WorkerStepFrame DEF ConfirmedBetweenRuns
  <1> QED
    BY <1>1, <1>2, <1>3 DEF Next

\* Nothing but a worker's own steps makes a result or takes one back: the reaper
\* writes a status, over a job that has succeeded too, and no result.
LEMMA NextOneRun ==
  ASSUME TypeOK, StepInOrder, Alone, Alone', \A w \in Workers : OneRun(w),
         [Next /\ ConfirmedBetweenRuns]_vars
  PROVE  \A w \in Workers : OneRun(w)'
  <1> SUFFICES ASSUME NEW w \in Workers PROVE OneRun(w)'
    OBVIOUS
  <1> USE DEF counters
  <1>0. OneRun(w)
    OBVIOUS
  <1>1. ASSUME NEW force \in BOOLEAN, ProcessMatch(force) PROVE OneRun(w)'
    BY <1>0, <1>1 DEF ProcessMatch, OneRun, Live, FreshBefore, Fresh, Ran, Here
  <1>2. ASSUME NEW u \in Uploads, CompleteUpload(u) \/ CompleteSegment(u) PROVE OneRun(w)'
    <2>1. uploads' # uploads /\ run' = run
      BY <1>2 DEF CompleteUpload, CompleteSegment, TypeOK
    <2>2. ~Live(w)
      BY <2>1 DEF ConfirmedBetweenRuns, vars
    <2> QED
      BY <2>1, <2>2 DEF OneRun, Live
  <1>3. ASSUME NEW v \in Workers, NEW m \in Message, StartRun(v, m) PROVE OneRun(w)'
    <2>1. /\ run'[v].pc = "walk" /\ run'[v].pos = 1 /\ run'[v].upload = upload
          /\ upload' = upload
          /\ video'.status = "PROCESSING" /\ run'[v].video.status = "PROCESSING"
      BY <1>3 DEF StartRun, Processing, TypeOK, Row
    <2>2. \A i \in DOMAIN Order : ~(i < 1)
      BY OrderAssumption
    <2>3. Len(Order) >= 1 /\ Len(Order) \in Nat
      BY OrderAssumption
    <2>4. OneRun(v)'
      BY <2>1, <2>2, <2>3 DEF OneRun, FreshBefore
    <2>5. Live(w)' => w = v
      BY <2>1 DEF Alone, Live
    <2> QED
      BY <2>4, <2>5 DEF OneRun
  <1>4. ASSUME NEW v \in Workers, WorkerStep(v) PROVE OneRun(w)'
    <2>1. CASE v = w
      BY <2>1, <1>0, <1>4, WorkerStepOneRun
    <2>2. CASE v # w
      <3>1. run'[w] = run[w]
        BY <1>4, <2>2, OtherRuns
      <3>2. CASE Live(w)
        <4>1. UNCHANGED <<video, upload, job>>
          BY <1>4, <2>2, <3>2, OtherIsQuiet
        <4> QED
          BY <1>0, <3>1, <3>2, <4>1 DEF OneRun, Live, FreshBefore, Fresh, Ran, Here
      <3> QED
        BY <3>1, <3>2 DEF OneRun, Live
    <2> QED
      BY <2>1, <2>2
  <1>5. ASSUME NEW v \in Workers, WorkerLost(v) \/ AutoRetry(v) PROVE OneRun(w)'
    <2>1. /\ UNCHANGED <<video, upload, job>>
          /\ run'[w] = IF w = v THEN IdleRun ELSE run[w]
      BY <1>5 DEF WorkerLost, AutoRetry, TypeOK
    <2> QED
      BY <1>0, <2>1 DEF OneRun, Live, IdleRun, FreshBefore, Fresh, Ran, Here
  <1>6. CASE ReapStuckJobs
    <2>1. /\ \A s \in Steps : (Ran(s)' <=> Ran(s)) /\ job'[s].mark = job[s].mark
          /\ UNCHANGED <<video, upload, run>>
      BY <1>6, ReaperFrame, ReaperJobs DEF Ran
    <2>2. \A i \in DOMAIN Order : Fresh(Order[i])' <=> Fresh(Order[i])
      BY <2>1 DEF Fresh, Steps
    <2>3. run[w].pc \in {"step", "failing"} => Here(w) \in Steps /\ Here(w)' = Here(w)
      BY <2>1, HereIsStep DEF StepInOrder, Here
    <2>4. CASE Live(w)
      <3>1. FreshBefore(w, run[w].pos)'
        BY <1>0, <2>1, <2>2, <2>4 DEF OneRun, FreshBefore
      <3> QED
        BY <1>0, <2>1, <2>3, <2>4, <3>1 DEF OneRun, Live
    <2> QED
      BY <2>1, <2>4 DEF OneRun, Live
  <1>7. ASSUME UNCHANGED <<video, upload, job, run>> PROVE OneRun(w)'
    BY <1>0, <1>7 DEF OneRun, Live, FreshBefore, Fresh, Ran, Here
  <1>8. CASE \/ \E force \in BOOLEAN : EnqueueProcessing(force) \/ QueueUnavailable(force)
             \/ \E v \in Workers : Redelivered(v)
             \/ UNCHANGED vars
    BY <1>7, <1>8, RedeliveredFrame DEF EnqueueProcessing, QueueUnavailable, vars
  <1> QED
    BY <1>1, <1>2, <1>3, <1>4, <1>5, <1>6, <1>8 DEF Next

-----------------------------------------------------------------------------
(***************************************************************************)
(* The refinement                                                          *)
(***************************************************************************)

\* What Processing sees.
Shown == <<video.status, Owed, lost, upload, Results>>

\* A change of one job row touches at most that step's result.
LEMMA ResultsChange ==
  ASSUME TypeOK, NEW s \in Steps, upload' = upload,
         \A t \in Steps \ {s} : job'[t] = job[t],
         Ran(s)' => job'[s].mark = upload
  PROVE  \/ Results' = Results
         \/ s \in Required /\ Results' = [Results EXCEPT ![s] = upload]
         \/ s \in Required /\ Results' = [Results EXCEPT ![s] = NoUpload]
  BY StepSetsAssumption DEF Results, Ran

\* With the same job rows, or rows that only differ in never having ended well.
LEMMA ResultsSame ==
  ASSUME \A s \in Required : (Ran(s)' <=> Ran(s)) /\ job'[s].mark = job[s].mark
  PROVE  Results' = Results
  BY DEF Results

\* All fresh is what a match may be READY with.
LEMMA ResultsFresh ==
  ASSUME \A s \in Required : Fresh(s)
  PROVE  Results = [s \in Required |-> upload]
  BY DEF Results, Fresh

\* A worker's own step is Work, Publish, Fail, Leave or nothing to Processing.
LEMMA WorkerStepImplements ==
  ASSUME NEW w \in Workers, Servable, TypeOK, StepInOrder, OneRun(w), WorkerStep(w),
         StatusOwned'
  PROVE  [Contract!PNext]_(Contract!pvars)
  <1>t. /\ run[w].pos \in Nat /\ run[w].pos >= 1 /\ Len(Order) \in Nat
        /\ run \in [Workers -> Run] /\ job \in [Steps -> JobRow]
        /\ upload \in Uploads /\ run[w].pos \in 1..(Len(Order) + 1)
        /\ video \in Row /\ run[w].video \in CachedRow /\ run[w] \in Run
    BY OrderAssumption DEF TypeOK, Run
  <1>f. UNCHANGED <<upload, outbox, queue, lost>>
    BY WorkerStepFrame
  <1>o. Owed \in BOOLEAN /\ Owed' \in BOOLEAN
    BY DEF Owed
  <1>l. (Live(w) => Owed = TRUE) /\ (Live(w)' => Owed' = TRUE)
    BY DEF Owed
  <1>h. run[w].pos <= Len(Order) => Here(w) \in Steps
    BY HereIsStep
  <1>s. ASSUME video'.status = video.status, Owed' = Owed, Results' = Results
        PROVE  UNCHANGED Contract!pvars
    BY <1>f, <1>s DEF Contract!pvars
  \* The walk goes on and only the job row of the step it is at changes.
  <1>w. ASSUME Live(w), Live(w)', video' = video, run[w].pos <= Len(Order),
               \A t \in Steps \ {Here(w)} : job'[t] = job[t],
               job'[Here(w)].ran => job'[Here(w)].mark = upload
        PROVE  [Contract!PNext]_(Contract!pvars)
    <2> DEFINE s == Here(w)
    <2>1. \/ Results' = Results
          \/ s \in Required /\ Results' = [Results EXCEPT ![s] = upload]
          \/ s \in Required /\ Results' = [Results EXCEPT ![s] = NoUpload]
      <3>1. s \in Steps /\ (job'[s].ran => job'[s].mark = upload)
        BY <1>h, <1>w
      <3>2. \A t \in Steps \ {s} : job'[t] = job[t]
        BY <1>w
      <3> HIDE DEF s
      <3> QED
        BY <3>1, <3>2, <1>f, ResultsChange DEF Ran
    <2> HIDE DEF s
    <2>2. video.status = "PROCESSING"
      BY <1>w DEF OneRun
    <2>3. CASE Results' = Results
      BY <2>3, <1>w, <1>l, <1>s
    <2>4. CASE s \in Required /\ \E r \in {upload, NoUpload} :
                                    Results' = [Results EXCEPT ![s] = r]
      BY <2>2, <2>4, <1>w, <1>l, <1>f DEF Contract!PNext, Contract!Work
    <2> QED
      BY <2>1, <2>3, <2>4
  \* The run ends, or has, without a change of status.
  <1>e. ASSUME Live(w), video'.status = video.status, Results' = Results,
               video.status # "PROCESSING" \/ lost \/ Owed'
        PROVE  [Contract!PNext]_(Contract!pvars)
    <2>1. CASE Owed'
      BY <2>1, <1>e, <1>l, <1>o, <1>s
    <2>2. CASE ~Owed'
      BY <2>2, <1>e, <1>l, <1>o, <1>f DEF Contract!PNext, Contract!Leave
    <2> QED
      BY <2>1, <2>2
  <1>1. CASE StepUnavailable(w)
    <2>1. /\ Live(w) /\ Live(w)' /\ video' = video
      BY <1>1, <1>t DEF StepUnavailable, Walking, Live, Run
    <2>2. Here(w) \notin Required
      BY <1>1 DEF StepUnavailable, Servable
    <2>3. \A t \in Required : job'[t] = job[t]
      BY <1>1, <1>t, <2>2, StepSetsAssumption DEF StepUnavailable
    <2>4. Results' = Results
      BY <2>3, ResultsSame DEF Ran
    <2> QED
      BY <2>1, <2>4, <1>l, <1>s
  <1>2. CASE StepCached(w)
    <2>1. Live(w) /\ Live(w)' /\ video' = video /\ job' = job
      BY <1>2, <1>t DEF StepCached, Walking, Live, Refreshed, Run
    <2>2. Results' = Results
      BY <2>1, ResultsSame DEF Ran
    <2> QED
      BY <2>1, <2>2, <1>l, <1>s
  <1>3. CASE MarkRunning(w)
    <2>1. /\ Live(w) /\ Live(w)' /\ video' = video /\ run[w].pos <= Len(Order)
      BY <1>3, <1>t DEF MarkRunning, Walking, Live, Refreshed, Run
    <2>2. /\ \A t \in Steps \ {Here(w)} : job'[t] = job[t]
          /\ job'[Here(w)].ran = FALSE
      BY <1>3, <2>1, <1>h, <1>t DEF MarkRunning
    <2> QED
      BY <2>1, <2>2, <1>w
  <1>4. CASE MarkSucceeded(w) \/ MarkSkipped(w) \/ MarkFailed(w)
    <2>1. Live(w) /\ run[w].pc = "step" /\ video' = video /\ run[w].pos <= Len(Order)
      BY <1>4 DEF MarkSucceeded, MarkSkipped, MarkFailed, Live, StepInOrder
    <2>2. Live(w)'
      <3>1. CASE MarkSucceeded(w)
        BY <3>1, <1>t DEF MarkSucceeded, Live, Run
      <3>2. CASE MarkSkipped(w)
        BY <3>2, <1>t DEF MarkSkipped, Live, Run
      <3>3. CASE MarkFailed(w)
        BY <3>3, <1>t DEF MarkFailed, Live, Run
      <3> QED
        BY <1>4, <3>1, <3>2, <3>3
    <2>3. PICK status : job' = Ended(w, status)
      BY <1>4 DEF MarkSucceeded, MarkSkipped, MarkFailed
    <2>4. /\ \A t \in Steps \ {Here(w)} : job'[t] = job[t]
          /\ job'[Here(w)].mark = upload
      BY <2>1, <2>3, <1>h, <1>t DEF OneRun, Ended, JobRow
    <2> QED
      BY <2>1, <2>2, <2>4, <1>w
  <1>5. CASE PersistSucceeded(w)
    <2>1. /\ Live(w) /\ run[w].pc = "step" /\ run[w].pos <= Len(Order)
          /\ Here(w) = PERSIST /\ job' = Ended(w, "SUCCEEDED")
          /\ video' = Flush(video, run[w].video, "READY", FALSE)
      BY <1>5 DEF PersistSucceeded, Live, StepInOrder
    <2>2. /\ video.status = "PROCESSING" /\ run[w].video.status # "READY"
          /\ job[PERSIST].mark = upload
      BY <2>1 DEF OneRun
    <2>3. video'.status = "READY"
      BY <2>1, <2>2, <1>t DEF Flush, Seen
    <2>4. run[w].pos = Len(Order)
      BY <2>1, <1>t, OrderAssumption DEF PERSIST, Here
    <2>5. \A s \in Required : Fresh(s)'
      <3> SUFFICES ASSUME NEW s \in Required PROVE Fresh(s)'
        OBVIOUS
      <3>1. PICK i \in DOMAIN Order : s = Order[i]
        BY StepSetsAssumption DEF Steps
      <3>2. CASE i < run[w].pos
        BY <3>1, <3>2, <2>1, FreshBeforeStable, <1>t DEF Servable
      <3>3. CASE i = run[w].pos
        <4>1. s = PERSIST /\ PERSIST \in Steps
          BY <3>1, <3>3, <2>1, <1>h DEF Here
        <4>2. job'[PERSIST].ran /\ job'[PERSIST].mark = upload
          BY <4>1, <2>1, <2>2, <1>t DEF Ended, JobRow
        <4> QED
          BY <4>1, <4>2, <1>f DEF Fresh, Ran
      <3>4. i \in Nat /\ i <= Len(Order)
        BY OrderAssumption
      <3> QED
        BY <3>2, <3>3, <3>4, <2>4, <1>t
    <2>6. Results' = [s \in Required |-> upload]
      BY <2>5, <1>f DEF Results, Fresh
    <2> QED
      BY <2>1, <2>2, <2>3, <2>6, <1>l, <1>o, <1>f DEF Contract!PNext, Contract!Publish
  <1>6. CASE FailVideo(w)
    <2>1. /\ Live(w) /\ run[w].pc = "failing" /\ run[w].pos <= Len(Order)
          /\ video'.status = "FAILED" /\ job' = job
      BY <1>6 DEF FailVideo, Live, StepInOrder
    <2>2. video.status = "PROCESSING" /\ Here(w) \in Required /\ ~Ran(Here(w))
      BY <2>1 DEF OneRun
    <2>3. Results[Here(w)] # upload
      BY <2>2, <1>t, UploadsAssumption DEF Results
    <2>4. Results' = Results
      BY <2>1, ResultsSame DEF Ran
    <2> QED
      BY <2>1, <2>2, <2>3, <2>4, <1>l, <1>o, <1>f DEF Contract!PNext, Contract!Fail
  <1>7. CASE Settle(w)
    <2>1. /\ Live(w) /\ ~Live(w)' /\ run[w].pos = Len(Order) + 1 /\ job' = job
          /\ \E v \in CachedRow : video' = Flush(video, v, "READY", v.reason)
      <3>1. Seen(video, run[w].video) \in CachedRow
        BY <1>t DEF Seen, CachedRow
      <3>2. Outstanding(w) = {}
        BY DEF Outstanding, Servable
      <3> QED
        BY <1>7, <1>t, <3>1, <3>2 DEF Settle, Live, Run
    <2>2. video.status \in {"PROCESSING", "READY"} /\ FreshBefore(w, run[w].pos)
      BY <2>1 DEF OneRun
    <2>3. video'.status \in {"READY", video.status}
      BY <2>1, <1>t DEF Flush
    <2>4. Results' = Results
      BY <2>1, ResultsSame DEF Ran
    <2>5. \A s \in Required : Fresh(s)
      <3> SUFFICES ASSUME NEW s \in Required PROVE Fresh(s)
        OBVIOUS
      <3>1. PICK i \in DOMAIN Order : s = Order[i]
        BY StepSetsAssumption DEF Steps
      <3>2. i < run[w].pos
        BY <2>1, OrderAssumption, <1>t
      <3> QED
        BY <3>1, <3>2, <2>2 DEF FreshBefore, Servable
    <2>6. Results = [s \in Required |-> upload]
      BY <2>5, ResultsFresh
    <2>7. CASE video'.status = "READY" /\ video.status = "PROCESSING"
      BY <2>1, <2>4, <2>6, <2>7, <1>l, <1>o, <1>f DEF Contract!PNext, Contract!Publish
    <2>8. CASE video'.status = video.status
      <3>1. video.status = "PROCESSING" => lost \/ Owed'
        <4>1. video'.status = "PROCESSING" => Pending' \/ \E v \in Workers : Live(v)'
          BY DEF StatusOwned, Servable
        <4>2. Pending' \/ (\E v \in Workers : Live(v)') => lost' \/ Owed'
          BY DEF Pending, Owed
        <4> QED
          BY <4>1, <4>2, <2>8, <1>f
      <3> QED
        BY <3>1, <2>1, <2>4, <2>8, <1>e
    <2> QED
      BY <2>2, <2>3, <2>7, <2>8
  <1>8. CASE Acknowledge(w)
    <2>1. /\ video' = video /\ job' = job /\ ~Live(w) /\ ~Live(w)'
      BY <1>8, <1>t DEF Acknowledge, Live, IdleRun
    <2>2. Results' = Results
      BY <2>1, ResultsSame DEF Ran
    <2>3. \A v \in Workers : Live(v)' <=> Live(v)
      BY <2>1, <1>8, OtherRuns DEF Live
    <2>4. Owed' <=> Owed
      BY <2>3, <1>f DEF Owed
    <2> QED
      BY <2>1, <2>2, <2>4, <1>o, <1>s
  <1> QED
    BY <1>1, <1>2, <1>3, <1>4, <1>5, <1>6, <1>7, <1>8 DEF WorkerStep, FinishStep

\* Every step of Pipeline is one of Processing or leaves what it shows alone.
LEMMA NextImplements ==
  ASSUME Servable, TypeOK, StepInOrder, \A w \in Workers : OneRun(w), [Next]_vars,
         StatusOwned'
  PROVE  [Contract!PNext]_(Contract!pvars)
  <1> USE DEF counters
  <1>o. Owed \in BOOLEAN /\ Owed' \in BOOLEAN
    BY DEF Owed
  <1>s. ASSUME video'.status = video.status, Owed' = Owed, lost' = lost, upload' = upload,
               Results' = Results
        PROVE  UNCHANGED Contract!pvars
    BY <1>s DEF Contract!pvars
  <1>r. ASSUME job' = job PROVE Results' = Results
    BY <1>r, ResultsSame DEF Ran
  <1>1. ASSUME NEW force \in BOOLEAN, ProcessMatch(force)
        PROVE  Contract!Request
    <2>1. outbox'[force] > 0
      BY <1>1 DEF ProcessMatch, TypeOK
    <2>2. Owed'
      BY <2>1 DEF Owed
    <2> QED
      BY <2>2, <1>1, <1>o, <1>r DEF ProcessMatch, Contract!Request
  <1>2. ASSUME NEW force \in BOOLEAN, EnqueueProcessing(force)
        PROVE  Contract!Redeliver
    <2> DEFINE m == [force |-> force, retries |-> 0]
    <2>1. m \in Message
      BY BoundsAssumption DEF Message
    <2>2. queue'[m] = queue[m] + 1 /\ queue[m] \in Nat
      BY <1>2, <2>1 DEF EnqueueProcessing, TypeOK
    <2>3. queue'[m] > 0
      BY <2>2
    <2>4. Owed'
      BY <2>1, <2>3 DEF Owed
    <2> QED
      BY <2>4, <1>2, <1>o, <1>r DEF EnqueueProcessing, Contract!Redeliver
  <1>3. ASSUME NEW force \in BOOLEAN, QueueUnavailable(force)
        PROVE  Contract!Lose
    <2>1. Owed
      BY <1>3 DEF QueueUnavailable, Owed
    <2> QED
      BY <2>1, <1>3, <1>o, <1>r DEF QueueUnavailable, Contract!Lose
  <1>4. ASSUME NEW u \in Uploads, CompleteUpload(u) \/ CompleteSegment(u)
        PROVE  Contract!Replace
    <2>1. /\ UNCHANGED <<job, outbox, queue, run, lost>> /\ upload' = u
          /\ video'.status \in {video.status, "UPLOADED"}
      BY <1>4 DEF CompleteUpload, CompleteSegment
    <2>2. Owed' <=> Owed
      BY <2>1 DEF Owed, Live
    <2> QED
      BY <2>1, <2>2, <1>o, <1>r DEF Contract!Replace
  <1>5. ASSUME NEW w \in Workers, NEW m \in Message, StartRun(w, m)
        PROVE  Contract!Request
    <2>1. Live(w)' /\ video'.status = "PROCESSING"
      BY <1>5 DEF StartRun, Live, Processing, TypeOK, Row
    <2>2. Owed'
      BY <2>1 DEF Owed
    <2> QED
      BY <2>1, <2>2, <1>5, <1>o, <1>r DEF StartRun, Contract!Request
  <1>6. ASSUME NEW w \in Workers, WorkerStep(w)
        PROVE  [Contract!PNext]_(Contract!pvars)
    BY <1>6, WorkerStepImplements
  <1>7. ASSUME NEW w \in Workers, WorkerLost(w) \/ Redelivered(w)
        PROVE  Contract!Redeliver
    <2>1. run[w].msg \in Message
      BY DEF TypeOK, Run
    <2>2. queue'[run[w].msg] = queue[run[w].msg] + 1 /\ queue[run[w].msg] \in Nat
      BY <1>7, <2>1 DEF WorkerLost, Redelivered, Requeued, TypeOK
    <2>3. queue'[run[w].msg] > 0
      BY <2>2
    <2>4. Owed'
      BY <2>1, <2>3 DEF Owed
    <2> QED
      BY <2>4, <1>7, <1>o, <1>r DEF WorkerLost, Redelivered, Contract!Redeliver
  <1>8. ASSUME NEW w \in Workers, AutoRetry(w)
        PROVE  Contract!Redeliver \/ Contract!Lose
    <2> DEFINE m == [run[w].msg EXCEPT !.retries = @ + 1]
    <2>0. run[w].msg \in Message /\ Owed
      BY <1>8 DEF TypeOK, Run, AutoRetry, Owed
    <2>1. CASE lost' = TRUE
      BY <2>0, <2>1, <1>8, <1>o, <1>r DEF AutoRetry, Contract!Lose
    <2>2. CASE lost' # TRUE
      <3>1. run[w].msg.retries < MaxRetries /\ queue' = [queue EXCEPT ![m] = @ + 1]
            /\ lost' = lost
        BY <2>2, <1>8 DEF AutoRetry
      <3>2. m \in Message
        BY <3>1, <2>0, BoundsAssumption DEF Message
      <3>3. queue'[m] = queue[m] + 1 /\ queue[m] \in Nat
        BY <3>1, <3>2 DEF TypeOK
      <3>4. queue'[m] > 0
        BY <3>3
      <3>5. Owed'
        BY <3>2, <3>4 DEF Owed
      <3> QED
        BY <3>1, <3>5, <1>8, <1>o, <1>r DEF AutoRetry, Contract!Redeliver
    <2> QED
      BY <2>1, <2>2
  <1>9. ASSUME ReapStuckJobs
        PROVE  UNCHANGED Contract!pvars
    <2>1. /\ \A s \in Steps : (Ran(s)' <=> Ran(s)) /\ job'[s].mark = job[s].mark
          /\ UNCHANGED <<video, upload, outbox, queue, run, lost>>
      BY <1>9, ReaperFrame, ReaperJobs DEF Ran
    <2>2. Results' = Results
      BY <2>1, StepSetsAssumption, ResultsSame
    <2>3. Owed' <=> Owed
      BY <2>1 DEF Owed, Live
    <2> QED
      BY <2>1, <2>2, <2>3, <1>o, <1>s
  <1>10. ASSUME UNCHANGED vars
         PROVE  UNCHANGED Contract!pvars
    <2>1. Owed' <=> Owed
      BY <1>10 DEF vars, Owed, Live
    <2> QED
      BY <2>1, <1>10, <1>o, <1>r, <1>s DEF vars
  <1> QED
    BY <1>1, <1>2, <1>3, <1>4, <1>5, <1>6, <1>7, <1>8, <1>9, <1>10 DEF Next, Contract!PNext

\* The pipeline keeps what Processing promises, for any pipeline order, steps,
\* workers, uploads, requests, retries, crashes and reaper resets, as long as
\* every image registers the required steps, runs do not overlap and uploads are
\* confirmed between them (runner.py, worker.py, video_service.py).
THEOREM OnlyOverlapsBreakTheContract ==
  ASSUME Servable
  PROVE  Spec /\ []Alone /\ [][ConfirmedBetweenRuns]_vars => Implements
  <1>1. Init => Contract!PInit /\ (\A w \in Workers : OneRun(w)) /\ StatusOwned
    <2> SUFFICES ASSUME Init
                 PROVE  Contract!PInit /\ (\A w \in Workers : OneRun(w)) /\ StatusOwned
      OBVIOUS
    <2>1. (\A w \in Workers : OneRun(w)) /\ StatusOwned
      BY DEF Init, OneRun, Live, IdleRun, StatusOwned
    <2>2. Owed = FALSE
      <3>1. /\ \A force \in BOOLEAN : ~(outbox[force] > 0)
            /\ \A m \in Message : ~(queue[m] > 0)
        BY DEF Init
      <3>2. \A w \in Workers : ~Live(w)
        BY DEF Init, Live, IdleRun
      <3> QED
        BY <3>1, <3>2 DEF Owed
    <2>3. Results = [s \in Required |-> NoUpload]
      BY StepSetsAssumption DEF Init, Results, Ran
    <2> QED
      BY <2>1, <2>2, <2>3 DEF Init, Contract!PInit
  <1>2. TypeOK /\ StepInOrder /\ Alone /\ Alone' /\ (\A w \in Workers : OneRun(w))
          /\ StatusOwned /\ [Next]_vars /\ [ConfirmedBetweenRuns]_vars
          => (\A w \in Workers : OneRun(w))' /\ StatusOwned'
    BY NextOneRun, NextStatusOwned
  <1>3. TypeOK /\ StepInOrder /\ (\A w \in Workers : OneRun(w)) /\ [Next]_vars /\ StatusOwned'
          => [Contract!PNext]_(Contract!pvars)
    BY NextImplements
  <1> QED
    BY <1>1, <1>2, <1>3, TypeCorrect, PTL DEF Spec, Implements, Contract!PSpec

\* ... which hold for one worker process, or for one request, when uploads wait
\* for the run to end.
THEOREM PipelineImplementsProcessing ==
  ASSUME Servable, ~UploadWhileRunning
  PROVE  Spec /\ []OneAtATime => Implements
  <1>1. TypeOK /\ [Next]_vars => [ConfirmedBetweenRuns]_vars
    BY WaitingConfirmsBetweenRuns
  <1> QED
    BY <1>1, OnlyOverlapsBreakTheContract, RunsAreAlone, TypeCorrect, PTL DEF Spec

\* A run makes the match READY at PERSIST or after the last step, and only in a
\* process that registers every required step.
LEMMA ReadyFromFresh ==
  ASSUME TypeOK, StepInOrder, NEW w \in Workers, PersistsLast(w), OneRun(w), WorkerStep(w),
         video.status # "READY", video'.status = "READY", NEW s \in Required
  PROVE  job'[s].mark = upload'
  <1>t. /\ run[w].pos \in Nat /\ Len(Order) \in Nat /\ DOMAIN Order = 1..Len(Order)
        /\ job \in [Steps -> JobRow] /\ run[w].pos \in 1..(Len(Order) + 1)
    BY OrderAssumption DEF TypeOK, Run
  <1>u. upload' = upload
    BY WorkerStepFrame
  <1>i. PICK i \in DOMAIN Order : s = Order[i]
    BY StepSetsAssumption DEF Steps
  <1>1. CASE PersistSucceeded(w)
    <2>1. /\ Live(w) /\ run[w].pc = "step" /\ run[w].pos <= Len(Order)
          /\ Here(w) = PERSIST /\ PERSIST \in Registered[w] /\ job' = Ended(w, "SUCCEEDED")
      BY <1>1 DEF PersistSucceeded, Live, StepInOrder
    <2>2. run[w].pos = Len(Order)
      BY <2>1, <1>t, OrderAssumption DEF PERSIST, Here
    <2>3. CASE i < run[w].pos
      <3>1. s \in Required \cap Registered[w]
        BY <2>1 DEF PersistsLast
      <3>2. Fresh(s)'
        BY <3>1, <2>1, <2>3, <1>i, FreshBeforeStable
      <3> QED
        BY <3>2 DEF Fresh
    <2>4. CASE i = run[w].pos
      <3>1. s = PERSIST /\ PERSIST \in Steps
        BY <2>1, <2>4, <1>i DEF Here, Steps
      <3>2. job[PERSIST].mark = upload
        BY <2>1 DEF OneRun
      <3> QED
        BY <3>1, <3>2, <2>1, <1>t, <1>u DEF Ended, JobRow
    <2> QED
      BY <2>2, <2>3, <2>4, <1>t
  <1>2. CASE Settle(w)
    <2>1. Live(w) /\ run[w].pos > Len(Order) /\ job' = job
      BY <1>2 DEF Settle, Live
    <2>2. Required \subseteq Registered[w]
      <3>1. CASE Outstanding(w) # {}
        <4>1. video' = Flush(video, Seen(video, run[w].video), "PROCESSING",
                             Seen(video, run[w].video).reason)
          BY <1>2, <3>1 DEF Settle
        <4> QED
          BY <4>1 DEF Flush
      <3> QED
        BY <3>1 DEF Outstanding
    <2>3. i < run[w].pos
      BY <2>1, <1>t
    <2>4. Fresh(s)
      BY <2>1, <2>2, <2>3, <1>i DEF OneRun, FreshBefore
    <2> QED
      BY <2>1, <2>4, <1>u DEF Fresh
  <1>3. CASE FailVideo(w)
    BY <1>3 DEF FailVideo
  <1>4. CASE \/ StepUnavailable(w) \/ StepCached(w) \/ MarkRunning(w) \/ MarkSucceeded(w)
             \/ MarkSkipped(w) \/ MarkFailed(w) \/ Acknowledge(w)
    BY <1>4 DEF StepUnavailable, StepCached, MarkRunning, MarkSucceeded, MarkSkipped,
       MarkFailed, Acknowledge
  <1> QED
    BY <1>1, <1>2, <1>3, <1>4 DEF WorkerStep, FinishStep

\* Nothing but a run makes a match READY.
LEMMA ReadyByARun ==
  ASSUME TypeOK, [Next]_vars, video.status # "READY", video'.status = "READY"
  PROVE  \E w \in Workers : WorkerStep(w)
  <1> USE DEF counters
  <1>1. CASE \E force \in BOOLEAN : \/ ProcessMatch(force) \/ EnqueueProcessing(force)
                                    \/ QueueUnavailable(force)
    BY <1>1 DEF ProcessMatch, EnqueueProcessing, QueueUnavailable
  <1>2. CASE \E u \in Uploads : CompleteUpload(u) \/ CompleteSegment(u)
    BY <1>2 DEF CompleteUpload, CompleteSegment
  <1>3. CASE \E w \in Workers, m \in Message : StartRun(w, m)
    BY <1>3 DEF StartRun, Processing, TypeOK, Row
  <1>4. CASE \E w \in Workers : WorkerLost(w) \/ AutoRetry(w) \/ Redelivered(w)
    BY <1>4 DEF WorkerLost, AutoRetry, Redelivered
  <1>5. CASE ReapStuckJobs \/ UNCHANGED vars
    BY <1>5, ReaperFrame DEF vars
  <1> QED
    BY <1>1, <1>2, <1>3, <1>4, <1>5 DEF Next

\* As long as runs do not overlap and uploads are confirmed between them, a match
\* becomes READY only from steps run on the upload there is now, whatever was
\* cached, crashed, retried, reset and divided over the images on the way
\* (_should_skip and _step_fingerprint, runner.py).
THEOREM OnlyOverlapsPassOffOldResults ==
  ASSUME \A w \in Workers : PersistsLast(w)
  PROVE  Spec /\ []Alone /\ [][ConfirmedBetweenRuns]_vars => ReadyIsCurrent
  <1>1. Init => \A w \in Workers : OneRun(w)
    BY DEF Init, OneRun, Live, IdleRun
  <1>2. TypeOK /\ StepInOrder /\ Alone /\ Alone' /\ (\A w \in Workers : OneRun(w))
          /\ [Next]_vars /\ [ConfirmedBetweenRuns]_vars
          => (\A w \in Workers : OneRun(w))'
    BY NextOneRun
  <1>3. TypeOK /\ StepInOrder /\ (\A w \in Workers : OneRun(w)) /\ [Next]_vars
          => [video.status # "READY" /\ video'.status = "READY"
                => \A s \in Required : job'[s].mark = upload']_vars
    BY ReadyByARun, ReadyFromFresh
  <1> QED
    BY <1>1, <1>2, <1>3, TypeCorrect, PTL DEF Spec, ReadyIsCurrent

\* ... which hold for one worker process, or for one request, when uploads wait
\* for the run to end.
THEOREM ReadyIsCurrentAlways ==
  ASSUME \A w \in Workers : PersistsLast(w), ~UploadWhileRunning
  PROVE  Spec /\ []OneAtATime => ReadyIsCurrent
  <1>1. TypeOK /\ [Next]_vars => [ConfirmedBetweenRuns]_vars
    BY WaitingConfirmsBetweenRuns
  <1> QED
    BY <1>1, OnlyOverlapsPassOffOldResults, RunsAreAlone, TypeCorrect, PTL DEF Spec

=============================================================================
