------------------------------ MODULE Pipeline ------------------------------
(***************************************************************************)
(* The processing of one recording: the API request that moves the match   *)
(* to PROCESSING and enqueues a Celery task, the workers that walk the     *)
(* pipeline (run_pipeline), one ProcessingJob row per step, the broker's   *)
(* redelivery of a task whose worker died or is only slow, Celery's retry  *)
(* of one, and the reaper of stuck jobs.                                   *)
(*                                                                         *)
(* One action is one database transaction: what the code does between two  *)
(* commits.  What survives a commit inside a worker is the ORM session's   *)
(* copy of the video and match rows (expire_on_commit=False), which is     *)
(* kept in `run` and may be older than the rows.  The reaper alone reads   *)
(* and writes in two steps: it resets by id the jobs a query found, so it  *)
(* may write over what a worker committed in between.                      *)
(***************************************************************************)
EXTENDS Integers, Sequences

CONSTANTS
  Workers,       \* Celery worker processes that serve the `video` queue
  Order,         \* the steps in pipeline order, a sequence
  Required,      \* steps whose failure fails the match
  Skipping,      \* steps whose code raises StepSkipped on some input
  WorkdirInput,  \* step |-> the step whose scratch files it cannot do without
  Registered,    \* worker |-> the steps registered in that process
  Reapers,       \* processes that execute reap_stuck_jobs
  Uploads,       \* identities of an upload, as _step_fingerprint sees them
  UploadWhileRunning, \* whether uploads are confirmed while a run is live
  MaxRetries,    \* process_video's max_retries
  MaxRequests,   \* bound: calls of POST /matches/{id}/process
  MaxFaults,     \* bound: worker crashes and errors outside a step
  MaxRedeliveries, \* bound: messages handed out again while still executed
  MaxUploads     \* bound: uploads and segment confirmations after the first

Steps == { Order[i] : i \in DOMAIN Order }

PERSIST == Order[Len(Order)]

ASSUME OrderAssumption ==
  /\ Order \in Seq(STRING) /\ Len(Order) > 0
  /\ \A i, j \in DOMAIN Order : Order[i] = Order[j] => i = j
ASSUME StepSetsAssumption ==
  /\ Required \subseteq Steps /\ Skipping \subseteq Steps
  /\ PERSIST \in Required \ Skipping
  /\ DOMAIN WorkdirInput \subseteq Skipping
ASSUME WorkersAssumption == Registered \in [Workers -> SUBSET Steps]
ASSUME BoundsAssumption ==
  /\ MaxRetries \in Nat /\ MaxRequests \in Nat
  /\ MaxFaults \in Nat  /\ MaxUploads \in Nat /\ MaxRedeliveries \in Nat
NoUpload == "no upload"

ASSUME UploadsAssumption ==
  Uploads # {} /\ NoUpload \notin Uploads /\ UploadWhileRunning \in BOOLEAN

Message  == [force : BOOLEAN, retries : 0..MaxRetries]

VARIABLES
  video,     \* the Video row: status and whether failure_reason is set
  match,     \* the Match row: likewise
  upload,    \* the identity of what is uploaded now
  job,       \* step |-> its ProcessingJob row
  outbox,    \* requests committed as PROCESSING and not yet enqueued, by force
  queue,     \* messages waiting in the broker, by content
  run,       \* worker |-> the task it executes
  reaping,   \* reaper |-> the jobs it read as stuck and has not reset yet
  lost,      \* a request ended with no task: broker outage, retries exhausted
  requests, faults, uploads, redeliveries  \* counters for the bounds

vars == <<video, match, upload, job, outbox, queue, run, reaping, lost,
          requests, faults, uploads, redeliveries>>
counters == <<requests, faults, uploads, redeliveries>>

Row       == [status : {"UPLOADED", "UPLOADING", "PROCESSING", "READY", "FAILED"},
              reason : BOOLEAN]
Expired   == [status |-> "EXPIRED", reason |-> FALSE]
CachedRow == Row \cup {Expired}
\* `ran` is history: the step's last execution has ended, and ended well.  The
\* code writes its data rows and job.result in that transaction, and neither is
\* touched by the reaper, whatever it makes of the status.
JobRow    == {row \in [status : {"NONE", "PENDING", "RUNNING", "SUCCEEDED",
                                  "FAILED", "SKIPPED"},
                        mark   : Uploads \cup {NoUpload},
                        ran    : BOOLEAN] : row.status = "SUCCEEDED" => row.ran}
Run       == [pc      : {"idle", "walk", "step", "failing", "done"},
              msg     : Message,
              pos     : 1..(Len(Order) + 1),
              video   : CachedRow,
              match   : CachedRow,
              upload  : Uploads,
              workdir : SUBSET Steps]

TypeOK ==
  /\ video \in Row /\ match \in Row
  /\ upload \in Uploads
  /\ job \in [Steps -> JobRow]
  /\ outbox \in [BOOLEAN -> Nat]
  /\ queue \in [Message -> Nat]
  /\ run \in [Workers -> Run]
  /\ reaping \in [Reapers -> SUBSET Steps]
  /\ lost \in BOOLEAN
  /\ requests \in 0..MaxRequests
  /\ faults \in 0..MaxFaults
  /\ uploads \in 0..MaxUploads
  /\ redeliveries \in 0..MaxRedeliveries

-----------------------------------------------------------------------------
(***************************************************************************)
(* The ORM session                                                         *)
(***************************************************************************)

\* The copy a session works on: an expired row is loaded again on first use.
Seen(row, cached) == IF cached = Expired THEN row ELSE cached

\* The row after a flush, which updates only the columns whose value differs
\* from the copy; a column another process changed meanwhile is left alone.
Flush(row, cached, status, reason) ==
  LET seen == Seen(row, cached) IN
  [status |-> IF status = seen.status THEN row.status ELSE status,
   reason |-> IF reason = seen.reason THEN row.reason ELSE reason]

Here(w) == Order[run[w].pos]

Walking(w) == run[w].pc = "walk" /\ run[w].pos <= Len(Order)

Live(w) == run[w].pc \in {"walk", "step", "failing"}

-----------------------------------------------------------------------------
(***************************************************************************)
(* The API and the broker                                                  *)
(***************************************************************************)

\* POST /process: mark_processing, committed before anything is enqueued.
ProcessMatch(force) ==
  /\ requests < MaxRequests
  /\ requests' = requests + 1
  /\ video' = [status |-> "PROCESSING", reason |-> FALSE]
  /\ match' = [status |-> "PROCESSING", reason |-> FALSE]
  /\ outbox' = [outbox EXCEPT ![force] = @ + 1]
  /\ UNCHANGED <<upload, job, queue, run, reaping, lost, faults, uploads, redeliveries>>

\* ... then enqueue_processing sends the task.
EnqueueProcessing(force) ==
  /\ outbox[force] > 0
  /\ outbox' = [outbox EXCEPT ![force] = @ - 1]
  /\ queue' = [queue EXCEPT ![[force |-> force, retries |-> 0]] = @ + 1]
  /\ UNCHANGED <<video, match, upload, job, run, reaping, lost, counters>>

\* The broker refuses, the caller gets a 503 and the rows stay committed; a
\* crash of the API process between the commit and the send ends the same way.
QueueUnavailable(force) ==
  /\ outbox[force] > 0
  /\ faults < MaxFaults /\ faults' = faults + 1
  /\ outbox' = [outbox EXCEPT ![force] = @ - 1]
  /\ lost' = TRUE
  /\ UNCHANGED <<video, match, upload, job, queue, run, reaping, requests, uploads,
                 redeliveries>>

\* Neither confirmation looks at the match's status, so the code accepts one
\* at any time; UploadWhileRunning = FALSE is the operator's discipline.
MayConfirm ==
  uploads < MaxUploads /\ (UploadWhileRunning \/ \A w \in Workers : ~Live(w))

\* complete_upload: everything expected is there.
CompleteUpload(u) ==
  /\ MayConfirm /\ uploads' = uploads + 1
  /\ upload' = u
  /\ video' = [status |-> "UPLOADED", reason |-> FALSE]
  /\ UNCHANGED <<match, job, outbox, queue, run, reaping, lost, requests, faults,
                 redeliveries>>

\* complete_segment: a segment row changes, and with it the fingerprint.
CompleteSegment(u) ==
  /\ MayConfirm /\ uploads' = uploads + 1
  /\ u # upload
  /\ upload' = u
  /\ UNCHANGED <<video, match, job, outbox, queue, run, reaping, lost, requests, faults,
                 redeliveries>>

-----------------------------------------------------------------------------
(***************************************************************************)
(* A worker executing process_video                                        *)
(***************************************************************************)

IdleRun == [pc |-> "idle", msg |-> [force |-> FALSE, retries |-> 0], pos |-> 1,
            video |-> Expired, match |-> Expired,
            upload |-> CHOOSE u \in Uploads : TRUE, workdir |-> {}]

Processing(row) == [row EXCEPT !.status = "PROCESSING"]

\* Take a message and open the run: both rows are loaded, set to PROCESSING
\* and committed.  The message stays unacknowledged (acks_late).
StartRun(w, m) ==
  /\ run[w].pc = "idle" /\ queue[m] > 0
  /\ queue' = [queue EXCEPT ![m] = @ - 1]
  /\ video' = Processing(video)
  /\ match' = Processing(match)
  /\ run' = [run EXCEPT ![w] =
               [pc |-> "walk", msg |-> m, pos |-> 1,
                video |-> Processing(video), match |-> Processing(match),
                upload |-> upload, workdir |-> {}]]
  /\ UNCHANGED <<upload, job, outbox, reaping, lost, counters>>

\* get_step returned nothing: the job row is created and left PENDING.
StepUnavailable(w) ==
  /\ Walking(w) /\ Here(w) \notin Registered[w]
  /\ job' = IF job[Here(w)].status = "NONE"
            THEN [job EXCEPT ![Here(w)].status = "PENDING"] ELSE job
  /\ run' = [run EXCEPT ![w].pos = @ + 1]
  /\ UNCHANGED <<video, match, upload, outbox, queue, reaping, lost, counters>>

\* The upload the run's session sees, which is what the fingerprint is made of.
SeenUpload(w) == IF run[w].video = Expired THEN upload ELSE run[w].upload

\* Faulty variants, which the properties must tell from the real check: one
\* forgets that the step may have failed, the other that the upload changed.
SkipsIfAttempted(w) ==
  ~run[w].msg.force /\ job[Here(w)].mark = SeenUpload(w)
SkipsIfSucceeded(w) ==
  ~run[w].msg.force /\ job[Here(w)].status = "SUCCEEDED"

\* _should_skip: the step succeeded before, on the same upload.
ShouldSkip(w) ==
  /\ ~run[w].msg.force
  /\ job[Here(w)].status = "SUCCEEDED"
  /\ job[Here(w)].mark = SeenUpload(w)

\* Computing the fingerprint loads the video row and its segments if expired.
Refreshed(w) == [run[w] EXCEPT !.video = Seen(video, @), !.upload = SeenUpload(w)]

StepCached(w) ==
  /\ Walking(w) /\ Here(w) \in Registered[w] /\ ShouldSkip(w)
  /\ run' = [run EXCEPT ![w] = [Refreshed(w) EXCEPT !.pos = @ + 1]]
  /\ UNCHANGED <<video, match, upload, job, outbox, queue, reaping, lost, counters>>

MarkRunning(w) ==
  /\ Walking(w) /\ Here(w) \in Registered[w] /\ ~ShouldSkip(w)
  /\ job' = [job EXCEPT ![Here(w)] =
               [status |-> "RUNNING", mark |-> SeenUpload(w), ran |-> FALSE]]
  /\ run' = [run EXCEPT ![w] = [Refreshed(w) EXCEPT !.pc = "step"]]
  /\ UNCHANGED <<video, match, upload, outbox, queue, reaping, lost, counters>>

HasInputs(w) ==
  Here(w) \in DOMAIN WorkdirInput => WorkdirInput[Here(w)] \in run[w].workdir

\* Faulty variant: a skipped step is left without its final mark.
EndedUnlessSkipped(w, status) ==
  IF status = "SKIPPED" THEN job
  ELSE [job EXCEPT ![Here(w)].status = status, ![Here(w)].ran = status # "FAILED"]

\* _mark_succeeded, _mark_skipped, _mark_failed.
Ended(w, status) ==
  [job EXCEPT ![Here(w)].status = status, ![Here(w)].ran = status # "FAILED"]

FailsMatch(w) == Here(w) \in Required

\* The step returned: its job succeeds in the transaction of its own writes.
MarkSucceeded(w) ==
  /\ run[w].pc = "step" /\ HasInputs(w) /\ Here(w) # PERSIST
  /\ job' = Ended(w, "SUCCEEDED")
  /\ run' = [run EXCEPT ![w].pc = "walk", ![w].pos = @ + 1,
                        ![w].workdir = @ \cup {Here(w)}]
  /\ UNCHANGED <<video, match, upload, outbox, queue, reaping, lost, counters>>

Ready == [status |-> "READY", reason |-> FALSE]

\* PERSIST, the last step, also finishes both rows.
PersistSucceeded(w) ==
  /\ run[w].pc = "step" /\ Here(w) = PERSIST
  /\ job' = Ended(w, "SUCCEEDED")
  /\ video' = Flush(video, run[w].video, "READY", FALSE)
  /\ match' = Flush(match, run[w].match, "READY", FALSE)
  /\ run' = [run EXCEPT ![w].pc = "walk", ![w].pos = @ + 1,
                        ![w].video = Ready, ![w].match = Ready]
  /\ UNCHANGED <<upload, outbox, queue, reaping, lost, counters>>

\* StepSkipped: roll back, which expires the session, and record it.
MarkSkipped(w) ==
  /\ run[w].pc = "step" /\ Here(w) \in Skipping
  /\ job' = Ended(w, "SKIPPED")
  /\ run' = [run EXCEPT ![w].pc = "walk", ![w].pos = @ + 1,
                        ![w].video = Expired, ![w].match = Expired]
  /\ UNCHANGED <<video, match, upload, outbox, queue, reaping, lost, counters>>

\* Any other exception: roll back, record it, and fail the match next if the
\* step is a required one.
MarkFailed(w) ==
  /\ run[w].pc = "step"
  /\ job' = Ended(w, "FAILED")
  /\ run' = [run EXCEPT ![w].pc = IF FailsMatch(w) THEN "failing" ELSE "walk",
                        ![w].pos = IF FailsMatch(w) THEN @ ELSE @ + 1,
                        ![w].video = Expired, ![w].match = Expired]
  /\ UNCHANGED <<video, match, upload, outbox, queue, reaping, lost, counters>>

\* _fail_video, a transaction of its own after the job's.
FailVideo(w) ==
  /\ run[w].pc = "failing"
  /\ video' = [status |-> "FAILED", reason |-> TRUE]
  /\ match' = [status |-> "FAILED", reason |-> TRUE]
  /\ run' = [run EXCEPT ![w].pc = "done"]
  /\ UNCHANGED <<upload, job, outbox, queue, reaping, lost, counters>>

\* Faulty variant: counts what this pass executed.
NotExecuted(w) == Required \ (run[w].workdir \cup {PERSIST})

\* The steps this worker left PENDING though the match needs them.
Outstanding(w) == Required \ Registered[w]

\* _settle, once the walk reached the end.
Settle(w) ==
  /\ run[w].pc = "walk" /\ run[w].pos > Len(Order)
  /\ LET v == Seen(video, run[w].video)
         m == Seen(match, run[w].match)
     IN \/ /\ Outstanding(w) = {}
           /\ video' = Flush(video, v, "READY", v.reason)
           /\ match' = Flush(match, m, "READY", m.reason)
        \/ /\ Outstanding(w) # {}
           /\ video' = Flush(video, v, "PROCESSING", v.reason)
           /\ match' = match
  /\ run' = [run EXCEPT ![w].pc = "done"]
  /\ UNCHANGED <<upload, job, outbox, queue, reaping, lost, counters>>

\* The task returned normally, whether the match is READY or FAILED: the
\* message is acknowledged and no retry follows.
Acknowledge(w) ==
  /\ run[w].pc = "done"
  /\ run' = [run EXCEPT ![w] = IdleRun]
  /\ UNCHANGED <<video, match, upload, job, outbox, queue, reaping, lost, counters>>

\* Faulty variant: the message was acknowledged when it was taken.
AckedEarly(w) == queue

Requeued(w) == [queue EXCEPT ![run[w].msg] = @ + 1]

\* The worker process dies: task_reject_on_worker_lost puts the message back.
WorkerLost(w) ==
  /\ run[w].pc # "idle"
  /\ faults < MaxFaults /\ faults' = faults + 1
  /\ queue' = Requeued(w)
  /\ run' = [run EXCEPT ![w] = IdleRun]
  /\ UNCHANGED <<video, match, upload, job, outbox, reaping, lost, requests, uploads,
                 redeliveries>>

\* The broker takes a message that stays unacknowledged for longer than its
\* visibility timeout for lost and hands it out again, although its worker is
\* alive and goes on: acks_late holds the acknowledgement until the end.
Redelivered(w) ==
  /\ run[w].pc # "idle"
  /\ redeliveries < MaxRedeliveries /\ redeliveries' = redeliveries + 1
  /\ queue' = Requeued(w)
  /\ UNCHANGED <<video, match, upload, job, outbox, run, reaping, lost,
                 requests, faults, uploads>>

\* An error outside a step (the database, the scratch directory) leaves the
\* task: Celery's autoretry sends it again until the retries are used up.
AutoRetry(w) ==
  /\ Live(w)
  /\ faults < MaxFaults /\ faults' = faults + 1
  /\ run' = [run EXCEPT ![w] = IdleRun]
  /\ LET m == run[w].msg IN
     \/ /\ m.retries < MaxRetries
        /\ queue' = [queue EXCEPT ![[m EXCEPT !.retries = @ + 1]] = @ + 1]
        /\ UNCHANGED lost
     \/ /\ m.retries = MaxRetries
        /\ lost' = TRUE
        /\ UNCHANGED queue
  /\ UNCHANGED <<video, match, upload, job, outbox, reaping, requests, uploads,
                 redeliveries>>

-----------------------------------------------------------------------------
\* Faulty variant: the reaper looks for the wrong status.
PendingJobs == {s \in Steps : job[s].status = "PENDING"}

RunningJobs == {s \in Steps : job[s].status = "RUNNING"}

\* reap_stuck_jobs, the query: jobs RUNNING for longer than STUCK_JOB_TIMEOUT.
\* Time is abstracted: any of them may be that old, a live one too.
ReaperLoads(r) ==
  /\ reaping[r] = {}
  /\ \E stuck \in (SUBSET RunningJobs) \ {{}} : reaping' = [reaping EXCEPT ![r] = stuck]
  /\ UNCHANGED <<video, match, upload, job, outbox, queue, run, lost, counters>>

\* ... and the flush: each of them is set to PENDING by its id, with no lock and
\* no second look, whatever its row says by now.
ReaperWrites(r) ==
  /\ reaping[r] # {}
  /\ job' = [s \in Steps |-> IF s \in reaping[r]
                             THEN [job[s] EXCEPT !.status = "PENDING"] ELSE job[s]]
  /\ reaping' = [reaping EXCEPT ![r] = {}]
  /\ UNCHANGED <<video, match, upload, outbox, queue, run, lost, counters>>

ReapStuckJobs == \E r \in Reapers : ReaperLoads(r) \/ ReaperWrites(r)

-----------------------------------------------------------------------------
\* A recording has been uploaded and nothing has been asked for yet.
Init ==
  /\ video = [status |-> "UPLOADED", reason |-> FALSE]
  /\ match = [status |-> "UPLOADING", reason |-> FALSE]
  /\ upload \in Uploads
  /\ job = [s \in Steps |-> [status |-> "NONE", mark |-> NoUpload, ran |-> FALSE]]
  /\ outbox = [force \in BOOLEAN |-> 0]
  /\ queue = [m \in Message |-> 0]
  /\ run = [w \in Workers |-> IdleRun]
  /\ reaping = [r \in Reapers |-> {}]
  /\ lost = FALSE
  /\ requests = 0 /\ faults = 0 /\ uploads = 0 /\ redeliveries = 0

\* What ends the step a worker is in.
FinishStep(w) ==
  MarkSucceeded(w) \/ PersistSucceeded(w) \/ MarkSkipped(w) \/ MarkFailed(w)

\* What a worker that neither crashes nor errs does next.
WorkerStep(w) ==
  \/ StepUnavailable(w) \/ StepCached(w) \/ MarkRunning(w) \/ FinishStep(w)
  \/ FailVideo(w) \/ Settle(w) \/ Acknowledge(w)

Next ==
  \/ \E force \in BOOLEAN : \/ ProcessMatch(force) \/ EnqueueProcessing(force)
                            \/ QueueUnavailable(force)
  \/ \E u \in Uploads : CompleteUpload(u) \/ CompleteSegment(u)
  \/ \E w \in Workers : \/ \E m \in Message : StartRun(w, m)
                        \/ WorkerStep(w) \/ WorkerLost(w) \/ AutoRetry(w)
                        \/ Redelivered(w)
  \/ ReapStuckJobs

Spec == Init /\ [][Next]_vars

\* The API sends what it committed unless it fails, a worker takes messages
\* and gets through its steps (each is a finite computation), and celery beat
\* runs the reaper every five minutes, which ends what it began.  Nothing is
\* assumed of the requests, the uploads or the faults.
Fairness ==
  /\ \A force \in BOOLEAN : WF_vars(EnqueueProcessing(force))
  /\ \A w \in Workers : /\ WF_vars(\E m \in Message : StartRun(w, m))
                        /\ WF_vars(WorkerStep(w))
  /\ \A r \in Reapers : WF_vars(ReaperLoads(r)) /\ WF_vars(ReaperWrites(r))

FairSpec == Spec /\ Fairness

-----------------------------------------------------------------------------
(***************************************************************************)
(* Properties                                                              *)
(***************************************************************************)

\* Every worker can run every required step, as both worker images can.
Servable == \A w \in Workers : Required \subseteq Registered[w]

\* Someone still has to settle the match: a request about to be enqueued, a
\* message in the broker or a live run; or a request was lost.
Pending ==
  \/ lost
  \/ \E force \in BOOLEAN : outbox[force] > 0
  \/ \E m \in Message : queue[m] > 0

Owned == Pending \/ \E w \in Workers : Live(w)

\* A match is never left PROCESSING with nobody to finish it, whatever runs
\* overlap, crash or are retried, unless a request was reported lost.  Writes
\* made from a stale session copy must not swallow a later request's status.
ProcessingIsOwned ==
  Servable /\ "PROCESSING" \in {video.status, match.status} => Owned

\* Why it holds: a run whose copy already says READY would not write READY
\* again, so it must not be the only one a PROCESSING row depends on.
StatusOwned ==
  Servable =>
    /\ video.status = "PROCESSING" =>
         Pending \/ \E w \in Workers : Live(w) /\ run[w].video.status # "READY"
    /\ match.status = "PROCESSING" =>
         Pending \/ \E w \in Workers : Live(w) /\ run[w].match.status # "READY"

\* Without faults a job row says RUNNING only while some run is in that step,
\* even when two runs share the row and overwrite each other's marks.
RunningIsOwned ==
  faults = 0 => \A s \in RunningJobs :
                   \E w \in Workers : run[w].pc = "step" /\ Here(w) = s

\* A step that has run, and left its result.
Ran(s) == job[s].ran

\* "The match is only READY when every required step has actually run"
\* (_settle), across crashes, retries, redelivery, cached steps, a reaper that
\* resets what has just succeeded, and re-runs.
ReadyMeansRan ==
  "READY" \in {video.status, match.status} =>
    \A s \in Required : Ran(s)

\* The same comment once no run is under way, whoever ran what before.
ReadyAtRest ==
  (\A w \in Workers : ~Live(w)) /\ "READY" \in {video.status, match.status} =>
    \A s \in Required : Ran(s)

\* ... and its job row says so.  False of the code with a single worker and no
\* fault: a job the reaper read as RUNNING may succeed, and the match become
\* READY, before the reaper sets it to PENDING, for good (reap_stuck_jobs).
ReadyRowsSayRan ==
  "READY" \in {video.status, match.status} =>
    \A s \in Required : job[s].status \in {"SUCCEEDED", "SKIPPED"}

\* Why ReadyMeansRan holds when one worker serves the video: a live run leaves
\* the rows unfinished until it is past the last step, with every required step
\* behind it done.
RanSoFar(w) ==
  Live(w) =>
    /\ \A i \in DOMAIN Order :
         i < run[w].pos /\ Order[i] \in Required \cap Registered[w] => Ran(Order[i])
    /\ run[w].pos <= Len(Order) => "READY" \notin {video.status, match.status}

\* A match becomes READY only from steps run on the upload there is now: the
\* cache of completed steps never passes off an older upload's results.
ReadyIsCurrent ==
  [][video.status # "READY" /\ video'.status = "READY"
       => \A s \in Required : job'[s].mark = upload']_vars

\* A run that is in a step, or failing for one, is at a step of the order that
\* its process has registered.
StepInOrder ==
  \A w \in Workers : run[w].pc \in {"step", "failing"} =>
    run[w].pos <= Len(Order) /\ Here(w) \in Registered[w]

\* A match that is PROCESSING ends up otherwise, unless a request is lost or an
\* image without a required step has walked through the order and left it to
\* another worker (_settle), every required step with its job row by then.
ProcessingSettles ==
  video.status = "PROCESSING" ~>
    \/ video.status # "PROCESSING"
    \/ lost
    \/ ~Servable /\ \A s \in Required : job[s].status # "NONE"

\* A job abandoned by a dead worker does not say RUNNING for ever.
RunningEnds ==
  \A s \in Steps : job[s].status = "RUNNING" ~> job[s].status # "RUNNING"

-----------------------------------------------------------------------------
(***************************************************************************)
(* The abstract specification this one implements                          *)
(***************************************************************************)

\* Someone still has to settle the match, and is still there to do it.
Owed ==
  \/ \E force \in BOOLEAN : outbox[force] > 0
  \/ \E m \in Message : queue[m] > 0
  \/ \E w \in Workers : Live(w)

\* Required step |-> the upload its standing result was made from.
Results == [s \in Required |-> IF Ran(s) THEN job[s].mark ELSE NoUpload]

Contract == INSTANCE Processing
              WITH NoResult <- NoUpload, status <- video.status, owed <- Owed,
                   result <- Results

\* One worker process and uploads confirmed between runs: every step is a step
\* of Processing or leaves what it shows unchanged, through job rows that are
\* rerun, cached, reaped and abandoned, redelivery, retries and stale copies.
Implements == Contract!PSpec

=============================================================================
