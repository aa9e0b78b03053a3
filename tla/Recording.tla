------------------------------ MODULE Recording ------------------------------
(***************************************************************************)
(* One match's recording from kick-off to the end of its retention: the    *)
(* lifecycle endpoints, the capture agent's uploads by signed URL, the     *)
(* confirmations that become rows, the steps of a run that read the        *)
(* originals (VALIDATE and TRANSCODE), the retention purge and the         *)
(* deletion of the match.                                                  *)
(*                                                                         *)
(* The database and the object storage do not commit together, so an       *)
(* object is written or deleted in one action and the rows that speak of   *)
(* it in another.  API requests are short and taken as atomic.             *)
(***************************************************************************)
EXTENDS Integers, FiniteSets, Domain

CONSTANTS
  Segments,      \* how many segments the agent recorded
  Contents,      \* what an uploaded segment may hold, told apart by size
  None,          \* no object, no row
  UploadKeys,    \* the objects the agent asks upload URLs for
  LateUploads,   \* whether the agent uploads, or repeats a confirmation,
                 \* when the match no longer accepts a recording
  UploadsPastDeadline,  \* whether it is uploaded past its retention deadline
  RunsPastDeadline,     \* whether it is processed past it
  MaxPuts,       \* bound: uploads of an object
  MaxRequests,   \* bound: calls of POST /process
  MaxFaults      \* bound: crashes of a worker or of the purge

Indexes == 0..(Segments - 1)
MASTER  == -1  \* stands for the master's key among the segments' indexes
Footage == [Indexes -> Contents \cup {None}]
Nothing == [i \in Indexes |-> None]
Marks   == Footage \X BOOLEAN  \* fingerprints of a step

ASSUME RecordingAssumption ==
  /\ UploadKeys \subseteq Indexes \cup {MASTER}
  /\ Segments \in Nat \ {0} /\ Contents # {}
  /\ None \notin Contents \cup Footage \cup Marks
  /\ {LateUploads, UploadsPastDeadline, RunsPastDeadline} \subseteq BOOLEAN
  /\ MaxPuts \in Nat /\ MaxRequests \in Nat /\ MaxFaults \in Nat

VARIABLES
  match,     \* Match.status, or DELETED
  video,     \* the Video row
  segments,  \* index |-> what its VideoSegment row says arrived
  stored,    \* index |-> the segment object in the originals bucket
  master,    \* the master object in the originals bucket
  replay,    \* the replay object in the derived bucket
  urls,      \* the signed upload URLs that have not expired
  done,      \* step |-> the fingerprint its SUCCEEDED job records
  tasks,     \* process messages in the broker, by force
  run,       \* the worker's run and its session's copies
  purger,    \* the retention purge and what it loaded
  puts, requests, faults

rows     == <<match, video, segments>>
objects  == <<stored, master, replay>>
worker   == <<done, tasks, run>>
counters == <<puts, requests, faults>>
vars     == <<rows, objects, urls, worker, purger, counters>>

NoVideo == [status |-> "NONE", original |-> FALSE, purge |-> "none"]
VideoRow == [status : VideoStatuses, original : BOOLEAN,
             purge : {"none", "future", "due"}]

\* The fingerprint of a step: the segments as they arrived or, when there are
\* none, the master's key (which never changes).
MarkOf(segs, original) == <<segs, original /\ segs = Nothing>>

TypeOK ==
  /\ match \in MatchStatuses \cup {"DELETED"}
  /\ video \in VideoRow \cup {NoVideo}
  /\ segments \in Footage /\ stored \in Footage
  /\ master \in Footage \cup {None} /\ replay \in Footage \cup {None}
  /\ urls \subseteq Indexes \cup {MASTER}
  /\ done \in [{"VALIDATE", "TRANSCODE"} -> Marks \cup {None}]
  /\ tasks \in [BOOLEAN -> Nat]
  /\ run \in [pc : {"idle", "validate", "fetched", "joined", "transcode", "settle"},
              force : BOOLEAN, original : BOOLEAN, segments : Footage,
              scratch : Footage]
  /\ purger \in [pc : {"idle", "selected", "deleted"}, original : BOOLEAN,
                 loaded : SUBSET Indexes]
  /\ puts \in 0..MaxPuts /\ requests \in 0..MaxRequests /\ faults \in 0..MaxFaults

Received == {i \in Indexes : segments[i] # None}
Working  == run.pc # "idle" \/ \E force \in BOOLEAN : tasks[force] > 0

-----------------------------------------------------------------------------
(***************************************************************************)
(* Lifecycle                                                               *)
(***************************************************************************)

\* get_or_create_video.
VideoExists == IF video = NoVideo THEN [NoVideo EXCEPT !.status = "PENDING"] ELSE video

StartMatch ==
  /\ match \in AcceptsPlayers
  /\ match' = "RECORDING"
  /\ video' = VideoExists
  /\ UNCHANGED <<segments, objects, urls, worker, purger, counters>>

StopMatch ==
  /\ match = "RECORDING"
  /\ match' = "UPLOADING"
  /\ video' = [VideoExists EXCEPT !.status = IF @ = "PENDING" THEN "UPLOADING" ELSE @]
  /\ UNCHANGED <<segments, objects, urls, worker, purger, counters>>

-----------------------------------------------------------------------------
(***************************************************************************)
(* Uploads.  The agent's discipline bounds when it uploads and confirms;   *)
(* of the confirmations the code itself refuses only those of a match that *)
(* is gone.                                                                *)
(***************************************************************************)
UPLOADABLE == {"RECORDING", "UPLOADING"}

\* URLs live for minutes and the deadline is days away: the agent is done with
\* a recording before its retention ends.
AgentActs ==
  /\ match # "DELETED"
  /\ match \in UPLOADABLE \/ LateUploads
  /\ video.purge = "due" => UploadsPastDeadline
  /\ video.status \in {"NONE", "PENDING", "UPLOADING"} \/ video.purge # "none"

RequestUploadTarget(key) ==
  /\ match \in UPLOADABLE
  /\ video' = [VideoExists EXCEPT !.status =
                 IF @ \in {"PENDING", "UPLOADED"} THEN "UPLOADING" ELSE @]
  /\ urls' = urls \cup {key}
  /\ UNCHANGED <<match, segments, objects, worker, purger, counters>>

\* A PUT goes straight to storage: whoever holds a valid URL may repeat it.
PutSegment(i, c) ==
  /\ AgentActs /\ i \in urls
  /\ puts < MaxPuts /\ puts' = puts + 1
  /\ stored' = [stored EXCEPT ![i] = c]
  /\ UNCHANGED <<rows, master, replay, urls, worker, purger, requests, faults>>

PutMaster(c) ==
  /\ AgentActs /\ MASTER \in urls
  /\ puts < MaxPuts /\ puts' = puts + 1
  /\ master' = [i \in Indexes |-> c]
  /\ UNCHANGED <<rows, stored, replay, urls, worker, purger, requests, faults>>

UrlsExpire ==
  /\ urls # {} /\ urls' = {}
  /\ UNCHANGED <<rows, objects, worker, purger, counters>>

CompleteSegment(i) ==
  /\ AgentActs /\ stored[i] # None
  /\ video' = VideoExists
  /\ segments' = [segments EXCEPT ![i] = stored[i]]
  /\ UNCHANGED <<match, objects, urls, worker, purger, counters>>

\* Faulty variants: one reopens a match that was processed, one forgets the
\* retention deadline.
UploadedReopens(original) ==
  /\ video' = [status |-> "UPLOADED", original |-> original, purge |-> "future"]
  /\ match' = "UPLOADING"
  /\ UNCHANGED <<segments, objects, urls, worker, purger, counters>>
UploadedForEver(original) ==
  /\ video' = [video EXCEPT !.status = "UPLOADED", !.original = original]
  /\ match' = IF match = "RECORDING" THEN "UPLOADING" ELSE match
  /\ UNCHANGED <<segments, objects, urls, worker, purger, counters>>

\* The end of complete_upload: the retention deadline starts to run.
Uploaded(original) ==
  /\ video' = [status |-> "UPLOADED", original |-> original, purge |-> "future"]
  /\ match' = IF match = "RECORDING" THEN "UPLOADING" ELSE match
  /\ UNCHANGED <<segments, objects, urls, worker, purger, counters>>

\* Faulty variant: looks for gaps in what arrived, not for what is missing.
NoGapArrived == Received # {} /\ \A i \in Received : 0..i \subseteq Received

\* Every index in 0..n-1 has arrived.
AllArrived == Indexes \subseteq Received

CompleteWithSegments == AgentActs /\ AllArrived /\ Uploaded(FALSE)

CompleteWithMaster == AgentActs /\ master # None /\ Uploaded(TRUE)

-----------------------------------------------------------------------------
(***************************************************************************)
(* Processing                                                              *)
(***************************************************************************)

\* mark_processing, and the message.
ProcessMatch(force) ==
  /\ requests < MaxRequests /\ requests' = requests + 1
  /\ video.purge = "due" => RunsPastDeadline
  /\ video.status \in {"UPLOADED", "PROCESSING", "READY", "FAILED"}
  /\ video.original \/ Received # {}
  /\ video' = [video EXCEPT !.status = "PROCESSING"]
  /\ match' = "PROCESSING"
  /\ tasks' = [tasks EXCEPT ![force] = @ + 1]
  /\ UNCHANGED <<segments, objects, urls, done, run, purger, puts, faults>>

IdleRun == [pc |-> "idle", force |-> FALSE, original |-> FALSE,
            segments |-> Nothing, scratch |-> Nothing]

\* The run's session keeps the video row and its segments as loaded here.
StartRun(force) ==
  /\ run.pc = "idle" /\ tasks[force] > 0 /\ video # NoVideo
  /\ tasks' = [tasks EXCEPT ![force] = @ - 1]
  /\ video' = [video EXCEPT !.status = "PROCESSING"]
  /\ match' = "PROCESSING"
  /\ run' = [pc |-> "validate", force |-> force,
             original |-> video.original, segments |-> segments, scratch |-> Nothing]
  /\ UNCHANGED <<segments, objects, urls, done, purger, counters>>

\* LookupError on a deleted video, on every retry; and a run whose video is
\* deleted under it cannot commit again.
RunOrphaned ==
  /\ video = NoVideo
  /\ \/ run.pc # "idle" /\ run' = IdleRun /\ tasks' = tasks
     \/ \E force \in BOOLEAN : /\ tasks[force] > 0
                               /\ tasks' = [tasks EXCEPT ![force] = @ - 1]
                               /\ run' = run
  /\ UNCHANGED <<rows, objects, urls, done, purger, counters>>

RunMark == MarkOf(run.segments, run.original)

Cached(step) == ~run.force /\ done[step] = RunMark

\* The step succeeded, with the fingerprint taken before it ran.
Succeeds(step) == done' = [done EXCEPT ![step] = RunMark]

StepCached(step, here, next) ==
  /\ video # NoVideo /\ run.pc = here /\ Cached(step)
  /\ run' = [run EXCEPT !.pc = next]
  /\ UNCHANGED <<rows, objects, urls, done, tasks, purger, counters>>

\* VALIDATE on a master: it only has to be there.
ValidateMaster ==
  /\ video # NoVideo /\ run.pc = "validate" /\ ~Cached("VALIDATE")
  /\ run.original /\ master # None
  /\ Succeeds("VALIDATE")
  /\ run' = [run EXCEPT !.pc = "transcode"]
  /\ UNCHANGED <<rows, objects, urls, tasks, purger, counters>>

\* The loaded rows run from 0 without a gap and their objects are there.
Joinable ==
  {n \in 1..Segments : /\ \A i \in Indexes : run.segments[i] # None <=> i < n
                       /\ \A i \in Indexes : i < n => stored[i] # None}

\* VALIDATE on segments: download them ...
FetchSegments ==
  /\ video # NoVideo /\ run.pc = "validate" /\ ~Cached("VALIDATE") /\ ~run.original
  /\ \E n \in Joinable :
       run' = [run EXCEPT !.pc = "fetched",
                 !.scratch = [i \in Indexes |-> IF i < n THEN stored[i] ELSE None]]
  /\ done' = [done EXCEPT !["VALIDATE"] = None]
  /\ UNCHANGED <<rows, objects, urls, tasks, purger, counters>>

\* ... put the join of them under the master's key ...
JoinSegments ==
  /\ run.pc = "fetched"
  /\ master' = run.scratch
  /\ run' = [run EXCEPT !.pc = "joined"]
  /\ UNCHANGED <<rows, stored, replay, urls, done, tasks, purger, counters>>

\* ... and record original_url with the step's success.
JoinRecorded ==
  /\ video # NoVideo /\ run.pc = "joined"
  /\ Succeeds("VALIDATE")
  /\ video' = [video EXCEPT !.original = TRUE]
  /\ run' = [run EXCEPT !.pc = "transcode", !.original = TRUE]
  /\ UNCHANGED <<match, segments, objects, urls, tasks, purger, counters>>

\* TRANSCODE reads the master and writes the replay under its key.
Transcode ==
  /\ video # NoVideo /\ run.pc = "transcode" /\ ~Cached("TRANSCODE")
  /\ run.original /\ master # None
  /\ replay' = master
  /\ Succeeds("TRANSCODE")
  /\ run' = [run EXCEPT !.pc = "settle"]
  /\ UNCHANGED <<rows, stored, master, urls, tasks, purger, counters>>

StepOf == [pc \in {"validate", "fetched", "joined", "transcode"} |->
             IF pc = "transcode" THEN "TRANSCODE" ELSE "VALIDATE"]

\* A step that is executed may fail, and must when what it reads is not there.
StepFails ==
  /\ video # NoVideo /\ run.pc \in DOMAIN StepOf
  /\ run.pc \in {"fetched", "joined"} \/ ~Cached(StepOf[run.pc])
  /\ done' = [done EXCEPT ![StepOf[run.pc]] = None]
  /\ video' = [video EXCEPT !.status = "FAILED"]
  /\ match' = "FAILED"
  /\ run' = IdleRun
  /\ UNCHANGED <<segments, objects, urls, tasks, purger, counters>>

\* The remaining steps succeed and the match is settled.
RunSettles ==
  /\ video # NoVideo /\ run.pc = "settle"
  /\ video' = [video EXCEPT !.status = "READY"]
  /\ match' = "READY"
  /\ run' = IdleRun
  /\ UNCHANGED <<segments, objects, urls, done, tasks, purger, counters>>

\* The worker dies and the message comes back; a step it was executing has
\* its job left RUNNING.
RunLost ==
  /\ run.pc # "idle"
  /\ faults < MaxFaults /\ faults' = faults + 1
  /\ tasks' = [tasks EXCEPT ![run.force] = @ + 1]
  /\ run' = IdleRun
  /\ \/ UNCHANGED done
     \/ /\ run.pc \in DOMAIN StepOf /\ ~Cached(StepOf[run.pc])
        /\ done' = [done EXCEPT ![StepOf[run.pc]] = None]
  /\ UNCHANGED <<rows, objects, urls, purger, puts, requests>>

-----------------------------------------------------------------------------
(***************************************************************************)
(* Retention and deletion                                                  *)
(***************************************************************************)
DeadlinePasses ==
  /\ video.purge = "future" /\ (Working => RunsPastDeadline)
  /\ video' = [video EXCEPT !.purge = "due"]
  /\ UNCHANGED <<match, segments, objects, urls, worker, purger, counters>>

\* Faulty variant: forgets the recordings that were never joined.
HasMaster == video.original

HasOriginals == video.original \/ Received # {}

IdlePurge == [pc |-> "idle", original |-> FALSE, loaded |-> {}]

\* purge_expired_videos loads the row; of the segments, those it had to look at.
PurgeSelects ==
  /\ purger.pc = "idle" /\ video.purge = "due" /\ HasOriginals
  /\ purger' = [pc |-> "selected", original |-> video.original, loaded |-> Received]
  /\ UNCHANGED <<rows, objects, urls, worker, counters>>

\* delete_prefix empties the match's part of the originals bucket; the segments
\* are loaded only now if original_url was set.
PurgeDeletes ==
  /\ purger.pc = "selected"
  /\ stored' = Nothing /\ master' = None
  /\ purger' = [purger EXCEPT !.pc = "deleted",
                              !.loaded = IF purger.original THEN Received ELSE @]
  /\ UNCHANGED <<rows, replay, urls, worker, counters>>

\* Faulty variant: the objects are gone and the rows are kept.
KeepsRows(loaded) == segments

WithoutRows(loaded) == [i \in Indexes |-> IF i \in loaded THEN None ELSE segments[i]]

\* The commit: only columns that differ from the loaded row are written.  On a
\* deleted video it fails and writes nothing.
PurgeCommits ==
  /\ purger.pc = "deleted"
  /\ purger' = IdlePurge
  /\ IF video = NoVideo THEN UNCHANGED <<video, segments>>
     ELSE /\ video' = [video EXCEPT !.purge = "none",
                                    !.original = IF purger.original THEN FALSE ELSE @]
          /\ segments' = WithoutRows(purger.loaded)
  /\ UNCHANGED <<match, objects, urls, worker, counters>>

PurgeLost ==
  /\ purger.pc # "idle"
  /\ faults < MaxFaults /\ faults' = faults + 1
  /\ purger' = IdlePurge
  /\ UNCHANGED <<rows, objects, urls, worker, puts, requests>>

\* delete_match: the rows cascade, the storage is left alone.
DeleteMatch ==
  /\ match # "DELETED"
  /\ match' = "DELETED" /\ video' = NoVideo /\ segments' = Nothing
  /\ done' = [s \in DOMAIN done |-> None]
  /\ UNCHANGED <<objects, urls, tasks, run, purger, counters>>

-----------------------------------------------------------------------------
Init ==
  /\ match = "SCHEDULED" /\ video = NoVideo /\ segments = Nothing
  /\ stored = Nothing /\ master = None /\ replay = None
  /\ urls = {}
  /\ done = [s \in {"VALIDATE", "TRANSCODE"} |-> None]
  /\ tasks = [force \in BOOLEAN |-> 0]
  /\ run = IdleRun /\ purger = IdlePurge
  /\ puts = 0 /\ requests = 0 /\ faults = 0

Upload ==
  \/ \E key \in UploadKeys : RequestUploadTarget(key)
  \/ \E c \in Contents : PutMaster(c) \/ \E i \in Indexes : PutSegment(i, c)
  \/ \E i \in Indexes : CompleteSegment(i)
  \/ CompleteWithSegments \/ CompleteWithMaster \/ UrlsExpire

WorkerNext ==
  \/ \E force \in BOOLEAN : StartRun(force)
  \/ RunOrphaned
  \/ StepCached("VALIDATE", "validate", "transcode")
  \/ StepCached("TRANSCODE", "transcode", "settle")
  \/ ValidateMaster \/ FetchSegments \/ JoinSegments \/ JoinRecorded \/ Transcode
  \/ StepFails \/ RunSettles

PurgeNext == PurgeSelects \/ PurgeDeletes \/ PurgeCommits

Next ==
  \/ StartMatch \/ StopMatch \/ Upload \/ DeleteMatch
  \/ \E force \in BOOLEAN : ProcessMatch(force)
  \/ WorkerNext \/ RunLost
  \/ DeadlinePasses \/ PurgeNext \/ PurgeLost

Spec == Init /\ [][Next]_vars

\* Time passes, a worker gets through its run and beat starts the purge every
\* hour; nothing is assumed of the agent, the staff or the faults.
FairSpec ==
  Spec /\ WF_vars(DeadlinePasses) /\ WF_vars(WorkerNext) /\ WF_vars(PurgeNext)

-----------------------------------------------------------------------------
(***************************************************************************)
(* Properties                                                              *)
(***************************************************************************)
NoOriginals == stored = Nothing /\ master = None

\* A row never speaks of an object that is gone, whatever the agent repeats and
\* wherever a run or the purge dies, unless the next purge will remove it.
RowsHaveObjects ==
  \/ video.original /\ master = None
  \/ \E i \in Received : stored[i] = None
  => video.purge = "due"

\* "A gap means the match is still uploading, not ready" (complete_upload): the
\* replay of a READY match shows every segment the agent recorded.
ReadyIsWhole ==
  video.status = "READY" => replay # None /\ \A i \in Indexes : replay[i] # None

\* While a match still accepts uploads, or has not begun, no worker has or will
\* get a task that reads them, even if confirmations are repeated late.
QuietWhileUploading ==
  match \in AcceptsPlayers \cup UPLOADABLE => ~Working

\* "Each video carries a purge_after deadline" (docs/privacy.md): a recording
\* confirmed complete is never kept, joined or in segments, without one.
DeadlineIsSet ==
  /\ video.status \in {"UPLOADED", "PROCESSING", "READY", "FAILED"}
  /\ (video.original /\ master # None) \/ \E i \in Received : stored[i] # None
  => video.purge # "none"

\* "VALIDATE guarantees original_url is set" (master_source).  No run has it
\* among its properties: with SegmentsOnly and LateUploads it is false, since a
\* repeated complete_upload resets original_url under a cached VALIDATE.
MasterIsSet == run.pc = "transcode" => run.original

\* "Deletes every object under both bucket prefixes" (docs/privacy.md).
DeletionRemovesFootage ==
  match = "DELETED" => NoOriginals /\ replay = None

\* "An hourly job deletes originals past that deadline" (docs/privacy.md), although
\* the purge may die between the storage and the database.
DueIsPurged == video.purge = "due" ~> NoOriginals \/ match = "DELETED"

=============================================================================
