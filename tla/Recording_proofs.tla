-------------------------- MODULE Recording_proofs --------------------------
(***************************************************************************)
(* Proofs about Recording: rows and objects, retention deadlines and the   *)
(* wholeness of the replay, for any number of segments, uploads, runs and  *)
(* crashes, of an agent that may upload late but is done when the          *)
(* retention of the recording ends.  A run may still be at work then: the  *)
(* replay is whole even so, and rows, objects and deadlines agree as long  *)
(* as it does not overlap the purge.                                       *)
(***************************************************************************)
EXTENDS Recording, TLAPS

Processable == {"UPLOADED", "PROCESSING", "READY", "FAILED"}
WholeFootage == [Indexes -> Contents]

RunRow == [pc : {"idle", "validate", "fetched", "joined", "transcode", "settle"},
           force : BOOLEAN, original : BOOLEAN, segments : Footage, scratch : Footage]
PurgeRow == [pc : {"idle", "selected", "deleted"}, original : BOOLEAN,
             loaded : SUBSET Indexes]

Typed ==
  /\ match \in MatchStatuses \cup {"DELETED"}
  /\ video \in VideoRow \cup {NoVideo}
  /\ segments \in Footage /\ stored \in Footage
  /\ done \in [{"VALIDATE", "TRANSCODE"} -> Marks \cup {None}]
  /\ tasks \in [BOOLEAN -> Nat]
  /\ run \in RunRow /\ purger \in PurgeRow

\* A deleted match has no rows.
GoneIsGone == match = "DELETED" => video = NoVideo /\ segments = Nothing

\* Workers act on a confirmed recording.
BusyOnConfirmed ==
  Working /\ match # "DELETED" => video.status \in Processable

\* What the purge does, it does after the deadline, and it loaded every row.
PurgeAfterDeadline ==
  purger.pc # "idle" /\ match # "DELETED" =>
    /\ video.purge = "due"
    /\ ~purger.original \/ purger.pc = "deleted" => purger.loaded = Received

\* A confirmed recording has a master, all its segments, or was purged.
ConfirmedIsComplete ==
  video.status \in Processable =>
    /\ video.purge = "none" => Received = {}
    /\ video.purge # "none" /\ ~video.original => AllArrived

\* A run joins every segment, or none as they were purged before it began.
JoinsAll ==
  /\ run.pc = "validate" /\ ~run.original =>
       run.segments = Nothing \/ \A i \in Indexes : run.segments[i] # None
  /\ run.pc \in {"fetched", "joined"} => run.scratch \in WholeFootage

\* Masters are whole and a replay is one of them.
ReplaysAreWhole ==
  /\ master \in WholeFootage \cup {None} /\ replay \in WholeFootage \cup {None}
  /\ run.pc = "settle" \/ video.status = "READY" \/ done["TRANSCODE"] \in Marks =>
       replay # None

\* What holds however the purge and the runs interleave.
RecordingInv ==
  /\ Typed /\ GoneIsGone /\ QuietWhileUploading /\ BusyOnConfirmed
  /\ PurgeAfterDeadline /\ ConfirmedIsComplete /\ JoinsAll /\ ReplaysAreWhole

\* The purge of a match that still exists and a run of it do not overlap.
PurgedAlone == match # "DELETED" /\ purger.pc # "idle" => run.pc = "idle"

RowsFound ==
  video.purge # "due" => /\ video.original => master # None
                         /\ \A i \in Received : stored[i] # None

\* What the purge loaded is still so when it commits.
PurgeIsCurrent ==
  purger.pc # "idle" /\ match # "DELETED" => purger.original = video.original

PurgedIsEmpty ==
  video.status \in Processable /\ video.purge = "none" => ~video.original

\* A run only joins what was not purged, and its join stays until it is recorded.
JoinsWhatIsKept ==
  match # "DELETED" =>
    /\ \/ run.pc \in {"fetched", "joined"}
       \/ run.pc = "validate" /\ ~run.original /\ run.segments # Nothing
       => video.purge # "none"
    /\ run.pc = "joined" => master # None

\* What holds besides as long as they do not overlap.
SeparateInv == RowsFound /\ PurgeIsCurrent /\ PurgedIsEmpty /\ JoinsWhatIsKept

\* What workers do, they do before the deadline.
BusyBeforeDeadline == Working /\ match # "DELETED" => video.purge = "future"

LEMMA NoneIsNothing ==
  /\ None \notin Contents /\ None \notin Footage /\ None \notin Marks
  /\ Nothing \in Footage /\ Indexes # {}
<1>1. 0 \in Indexes
  BY RecordingAssumption DEF Indexes
<1> QED BY <1>1, RecordingAssumption DEF Nothing, Footage

LEMMA Initially == Init => RecordingInv
  BY NoneIsNothing
  DEF Init, RecordingInv, Typed, GoneIsGone, QuietWhileUploading, BusyOnConfirmed,
      PurgeAfterDeadline, ConfirmedIsComplete, JoinsAll, ReplaysAreWhole,
      NoVideo, IdleRun, IdlePurge, RunRow, PurgeRow, Working, Received, Processable,
      MatchStatuses, AcceptsPlayers, UPLOADABLE, Nothing

-----------------------------------------------------------------------------
\* What most actions leave alone.
LEMMA LifecycleKeeps ==
  ASSUME RecordingInv, StartMatch \/ StopMatch PROVE RecordingInv'
<1> USE DEF RecordingInv
<1>1. /\ match \in {"SCHEDULED", "CHECK_IN", "RECORDING"}
      /\ match' \in {"RECORDING", "UPLOADING"}
      /\ UNCHANGED <<segments, objects, worker, purger>>
  BY DEF StartMatch, StopMatch, AcceptsPlayers
<1>2. /\ video' \in VideoRow
      /\ video'.original = video.original /\ video'.purge = video.purge
      /\ video'.status = video.status \/ video'.status \in {"PENDING", "UPLOADING"}
  BY DEF StartMatch, StopMatch, VideoExists, NoVideo, VideoRow, Typed, VideoStatuses
<1>3. UNCHANGED <<stored, master, replay, done, tasks, run>> /\ ~Working
  BY <1>1 DEF objects, worker, QuietWhileUploading, AcceptsPlayers, UPLOADABLE
<1>4. ~Working' /\ Received' = Received /\ (AllArrived <=> AllArrived')
  BY <1>1, <1>3 DEF Working, Received, AllArrived
<1>5. Typed'
  BY <1>1, <1>2, <1>3 DEF Typed, MatchStatuses
<1>6. GoneIsGone' /\ QuietWhileUploading' /\ BusyOnConfirmed'
  BY <1>1, <1>4 DEF GoneIsGone, QuietWhileUploading, BusyOnConfirmed
<1>7. PurgeAfterDeadline' /\ ConfirmedIsComplete'
  BY <1>1, <1>2, <1>3, <1>4
  DEF PurgeAfterDeadline, ConfirmedIsComplete, Processable
<1>8. JoinsAll' /\ ReplaysAreWhole'
  BY <1>1, <1>2, <1>3 DEF JoinsAll, ReplaysAreWhole
<1> QED BY <1>5, <1>6, <1>7, <1>8

LEMMA TargetKeeps ==
  ASSUME RecordingInv, NEW key \in UploadKeys, RequestUploadTarget(key)
  PROVE  RecordingInv'
<1> USE DEF RecordingInv
<1>1. /\ match \in UPLOADABLE /\ match' = match
      /\ UNCHANGED <<segments, objects, worker, purger>>
  BY DEF RequestUploadTarget
<1>2. /\ video' \in VideoRow
      /\ video'.original = video.original /\ video'.purge = video.purge
      /\ video'.status = video.status \/ video'.status = "UPLOADING"
  BY DEF RequestUploadTarget, VideoExists, NoVideo, VideoRow, Typed, VideoStatuses
<1>3. UNCHANGED <<stored, master, replay, done, tasks, run>> /\ ~Working
  BY <1>1 DEF objects, worker, QuietWhileUploading
<1>4. ~Working' /\ Received' = Received /\ (AllArrived <=> AllArrived')
  BY <1>1, <1>3 DEF Working, Received, AllArrived
<1>5. Typed'
  BY <1>1, <1>2, <1>3 DEF Typed
<1>6. GoneIsGone' /\ QuietWhileUploading' /\ BusyOnConfirmed'
  BY <1>1, <1>4 DEF GoneIsGone, QuietWhileUploading, BusyOnConfirmed, UPLOADABLE
<1>7. PurgeAfterDeadline' /\ ConfirmedIsComplete'
  BY <1>1, <1>2, <1>3, <1>4
  DEF PurgeAfterDeadline, ConfirmedIsComplete, Processable
<1>8. JoinsAll' /\ ReplaysAreWhole'
  BY <1>1, <1>2, <1>3 DEF JoinsAll, ReplaysAreWhole
<1> QED BY <1>5, <1>6, <1>7, <1>8

\* An upload only adds objects, and the master it puts is whole.
LEMMA PutKeeps ==
  ASSUME RecordingInv, NEW c \in Contents,
         PutMaster(c) \/ \E i \in Indexes : PutSegment(i, c)
  PROVE  RecordingInv'
<1> USE DEF RecordingInv
<1>1. UNCHANGED <<rows, worker, purger, replay>>
  BY DEF PutMaster, PutSegment
<1>2. UNCHANGED <<match, video, segments, done, tasks, run, purger, replay>>
  BY <1>1 DEF rows, worker
<1>3. /\ stored' \in Footage
      /\ \A i \in Indexes : stored[i] # None => stored'[i] # None
      /\ master' = master \/ (master' \in WholeFootage /\ master' # None)
  <2>1. CASE PutMaster(c)
    <3>1. master' = [i \in Indexes |-> c] /\ stored' = stored
      BY <2>1 DEF PutMaster
    <3>2. master' \in WholeFootage /\ master' \in Footage
      BY <3>1 DEF WholeFootage, Footage
    <3> QED BY <3>1, <3>2, NoneIsNothing DEF Typed
  <2>2. ASSUME NEW i \in Indexes, PutSegment(i, c)
        PROVE  stored' = [stored EXCEPT ![i] = c] /\ master' = master
    BY <2>2 DEF PutSegment
  <2> QED BY <2>1, <2>2, NoneIsNothing DEF Typed, Footage
<1>4. /\ Working' = Working /\ Received' = Received /\ AllArrived' = AllArrived
      /\ Received \subseteq Indexes
  BY <1>2 DEF Working, Received, AllArrived
<1>5. Typed'
  BY <1>2, <1>3 DEF Typed
<1>6. GoneIsGone' /\ QuietWhileUploading' /\ BusyOnConfirmed' /\ PurgeAfterDeadline'
      /\ ConfirmedIsComplete'
  BY <1>2, <1>4
  DEF GoneIsGone, QuietWhileUploading, BusyOnConfirmed, PurgeAfterDeadline,
      ConfirmedIsComplete
<1>7. JoinsAll' /\ ReplaysAreWhole'
  BY <1>2, <1>3 DEF JoinsAll, ReplaysAreWhole
<1> QED BY <1>5, <1>6, <1>7

LEMMA ConfirmKeeps ==
  ASSUME RecordingInv, ~UploadsPastDeadline, NEW i \in Indexes, CompleteSegment(i)
  PROVE  RecordingInv'
<1> USE DEF RecordingInv
<1>1. /\ match # "DELETED" /\ match' = match
      /\ video.purge # "due"
      /\ video.status \in {"NONE", "PENDING", "UPLOADING"} \/ video.purge # "none"
      /\ stored[i] # None
      /\ segments' = [segments EXCEPT ![i] = stored[i]]
      /\ UNCHANGED <<objects, worker, purger>>
  BY DEF CompleteSegment, AgentActs
<1>2. /\ video' \in VideoRow
      /\ video'.original = video.original /\ video'.purge = video.purge
      /\ video'.status = video.status \/ video'.status = "PENDING"
      /\ video # NoVideo => video' = video
  BY DEF CompleteSegment, VideoExists, NoVideo, VideoRow, Typed, VideoStatuses
<1>3. UNCHANGED <<stored, master, replay, done, tasks, run>>
  BY <1>1 DEF objects, worker
<1>4. Working' = Working
  BY <1>3 DEF Working
<1>5. segments' \in Footage /\ Received' = Received \cup {i} /\ Received \subseteq Indexes
  BY <1>1 DEF Typed, Footage, Received
<1>6. AllArrived => AllArrived'
  BY <1>5 DEF AllArrived
<1>7. Typed'
  BY <1>1, <1>2, <1>3, <1>5 DEF Typed
<1>8. GoneIsGone' /\ QuietWhileUploading'
  BY <1>1, <1>4 DEF GoneIsGone, QuietWhileUploading
<1>9. BusyOnConfirmed'
  <2>1. Working => video # NoVideo
    BY <1>1 DEF BusyOnConfirmed, Processable, NoVideo
  <2> QED BY <1>1, <1>2, <1>4, <2>1 DEF BusyOnConfirmed
<1>10. PurgeAfterDeadline' /\ ConfirmedIsComplete'
  <2>1. purger.pc = "idle"
    BY <1>1 DEF PurgeAfterDeadline, Typed, PurgeRow
  <2>2. PurgeAfterDeadline'
    BY <1>1, <2>1 DEF PurgeAfterDeadline
  <2>3. ConfirmedIsComplete'
    BY <1>1, <1>2, <1>6 DEF ConfirmedIsComplete, Processable
  <2> QED BY <2>2, <2>3
<1>11. JoinsAll' /\ ReplaysAreWhole'
  BY <1>1, <1>2, <1>3 DEF JoinsAll, ReplaysAreWhole
<1> QED BY <1>7, <1>8, <1>9, <1>10, <1>11

LEMMA CompleteKeeps ==
  ASSUME RecordingInv, ~UploadsPastDeadline, CompleteWithSegments \/ CompleteWithMaster
  PROVE  RecordingInv'
<1> USE DEF RecordingInv
<1>1. PICK original \in BOOLEAN :
        /\ Uploaded(original)
        /\ original => master # None
        /\ ~original => AllArrived
  BY DEF CompleteWithSegments, CompleteWithMaster
<1>2. match # "DELETED" /\ video.purge # "due"
  BY DEF CompleteWithSegments, CompleteWithMaster, AgentActs
<1>3. /\ video' = [status |-> "UPLOADED", original |-> original, purge |-> "future"]
      /\ match' = IF match = "RECORDING" THEN "UPLOADING" ELSE match
      /\ UNCHANGED <<segments, stored, master, replay, done, tasks, run, purger>>
  BY <1>1 DEF Uploaded, objects, worker
<1>4. video' \in VideoRow
  BY <1>3 DEF VideoRow, VideoStatuses
<1>5. Working' = Working /\ Received' = Received /\ (AllArrived <=> AllArrived')
  BY <1>3 DEF Working, Received, AllArrived
<1>6. Typed'
  BY <1>3, <1>4 DEF Typed, MatchStatuses
<1>7. GoneIsGone' /\ QuietWhileUploading' /\ BusyOnConfirmed'
  BY <1>2, <1>3, <1>5
  DEF GoneIsGone, QuietWhileUploading, BusyOnConfirmed, UPLOADABLE, AcceptsPlayers,
      Processable
<1>8. purger.pc = "idle"
  BY <1>2 DEF PurgeAfterDeadline
<1>9. PurgeAfterDeadline' /\ ConfirmedIsComplete'
  BY <1>1, <1>2, <1>3, <1>5, <1>8 DEF PurgeAfterDeadline, ConfirmedIsComplete
<1>10. JoinsAll' /\ ReplaysAreWhole'
  BY <1>2, <1>3 DEF JoinsAll, ReplaysAreWhole
<1> QED BY <1>6, <1>7, <1>9, <1>10

\* What changes no row, object, run or purge.
LEMMA OthersKeep ==
  ASSUME RecordingInv, UNCHANGED <<rows, objects, worker, purger>>
  PROVE  RecordingInv'
  BY DEF rows, objects, worker, RecordingInv, Typed, GoneIsGone, QuietWhileUploading,
         BusyOnConfirmed, PurgeAfterDeadline, ConfirmedIsComplete, JoinsAll,
         ReplaysAreWhole, Working, Received, AllArrived

-----------------------------------------------------------------------------
LEMMA ProcessKeeps ==
  ASSUME RecordingInv, NEW force \in BOOLEAN, ProcessMatch(force)
  PROVE  RecordingInv'
<1> USE DEF RecordingInv
<1>1. /\ video.status \in Processable
      /\ video' = [video EXCEPT !.status = "PROCESSING"]
      /\ match' = "PROCESSING"
      /\ tasks' = [tasks EXCEPT ![force] = tasks[force] + 1]
      /\ UNCHANGED <<segments, stored, master, replay, done, run, purger>>
  BY DEF ProcessMatch, objects, Processable
<1>2. video \in VideoRow
  BY <1>1 DEF Typed, NoVideo, Processable
<1>3. match # "DELETED"
  BY <1>1 DEF GoneIsGone, NoVideo, Processable
<1>4. /\ video' \in VideoRow /\ video'.status = "PROCESSING"
      /\ video'.original = video.original /\ video'.purge = video.purge
  BY <1>1, <1>2, <1>3 DEF VideoRow, VideoStatuses
<1>5. Received' = Received /\ (AllArrived <=> AllArrived')
  BY <1>1 DEF Received, AllArrived
<1>6. Typed'
  BY <1>1, <1>4 DEF Typed, MatchStatuses
<1>7. GoneIsGone' /\ QuietWhileUploading' /\ BusyOnConfirmed'
  BY <1>1, <1>4
  DEF GoneIsGone, QuietWhileUploading, BusyOnConfirmed, UPLOADABLE, AcceptsPlayers,
      Processable
<1>8. PurgeAfterDeadline' /\ ConfirmedIsComplete'
  BY <1>1, <1>3, <1>4, <1>5 DEF PurgeAfterDeadline, ConfirmedIsComplete
<1>9. JoinsAll' /\ ReplaysAreWhole'
  BY <1>1, <1>3, <1>4 DEF JoinsAll, ReplaysAreWhole
<1> QED BY <1>6, <1>7, <1>8, <1>9

LEMMA StartKeeps ==
  ASSUME RecordingInv, NEW force \in BOOLEAN, StartRun(force) PROVE RecordingInv'
<1> USE DEF RecordingInv
<1>1. /\ run.pc = "idle" /\ tasks[force] > 0 /\ video # NoVideo
      /\ tasks' = [tasks EXCEPT ![force] = tasks[force] - 1]
      /\ video' = [video EXCEPT !.status = "PROCESSING"]
      /\ match' = "PROCESSING"
      /\ run' = [pc |-> "validate", force |-> force, original |-> video.original,
                 segments |-> segments, scratch |-> Nothing]
      /\ UNCHANGED <<segments, stored, master, replay, done, purger>>
  BY DEF StartRun, objects
<1>2. Working /\ match # "DELETED" /\ video \in VideoRow
  BY <1>1 DEF Working, GoneIsGone, Typed
<1>3. video.status \in Processable
  BY <1>2 DEF BusyOnConfirmed
<1>4. /\ video' \in VideoRow /\ video'.status = "PROCESSING"
      /\ video'.original = video.original /\ video'.purge = video.purge
  BY <1>1, <1>2, <1>3 DEF VideoRow, VideoStatuses
<1>5. Received' = Received /\ (AllArrived <=> AllArrived')
  BY <1>1 DEF Received, AllArrived
<1>6. Typed'
  <2>1. run' \in RunRow
    BY <1>1, <1>2, NoneIsNothing DEF RunRow, VideoRow, Typed
  <2>2. tasks' \in [BOOLEAN -> Nat]
    BY <1>1 DEF Typed
  <2> QED BY <1>1, <1>4, <2>1, <2>2 DEF Typed, MatchStatuses
<1>7. GoneIsGone' /\ QuietWhileUploading' /\ BusyOnConfirmed'
  BY <1>1, <1>4
  DEF GoneIsGone, QuietWhileUploading, BusyOnConfirmed, UPLOADABLE, AcceptsPlayers,
      Processable
<1>8. PurgeAfterDeadline' /\ ConfirmedIsComplete'
  BY <1>1, <1>2, <1>3, <1>4, <1>5 DEF PurgeAfterDeadline, ConfirmedIsComplete
<1>9. JoinsAll'
  <2>1. ~video.original => segments = Nothing \/ \A i \in Indexes : segments[i] # None
    <3>1. Received = {} => segments = Nothing
      BY DEF Received, Nothing, Typed, Footage
    <3>2. AllArrived => \A i \in Indexes : segments[i] # None
      BY DEF AllArrived, Received
    <3> QED BY <1>3, <3>1, <3>2 DEF ConfirmedIsComplete
  <2> QED BY <1>1, <2>1 DEF JoinsAll
<1>10. ReplaysAreWhole'
  BY <1>1, <1>4 DEF ReplaysAreWhole
<1> QED BY <1>6, <1>7, <1>8, <1>9, <1>10

\* Losing work, or undoing a success, disturbs nothing.
LEMMA LessWorkKeeps ==
  ASSUME RecordingInv,
         UNCHANGED <<match, video, segments, stored, master, replay, purger>>,
         Working' => Working,
         run' = run \/ run' = IdleRun,
         done' \in [{"VALIDATE", "TRANSCODE"} -> Marks \cup {None}],
         done'["TRANSCODE"] \in Marks => done["TRANSCODE"] \in Marks,
         tasks' \in [BOOLEAN -> Nat]
  PROVE  RecordingInv'
<1> USE DEF RecordingInv
<1>1. Received' = Received /\ (AllArrived <=> AllArrived')
  BY DEF Received, AllArrived
<1>2. IdleRun \in RunRow /\ IdleRun.pc = "idle"
  BY NoneIsNothing DEF IdleRun, RunRow
<1>3. Typed' /\ GoneIsGone'
  BY <1>2 DEF Typed, GoneIsGone
<1>4. QuietWhileUploading' /\ BusyOnConfirmed'
  BY DEF QuietWhileUploading, BusyOnConfirmed
<1>5. PurgeAfterDeadline' /\ ConfirmedIsComplete'
  BY <1>1 DEF PurgeAfterDeadline, ConfirmedIsComplete
<1>6. JoinsAll' /\ ReplaysAreWhole'
  BY <1>2 DEF JoinsAll, ReplaysAreWhole
<1> QED BY <1>3, <1>4, <1>5, <1>6

LEMMA OrphanKeeps ==
  ASSUME RecordingInv, RunOrphaned PROVE RecordingInv'
<1> USE DEF RecordingInv
<1>1. UNCHANGED <<match, video, segments, stored, master, replay, done, purger>>
  BY DEF RunOrphaned, rows, objects
<1>2. /\ tasks' \in [BOOLEAN -> Nat]
      /\ \A force \in BOOLEAN : tasks'[force] <= tasks[force]
      /\ \/ run.pc # "idle" /\ run' = IdleRun /\ tasks' = tasks
         \/ run' = run
  BY DEF RunOrphaned, Typed
<1>3. \A force \in BOOLEAN : tasks'[force] > 0 => tasks[force] > 0
  BY <1>2 DEF Typed
<1>4. Working' => Working
  BY <1>2, <1>3 DEF Working
<1> QED BY <1>1, <1>2, <1>4, LessWorkKeeps DEF Typed

LEMMA LostKeeps ==
  ASSUME RecordingInv, RunLost PROVE RecordingInv'
<1> USE DEF RecordingInv
<1>1. UNCHANGED <<match, video, segments, stored, master, replay, purger>>
  BY DEF RunLost, rows, objects
<1>2. /\ Working /\ run' = IdleRun
      /\ tasks' = [tasks EXCEPT ![run.force] = tasks[run.force] + 1]
  BY DEF RunLost, Working
<1>3. tasks' \in [BOOLEAN -> Nat]
  BY <1>2 DEF Typed, RunRow
<1>4. \/ done' = done
      \/ \E s \in {"VALIDATE", "TRANSCODE"} : done' = [done EXCEPT ![s] = None]
  BY DEF RunLost, StepOf
<1>5. /\ done' \in [{"VALIDATE", "TRANSCODE"} -> Marks \cup {None}]
      /\ done'["TRANSCODE"] \in Marks => done["TRANSCODE"] \in Marks
  BY <1>4, NoneIsNothing DEF Typed
<1> QED BY <1>1, <1>2, <1>3, <1>5, LessWorkKeeps

\* A run of a match that still exists works on a confirmed recording.
LEMMA MidRun ==
  ASSUME RecordingInv, run.pc # "idle"
  PROVE  /\ Working /\ RunMark \in Marks
         /\ match \notin AcceptsPlayers \cup UPLOADABLE
         /\ video # NoVideo => /\ match # "DELETED" /\ video \in VideoRow
                               /\ video.status \in Processable
<1> USE DEF RecordingInv
<1>1. Working /\ match \notin AcceptsPlayers \cup UPLOADABLE
  BY DEF Working, QuietWhileUploading
<1>2. RunMark \in Marks
  BY DEF RunMark, MarkOf, Marks, Typed, RunRow
<1>3. ASSUME video # NoVideo
      PROVE  /\ match # "DELETED" /\ video \in VideoRow
             /\ video.status \in Processable
  BY <1>1, <1>3 DEF GoneIsGone, BusyOnConfirmed, Typed
<1> QED BY <1>1, <1>2, <1>3

\* A run goes on, and only its own state and its success change.
LEMMA RunGoesOn ==
  ASSUME RecordingInv, run.pc # "idle",
         UNCHANGED <<match, video, segments, stored, tasks, purger>>,
         run' \in RunRow, run'.pc # "idle", JoinsAll', ReplaysAreWhole',
         done' \in [{"VALIDATE", "TRANSCODE"} -> Marks \cup {None}]
  PROVE  RecordingInv'
<1> USE DEF RecordingInv
<1>1. /\ Received' = Received /\ (AllArrived <=> AllArrived')
      /\ Working' /\ Working
  BY DEF Received, AllArrived, Working
<1>2. Typed' /\ GoneIsGone'
  BY DEF Typed, GoneIsGone
<1>3. QuietWhileUploading' /\ BusyOnConfirmed'
  BY <1>1 DEF QuietWhileUploading, BusyOnConfirmed
<1>4. PurgeAfterDeadline' /\ ConfirmedIsComplete'
  BY <1>1 DEF PurgeAfterDeadline, ConfirmedIsComplete
<1> QED BY <1>2, <1>3, <1>4

LEMMA CachedKeeps ==
  ASSUME RecordingInv,
         \/ StepCached("VALIDATE", "validate", "transcode")
         \/ StepCached("TRANSCODE", "transcode", "settle")
  PROVE  RecordingInv'
<1> USE DEF RecordingInv
<1>1. PICK next \in {"transcode", "settle"} :
        /\ run.pc # "idle"
        /\ run' = [run EXCEPT !.pc = next]
        /\ next = "settle" => done["TRANSCODE"] = RunMark
        /\ UNCHANGED <<match, video, segments, stored, tasks, purger, done, master, replay>>
  BY DEF StepCached, rows, objects, Cached
<1>2. run' \in RunRow /\ run'.pc = next
  BY <1>1 DEF Typed, RunRow
<1>3. JoinsAll'
  BY <1>2 DEF JoinsAll
<1>4. ReplaysAreWhole'
  BY <1>1, <1>2, MidRun DEF ReplaysAreWhole
<1> QED BY <1>1, <1>2, <1>3, <1>4, RunGoesOn DEF Typed

LEMMA ValidateKeeps ==
  ASSUME RecordingInv, ValidateMaster PROVE RecordingInv'
<1> USE DEF RecordingInv
<1>1. /\ run.pc # "idle"
      /\ run' = [run EXCEPT !.pc = "transcode"]
      /\ done' = [done EXCEPT !["VALIDATE"] = RunMark]
      /\ UNCHANGED <<match, video, segments, stored, tasks, purger, master, replay>>
  BY DEF ValidateMaster, rows, objects, Succeeds
<1>2. run' \in RunRow /\ run'.pc = "transcode"
  BY <1>1 DEF Typed, RunRow
<1>3. /\ done' \in [{"VALIDATE", "TRANSCODE"} -> Marks \cup {None}]
      /\ done'["TRANSCODE"] = done["TRANSCODE"]
  BY <1>1, MidRun DEF Typed
<1>4. JoinsAll' /\ ReplaysAreWhole'
  BY <1>1, <1>2, <1>3 DEF JoinsAll, ReplaysAreWhole
<1> QED BY <1>1, <1>2, <1>3, <1>4, RunGoesOn

LEMMA FetchKeeps ==
  ASSUME RecordingInv, FetchSegments PROVE RecordingInv'
<1> USE DEF RecordingInv
<1>1. PICK n \in Joinable :
        run' = [run EXCEPT !.pc = "fetched",
                  !.scratch = [i \in Indexes |-> IF i < n THEN stored[i] ELSE None]]
  BY DEF FetchSegments
<1>2. /\ run.pc = "validate" /\ ~run.original
      /\ done' = [done EXCEPT !["VALIDATE"] = None]
      /\ UNCHANGED <<match, video, segments, stored, tasks, purger, master, replay>>
  BY DEF FetchSegments, rows, objects
<1>3. \A i \in Indexes : i < n /\ stored[i] # None
  <2>1. 0 \in Indexes /\ 0 < n
    BY RecordingAssumption DEF Joinable, Indexes
  <2>2. run.segments # Nothing
    BY <2>1 DEF Joinable, Nothing
  <2> QED BY <1>2, <2>2 DEF Joinable, JoinsAll
<1>4. \A i \in Indexes : stored[i] \in Contents
  BY <1>3 DEF Typed, Footage
<1>5. [i \in Indexes |-> IF i < n THEN stored[i] ELSE None] \in WholeFootage
  BY <1>3, <1>4 DEF WholeFootage
<1>6. WholeFootage \subseteq Footage
  BY DEF WholeFootage, Footage
<1>7. run' \in RunRow /\ run'.pc = "fetched" /\ run'.scratch \in WholeFootage
  BY <1>1, <1>5, <1>6 DEF Typed, RunRow
<1>8. /\ done' \in [{"VALIDATE", "TRANSCODE"} -> Marks \cup {None}]
      /\ done'["TRANSCODE"] = done["TRANSCODE"]
  BY <1>2 DEF Typed
<1>9. JoinsAll' /\ ReplaysAreWhole'
  BY <1>2, <1>7, <1>8 DEF JoinsAll, ReplaysAreWhole
<1> QED BY <1>2, <1>7, <1>8, <1>9, RunGoesOn

LEMMA JoinKeeps ==
  ASSUME RecordingInv, JoinSegments PROVE RecordingInv'
<1> USE DEF RecordingInv
<1>1. /\ run.pc = "fetched" /\ master' = run.scratch
      /\ run' = [run EXCEPT !.pc = "joined"]
      /\ UNCHANGED <<match, video, segments, stored, tasks, purger, done, replay>>
  BY DEF JoinSegments, rows
<1>2. run' \in RunRow /\ run'.pc = "joined" /\ run'.scratch = run.scratch
  BY <1>1 DEF Typed, RunRow
<1>3. master' \in WholeFootage /\ master' # None
  <2>1. master' \in WholeFootage /\ master' \in Footage
    BY <1>1 DEF JoinsAll, Typed, RunRow
  <2> QED BY <2>1, NoneIsNothing
<1>4. JoinsAll' /\ ReplaysAreWhole'
  BY <1>1, <1>2, <1>3 DEF JoinsAll, ReplaysAreWhole
<1> QED BY <1>1, <1>2, <1>3, <1>4, RunGoesOn DEF Typed

LEMMA TranscodeKeeps ==
  ASSUME RecordingInv, Transcode PROVE RecordingInv'
<1> USE DEF RecordingInv
<1>1. /\ run.pc = "transcode" /\ master # None /\ replay' = master
      /\ run' = [run EXCEPT !.pc = "settle"]
      /\ done' = [done EXCEPT !["TRANSCODE"] = RunMark]
      /\ UNCHANGED <<match, video, segments, stored, tasks, purger, master>>
  BY DEF Transcode, rows, Succeeds
<1>2. run' \in RunRow /\ run'.pc = "settle"
  BY <1>1 DEF Typed, RunRow
<1>3. done' \in [{"VALIDATE", "TRANSCODE"} -> Marks \cup {None}]
  BY <1>1, MidRun DEF Typed
<1>4. JoinsAll' /\ ReplaysAreWhole'
  BY <1>1, <1>2 DEF JoinsAll, ReplaysAreWhole
<1> QED BY <1>1, <1>2, <1>3, <1>4, RunGoesOn

LEMMA RecordKeeps ==
  ASSUME RecordingInv, JoinRecorded PROVE RecordingInv'
<1> USE DEF RecordingInv
<1>1. /\ video # NoVideo /\ run.pc = "joined"
      /\ done' = [done EXCEPT !["VALIDATE"] = RunMark]
      /\ video' = [video EXCEPT !.original = TRUE]
      /\ run' = [run EXCEPT !.pc = "transcode", !.original = TRUE]
      /\ UNCHANGED <<match, segments, stored, tasks, purger, master, replay>>
  BY DEF JoinRecorded, objects, Succeeds
<1>2. /\ Working /\ match # "DELETED" /\ video \in VideoRow
      /\ video.status \in Processable
      /\ match \notin AcceptsPlayers \cup UPLOADABLE /\ RunMark \in Marks
  BY <1>1, MidRun
<1>3. /\ video' \in VideoRow /\ video'.purge = video.purge /\ video'.original
      /\ video'.status = video.status
  BY <1>1, <1>2 DEF VideoRow
<1>4. run' \in RunRow /\ run'.pc = "transcode"
  BY <1>1 DEF Typed, RunRow
<1>5. /\ done' \in [{"VALIDATE", "TRANSCODE"} -> Marks \cup {None}]
      /\ done'["TRANSCODE"] = done["TRANSCODE"]
  BY <1>1, <1>2 DEF Typed
<1>6. Received' = Received
  BY <1>1 DEF Received
<1>7. Typed' /\ GoneIsGone'
  BY <1>1, <1>2, <1>3, <1>4, <1>5 DEF Typed, GoneIsGone
<1>8. QuietWhileUploading' /\ BusyOnConfirmed'
  BY <1>1, <1>2, <1>3 DEF QuietWhileUploading, BusyOnConfirmed, AcceptsPlayers, UPLOADABLE
<1>9. PurgeAfterDeadline' /\ ConfirmedIsComplete'
  BY <1>1, <1>2, <1>3, <1>6 DEF PurgeAfterDeadline, ConfirmedIsComplete
<1>10. JoinsAll' /\ ReplaysAreWhole'
  BY <1>1, <1>3, <1>4, <1>5 DEF JoinsAll, ReplaysAreWhole
<1> QED BY <1>7, <1>8, <1>9, <1>10

\* A run ends, well or not.
LEMMA EndKeeps ==
  ASSUME RecordingInv, StepFails \/ RunSettles PROVE RecordingInv'
<1> USE DEF RecordingInv
<1>1. PICK outcome \in {"FAILED", "READY"} :
        /\ video # NoVideo /\ run.pc # "idle"
        /\ outcome = "READY" => run.pc = "settle"
        /\ video' = [video EXCEPT !.status = outcome]
        /\ match' = outcome /\ run' = IdleRun
        /\ UNCHANGED <<segments, stored, tasks, purger, master, replay>>
  BY DEF StepFails, RunSettles, objects, StepOf
<1>2. \/ done' = done
      \/ \E s \in {"VALIDATE", "TRANSCODE"} : done' = [done EXCEPT ![s] = None]
  BY DEF StepFails, RunSettles, StepOf
<1>3. /\ done' \in [{"VALIDATE", "TRANSCODE"} -> Marks \cup {None}]
      /\ done'["TRANSCODE"] \in Marks => done["TRANSCODE"] \in Marks
  BY <1>2, NoneIsNothing DEF Typed
<1>4. match # "DELETED" /\ video \in VideoRow /\ video.status \in Processable
  BY <1>1, MidRun
<1>5. /\ video' \in VideoRow /\ video'.purge = video.purge /\ video'.status = outcome
      /\ video'.original = video.original
  BY <1>1, <1>4 DEF VideoRow, VideoStatuses
<1>6. IdleRun \in RunRow /\ IdleRun.pc = "idle"
  BY NoneIsNothing DEF IdleRun, RunRow
<1>7. Received' = Received /\ (AllArrived <=> AllArrived')
  BY <1>1 DEF Received, AllArrived
<1>8. Typed' /\ GoneIsGone'
  BY <1>1, <1>3, <1>5, <1>6 DEF Typed, GoneIsGone, MatchStatuses
<1>9. QuietWhileUploading' /\ BusyOnConfirmed'
  BY <1>1, <1>5
  DEF QuietWhileUploading, BusyOnConfirmed, AcceptsPlayers, UPLOADABLE, Processable
<1>10. PurgeAfterDeadline' /\ ConfirmedIsComplete'
  BY <1>1, <1>4, <1>5, <1>7 DEF PurgeAfterDeadline, ConfirmedIsComplete
<1>11. JoinsAll' /\ ReplaysAreWhole'
  BY <1>1, <1>3, <1>5, <1>6 DEF JoinsAll, ReplaysAreWhole
<1> QED BY <1>8, <1>9, <1>10, <1>11

-----------------------------------------------------------------------------
LEMMA DeadlineKeeps ==
  ASSUME RecordingInv, DeadlinePasses PROVE RecordingInv'
<1> USE DEF RecordingInv
<1>1. /\ video.purge = "future"
      /\ video' = [video EXCEPT !.purge = "due"]
      /\ UNCHANGED <<match, segments, stored, master, replay, done, tasks, run, purger>>
  BY DEF DeadlinePasses, objects, worker
<1>2. video \in VideoRow
  BY <1>1 DEF Typed, NoVideo
<1>3. /\ video' \in VideoRow /\ video'.purge = "due"
      /\ video'.original = video.original /\ video'.status = video.status
  BY <1>1, <1>2 DEF VideoRow
<1>4. (Working' <=> Working) /\ Received' = Received /\ (AllArrived <=> AllArrived')
  BY <1>1 DEF Working, Received, AllArrived
<1>5. match # "DELETED"
  BY <1>1 DEF GoneIsGone, NoVideo
<1>6. Typed' /\ GoneIsGone' /\ QuietWhileUploading' /\ BusyOnConfirmed'
  BY <1>1, <1>3, <1>4, <1>5
  DEF Typed, GoneIsGone, QuietWhileUploading, BusyOnConfirmed
<1>7. PurgeAfterDeadline' /\ ConfirmedIsComplete'
  BY <1>1, <1>3, <1>4, <1>5 DEF PurgeAfterDeadline, ConfirmedIsComplete
<1>8. JoinsAll' /\ ReplaysAreWhole'
  BY <1>1, <1>3 DEF JoinsAll, ReplaysAreWhole
<1> QED BY <1>6, <1>7, <1>8

\* The purge loads, deletes or dies: no row changes yet.
LEMMA PurgingKeeps ==
  ASSUME RecordingInv, PurgeSelects \/ PurgeDeletes \/ PurgeLost PROVE RecordingInv'
<1> USE DEF RecordingInv
<1>1. UNCHANGED <<match, video, segments, replay, done, tasks, run>>
  BY DEF PurgeSelects, PurgeDeletes, PurgeLost, rows, objects, worker
<1>2. /\ purger' \in PurgeRow
      /\ purger'.pc # "idle" /\ match # "DELETED" =>
           /\ video.purge = "due"
           /\ ~purger'.original \/ purger'.pc = "deleted" => purger'.loaded = Received
  <2>1. CASE PurgeSelects
    <3>1. /\ video.purge = "due"
          /\ purger' = [pc |-> "selected", original |-> video.original, loaded |-> Received]
      BY <2>1 DEF PurgeSelects
    <3>2. video \in VideoRow /\ Received \subseteq Indexes
      BY <3>1 DEF Typed, NoVideo, Received
    <3> QED BY <3>1, <3>2 DEF PurgeRow, VideoRow
  <2>2. CASE PurgeDeletes
    <3>1. /\ purger.pc = "selected"
          /\ purger' = [purger EXCEPT !.pc = "deleted",
                          !.loaded = IF purger.original THEN Received ELSE purger.loaded]
      BY <2>2 DEF PurgeDeletes
    <3>2. Received \subseteq Indexes
      BY DEF Received
    <3>3. /\ purger' \in PurgeRow /\ purger'.pc = "deleted"
          /\ purger'.original = purger.original
          /\ purger'.loaded = IF purger.original THEN Received ELSE purger.loaded
      BY <3>1, <3>2 DEF PurgeRow, Typed
    <3> QED BY <3>1, <3>3 DEF PurgeAfterDeadline
  <2>3. CASE PurgeLost
    BY <2>3 DEF PurgeLost, IdlePurge, PurgeRow
  <2> QED BY <2>1, <2>2, <2>3
<1>3. \/ stored' = stored /\ master' = master
      \/ stored' = Nothing /\ master' = None /\ purger.pc = "selected"
  BY DEF PurgeSelects, PurgeDeletes, PurgeLost, objects
<1>4. /\ Working' = Working /\ Received' = Received /\ (AllArrived <=> AllArrived')
  BY <1>1 DEF Working, Received, AllArrived
<1>5. Typed'
  BY <1>1, <1>2, <1>3, NoneIsNothing DEF Typed
<1>6. GoneIsGone' /\ QuietWhileUploading' /\ BusyOnConfirmed' /\ PurgeAfterDeadline'
      /\ ConfirmedIsComplete'
  BY <1>1, <1>2, <1>4
  DEF GoneIsGone, QuietWhileUploading, BusyOnConfirmed, PurgeAfterDeadline,
      ConfirmedIsComplete
<1>7. JoinsAll' /\ ReplaysAreWhole'
  BY <1>1, <1>3 DEF JoinsAll, ReplaysAreWhole
<1> QED BY <1>5, <1>6, <1>7

LEMMA PurgedKeeps ==
  ASSUME RecordingInv, PurgeCommits PROVE RecordingInv'
<1> USE DEF RecordingInv
<1>1. /\ purger.pc = "deleted" /\ purger' = IdlePurge
      /\ UNCHANGED <<match, stored, master, replay, done, tasks, run>>
  BY DEF PurgeCommits, objects, worker
<1>2. purger' \in PurgeRow /\ purger'.pc = "idle" /\ Working' = Working
  BY <1>1 DEF IdlePurge, PurgeRow, Working
<1>3. CASE video = NoVideo
  <2>1. UNCHANGED <<video, segments>>
    BY <1>3 DEF PurgeCommits
  <2>2. Received' = Received /\ (AllArrived <=> AllArrived')
    BY <2>1 DEF Received, AllArrived
  <2>3. Typed' /\ GoneIsGone' /\ QuietWhileUploading' /\ BusyOnConfirmed'
    BY <1>1, <1>2, <2>1
    DEF Typed, GoneIsGone, QuietWhileUploading, BusyOnConfirmed
  <2>4. PurgeAfterDeadline' /\ ConfirmedIsComplete'
    BY <1>1, <1>2, <2>1, <2>2 DEF PurgeAfterDeadline, ConfirmedIsComplete
  <2>5. JoinsAll' /\ ReplaysAreWhole'
    BY <1>1, <2>1 DEF JoinsAll, ReplaysAreWhole
  <2> QED BY <2>3, <2>4, <2>5
<1>4. CASE video # NoVideo
  <2>1. video \in VideoRow /\ match # "DELETED"
    BY <1>4 DEF Typed, GoneIsGone
  <2>2. video.purge = "due" /\ purger.loaded = Received
    BY <1>1, <2>1 DEF PurgeAfterDeadline
  <2>3. /\ video' = [video EXCEPT !.purge = "none",
                       !.original = IF purger.original THEN FALSE ELSE video.original]
        /\ segments' = WithoutRows(purger.loaded)
    BY <1>4 DEF PurgeCommits
  <2>4. video' \in VideoRow /\ video'.purge = "none" /\ video'.status = video.status
    BY <2>1, <2>2, <2>3 DEF VideoRow
  <2>5. segments' = Nothing
    BY <2>2, <2>3 DEF WithoutRows, Nothing, Received
  <2>6. Received' = {}
    BY <2>5 DEF Received, Nothing
  <2>8. Typed' /\ GoneIsGone' /\ QuietWhileUploading' /\ BusyOnConfirmed'
    BY <1>1, <1>2, <2>1, <2>4, <2>5, NoneIsNothing
    DEF Typed, GoneIsGone, QuietWhileUploading, BusyOnConfirmed
  <2>9. PurgeAfterDeadline' /\ ConfirmedIsComplete'
    BY <1>1, <1>2, <2>4, <2>6 DEF PurgeAfterDeadline, ConfirmedIsComplete
  <2>10. JoinsAll' /\ ReplaysAreWhole'
    BY <1>1, <2>4 DEF JoinsAll, ReplaysAreWhole
  <2> QED BY <2>8, <2>9, <2>10
<1> QED BY <1>3, <1>4

LEMMA DeleteKeeps ==
  ASSUME RecordingInv, DeleteMatch PROVE RecordingInv'
<1> USE DEF RecordingInv
<1>1. /\ match' = "DELETED" /\ video' = NoVideo /\ segments' = Nothing
      /\ done' = [s \in DOMAIN done |-> None]
      /\ UNCHANGED <<stored, master, replay, tasks, run, purger>>
  BY DEF DeleteMatch, objects
<1>2. /\ done' \in [{"VALIDATE", "TRANSCODE"} -> Marks \cup {None}]
      /\ done'["TRANSCODE"] = None
  BY <1>1 DEF Typed
<1>3. Received' = {}
  BY <1>1 DEF Received, Nothing
<1>4. Typed' /\ GoneIsGone' /\ QuietWhileUploading' /\ BusyOnConfirmed'
  BY <1>1, <1>2, NoneIsNothing
  DEF Typed, GoneIsGone, QuietWhileUploading, BusyOnConfirmed, AcceptsPlayers,
      UPLOADABLE
<1>5. PurgeAfterDeadline' /\ ConfirmedIsComplete'
  BY <1>1, <1>3
  DEF PurgeAfterDeadline, ConfirmedIsComplete, NoVideo, Processable
<1>6. JoinsAll' /\ ReplaysAreWhole'
  BY <1>1, <1>2, NoneIsNothing DEF JoinsAll, ReplaysAreWhole, NoVideo
<1> QED BY <1>4, <1>5, <1>6

-----------------------------------------------------------------------------
LEMMA StepKeeps ==
  ASSUME RecordingInv, ~UploadsPastDeadline, [Next]_vars PROVE RecordingInv'
<1>1. CASE StartMatch \/ StopMatch
  BY <1>1, LifecycleKeeps
<1>2. CASE Upload
  <2>1. CASE UrlsExpire
    BY <2>1, OthersKeep DEF UrlsExpire
  <2> QED BY <1>2, <2>1, TargetKeeps, PutKeeps, ConfirmKeeps, CompleteKeeps DEF Upload
<1>3. CASE DeleteMatch
  BY <1>3, DeleteKeeps
<1>4. CASE \E force \in BOOLEAN : ProcessMatch(force)
  BY <1>4, ProcessKeeps
<1>5. CASE WorkerNext
  BY <1>5, StartKeeps, OrphanKeeps, CachedKeeps, ValidateKeeps, FetchKeeps, JoinKeeps,
     RecordKeeps, TranscodeKeeps, EndKeeps
  DEF WorkerNext
<1>6. CASE RunLost
  BY <1>6, LostKeeps
<1>7. CASE DeadlinePasses
  BY <1>7, DeadlineKeeps
<1>8. CASE PurgeNext \/ PurgeLost
  BY <1>8, PurgingKeeps, PurgedKeeps DEF PurgeNext
<1>9. CASE UNCHANGED vars
  BY <1>9, OthersKeep DEF vars
<1> QED
  BY <1>1, <1>2, <1>3, <1>4, <1>5, <1>6, <1>7, <1>8, <1>9 DEF Next

\* Whatever races, the runs and the purge stay as RecordingInv says.
THEOREM RecordingInvariant == ASSUME ~UploadsPastDeadline PROVE Spec => []RecordingInv
<1>1. Init => RecordingInv
  BY Initially
<1>2. RecordingInv /\ [Next]_vars => RecordingInv'
  BY StepKeeps
<1> QED BY <1>1, <1>2, PTL DEF Spec

\* A match that still accepts uploads has no worker reading them, whenever it is
\* uploaded and processed.
THEOREM QuietAlways == Spec => []QuietWhileUploading
<1>1. Init => QuietWhileUploading
  BY DEF Init, QuietWhileUploading, Working, IdleRun
<1>2. QuietWhileUploading /\ [Next]_vars => QuietWhileUploading'
  <2> SUFFICES ASSUME QuietWhileUploading, [Next]_vars PROVE QuietWhileUploading'
    OBVIOUS
  <2> DEFINE Open == match \in AcceptsPlayers \cup UPLOADABLE
  <2>1. CASE match' \in {"PROCESSING", "READY", "FAILED", "DELETED"}
    BY <2>1 DEF QuietWhileUploading, AcceptsPlayers, UPLOADABLE
  <2>2. CASE Open' => Open /\ UNCHANGED <<tasks, run>>
    BY <2>2 DEF QuietWhileUploading, Working
  <2>3. StartMatch \/ StopMatch => Open /\ UNCHANGED <<tasks, run>>
    BY DEF StartMatch, StopMatch, UPLOADABLE, worker
  <2>4. Upload => (Open' => Open) /\ UNCHANGED <<tasks, run>>
    BY DEF Upload, RequestUploadTarget, PutMaster, PutSegment, CompleteSegment,
           CompleteWithSegments, CompleteWithMaster, Uploaded, UrlsExpire, UPLOADABLE,
           AcceptsPlayers, rows, worker
  <2>5. DeleteMatch \/ (\E force \in BOOLEAN : ProcessMatch(force) \/ StartRun(force)) =>
          match' \in {"PROCESSING", "READY", "FAILED", "DELETED"}
    BY DEF DeleteMatch, ProcessMatch, StartRun
  <2>6. StepFails \/ RunSettles => match' \in {"PROCESSING", "READY", "FAILED", "DELETED"}
    BY DEF StepFails, RunSettles
  <2>7. DeadlinePasses \/ PurgeNext \/ PurgeLost \/ UNCHANGED vars =>
          match' = match /\ UNCHANGED <<tasks, run>>
    BY DEF DeadlinePasses, PurgeNext, PurgeSelects, PurgeDeletes, PurgeCommits, PurgeLost,
           vars, rows, worker
  <2>8. CASE WorkerNext \/ RunLost
    <3>1. CASE \E force \in BOOLEAN : StartRun(force)
      BY <2>1, <2>5, <3>1
    <3>2. CASE StepFails \/ RunSettles
      BY <2>1, <2>6, <3>2
    <3>3. CASE \/ RunOrphaned \/ RunLost
               \/ StepCached("VALIDATE", "validate", "transcode")
               \/ StepCached("TRANSCODE", "transcode", "settle")
               \/ ValidateMaster \/ FetchSegments \/ JoinSegments \/ JoinRecorded
               \/ Transcode
      <4>1. Working
        BY <3>3 DEF Working, RunOrphaned, RunLost, StepCached, ValidateMaster,
           FetchSegments, JoinSegments, JoinRecorded, Transcode
      <4>2. match' = match
        BY <3>3 DEF RunOrphaned, RunLost, StepCached, ValidateMaster, FetchSegments,
           JoinSegments, JoinRecorded, Transcode, rows
      <4> QED BY <4>1, <4>2 DEF QuietWhileUploading
    <3> QED BY <2>8, <3>1, <3>2, <3>3 DEF WorkerNext
  <2> QED
    BY <2>1, <2>2, <2>3, <2>4, <2>5, <2>7, <2>8 DEF Next
<1> QED BY <1>1, <1>2, PTL DEF Spec

\* The replay of a READY match shows every segment the agent recorded, even of a
\* run that races the purge of its originals.
THEOREM ReadyIsWholeAlways == ASSUME ~UploadsPastDeadline PROVE Spec => []ReadyIsWhole
<1>1. RecordingInv => ReadyIsWhole
  <2> SUFFICES ASSUME RecordingInv, video.status = "READY"
               PROVE  replay # None /\ \A i \in Indexes : replay[i] # None
    BY DEF ReadyIsWhole
  <2>1. replay # None /\ replay \in WholeFootage
    BY DEF RecordingInv, ReplaysAreWhole
  <2> QED BY <2>1, NoneIsNothing DEF WholeFootage
<1> QED BY <1>1, RecordingInvariant, PTL

-----------------------------------------------------------------------------
\* What a run puts in the master's place is a whole recording.
LEMMA JoinIsWhole == ASSUME RecordingInv, JoinSegments PROVE master' # None
<1>1. master' = run.scratch /\ run.scratch \in WholeFootage /\ run.scratch \in Footage
  BY DEF JoinSegments, RecordingInv, JoinsAll, Typed, RunRow
<1> QED BY <1>1, NoneIsNothing

\* What a worker does, it does on a match it has a task of, whose deadline it
\* leaves as it is.
LEMMA BusyActs ==
  ASSUME RecordingInv, WorkerNext \/ RunLost
  PROVE  /\ Working /\ video'.purge = video.purge
         /\ match' # "DELETED" => match # "DELETED"
<1> USE DEF RecordingInv
<1>1. CASE \E force \in BOOLEAN : StartRun(force)
  <2>1. /\ Working /\ video # NoVideo /\ video' = [video EXCEPT !.status = "PROCESSING"]
    BY <1>1 DEF StartRun, Working
  <2>2. video \in VideoRow /\ match # "DELETED"
    BY <2>1 DEF Typed, GoneIsGone
  <2> QED BY <2>1, <2>2 DEF VideoRow
<1>2. CASE RunOrphaned \/ RunLost
  BY <1>2 DEF RunOrphaned, RunLost, Working, rows
<1>3. CASE \/ StepCached("VALIDATE", "validate", "transcode")
           \/ StepCached("TRANSCODE", "transcode", "settle")
           \/ ValidateMaster \/ FetchSegments \/ JoinSegments \/ Transcode
  BY <1>3 DEF StepCached, ValidateMaster, FetchSegments, JoinSegments, Transcode, Working,
     rows
<1>4. CASE JoinRecorded \/ StepFails \/ RunSettles
  <2>1. /\ run.pc # "idle" /\ video # NoVideo
        /\ \/ video' = [video EXCEPT !.original = TRUE]
           \/ \E status \in {"FAILED", "READY"} : video' = [video EXCEPT !.status = status]
    BY <1>4 DEF JoinRecorded, StepFails, RunSettles, StepOf
  <2>2. video \in VideoRow /\ match # "DELETED" /\ Working
    BY <2>1, MidRun
  <2> QED BY <2>1, <2>2 DEF VideoRow
<1> QED BY <1>1, <1>2, <1>3, <1>4 DEF WorkerNext

-----------------------------------------------------------------------------
(***************************************************************************)
(* As long as the purge and the runs of a match do not overlap.            *)
(***************************************************************************)
\* Until the deadline passes and but for the purge, a row is only given objects.
LEMMA UploadSeparate ==
  ASSUME RecordingInv, SeparateInv, ~UploadsPastDeadline,
         StartMatch \/ StopMatch \/ Upload
  PROVE  SeparateInv'
<1> USE DEF SeparateInv
<1>1. UNCHANGED <<run, purger>>
  BY DEF StartMatch, StopMatch, Upload, RequestUploadTarget, PutMaster, PutSegment,
         CompleteSegment, CompleteWithSegments, CompleteWithMaster, Uploaded, UrlsExpire,
         worker
<1>2. CASE StartMatch \/ StopMatch \/ \E key \in UploadKeys : RequestUploadTarget(key)
  <2>1. /\ match # "DELETED" /\ UNCHANGED <<segments, stored, master>>
        /\ video'.original = video.original /\ video'.purge = video.purge
        /\ video'.status = video.status \/ video'.status \in {"PENDING", "UPLOADING"}
    <3>1. match # "DELETED" /\ UNCHANGED <<segments, stored, master>>
      BY <1>2 DEF StartMatch, StopMatch, RequestUploadTarget, AcceptsPlayers, UPLOADABLE,
         objects
    <3>2. video' = VideoExists \/ \E status \in {video.status, "PENDING", "UPLOADING"} :
            video' = [VideoExists EXCEPT !.status = status]
      BY <1>2 DEF StartMatch, StopMatch, RequestUploadTarget, VideoExists, NoVideo
    <3> QED
      BY <3>1, <3>2 DEF VideoExists, NoVideo, RecordingInv, Typed, VideoRow
  <2>2. Received' = Received
    BY <2>1 DEF Received
  <2> QED
    BY <1>1, <2>1, <2>2
    DEF RowsFound, PurgeIsCurrent, PurgedIsEmpty, JoinsWhatIsKept, Processable
<1>3. CASE \E c \in Contents : PutMaster(c) \/ \E i \in Indexes : PutSegment(i, c)
  <2>1. /\ UNCHANGED <<match, video, segments>>
        /\ \A i \in Indexes : stored[i] # None => stored'[i] # None
        /\ master # None => master' # None
    <3>1. ASSUME NEW c \in Contents, NEW i \in Indexes, PutSegment(i, c)
          PROVE  /\ master' = master
                 /\ \A j \in Indexes : stored[j] # None => stored'[j] # None
      BY <3>1, NoneIsNothing DEF PutSegment, RecordingInv, Typed, Footage
    <3>2. ASSUME NEW c \in Contents, PutMaster(c)
          PROVE  stored' = stored /\ master' # None
      <4>1. stored' = stored /\ master' = [i \in Indexes |-> c]
        BY <3>2 DEF PutMaster
      <4>2. master' \in Footage
        BY <4>1 DEF Footage
      <4> QED BY <4>1, <4>2, NoneIsNothing
    <3> QED BY <1>3, <3>1, <3>2 DEF PutMaster, PutSegment, rows
  <2>2. Received' = Received /\ Received \subseteq Indexes
    BY <2>1 DEF Received
  <2> QED
    BY <1>1, <2>1, <2>2 DEF RowsFound, PurgeIsCurrent, PurgedIsEmpty, JoinsWhatIsKept
<1>4. CASE \E i \in Indexes : CompleteSegment(i)
  <2>1. PICK i \in Indexes : CompleteSegment(i)
    BY <1>4
  <2>2. /\ stored[i] # None /\ segments' = [segments EXCEPT ![i] = stored[i]]
        /\ UNCHANGED <<match, stored, master>>
        /\ video'.original = video.original /\ video'.purge = video.purge
        /\ video'.status = video.status \/ video'.status = "PENDING"
    BY <2>1 DEF CompleteSegment, VideoExists, NoVideo, objects
  <2>3. \A j \in Received' : j = i \/ j \in Received
    BY <2>2 DEF Received, RecordingInv, Typed, Footage
  <2> QED
    BY <1>1, <2>2, <2>3
    DEF RowsFound, PurgeIsCurrent, PurgedIsEmpty, JoinsWhatIsKept, Processable
<1>5. CASE CompleteWithSegments \/ CompleteWithMaster
  <2>1. PICK original \in BOOLEAN : Uploaded(original) /\ (original => master # None)
    BY <1>5 DEF CompleteWithSegments, CompleteWithMaster
  <2>2. match # "DELETED" /\ video.purge # "due"
    BY <1>5 DEF CompleteWithSegments, CompleteWithMaster, AgentActs
  <2>3. /\ video' = [status |-> "UPLOADED", original |-> original, purge |-> "future"]
        /\ UNCHANGED <<segments, stored, master>>
    BY <2>1 DEF Uploaded, objects
  <2>4. Received' = Received
    BY <2>3 DEF Received
  <2>5. purger.pc = "idle"
    BY <2>2 DEF RecordingInv, PurgeAfterDeadline
  <2> QED
    BY <1>1, <2>1, <2>2, <2>3, <2>4, <2>5
    DEF RowsFound, PurgeIsCurrent, PurgedIsEmpty, JoinsWhatIsKept
<1>6. CASE UrlsExpire
  BY <1>1, <1>6
  DEF UrlsExpire, rows, objects, Received, RowsFound, PurgeIsCurrent, PurgedIsEmpty,
      JoinsWhatIsKept
<1> QED BY <1>2, <1>3, <1>4, <1>5, <1>6 DEF Upload

\* A run that starts, ends or is lost leaves the rows and the objects alone.
LEMMA RunsSeparate ==
  ASSUME RecordingInv, SeparateInv,
         \/ \E force \in BOOLEAN : ProcessMatch(force) \/ StartRun(force)
         \/ RunOrphaned \/ RunLost \/ StepFails \/ RunSettles
  PROVE  SeparateInv'
<1> USE DEF SeparateInv
<1>1. /\ UNCHANGED <<segments, stored, master, purger>>
      /\ video' = video \/ \E status \in Processable : video' = [video EXCEPT !.status = status]
      /\ video' # video => video.status \in Processable /\ video # NoVideo
      /\ match' # "DELETED" => match # "DELETED"
  <2>1. CASE \E force \in BOOLEAN : ProcessMatch(force)
    BY <2>1 DEF ProcessMatch, objects, Processable, RecordingInv, GoneIsGone, NoVideo
  <2>2. CASE \E force \in BOOLEAN : StartRun(force)
    BY <2>2 DEF StartRun, objects, Processable, RecordingInv, GoneIsGone, BusyOnConfirmed,
       Working
  <2>3. CASE RunOrphaned \/ RunLost
    BY <2>3 DEF RunOrphaned, RunLost, rows, objects
  <2>4. CASE StepFails \/ RunSettles
    <3>1. run.pc # "idle" /\ video # NoVideo
      BY <2>4 DEF StepFails, RunSettles, StepOf
    <3>2. video.status \in Processable /\ match # "DELETED"
      BY <3>1, MidRun
    <3> QED
      BY <2>4, <3>1, <3>2 DEF StepFails, RunSettles, objects, Processable
  <2> QED BY <2>1, <2>2, <2>3, <2>4
<1>2. /\ video'.original = video.original /\ video'.purge = video.purge
      /\ video'.status \in Processable => video.status \in Processable
  <2>1. CASE video' = video
    BY <2>1
  <2>2. CASE video' # video
    BY <1>1, <2>2 DEF RecordingInv, Typed, VideoRow
  <2> QED BY <2>1, <2>2
<1>3. Received' = Received
  BY <1>1 DEF Received
<1>4. RowsFound' /\ PurgeIsCurrent' /\ PurgedIsEmpty'
  BY <1>1, <1>2, <1>3 DEF RowsFound, PurgeIsCurrent, PurgedIsEmpty
<1>5. CASE run' = run \/ run' = IdleRun
  BY <1>4, <1>1, <1>2, <1>5 DEF JoinsWhatIsKept, IdleRun
<1>6. CASE \E force \in BOOLEAN : StartRun(force)
  <2>1. run'.pc = "validate" /\ run'.segments = segments /\ Working /\ video # NoVideo
    BY <1>6 DEF StartRun, Working
  <2>2. video.status \in Processable
    BY <2>1 DEF RecordingInv, BusyOnConfirmed, GoneIsGone
  <2>3. segments # Nothing => Received # {}
    BY DEF Received, Nothing, RecordingInv, Typed, Footage
  <2> QED
    BY <1>4, <1>1, <1>2, <2>1, <2>2, <2>3 DEF JoinsWhatIsKept, RecordingInv, ConfirmedIsComplete
<1>7. \/ run' = run \/ run' = IdleRun
      \/ \E force \in BOOLEAN : StartRun(force)
  BY DEF ProcessMatch, RunOrphaned, RunLost, StepFails, RunSettles
<1> QED BY <1>4, <1>5, <1>6, <1>7

\* A run that goes on joins what the purge has not touched.
LEMMA StepsSeparate ==
  ASSUME RecordingInv, SeparateInv,
         \/ StepCached("VALIDATE", "validate", "transcode")
         \/ StepCached("TRANSCODE", "transcode", "settle")
         \/ ValidateMaster \/ FetchSegments \/ JoinSegments \/ Transcode
  PROVE  SeparateInv'
<1> USE DEF SeparateInv
<1>1. UNCHANGED <<match, video, segments, stored, purger>> /\ run \in RunRow
  BY DEF StepCached, ValidateMaster, FetchSegments, JoinSegments, Transcode, rows, objects,
         RecordingInv, Typed
<1>2. Received' = Received
  BY <1>1 DEF Received
<1>3. master' = master \/ master' # None
  BY JoinIsWhole DEF StepCached, ValidateMaster, FetchSegments, JoinSegments, Transcode, objects
<1>4. RowsFound' /\ PurgeIsCurrent' /\ PurgedIsEmpty'
  BY <1>1, <1>2, <1>3 DEF RowsFound, PurgeIsCurrent, PurgedIsEmpty
<1>5. CASE StepCached("VALIDATE", "validate", "transcode") \/ ValidateMaster
  <2>1. run'.pc = "transcode"
    BY <1>1, <1>5 DEF StepCached, ValidateMaster, RunRow
  <2> QED BY <1>4, <2>1 DEF JoinsWhatIsKept
<1>6. CASE StepCached("TRANSCODE", "transcode", "settle") \/ Transcode
  <2>1. run'.pc = "settle"
    BY <1>1, <1>6 DEF StepCached, Transcode, RunRow
  <2> QED BY <1>4, <2>1 DEF JoinsWhatIsKept
<1>7. CASE FetchSegments
  <2>1. PICK n \in Joinable : TRUE
    BY <1>7 DEF FetchSegments
  <2>2. run.segments # Nothing
    <3>1. 0 \in Indexes /\ 0 < n
      BY RecordingAssumption DEF Joinable, Indexes
    <3> QED BY <3>1 DEF Joinable, Nothing
  <2>3. run.pc = "validate" /\ ~run.original /\ run'.pc = "fetched"
    BY <1>1, <1>7 DEF FetchSegments, RunRow
  <2> QED BY <1>4, <1>1, <2>2, <2>3 DEF JoinsWhatIsKept
<1>8. CASE JoinSegments
  <2>1. run.pc = "fetched" /\ run'.pc = "joined"
    BY <1>1, <1>8 DEF JoinSegments, RunRow
  <2>2. master' # None
    BY <1>8, JoinIsWhole
  <2> QED BY <1>4, <1>1, <2>1, <2>2 DEF JoinsWhatIsKept
<1> QED BY <1>4, <1>5, <1>6, <1>7, <1>8

\* When its join is recorded the master is there, and will be purged.
LEMMA RecordSeparate ==
  ASSUME RecordingInv, SeparateInv, PurgedAlone, JoinRecorded
  PROVE  SeparateInv'
<1> USE DEF SeparateInv
<1>1. /\ video # NoVideo /\ run.pc = "joined"
      /\ video' = [video EXCEPT !.original = TRUE]
      /\ run' = [run EXCEPT !.pc = "transcode", !.original = TRUE]
      /\ UNCHANGED <<match, segments, stored, purger, master>>
  BY DEF JoinRecorded, objects
<1>2. match # "DELETED" /\ video \in VideoRow /\ run \in RunRow
  BY <1>1, MidRun DEF RecordingInv, Typed
<1>3. video'.original /\ video'.purge = video.purge /\ run'.pc = "transcode"
  BY <1>1, <1>2 DEF VideoRow, RunRow
<1>4. purger.pc = "idle" /\ video.purge # "none" /\ master # None
  BY <1>1, <1>2 DEF PurgedAlone, JoinsWhatIsKept
<1>5. Received' = Received
  BY <1>1 DEF Received
<1> QED
  BY <1>1, <1>3, <1>4, <1>5 DEF RowsFound, PurgeIsCurrent, PurgedIsEmpty, JoinsWhatIsKept

\* The purge takes the rows with the objects.
LEMMA PurgeSeparate ==
  ASSUME RecordingInv, SeparateInv, PurgedAlone,
         DeadlinePasses \/ PurgeNext \/ PurgeLost \/ DeleteMatch
  PROVE  SeparateInv'
<1> USE DEF SeparateInv
<1>1. CASE DeadlinePasses
  <2>1. /\ video.purge = "future" /\ video' = [video EXCEPT !.purge = "due"]
        /\ UNCHANGED <<match, segments, stored, master, run, purger>>
    BY <1>1 DEF DeadlinePasses, objects, worker
  <2>2. video'.purge = "due" /\ video'.original = video.original
    BY <2>1 DEF RecordingInv, Typed, VideoRow, NoVideo
  <2> QED BY <2>1, <2>2 DEF RowsFound, PurgeIsCurrent, PurgedIsEmpty, JoinsWhatIsKept
<1>2. CASE PurgeSelects \/ PurgeLost
  <2>1. UNCHANGED <<match, video, segments, stored, master, run>>
    BY <1>2 DEF PurgeSelects, PurgeLost, rows, objects, worker
  <2>2. purger'.pc = "idle" \/ purger'.original = video.original
    BY <1>2 DEF PurgeSelects, PurgeLost, IdlePurge
  <2>3. Received' = Received
    BY <2>1 DEF Received
  <2> QED
    BY <2>1, <2>2, <2>3 DEF RowsFound, PurgeIsCurrent, PurgedIsEmpty, JoinsWhatIsKept
<1>3. CASE PurgeDeletes
  <2>1. /\ purger.pc = "selected" /\ UNCHANGED <<match, video, segments, run>>
        /\ purger'.original = purger.original
    BY <1>3 DEF PurgeDeletes, rows, worker, RecordingInv, Typed, PurgeRow
  <2>2. CASE match = "DELETED"
    <3>1. ~video.original /\ video.status \notin Processable /\ Received' = {}
      BY <2>1, <2>2
      DEF RecordingInv, GoneIsGone, NoVideo, Processable, Received, Nothing
    <3> QED
      BY <2>1, <2>2, <3>1 DEF RowsFound, PurgeIsCurrent, PurgedIsEmpty, JoinsWhatIsKept
  <2>3. CASE match # "DELETED"
    <3>1. video.purge = "due" /\ run.pc = "idle"
      BY <2>1, <2>3 DEF PurgedAlone, RecordingInv, PurgeAfterDeadline
    <3> QED
      BY <2>1, <2>3, <3>1 DEF RowsFound, PurgeIsCurrent, PurgedIsEmpty, JoinsWhatIsKept
  <2> QED BY <2>2, <2>3
<1>4. CASE PurgeCommits
  <2>1. /\ purger.pc = "deleted" /\ purger'.pc = "idle"
        /\ UNCHANGED <<match, stored, master, run>>
    BY <1>4 DEF PurgeCommits, objects, worker, IdlePurge
  <2>2. CASE video = NoVideo
    <3>1. UNCHANGED <<video, segments>> /\ Received' = Received
      BY <1>4, <2>2 DEF PurgeCommits, Received
    <3> QED BY <2>1, <3>1 DEF RowsFound, PurgeIsCurrent, PurgedIsEmpty, JoinsWhatIsKept
  <2>3. CASE video # NoVideo
    <3>1. match # "DELETED" /\ video \in VideoRow
      BY <2>3 DEF RecordingInv, GoneIsGone, Typed
    <3>2. /\ run.pc = "idle" /\ purger.original = video.original
          /\ purger.loaded = Received
      BY <2>1, <3>1 DEF PurgedAlone, PurgeIsCurrent, RecordingInv, PurgeAfterDeadline
    <3>3. /\ video' = [video EXCEPT !.purge = "none",
                         !.original = IF purger.original THEN FALSE ELSE video.original]
          /\ segments' = WithoutRows(purger.loaded)
      BY <1>4, <2>3 DEF PurgeCommits
    <3>4. ~video'.original
      BY <3>1, <3>2, <3>3 DEF VideoRow
    <3>5. Received' = {}
      BY <3>2, <3>3 DEF WithoutRows, Received
    <3> QED
      BY <2>1, <3>2, <3>4, <3>5 DEF RowsFound, PurgeIsCurrent, PurgedIsEmpty, JoinsWhatIsKept
  <2> QED BY <2>2, <2>3
<1>5. CASE DeleteMatch
  <2>1. match' = "DELETED" /\ ~video'.original /\ Received' = {}
    BY <1>5 DEF DeleteMatch, NoVideo, Received, Nothing
  <2> QED BY <2>1 DEF RowsFound, PurgeIsCurrent, PurgedIsEmpty, JoinsWhatIsKept
<1> QED BY <1>1, <1>2, <1>3, <1>4, <1>5 DEF PurgeNext

LEMMA SeparateStep ==
  ASSUME RecordingInv, SeparateInv, PurgedAlone, ~UploadsPastDeadline, [Next]_vars
  PROVE  SeparateInv'
<1>1. CASE UNCHANGED vars
  BY <1>1 DEF vars, rows, objects, worker, SeparateInv, RowsFound, PurgeIsCurrent,
     PurgedIsEmpty, JoinsWhatIsKept, Received
<1>2. CASE StartMatch \/ StopMatch \/ Upload
  BY <1>2, UploadSeparate
<1>3. CASE \/ \E force \in BOOLEAN : ProcessMatch(force) \/ StartRun(force)
           \/ RunOrphaned \/ RunLost \/ StepFails \/ RunSettles
  BY <1>3, RunsSeparate
<1>4. CASE \/ StepCached("VALIDATE", "validate", "transcode")
           \/ StepCached("TRANSCODE", "transcode", "settle")
           \/ ValidateMaster \/ FetchSegments \/ JoinSegments \/ Transcode
  BY <1>4, StepsSeparate
<1>5. CASE JoinRecorded
  BY <1>5, RecordSeparate
<1>6. CASE DeadlinePasses \/ PurgeNext \/ PurgeLost \/ DeleteMatch
  BY <1>6, PurgeSeparate
<1> QED BY <1>1, <1>2, <1>3, <1>4, <1>5, <1>6 DEF Next, WorkerNext

LEMMA SeparateInitially == Init => SeparateInv
BY DEF Init, SeparateInv, RowsFound, PurgeIsCurrent, PurgedIsEmpty, JoinsWhatIsKept,
       NoVideo, IdleRun, IdlePurge, Received, Nothing

LEMMA SeparateIsSafe ==
  ASSUME RecordingInv, SeparateInv PROVE RowsHaveObjects /\ DeadlineIsSet
<1>1. RowsHaveObjects
  BY DEF SeparateInv, RowsFound, RowsHaveObjects
<1>2. DeadlineIsSet
  BY DEF SeparateInv, PurgedIsEmpty, RecordingInv, ConfirmedIsComplete, DeadlineIsSet,
         Processable
<1> QED BY <1>1, <1>2

\* As long as no run of a match overlaps the purge of it, no row speaks of an
\* object that is gone, unless the next purge will remove it ...
THEOREM OnlyRacesLoseObjects ==
  ASSUME ~UploadsPastDeadline
  PROVE  Spec /\ []PurgedAlone => []RowsHaveObjects
<1>1. Init => RecordingInv /\ SeparateInv
  BY Initially, SeparateInitially
<1>2. RecordingInv /\ SeparateInv /\ PurgedAlone /\ [Next]_vars => (RecordingInv /\ SeparateInv)'
  BY StepKeeps, SeparateStep
<1>3. RecordingInv /\ SeparateInv => RowsHaveObjects
  BY SeparateIsSafe
<1> QED BY <1>1, <1>2, <1>3, PTL DEF Spec

\* ... and no confirmed recording is kept without a retention deadline.
THEOREM OnlyRacesOutliveTheDeadline ==
  ASSUME ~UploadsPastDeadline
  PROVE  Spec /\ []PurgedAlone => []DeadlineIsSet
<1>1. Init => RecordingInv /\ SeparateInv
  BY Initially, SeparateInitially
<1>2. RecordingInv /\ SeparateInv /\ PurgedAlone /\ [Next]_vars => (RecordingInv /\ SeparateInv)'
  BY StepKeeps, SeparateStep
<1>3. RecordingInv /\ SeparateInv => DeadlineIsSet
  BY SeparateIsSafe
<1> QED BY <1>1, <1>2, <1>3, PTL DEF Spec

-----------------------------------------------------------------------------
(***************************************************************************)
(* When nobody processes a recording past its deadline.                    *)
(***************************************************************************)
LEMMA BusyStep ==
  ASSUME RecordingInv, SeparateInv, BusyBeforeDeadline, [Next]_vars,
         ~UploadsPastDeadline, ~RunsPastDeadline
  PROVE  BusyBeforeDeadline'
<1> USE DEF RecordingInv
<1>1. CASE (Working' => Working) /\ (match' # "DELETED" => match # "DELETED")
           /\ video'.purge = video.purge
  BY <1>1 DEF BusyBeforeDeadline
<1>2. CASE UNCHANGED vars
  BY <1>1, <1>2 DEF vars, rows, worker, Working
<1>3. CASE StartMatch \/ StopMatch \/ \E key \in UploadKeys : RequestUploadTarget(key)
  <2>1. match \in AcceptsPlayers \cup UPLOADABLE /\ UNCHANGED <<tasks, run>>
    BY <1>3 DEF StartMatch, StopMatch, RequestUploadTarget, UPLOADABLE, worker
  <2> QED BY <2>1 DEF QuietWhileUploading, BusyBeforeDeadline, Working
<1>4. CASE \E i \in Indexes : CompleteSegment(i)
  <2>1. /\ match # "DELETED" /\ match' = match /\ UNCHANGED <<tasks, run>>
        /\ video # NoVideo => video' = video
    BY <1>4 DEF CompleteSegment, AgentActs, VideoExists, worker
  <2>2. Working => video # NoVideo
    BY <2>1 DEF BusyOnConfirmed, Processable, NoVideo
  <2> QED BY <2>1, <2>2 DEF BusyBeforeDeadline, Working
<1>5. CASE CompleteWithSegments \/ CompleteWithMaster
  <2>1. video'.purge = "future"
    BY <1>5 DEF CompleteWithSegments, CompleteWithMaster, Uploaded
  <2> QED BY <2>1 DEF BusyBeforeDeadline
<1>6. CASE \/ UrlsExpire
           \/ \E c \in Contents : PutMaster(c) \/ \E i \in Indexes : PutSegment(i, c)
  BY <1>1, <1>6 DEF UrlsExpire, PutMaster, PutSegment, rows, worker, Working
<1>7. CASE DeleteMatch
  BY <1>7 DEF DeleteMatch, BusyBeforeDeadline
<1>8. CASE \E force \in BOOLEAN : ProcessMatch(force)
  <2>1. /\ video.purge # "due" /\ video.status \in Processable
        /\ video.original \/ Received # {}
        /\ video' = [video EXCEPT !.status = "PROCESSING"]
    BY <1>8 DEF ProcessMatch, Processable
  <2>2. video \in VideoRow
    BY <2>1 DEF Typed, NoVideo, Processable
  <2>3. video.purge = "future"
    BY <2>1, <2>2 DEF ConfirmedIsComplete, SeparateInv, PurgedIsEmpty, VideoRow
  <2> QED BY <2>1, <2>2, <2>3 DEF BusyBeforeDeadline, VideoRow
<1>9. CASE WorkerNext \/ RunLost
  <2>1. Working
    BY <1>9, BusyActs
  <2>2. match' # "DELETED" => match # "DELETED"
    BY <1>9, BusyActs
  <2>3. video'.purge = video.purge
    BY <1>9, BusyActs
  <2> QED BY <1>1, <2>1, <2>2, <2>3
<1>10. CASE DeadlinePasses
  <2>1. ~Working /\ UNCHANGED <<tasks, run>>
    BY <1>10 DEF DeadlinePasses, worker
  <2> QED BY <2>1 DEF BusyBeforeDeadline, Working
<1>11. CASE PurgeSelects \/ PurgeDeletes \/ PurgeLost
  BY <1>1, <1>11 DEF PurgeSelects, PurgeDeletes, PurgeLost, rows, worker, Working
<1>12. CASE PurgeCommits
  <2>1. purger.pc = "deleted" /\ match' = match /\ UNCHANGED <<tasks, run>>
    BY <1>12 DEF PurgeCommits, worker
  <2>2. match # "DELETED" => ~Working
    BY <2>1 DEF PurgeAfterDeadline, BusyBeforeDeadline
  <2> QED BY <2>1, <2>2 DEF BusyBeforeDeadline, Working
<1> QED
  BY <1>2, <1>3, <1>4, <1>5, <1>6, <1>7, <1>8, <1>9, <1>10, <1>11, <1>12
  DEF Next, Upload, PurgeNext

\* Then the purge of a match and its runs never overlap.
THEOREM PurgesAreAlone ==
  ASSUME ~UploadsPastDeadline, ~RunsPastDeadline
  PROVE  Spec => []PurgedAlone
<1> DEFINE Inv == RecordingInv /\ SeparateInv /\ BusyBeforeDeadline
<1>1. Init => Inv
  <2>1. Init => BusyBeforeDeadline
    BY DEF Init, BusyBeforeDeadline, Working, IdleRun
  <2> QED BY <2>1, Initially, SeparateInitially
<1>2. Inv => PurgedAlone
  BY DEF RecordingInv, PurgeAfterDeadline, BusyBeforeDeadline, PurgedAlone, Working
<1>3. Inv /\ [Next]_vars => Inv'
  BY <1>2, StepKeeps, SeparateStep, BusyStep
<1> QED BY <1>1, <1>2, <1>3, PTL DEF Spec

\* No row speaks of an object that is gone, unless the next purge will remove it.
THEOREM RowsHaveObjectsAlways ==
  ASSUME ~UploadsPastDeadline, ~RunsPastDeadline
  PROVE  Spec => []RowsHaveObjects
BY OnlyRacesLoseObjects, PurgesAreAlone, PTL

\* No confirmed recording is kept without a retention deadline.
THEOREM DeadlineIsSetAlways ==
  ASSUME ~UploadsPastDeadline, ~RunsPastDeadline
  PROVE  Spec => []DeadlineIsSet
BY OnlyRacesOutliveTheDeadline, PurgesAreAlone, PTL
=============================================================================
