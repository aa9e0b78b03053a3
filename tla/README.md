# Matchly: verification project

Matchly records football matches with a fixed camera, processes the recording
into a replay and highlights, and delivers them to the players who checked in.
This directory holds TLA+ models of that system, the TLC runs that check them
and the theorems TLAPS proves about them. Paths are relative to the repository.

## 1. Inventory

### 1.1 Parts and how they interact

```
 players, staff ──HTTP──> API (apps/api) ──SQL──> PostgreSQL <──SQL── workers
 camera agent ──HTTP──>      │   │                                     ^
      │                      │   └── Celery task ──> broker (Redis) ────┘
      └──── presigned PUT ──> object storage <──── read/write ── workers
```

Nothing is shared in memory. Components interact through rows of the database,
objects of the storage and messages of the broker. A request handler is one
transaction, committed when the handler returns (`db/session.py` `get_db`),
except `process_match`, which commits before it sends the task. A worker commits
many times in one run and keeps its session's copies of the rows throughout
(`db.py`: `expire_on_commit=False`).

| component | state | operations | talks to |
|---|---|---|---|
| Pipeline runner (`packages/shared/.../pipeline/runner.py`) | `Video.status`, `Match.status`, one `ProcessingJob` row per step, a scratch directory per run | `run_pipeline`, `_settle`, `_fail_video`, `reap_stuck_jobs` | steps (calls), other workers (rows) |
| Task queue (`jobs/celery_app.py`, `job_queue.py`, `worker.py`) | messages: waiting, taken but not acknowledged, scheduled for retry | enqueue, deliver, acknowledge, redeliver, autoretry, beat | API, workers |
| Recording (`video_service.py`, `api/v1/videos.py`) | `Match.status`, `Video.status/original_url/purge_after`, `VideoSegment` rows | start, stop, request upload, complete segment, complete upload, mark processing | storage (stat, signed URL), pipeline (rows, task) |
| Storage (`storage/`) | objects by bucket and key | put by signed URL, stat, delete, delete prefix | agent, workers |
| Media steps (`video_worker/steps/*.py`) | master, replay, proxy, frames, `Highlight` rows, clips and thumbnails | VALIDATE … PERSIST | storage, rows |
| CV steps (`ai_worker/steps/cv.py`) | scratch files, `PlayerTrack` rows | DETECT_PLAYERS, TRACK, JERSEY_OCR | storage, rows |
| Maintenance (`maintenance.py`) | `Video.purge_after`, `Camera.status` | hourly purge, minutely camera sweep | storage, rows |
| Check-in (`match_service.py`) | `MatchPlayer` rows with two unique indexes | join, operator add, update, leave, remove | users |
| Scheduling (`match_service.py`) | `Match` field and time window | create, update, delete, list | fields |
| Auth (`auth_service.py`, `otp/`) | users, OTP challenges, refresh tokens | request and verify a code, refresh, log out, role checks | OTP provider |
| Venues and cameras (`venue_service.py`) | venues, members, fields, cameras, agent tokens, heartbeats | add member, create field, attach camera, heartbeat | recording |
| Highlight selection (`highlights/selection.py`, `registry.py`) | none: pure | windows, non-maximum suppression, detector ladder | SCORE_EVENTS |
| Jersey voting, tracking (`ai_worker/jersey/voting.py`, `tracking/bytetrack.py`) | none: pure over a run's data | vote, associate, track | CV steps |
| Exports (`exports.py`) | `Highlight.video_url_vertical` | vertical clip on request | storage, rows |
| Web client (`apps/web/src/lib`, `SessionProvider`, login page) | one token pair in localStorage for all tabs, requests in flight, one refresh in flight per tab | sign in, request, refresh and replay, sign out | API |
| Schema (`domain/models.py`, `alembic/versions`) | tables, types, revision | upgrade, downgrade; what a deletion takes | all rows |
| Not core: schemas, presenters, pagination, configuration, logging, seed data, ffmpeg wrapper, model runtimes, views, infrastructure | | | |

### 1.2 What is hard

* Two runs of one video: nothing locks a video, so a second `POST /process`, or
  a message redelivered while its first worker is still alive, runs the same
  steps over the same rows.
* Stale session copies: a worker's UPDATE contains only the columns that differ
  from what it believes the row holds.
* A worker dying between commits, with a redelivered message, lost scratch files
  and a job row that says RUNNING.
* The request that committed PROCESSING and could not enqueue.
* The reaper of stuck jobs, which reads and then resets by id: a job that ends in
  between is reset all the same.
* The cache of completed steps, keyed by a fingerprint of the upload, when the
  upload changes, and when the cached step's scratch files are gone.
* Uploads confirmed at any match status; the retention purge and the deletion of
  a match while a recording is in use; objects with no row and rows with no
  object.
* Two check-ins reaching the partial unique index at once; bookings checked and
  then inserted without a lock; edits that each respect a rule and together
  break it.
* Requests of a page, and of two tabs with one session, that meet an expired
  token together; a rotation whose answer is lost; an attempt at a code that must
  count although its request is rolled back; verifications and rotations at once,
  which read and write their rows without a lock.
* Heartbeats, the offline sweep and the replacement of a camera that write over
  one another.
* A deletion that loads rows while a run and the agent add some.
* Algorithms at their edges: ties, thresholds, occlusions, strides, clamped
  windows, three resolutions that meet.

### 1.3 What makes each part correct

* Pipeline: READY only when every required step ran, on the current upload; no
  match stays PROCESSING with nobody to finish it; no job says RUNNING for ever.
* Recording: a video is UPLOADED only with a complete recording; a purged or
  replaced original is never what a run needs; statuses only move the way
  `MatchStatus` documents; deletion leaves no footage.
* Highlights: no card without a clip, no clip deleted while a row points to it.
* Check-in: one place per player per match, one non-overridden shirt number per
  team, nobody joins after kick-off.
* Scheduling: no two matches overlap on one field.
* Cameras: a camera that stopped reporting is marked offline, a reporting one is
  not.
* Sessions: a code can be guessed a bounded number of times, as far as its
  attempts are counted; a sign-in has one token that can be renewed, unless two
  rotations race for one; the client loses its session only for a reason.
* Schema: migrations apply from and to every revision and end in what the
  classes declare; a deletion takes its own rows and no others.
* Analysis: a track is lost only to age, a verdict only to a better founded one,
  a moment only to a better one, and the whole recording is looked at.

## 2. Plan

In order of importance. Every module is parameterised by CONSTANTS, has one
action per operation and, where it is proved about, no RECURSIVE operator.

| | modules | state |
|---|---|---|
| 1 | `Domain`, `Pipeline`: overlapping runs, redelivery, retries, reaper | modelled, checked, proved |
| 2 | `Processing`: the contract that `Pipeline` implements as long as no two runs overlap | refinement checked and proved |
| 3 | `Recording`: lifecycle, uploads, storage, retention, deletion | modelled, checked, proved |
| 4 | `CheckIn`: concurrent requests against two unique indexes | modelled, checked, proved |
| 5 | `Highlights`: rows against clip objects over re-runs and crashes | modelled, checked, proved |
| 6 | `Accounts`: codes, accounts, refresh rotation and the web client | modelled, checked, safety proved, the client's session included |
| 7 | `Bookings`: overlap checks, racing edits | modelled, checked, proved |
| 8 | `Cameras`: tokens, heartbeats, sweep | modelled, checked (liveness) |
| 9 | `Arrange`, `Tracker`, `JerseyVote`, `Reel`, `Sampling`: the algorithms of the analysis | modelled, checked, proved |
| 10 | `Tables`, `Migrations`, `Deletion`: schema and cascades | modelled, checked, proved |
| 11 | overlapping runs in `Recording` and `Highlights`; the vertical export, once an endpoint enqueues it; a purge sweep over several videos | open |

Runs are shared where components ask the same kind of question: `MCVenue` and
`MCAnalysis` hold several components whose states do not meet, and `MCAccounts`
has the codes and the tabs apart. Their variable
`part` picks one in the initial state, and the others stand still, so that the
state spaces add up and do not multiply.

## 3. Modules

Conventions. One action is one database transaction: what the code does between
two commits. The database is READ COMMITTED and takes no explicit locks, so
everything else may happen between two actions. A write to object storage is an
action apart from the commit that records it. A SQLAlchemy session keeps copies
of the rows it loaded (`expire_on_commit=False`), and an UPDATE sets only the
columns in which the copy was changed; where that matters the copies are part
of the state. Names are the source's. Definitions marked "faulty variant" are
plausible mistakes in the code; no specification uses them, they serve to show
that a property can fail. Each `MC*` module gives the constants finite values.

### 3.1 Domain

The enumerations of `domain/enums.py`: statuses, `PIPELINE_ORDER`,
`REQUIRED_STEPS`, `AI_STEPS`, and which steps skip or read scratch files.

### 3.2 Pipeline

| TLA+ | code |
|---|---|
| `video`, `match` | `Video.status`, `Match.status`; whether `failure_reason` is set |
| `upload` | what `_step_fingerprint` hashes |
| `job` | the `ProcessingJob` rows: status, fingerprint; `ran` is history: whether the step's last execution ended well |
| `outbox`, `queue` | between the commit and the send in `process_match`; the broker |
| `run[w]` | position in the walk, session copies of both rows, scratch directory |
| `ProcessMatch`, `EnqueueProcessing`, `QueueUnavailable` | `mark_processing`, `_send` |
| `CompleteUpload`, `CompleteSegment` | the endpoints of that name |
| `StartRun` … `Settle`, `FailVideo` | `run_pipeline`, `_mark_*`, `_fail_video`, `_settle` |
| `WorkerLost`, `Acknowledge`, `AutoRetry` | `acks_late`, `reject_on_worker_lost`, `autoretry_for` |
| `Redelivered` | the broker hands out again a message that is still unacknowledged, while its worker goes on |
| `reaping[r]`, `ReaperLoads`, `ReaperWrites` | the jobs `reap_stuck_jobs` read; its query, and its UPDATEs by id at the commit; time is abstract, any RUNNING job may be old enough |

A step is nondeterministic: it succeeds, skips if its code raises `StepSkipped`
anywhere, or fails. `Flush` is the ORM's column-wise UPDATE. `Expired` is the
copy after a rollback, which the next use loads again. The reaper locks nothing
and does not look again: what a worker committed since the query is written over.
`ran` is kept apart from the status for this reason: a step commits its data rows
and `job.result` with its mark, and a reset touches neither. The broker is not in
the repository; that Redis takes a message back when it stays unacknowledged for
longer than the visibility timeout, and then leaves each delivery to be
acknowledged on its own, is assumed.

### 3.3 Recording

One match from kick-off to deletion. `stored`, `master` and `replay` are objects,
`segments` and `video` rows, `urls` the signed URLs that have not expired, `done`
the cached steps. `FetchSegments`, `JoinSegments` and `JoinRecorded` are VALIDATE
(download; put; commit), `PurgeSelects`, `PurgeDeletes` and `PurgeCommits` the
hourly purge. API requests are atomic here. The steps after TRANSCODE are in
`RunSettles`.

Four constants bound the discipline of the agent and of staff, since the code
itself accepts a confirmation at any time: `UploadKeys` (master, segments or
both), `LateUploads` (whether it uploads or confirms again after UPLOADING),
`UploadsPastDeadline` (whether it does so past the retention deadline, which is
days away) and `RunsPastDeadline` (whether a run is still at work then).

### 3.4 CheckIn

The roster of one match. Each element of `Requests` makes one call: `Join`,
`Add`, `Edit`, `Leave` or `Remove` is its first half, which loads and checks, and
`WriteInsert`, `WriteEdit` or `WriteDelete` the second, which meets the rows as
they are by then, the two unique indexes of `match_players` (`Verdict`) and
`_integrity_kind`. `Merged` is the column-wise UPDATE. `allowed` is a history
variable: what staff overrode. `RacingEdits` says whether staff edit one player
from two screens at once.

### 3.5 Highlights

One video over successive runs: `rows` and `clips`, the cache `done`, and three
steps. SCORE_EVENTS is `ScoreEmpties` (storage) then `ScoreCommits`; CUT_CLIPS is
`CutPuts` then `CutCommits`; every step may fail, skip or die in between. Runs
follow one another and uploads come between them; `Pipeline` has the overlaps.
`Forces` says what `force` the requests may carry and `Barren` which recordings
have no moment above the threshold. `RunSettles` writes nothing when PERSIST
already set READY in the session's copy.

### 3.6 Processing

The contract of `Pipeline` for those who watch a match: `status`, whether anybody
still owes it an answer (`owed`), whether a request was `lost`, the `upload`, and
per required step the upload its standing `result` was made from. `Publish`
needs every result and each made from the present upload; `Fail` and `Leave` are
the other ends of a run. `Pipeline!Implements` is the refinement mapping: `owed`
is the existence of an outbox entry, a message or a run that can still settle the
match, and a step's result is the fingerprint of its job if its
last execution ended well (`Ran`), reset since or not.

### 3.7 Accounts

One phone number. `RequestOtp` to `VerifyConflicts` are the OTP endpoints. Each
element of `Logins` makes one verification at a time, `Page` that of the login
page, and they overlap as the code lets them: `VerifyLoads` reads the challenge,
`VerifyCounts` writes the attempts it read plus one in a transaction of its own
(`auth_service.py:143`), `VerifyCompares` compares, and `VerifyIssues` commits the
tokens without asking whether the challenge was consumed meanwhile. `RefreshLoads`
and `RefreshCommits` are the two halves of `refresh_tokens`, which locks nothing
either. `CallSends` to `CallEnds` are `request` of `api.ts`, `CallWaits` and
`RefreshSettles` its `tryRefresh`: `refreshInFlight` is per tab (`refresh[b]`), the
pair in localStorage is of all tabs (`store`). Nobody but the tabs presents the
client's tokens. A token pair is named by its refresh token; `login` is the first pair of its sign-in. Tokens
run out at any time, except that a replay finishes before the pair it was given
does. A person types a code when nothing of the client's is in flight (`Quiet`).

Four histories name the races: `checks` (comparisons of each code), `overwritten`
(attempts that a count did not know of), `raced` (tokens that two rotations loaded
before either revoked them) and `overlap` (two tabs have refreshed at once).

### 3.8 Bookings, Cameras

`Bookings`: `CreateChecks` and `CreateInserts` are the two halves of
`create_match`, `EditLoads` and `EditWrites` of `update_match`, which writes the
columns it changed and checks no overlap. `knew` and `moved` are history: which
matches were there when a booking was checked, and which were rescheduled.
`Cameras`: `AttachLoads`/`AttachWrites`, `HeartbeatLoads`/`HeartbeatWrites` and
`SweepSelects`/`SweepWrites` are the halves of `attach_camera`, the heartbeat and
`sweep_stale_cameras`, each an UPDATE of the columns that differ from what it
loaded. The capture agents are not in this repository; they hold a token, report
and stop.

### 3.9 Arrange, Tracker, JerseyVote, Reel, Sampling

The pure algorithms as operators, driven by actions that choose their input.
`Tracker` is one frame of `ByteTracker.track`: both stages, greedy association by
overlap, ageing, the length filter. Pixels are abstracted to three levels of
overlap. `JerseyVote` is one track of `read_jerseys`: registered numbers, reads
with confidences, the vote and the attribution, while staff edit the roster.
`Reel` is SCORE_EVENTS: the ladder of detectors, their scores from series per
bucket of a second, and the selection, for any of the recordings in `Films`
(how long, and the rolls before and after a moment). `Sampling` is which frames are thinned
out, which moments of a track are cropped, and how a box found on a scaled frame
is scaled back to the master. `Arrange` is what they share, Python's `sorted` and
the loops over its result: an order is a set of pairs, `Arranged` sorts a set by it,
`Foremost` takes the first n, and `Taken` walks the set in that order and drops
what clashes with something it took (`Picked`: until n were taken). The tracker's
association and returned tracks, the moments of a track and the selection of the
reel are these, as recursive functions on sets, of which something can be proved.
Confidences and scores are whole percents and
shares are compared by multiplying out. Time in `Reel` counts quarters of a second
(`Second == 4`): a recording may end within a bucket (`Buckets` is the ceiling), whose
middle, where its moment is, may then lie past the end, and `Window` has both of the
clamps of `to_window`.

### 3.10 Tables, Migrations, Deletion

`Tables` has the schema twice, as the migrations create it (`Database`) and as the
ORM classes declare it (`Models`), reduced to references with their ON DELETE
rule, unique keys and enumeration types. `Migrations` runs an Alembic command, which
moves from one revision to another in one transaction: the statements of each
migration one by one, then the stamp (`Stamp`); an interruption rolls all of it back. `Deletion` loads what
the ORM's cascades reach (`Load`), then flushes (`Flush`) against the ON DELETE
rules, while the desk, the agent and a run commit rows of the same match.

## 4. Runs

| run | asks | bounds |
|---|---|---|
| `pipeline_one` | READY means every required step ran, on this upload; every step implements `Processing` | one worker, 3 steps (optional, required that may skip, PERSIST), 2 requests (forced or not), 1 fault, 1 redelivery, no retry, 1 new upload between runs, 1 reaper; 2.6 million states |
| `pipeline_two` | nothing abandoned, no phantom RUNNING | two workers of one image on one video, 3 steps, 2 requests, 1 redelivery, 1 upload during a run, 1 reaper, no fault; 2.8 million states |
| `pipeline_live` | PROCESSING is settled, RUNNING ends | two workers that divide 5 steps of every kind (one lacks the CV steps, one two required ones), 1 request, 1 fault, 1 retry; fair |
| `recording` | rows and objects agree, replays are whole, deadlines hold and are met | 2 segments and a master, late confirmations, 4 uploads, 2 requests, 1 crash; fair |
| `checkin` | one place, no unchosen duplicate, right refusals, nobody brought back | 3 requests of any kind, 2 players, 2 teams, 2 numbers |
| `highlights` | cards of a READY match play, are current, stand still | 3 recordings of which the first shows nothing, 5 row ids, 3 unforced requests, 2 crashes |
| `accounts` | codes, rotation, the client's session, its requests | codes: 2 codes of 2 attempts, 2 verifications at once, 1 account; tabs: 2 tabs, 2 calls (`me`, `logout`), 3 token pairs, 1 lost answer; fair; 0.56 million states |
| `venue` | bookings, the camera's row, migrations, deletions | 2 matches, 2 members of staff, the hours 0 to 2, 2 edits; 2 agents, 2 tokens, 2 faults; 3 revisions; 2 matches, players, users and highlights, 1 video, segment, job and track, 10 rows in all; the camera fair |
| `analysis` | the algorithms of 3.9 | 4 frames with 2 sure and 1 unsure box; 3 players, 2 numbers, 4 reads, 1 correction; 2 signals on 5 recordings: 6 s and 5.25 s, 1.25 s and 0.75 s (shorter than the rolls, than a second), 5.25 s with no rolls; up to 9 frames, 3 formats |

The bounds are the least at which the cases of section 1.2 occur: two requests,
or one and a redelivery, for an overlap or a re-run over cached jobs; one fault between any two commits and
a second attempt after it; two workers, since the rows they share do
not tell a third apart from a repetition of the second; two segments for a gap;
three requests so that one can be undone between the halves of another; five row
ids for two selections of which one has several moments; two verifications and
two attempts for a count that is written over; three pairs for a rotation of a rotated
pair, or for two of one; recordings for each branch of a window and of a last bucket;
four frames for a track that is seen, missed, found and missed again; ten rows for a match with a video, an analysed player and a
second match that must survive. The theorems of section 5 remove the bounds
where they exist: `pipeline_two` has no fault, to keep it enumerable, and that a crash
under two overlapping runs abandons no match is `NeverAbandoned`.

Three runs find what the code does and its documents or constants do not say; each
is listed under "findings" in `PROJECT.json`:

| run | what happens | contradicts |
|---|---|---|
| `pipeline_overlap` | of two overlapping runs one fails a required step, the other settles READY over it | `runner.py:318` |
| `recording_delete` | deleting a match removes the rows and leaves every object | `docs/privacy.md:47-48` |
| `analysis_scale` | a box found on a frame `proxy_height` wide is divided by the master's size: the crop is taken elsewhere | `cv.py:199` |

All runs are without the deadlock check: requests, uploads, tokens, bookings, row ids
and frames are bounded and run out, the algorithms end, and a system nobody asks
anything of may rest. That nothing stops half-way is what the liveness properties say.

Variants of the passing instances show what their assumptions are for. They are
not among the runs, and are found by changing the constants named or putting the
property into the configuration:

| instance | fails | because |
|---|---|---|
| `checkin` with `RacingEdits = TRUE`, `Ops = {"join", "edit"}` and `Requests <- FourRequests` | `DuplicatesWereAllowed` | two edits of one player merge into a duplicate nobody allowed (`models.py:358`) |
| `highlights` with `Forces = {TRUE, FALSE}`, `Barren = {}`, `MaxUploads = 1` | `ReadyCardsPlay` | after a forced run failed at SCORE_EVENTS the next one selects anew and takes CUT_CLIPS and PERSIST from the cache |
| `recording` with `UploadKeys <- SegmentsOnly` | `MasterIsSet` | a repeated `complete_upload` resets `original_url` under a cached VALIDATE; every retry fails (`_source.py:40`) |
| `recording` with `RunsPastDeadline = TRUE` | `DeadlineIsSet`, `RowsHaveObjects` | a join put after the purge emptied the bucket outlives its deadline; one put before and recorded after names an object that is gone. `ReadyIsWhole` and `QuietWhileUploading` still hold |
| `recording` with `UploadsPastDeadline = TRUE` | `DeadlineIsSet`, `RowsHaveObjects`, `ReadyIsWhole` | what is confirmed while the purge is at work is emptied with the rest or kept without a deadline, and a late segment is joined alone |
| `highlights` with `Barren = {2}` | `HighlightsAreCurrent` | the selection of the replaced recording is left and cut out of the new one |
| `pipeline_one` with `ReadyRowsSayRan`, `MaxRequests = 1`, `MaxFaults = 0`, `MaxRedeliveries = 0` | `ReadyRowsSayRan` | the reaper reads a job that is RUNNING, the step succeeds, the match becomes READY, and the reset makes the job PENDING for good (`runner.py:342-355`; the docstring speaks of "jobs abandoned by a dead worker") |
| `pipeline_two` with `MaxRequests = 1` | `ReadyMeansRan` | the message of one request is redelivered to the second worker, and the two runs overlap as in `pipeline_overlap` |
| `accounts` with `CodeIsGuessedSeldom` | `CodeIsGuessedSeldom` | two verifications load the same number of attempts and write the same next one (`auth_service.py:14-16`, `docs/api.md:117`) |
| `accounts` with `CodeSignsInOnce` | `CodeSignsInOnce` | two verifications with the right code pass the comparison before either consumes it (`auth_service.py:19-20`, `docs/api.md:117`) |
| `accounts` with `RotatesOnce` | `RotatesOnce` | two tabs present one refresh token, both find it valid and both are given a successor (`docs/api.md:73-74`) |
| `analysis` with `ClipsHaveLength` | `ClipsHaveLength` | of a 5.25 s recording the last bucket's middle is at 5.5 s: without a pre-roll its clip starts there and ends at 5.25 s, which `highlights_time_order` (`models.py:555`) refuses |
| `accounts` with `SignOutEnds` | `SignOutEnds` | a sign-out that meets an expired access token revokes the half that was rotated away |

Other disagreements met while modelling: `voting.py:21` works an example to 0.82
which the code makes 0.874; numbers registered on both teams are dropped
(`RegisteredNumbers`); the ladder picks a detector by the data there is and a
detector that finds nothing in it is not followed by the next, so that a match can
end without candidates (`mock.py:90`); removing a player can end in an error when
a run replaces his highlights or tracks between the load and the flush, and a
track that was given to another player in between loses its name; an attach that
races a heartbeat can leave a camera ONLINE with no `last_seen` until the sweep;
with the steps divided over images, a message redelivered after PERSIST to a worker
that lacks a required step leaves the match PROCESSING with every job done.

### 4.1 What the properties say

* `ReadyMeansRan`: READY only when the last execution of every required step ended
  well, whatever the reaper made of its row since. True as long as no two runs
  overlap, as with one worker; `ReadyAtRest` is what fails when they do. That the
  rows of a READY match say so, too (`ReadyRowsSayRan`), is false of the code.
* `ProcessingIsOwned`: PROCESSING always has a request, message or run to settle
  it, although UPDATEs from stale copies leave out columns. Assumes that each
  worker has all required steps (`Servable`), as both images do, and that no
  request was lost in the broker. `ProcessingSettles`: such a match is settled;
  where the steps are divided, at least every required step gets its job.
* `RunningIsOwned`, `RunningEnds`: a RUNNING job has a run in that step, absent
  faults; with faults it does not stay RUNNING.
* `ReadyIsCurrent`: a match turns READY only from steps run on the upload it has.
  `Implements`: every step of `Pipeline` is one of `Processing` or none.
* `RowsHaveObjects`: a row never speaks of a missing object unless the next purge
  will remove it. `ReadyIsWhole`: the replay has every segment.
  `QuietWhileUploading`: no worker reads what is still being uploaded.
  `DeadlineIsSet`, `DueIsPurged`: the two halves of retention.
* `OnePlaceEach`, `DuplicatesWereAllowed`, `TakenBySomebodyElse`, `LeftStaysOut`:
  the roster under races.
* `ReadyCardsPlay`, `HighlightsAreCurrent`, `ReelIsStill`: the cards.
* `AttemptsBounded`: a code is compared `otp_max_attempts` times, and once more for
  each attempt that a parallel request wrote over in its row: how much the missing
  lock gives away, and that nothing else does. `RotationKeepsOne`: a sign-in has one
  token that can be renewed, unless two rotations raced for one of its tokens. What
  the documents say without these allowances is false of the code (section 4).
* `SessionSurvives`: the client's tabs lose their session only for a reason, to which
  two tabs refreshing at once belongs. `CallsEnd`: every request ends, until the
  bound on pairs is met.
* `TimesOrdered`, `DoubleBookingIsExplained`: two matches to be played share an
  hour only after a reschedule, or when neither creation could see the other. That
  they never do, as `docs/api.md` has it, is false of the code.
* `CameraSettles`: once agents and staff are quiet, the row shows what is the case.
* `MigrationsApply`, `SchemaIsTheModels`: the schema. `OneMatch`: no highlight or
  track names a player of another match than its video's. `DeletionTakesExactly`: a
  match can always be deleted and takes all of its rows and no others, late ones
  included; a removed player takes none along, and only removing one can fail.
* `ClaimsAreStable` (a pair of track and box that could match is only lost to one
  at least as good), `OccludedAreKept`, `LastingTracksAreReturned`,
  `VerdictIgnoresOrder`, `AgreementIsKept`, `AttributionIsUnambiguous`,
  `ReelIsWatchable`, `LeftOutForBetter`, `WholeMatchIsSeen`, `MomentsAreSpread`: the
  algorithms against what they are for, stated without their loops. `ReelIsWatchable`
  promises a length only to clips that start inside the recording, which all do that
  open a second before their moment.

### 4.2 Fairness

`Pipeline`: a worker takes a waiting message and gets through a step it began
(each step is a finite computation on a finite file), the API sends what it
committed unless it fails, and beat runs the reaper every five minutes,
which writes what it read.
`Recording`: time passes, the worker gets on, and beat starts the purge every
hour. `Accounts`: the API answers what reaches it, and the event loop of each tab
handles the answers. `Cameras`: a running agent sends its heartbeats, beat runs
the sweep every minute, a request that loaded also writes, and a heartbeat that
nobody renews grows old. All are weak: each action stays enabled until it is
taken. Nothing is assumed of requests, uploads, staff, expiries or faults. `lost`
excuses a match whose request never reached the broker or whose retries were used
up.

## 5. Proofs

All proofs are checked by tlapm; the assumptions are those named in the
modules, evaluated by TLC on every instance.

`Pipeline_proofs`. `TypeCorrect`: typing needs that a run in a step is at a
registered step of the order (`StepInOrder`). `NeverAbandoned`
(`ProcessingIsOwned`, any number of workers): not inductive, because a run whose
copy already says READY will not write READY again; `StatusOwned` adds that the
owner is a run whose copy does not say READY. `NoPhantomRunning`
(`RunningIsOwned`): faults never decrease, so a state without faults has a past
without. `OnlyOverlapsSpoilReady` (`ReadyMeansRan`): as long as no two runs are
alive at once (`Alone`); images may divide the steps, as long as one that
registers PERSIST registers all that are required. The strengthening `RanSoFar`
says that the required steps behind a run have run and the rows are unfinished
until it is past the last; it speaks of `ran`, which no reset touches, so that the
reaper may be as late as it likes. `OnlyStaleResetsHideResults` is about the rows
themselves (`ReadyRowsSayRan`): they deny what has run only if runs overlap or the
reaper resets a job that has ended since it read it (`FreshReset` is the opposite).
`RunsAreAlone`: one worker process never has two runs alive, nor has one request,
wherever its worker dies and Celery retries, because it is in one place at a time
(`OneCarrier`), until another request is made or its message is handed out again
beside its live run. `OneAtATime` says so of a state, and `ReadyIsDone` and, below,
`PipelineImplementsProcessing` and `ReadyIsCurrentAlways` are about the behaviours
in which it always holds: with one worker, all of them.

`Pipeline_proofs`, second part. `OnlyOverlapsBreakTheContract`: as long as no two
runs overlap and no upload is confirmed inside a run (`ConfirmedBetweenRuns`: the
code does not check it, an operator who waits does, `WaitingConfirmsBetweenRuns`),
every step of `Pipeline` maps to a step of `Processing` or a stutter. The mapping needs the invariant `OneRun`: while
the run is live, its copy is of this upload, everything required behind it is
fresh, and it only fails the match for a step that failed. The same invariant gives
`OnlyOverlapsPassOffOldResults` (`ReadyIsCurrent`): a match turns READY by the step
of a run behind which every required step is fresh (`ReadyFromFresh`).

`Recording_proofs`, for any segments, contents, uploads, runs and faults, late
uploads included. `QuietAlways` assumes nothing. `RecordingInv` says that workers
act on a confirmed recording (`BusyOnConfirmed`), the purge on every row once the
deadline is past (`PurgeAfterDeadline`), that a confirmed recording has a master,
all its segments or was purged (`ConfirmedIsComplete`), and that a run joins all of
them (`JoinsAll`). It needs that nobody uploads past the deadline, and gives
`ReadyIsWholeAlways` even where a run races the purge. Rows and objects agree, and
deadlines are set, as long as no run is at work while the purge is (`PurgedAlone`):
`OnlyRacesLoseObjects`, `OnlyRacesOutliveTheDeadline`, from `SeparateInv`: rows that
are not due find their objects, what the purge loaded is still so, and what a run
joins was not purged. `PurgesAreAlone` shows this of runs that are over before the
deadline, and the other two `Always` theorems follow.

`CheckIn_proofs`, for any players, teams, numbers and requests. `IndexHolds`: no
two rows outside of the override share team and number, even when edits race.
With typing, `Answered` and `OnePlaceEach` it is `RosterInv`, which gives
`RosterTyping`, `OnePlaceAlways`, `IndexAlways`, `TakenAlways` and
`LeaversStayOut`. `OnlyRacingEditsDuplicate` is about the behaviours in which no
player is being edited from two screens (`EditedByOne`), and needs two more parts:
the row an edit writes over is the one it loaded (`EditsAreCurrent`), and every
overridden row was allowed.

`Highlights_proofs`, for any rows, uploads, requests and crashes.
`ReelIsStillAlways` needs only that a run at work is told by the status
(`WorkIsTold`). `OnlyLeftoversAreOld` (`HighlightsAreCurrent`): cards are of this
recording as long as none without highlights replaces one that had some
(`NothingLeftOver`), whatever is forced; rows are those of the recording once one of
its steps is done (`RowsAreFound`). `OnlyHalfRepeatsSpoilCards` (`ReadyCardsPlay`)
needs besides that a forced run does not stop with steps still to repeat in the cache
(`FinishesForced`). `CacheInv` is about the steps that stand: cached, and not about
to be repeated (`Stands`). SCORE_EVENTS stands for rows whose URLs have clips,
CUT_CLIPS for at least one clip, PERSIST for no row without one; a step stands only
on those before it, a run has behind it what it passed, and READY needs all three.
The run checks instances of both premises: no call forces, and at most the first
recording is without highlights.

`Accounts_proofs`, for any tabs, calls, verifications at once, tokens, accounts,
codes, attempts and lost answers. `Counted` keeps the books of a code: its
comparisons and the requests that have counted and not compared yet (`Pending`) are
together no more than the attempts in the row and those written over, and a request
only gets to its count when what it loaded leaves room. That every count is booked
before its comparison, whatever row it meets, makes `AttemptsBoundedAlways`.
`RotatesTheLast`: while a rotation is between its load and its commit, every other
token of the sign-in is revoked, even if the one it holds is revoked meanwhile, and
no other rotation holds one, unless one of its tokens is in `raced`; every sign-in is
named by a token of its own (`LoginsIssued`). `AccountsInv` is both, and
`RotationKeepsOneAlways` follows. For these the client matters only in that it
presents tokens it was given.

`SessionSurvivesAlways` is about the client and the server together, and inductive as
`overlap \/ SessionInv`: until two tabs refresh at once, one at most does
(`OneRenews`). `SessionInv` says that whatever the tabs hold is of one account
(`OneSession`), what an answer means and that a replay never meets an expired token
(`AnswersMean`), that a refresh in flight renews the stored pair, or one that was
signed out of, and nobody else knows the pair it gets (`Renewal`), and that the
stored pair is only revoked, or its renewal refused, for a reason or because the
next pair is on its way (`Refusals`). The last two hold because the requests of a
tab share one refresh (`SingleFlight`): with one for each, a later one presents the
token that an earlier one has rotated away, is refused, and ends the session.

`Venue_proofs`. `Bookings`, for any matches, staff, hours and reschedules:
`BookingsInv` says that what a creation could see and nobody moved stays apart from
it, before it is written (`PendingApart`) and after (`CheckedApart`). `Migrations`
has no constants, so that the run has seen every state; `MigrationsApplyAlways` and
`SchemaIsTheModelsAlways` say why they hold. `MigrationsInv`: what is committed is
what a revision leaves (`SavedIsWhole`), and the schema of a command under way is,
for each of the six migrations and the number of statements it has run, the one
named in `PartWay`, on which the next statement applies.

`Deletion_proofs`, for any matches, players, videos and rows. `DeletionInv` is
referential integrity (`ReferencesHold`), `OneMatch`, that the players a run knows
are, while they exist, of its video's match (`RunKnows`), and that what a session
loaded for a match is part of it and needs no SET NULL (`StaffHolds`). The last is
why a row committed between load and flush does not matter: the ON DELETE rules
of the tables take it, and nothing refers to it from outside of the match. The
theorems are `RowsAreOfOneMatch` and `DeletionTakesExactlyAlways`; the cascades of
`Tables` are expanded in the proof, so it is a proof about this schema.

`Analysis_proofs`, a theorem for each property of `analysis`:

* `Sampling`, for any recording, limit, track and box sizes:
  `WholeMatchIsSeenAlways`, by arithmetic of the stride, and
  `MomentsAreSpreadAlways`.
* `Tracker`, for any number of tracks, boxes and frames. `OccludedAreKeptAlways`
  needs that a track's misses are the frames since its last point
  (`MissesAreCounted`), `ClaimsAreStableAlways` that overlaps are measured against
  all live tracks (`BoxesMeetTracks`), and `LastingTracksAreReturnedAlways` that
  each reference given out is that of a live or closed track (`RefsAreKept`).
* `JerseyVote`, for any roster, reads and settings that are shares with a margin of
  at least one percent. `JerseyInv`: the row is the step's reading of the roster as
  it was, and whom it names is still on it. `VerdictIgnoresOrderAlways` and
  `AgreementIsKeptAlways` rest on a form of the verdict without the ranking:
  the margin makes a winner unique, so that equal weights give no verdict, whoever
  is ranked first.
* `Reel`, for recordings of any length, any rolls, detectors' series and settings.
  `ReelInv`: what is scored lies in a bucket of the recording, the last of which may
  reach past its end (which is where each detector's series has to be looked at),
  and the reel is the selection of it. `ReelIsWatchableAlways` and
  `LeftOutForBetterAlways` follow from what a walk takes.

Sorting, greedy walks and sums are recursions over the subsets of a finite set. The
provers cannot instantiate an induction theorem that takes an operator; the
proofs use instead that a set of exceptions, if not empty, has a smallest member
(`SmallestSet`, `NoException`). `Recursion` shows with it that such a function is
defined, and `ArrangedIs`, `ForemostIs`, `TakenIs`, `PickedIs` and `SumAny` say what each
of them gives; the theorems cite those and expand no recursion.

The instance of `MCAccounts` shows the codes and the tabs one at a time; the theorems
of `Accounts` are about both at once.

Only model-checked: liveness (`ProcessingSettles`, `RunningEnds`, `DueIsPurged`,
`CallsEnd`, `CameraSettles`), which is out of the prover's reach, as is anything with
ENABLED. Every other property of a passing run is a theorem.

Theorems named `Only...` have a premise on the behaviour, not on the constants: they
say that what the variants of section 4 and the findings do is the only way to break
the property.

## 6. Not modelled

* `run_pipeline(only=...)` and the `run_step` task, which no route enqueues; the
  `attempts` counter, which nothing reads (so retries are bounded by Celery's
  `max_retries` only).
* `export_vertical`: `enqueue_vertical_export` is called by no endpoint.
* What ffmpeg, the detection model and the recognizer compute. A step is an
  outcome and its writes; the algorithms that work on their results are in 3.9.
* Overlapping runs in `Recording` and `Highlights`; several videos in one purge
  sweep; thumbnails and vertical crops.
* In `Tables`: plain columns, checks, defaults and indexes for speed. Users, fields
  and venues are never deleted by the program, so their cascades are not taken.
* Two requests for a code at once, which count the rows of the window without a lock
  (`request_otp`): `RequestOtp` is one step, so that `MaxChallenges` is never exceeded.
  A refresh token presented by somebody other than the client.
* Join codes, profile and venue edits, role checks, the delivery of a code: single
  statements without a protocol.
* HTTP parsing, serialisation, pagination, configuration, logging, seed data,
  containers and the views of the web application: they keep no state that a
  protocol depends on.
