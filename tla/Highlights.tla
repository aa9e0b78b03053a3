----------------------------- MODULE Highlights -----------------------------
(***************************************************************************)
(* The highlights of one video over its runs: SCORE_EVENTS selects moments *)
(* and writes them as rows, CUT_CLIPS puts a clip in the derived bucket    *)
(* for each, PERSIST drops the rows that got none, and the match is READY. *)
(*                                                                         *)
(* Storage is written before the rows that speak of it are committed, a    *)
(* run can stop between any two commits, and a later run takes the steps   *)
(* that succeeded from the cache.  Runs follow one another here; Pipeline  *)
(* has those that overlap.  THUMBNAILS works as CUT_CLIPS does and may     *)
(* fail, so it is left out.                                                *)
(***************************************************************************)
EXTENDS Integers, FiniteSets

CONSTANTS
  Ids,          \* ids of highlight rows: a new selection takes fresh ones
  None,
  MaxUploads,   \* bound: recordings uploaded, numbered from 1
  Barren,       \* those in which no moment clears the score threshold
  Forces,       \* the values of "force" that POST /process is called with
  MaxRequests,  \* bound: calls of POST /process
  MaxFaults     \* bound: crashes of the worker

Uploads == 1..MaxUploads

ASSUME HighlightsAssumption ==
  /\ MaxUploads \in Nat \ {0} /\ MaxRequests \in Nat /\ MaxFaults \in Nat
  /\ Barren \subseteq Uploads /\ Forces \subseteq BOOLEAN
  /\ None \notin Uploads

VARIABLES
  status,  \* Video.status
  upload,  \* the recording there is: what the steps' fingerprints are made of
  rows,    \* id |-> the Highlight row
  used,    \* the ids that were given to a row
  clips,   \* the ids that have a clip object
  done,    \* step |-> the fingerprint its SUCCEEDED job records
  tasks,   \* process messages, by force
  run,     \* the worker's run
  requests, faults

vars == <<status, upload, rows, used, clips, done, tasks, run, requests, faults>>

Steps == {"SCORE_EVENTS", "CUT_CLIPS", "PERSIST"}
Row   == [upload : Uploads, clip : BOOLEAN]
NoRow == [upload |-> None, clip |-> FALSE]

Places == Steps \cup {"idle", "emptied", "cut", "settle", "ready"}
Run    == [pc : Places, force : BOOLEAN, cut : SUBSET Ids]

IdleRun == [pc |-> "idle", force |-> FALSE, cut |-> {}]

TypeOK ==
  /\ status \in {"UPLOADED", "PROCESSING", "READY", "FAILED"}
  /\ upload \in Uploads
  /\ rows \in [Ids -> Row \cup {NoRow}]
  /\ used \in SUBSET Ids /\ clips \in SUBSET Ids
  /\ done \in [Steps -> Uploads \cup {None}]
  /\ tasks \in [BOOLEAN -> Nat]
  /\ run \in Run
  /\ requests \in 0..MaxRequests /\ faults \in 0..MaxFaults

Live == {id \in Ids : rows[id] # NoRow}
Kept == {id \in Live : rows[id].clip}

-----------------------------------------------------------------------------
(***************************************************************************)
(* The API and the queue                                                   *)
(***************************************************************************)

\* complete_upload: another recording, when no run is under way or waiting.
Reupload ==
  /\ upload < MaxUploads /\ run = IdleRun /\ \A force \in BOOLEAN : tasks[force] = 0
  /\ upload' = upload + 1
  /\ status' = "UPLOADED"
  /\ UNCHANGED <<rows, used, clips, done, tasks, run, requests, faults>>

\* mark_processing, and the message.
ProcessMatch(force) ==
  /\ requests < MaxRequests /\ requests' = requests + 1
  /\ status' = "PROCESSING"
  /\ tasks' = [tasks EXCEPT ![force] = @ + 1]
  /\ UNCHANGED <<upload, rows, used, clips, done, run, faults>>

\* The run comes to SCORE_EVENTS; the steps before it do not touch highlights.
StartRun(force) ==
  /\ run.pc = "idle" /\ tasks[force] > 0
  /\ tasks' = [tasks EXCEPT ![force] = @ - 1]
  /\ run' = [IdleRun EXCEPT !.pc = "SCORE_EVENTS", !.force = force]
  /\ status' = "PROCESSING"
  /\ UNCHANGED <<upload, rows, used, clips, done, requests, faults>>

-----------------------------------------------------------------------------
(***************************************************************************)
(* The steps                                                               *)
(***************************************************************************)
Cached(step)   == ~run.force /\ done[step] = upload
Executes(step) == run.pc = step /\ ~Cached(step)

Goes(pc) == run' = [run EXCEPT !.pc = pc, !.cut = {}]

After == [step \in Steps |-> CASE step = "SCORE_EVENTS" -> "CUT_CLIPS"
                               [] step = "CUT_CLIPS"    -> "PERSIST"
                               [] step = "PERSIST"      -> "settle"]

StepCached(step) ==
  /\ run.pc = step /\ Cached(step)
  /\ Goes(After[step])
  /\ UNCHANGED <<status, upload, rows, used, clips, done, tasks, requests, faults>>

\* The job is SUCCEEDED with the fingerprint of the recording.
Succeeds(step) == done' = [done EXCEPT ![step] = upload] /\ Goes(After[step])

\* The job is RUNNING, SKIPPED or FAILED: not cached.
Unsettled(step) == done' = [done EXCEPT ![step] = None]

\* The required step fails and with it the match; what it wrote to the database
\* is rolled back.
Fails(step) ==
  /\ Unsettled(step)
  /\ status' = "FAILED" /\ run' = IdleRun
  /\ UNCHANGED <<upload, rows, used, clips, tasks, requests, faults>>

EarlierStepFails ==
  /\ run.pc = "SCORE_EVENTS"
  /\ status' = "FAILED" /\ run' = IdleRun
  /\ UNCHANGED <<upload, rows, used, clips, done, tasks, requests, faults>>

\* No window: the previous selection is left as it is.
ScoreSkips ==
  /\ Executes("SCORE_EVENTS") /\ upload \in Barren
  /\ Unsettled("SCORE_EVENTS") /\ Goes("CUT_CLIPS")
  /\ UNCHANGED <<status, upload, rows, used, clips, tasks, requests, faults>>

\* score_events: the clips of the previous selection are deleted at once ...
ScoreEmpties ==
  /\ Executes("SCORE_EVENTS") /\ upload \notin Barren
  /\ clips' = {}
  /\ Unsettled("SCORE_EVENTS") /\ Goes("emptied")
  /\ UNCHANGED <<status, upload, rows, used, tasks, requests, faults>>

\* Faulty variant: the new selection is added to the previous one.
Adds(new) ==
  [id \in Ids |-> IF id \in new THEN [upload |-> upload, clip |-> FALSE] ELSE rows[id]]

Replaces(new) ==
  [id \in Ids |-> IF id \in new THEN [upload |-> upload, clip |-> FALSE]
                  ELSE NoRow]

\* ... and its rows are replaced when the step commits.
ScoreCommits ==
  /\ run.pc = "emptied"
  /\ \E new \in SUBSET (Ids \ used) :
       new # {} /\ rows' = Replaces(new) /\ used' = used \cup new
  /\ Succeeds("SCORE_EVENTS")
  /\ UNCHANGED <<status, upload, clips, tasks, requests, faults>>

ScoreFails ==
  /\ Executes("SCORE_EVENTS") \/ run.pc = "emptied"
  /\ Fails("SCORE_EVENTS")

CutSkips ==
  /\ Executes("CUT_CLIPS") /\ Live = {}
  /\ Unsettled("CUT_CLIPS") /\ Goes("PERSIST")
  /\ UNCHANGED <<status, upload, rows, used, clips, tasks, requests, faults>>

\* cut_clips: a clip is put for every row ffmpeg can cut ...
CutPuts ==
  /\ Executes("CUT_CLIPS") /\ Live # {}
  /\ Unsettled("CUT_CLIPS")
  /\ \E cut \in SUBSET Live :
       clips' = clips \cup cut /\ run' = [run EXCEPT !.pc = "cut", !.cut = cut]
  /\ UNCHANGED <<status, upload, rows, used, tasks, requests, faults>>

\* Faulty variant: the rows whose cut failed are given a URL too.
EveryUrl(cut) == [id \in Ids |-> [rows[id] EXCEPT !.clip = TRUE]]

WithUrls(cut) ==
  [id \in Ids |-> IF id \in cut THEN [rows[id] EXCEPT !.clip = TRUE] ELSE rows[id]]

\* Faulty variant: announces the match once its clips are cut.
CutAnnounces ==
  /\ run.pc = "cut" /\ run.cut # {}
  /\ rows' = WithUrls(run.cut)
  /\ Succeeds("CUT_CLIPS")
  /\ status' = "READY"
  /\ UNCHANGED <<upload, used, clips, tasks, requests, faults>>

\* ... and the rows are given their URLs; one clip is enough.
CutCommits ==
  /\ run.pc = "cut" /\ run.cut # {}
  /\ rows' = WithUrls(run.cut)
  /\ Succeeds("CUT_CLIPS")
  /\ UNCHANGED <<status, upload, used, clips, tasks, requests, faults>>

\* Every clip failed, or storage or the database did.
CutFails ==
  /\ Executes("CUT_CLIPS") \/ run.pc = "cut"
  /\ Fails("CUT_CLIPS")

\* Faulty variant: rows without a clip are counted and kept.
CountsOrphans == rows

WithoutOrphans == [id \in Ids |-> IF id \in Kept THEN rows[id] ELSE NoRow]

\* persist: rows without a clip are dropped.
Persist ==
  /\ Executes("PERSIST") /\ Kept # {}
  /\ rows' = WithoutOrphans
  /\ status' = "READY"
  /\ done' = [done EXCEPT !["PERSIST"] = upload] /\ Goes("ready")
  /\ UNCHANGED <<upload, used, clips, tasks, requests, faults>>

PersistFails == Executes("PERSIST") /\ Fails("PERSIST")

\* _settle writes READY only if PERSIST did not: the session's copy says so then.
RunSettles ==
  /\ run.pc \in {"settle", "ready"}
  /\ status' = IF run.pc = "settle" THEN "READY" ELSE status
  /\ run' = IdleRun
  /\ UNCHANGED <<upload, rows, used, clips, done, tasks, requests, faults>>

\* The worker dies and the message comes back; the step it was about to execute
\* may already be marked RUNNING.
RunLost ==
  /\ run.pc # "idle"
  /\ faults < MaxFaults /\ faults' = faults + 1
  /\ tasks' = [tasks EXCEPT ![run.force] = @ + 1]
  /\ run' = IdleRun
  /\ UNCHANGED done \/ \E step \in Steps : Executes(step) /\ Unsettled(step)
  /\ UNCHANGED <<status, upload, rows, used, clips, requests>>

-----------------------------------------------------------------------------
Init ==
  /\ status = "UPLOADED" /\ upload = 1
  /\ rows = [id \in Ids |-> NoRow] /\ used = {} /\ clips = {}
  /\ done = [step \in Steps |-> None]
  /\ tasks = [force \in BOOLEAN |-> 0]
  /\ run = IdleRun
  /\ requests = 0 /\ faults = 0

Score == EarlierStepFails \/ ScoreSkips \/ ScoreEmpties \/ ScoreCommits \/ ScoreFails
Cut   == CutSkips \/ CutPuts \/ CutCommits \/ CutFails
Finish == Persist \/ PersistFails \/ RunSettles

Next ==
  \/ Reupload
  \/ \E force \in Forces : ProcessMatch(force)
  \/ \E force \in BOOLEAN : StartRun(force)
  \/ \E step \in Steps : StepCached(step)
  \/ Score \/ Cut \/ Finish
  \/ RunLost

Spec == Init /\ [][Next]_vars

-----------------------------------------------------------------------------
(***************************************************************************)
(* Properties                                                              *)
(***************************************************************************)

\* "A highlight row with no clip is a broken card in the player's feed, so it
\* is removed rather than shown" (persist): when a match is READY it has a
\* highlight, and every highlight has a URL and the clip it points at.
ReadyCardsPlay ==
  status = "READY" => Live # {} /\ \A id \in Live : rows[id].clip /\ id \in clips

\* "Re-running replaces the previous selection wholesale" (score_events): the
\* highlights of a READY match were found in the recording it has now.
HighlightsAreCurrent ==
  status = "READY" => \A id \in Live : rows[id].upload = upload

\* The reel players are watching does not change under them: rows and clips of
\* a READY match are only touched after its status says otherwise (run_pipeline).
ReelIsStill ==
  [][status = "READY" /\ status' = "READY" => UNCHANGED <<rows, clips>>]_vars

=============================================================================
