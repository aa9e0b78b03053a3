-------------------------- MODULE Highlights_proofs --------------------------
(***************************************************************************)
(* Proofs about Highlights, for any number of highlights, uploads, calls   *)
(* and crashes.  The reel of a READY video stands still whatever happens.  *)
(* Its cards are of the recording it has as long as no recording without   *)
(* highlights replaces one that had some, and every card plays as long as, *)
(* besides, a forced run does not stop half-way through the cache.         *)
(***************************************************************************)
EXTENDS Highlights, TLAPS

\* The rows a run cuts are there until it has cut them.
CutIsLive == run.pc = "cut" => run.cut \subseteq Live

Typed == TypeOK /\ CutIsLive

\* A run at work is one the status tells of.
WorkIsTold == run.pc \notin {"idle", "settle", "ready"} => status = "PROCESSING"

-----------------------------------------------------------------------------
\* Where a run that has begun to execute still has a step before it.
Before ==
  [step \in Steps |->
     CASE step = "SCORE_EVENTS" -> {"emptied"}
       [] step = "CUT_CLIPS"    -> {"emptied", "CUT_CLIPS", "cut"}
       [] step = "PERSIST"      -> {"emptied", "CUT_CLIPS", "cut", "PERSIST"}]

\* What is assumed of behaviours.  A recording without highlights does not
\* replace one that had some ...
NothingLeftOver == upload \in Barren => Live = {}

\* ... and a forced run that stops after it has begun leaves no step in the cache
\* that it was still to repeat.
FinishesForced ==
  run.force /\ run'.pc = "idle" =>
    \A step \in Steps :
      run.pc \in Before[step] \/ (run.pc = "SCORE_EVENTS" /\ done' # done)
        => done'[step] # upload

-----------------------------------------------------------------------------
\* A job never records the fingerprint of a recording to come.
MarksArePast == \A step \in Steps : done[step] # None => done[step] <= upload

\* Once a step of this recording is done, the rows are its own.
RowsAreFound ==
  \/ \E step \in Steps : done[step] = upload
  \/ run.pc \in {"CUT_CLIPS", "cut", "PERSIST", "settle", "ready"}
  \/ status = "READY"
  => \A id \in Live : rows[id].upload = upload

FoundInv == Typed /\ MarksArePast /\ RowsAreFound

\* A step stands when the cache has it and no forced run is about to repeat it.
Stands(step) == done[step] = upload /\ ~(run.force /\ run.pc \in Before[step])

\* A step stands only on those before it.
StandsInOrder ==
  /\ Stands("CUT_CLIPS") => Stands("SCORE_EVENTS")
  /\ Stands("PERSIST") => Stands("CUT_CLIPS")

\* The run has behind it what it passed, or there is nothing to cut.
PassedIsDone ==
  /\ run.pc \in {"CUT_CLIPS", "cut", "PERSIST", "settle", "ready"}
       => done["SCORE_EVENTS"] = upload \/ Live = {}
  /\ run.pc \in {"PERSIST", "settle", "ready"} => done["CUT_CLIPS"] = upload \/ Live = {}
  /\ run.pc \in {"settle", "ready"} => done["PERSIST"] = upload
  /\ run.pc = "emptied" => done["SCORE_EVENTS"] = None
  /\ run.pc = "cut" => done["CUT_CLIPS"] = None /\ run.cut \subseteq clips

\* What each step that stands stands for.
Selected ==
  Stands("SCORE_EVENTS") => Live # {} /\ \A id \in Live : rows[id].clip => id \in clips
WasCut  == Stands("CUT_CLIPS") => Kept # {}
WasKept == Stands("PERSIST") => Live = Kept

\* A video is READY only when nothing is left to do.
ReadyIsDone == status = "READY" => Stands("PERSIST")

CacheRest == StandsInOrder /\ PassedIsDone /\ Selected /\ WasCut /\ WasKept /\ ReadyIsDone
CacheInv  == Typed /\ WorkIsTold /\ MarksArePast /\ CacheRest

-----------------------------------------------------------------------------
(***************************************************************************)
(* Types                                                                   *)
(***************************************************************************)

\* The run between two runs is typed.
LEMMA IdleTyped == IdleRun \in Run
  BY DEF IdleRun, Run, Places

\* Where a step leaves the run is typed.
LEMMA GoesTyped ==
  ASSUME run \in Run, NEW pc \in Places, Goes(pc)
  PROVE  run' \in Run /\ run'.pc = pc /\ run'.force = run.force
  BY DEF Goes, Run

\* After each step there is a place to go.
LEMMA AfterTyped == \A step \in Steps : After[step] \in Places \ {"cut"}
  BY DEF After, Steps, Places

\* Marking a job keeps the marks typed.
LEMMA MarkTyped ==
  ASSUME done \in [Steps -> Uploads \cup {None}], upload \in Uploads, NEW step \in Steps,
         Unsettled(step) \/ Succeeds(step)
  PROVE  done' \in [Steps -> Uploads \cup {None}]
  BY DEF Unsettled, Succeeds

\* A failed step leaves no run.
LEMMA FailsTyped ==
  ASSUME Typed, NEW step \in Steps, Fails(step)
  PROVE  Typed'
<1>1. done' \in [Steps -> Uploads \cup {None}]
  BY MarkTyped DEF Typed, TypeOK, Fails
<1>2. run' \in Run /\ run'.pc = "idle"
  BY IdleTyped DEF Fails, IdleRun
<1> QED BY <1>1, <1>2 DEF Typed, CutIsLive, TypeOK, Fails

\* The initial state is typed.
LEMMA InitTyped == Init => Typed
<1> SUFFICES ASSUME Init PROVE Typed OBVIOUS
<1>1. run \in Run /\ run.pc = "idle"
  BY IdleTyped DEF Init, IdleRun
<1> QED BY <1>1, HighlightsAssumption DEF Init, Typed, CutIsLive, TypeOK, Uploads

\* Every step keeps the types.
LEMMA NextTyped ==
  ASSUME Typed, [Next]_vars
  PROVE  Typed'
<1> USE HighlightsAssumption
<1>0. TypeOK /\ run \in Run /\ done \in [Steps -> Uploads \cup {None}] /\ upload \in Uploads
  BY DEF Typed, TypeOK
<1>1. CASE Reupload
  BY <1>1 DEF Reupload, Typed, CutIsLive, TypeOK, Uploads, Live
<1>2. ASSUME NEW force \in Forces, ProcessMatch(force) PROVE Typed'
  BY <1>2 DEF ProcessMatch, Typed, CutIsLive, TypeOK, Live
<1>3. ASSUME NEW force \in BOOLEAN, StartRun(force) PROVE Typed'
  <2>1. run' \in Run /\ run'.pc = "SCORE_EVENTS"
    BY <1>3, IdleTyped DEF StartRun, IdleRun, Run, Places, Steps
  <2>2. tasks' \in [BOOLEAN -> Nat]
    BY <1>3 DEF StartRun, Typed, TypeOK
  <2> QED BY <1>3, <2>1, <2>2 DEF StartRun, Typed, CutIsLive, TypeOK
<1>4. ASSUME NEW step \in Steps, StepCached(step) PROVE Typed'
  <2>1. run' \in Run /\ run'.pc # "cut"
    BY <1>0, <1>4, AfterTyped, GoesTyped DEF StepCached
  <2> QED BY <1>4, <2>1 DEF StepCached, Typed, CutIsLive, TypeOK
<1>5. CASE EarlierStepFails
  BY <1>5, IdleTyped DEF EarlierStepFails, IdleRun, Typed, CutIsLive, TypeOK
<1>6. CASE ScoreSkips \/ ScoreEmpties
  <2>1. run' \in Run /\ run'.pc # "cut"
    BY <1>0, <1>6, GoesTyped DEF ScoreSkips, ScoreEmpties, Places, Steps
  <2>2. done' \in [Steps -> Uploads \cup {None}]
    BY <1>0, <1>6, MarkTyped DEF ScoreSkips, ScoreEmpties, Steps
  <2> QED BY <1>6, <2>1, <2>2 DEF ScoreSkips, ScoreEmpties, Typed, CutIsLive, TypeOK
<1>7. CASE ScoreCommits
  <2>1. PICK new \in SUBSET (Ids \ used) : rows' = Replaces(new) /\ used' = used \cup new
    BY <1>7 DEF ScoreCommits
  <2>2. rows' \in [Ids -> Row \cup {NoRow}] /\ used' \in SUBSET Ids
    BY <1>0, <2>1 DEF Replaces, Row, TypeOK
  <2>3. Succeeds("SCORE_EVENTS") /\ "SCORE_EVENTS" \in Steps /\ Goes("CUT_CLIPS")
    BY <1>7 DEF ScoreCommits, Succeeds, After, Steps
  <2>4. run' \in Run /\ run'.pc # "cut"
    BY <1>0, <2>3, GoesTyped DEF Places, Steps
  <2>5. done' \in [Steps -> Uploads \cup {None}]
    BY <1>0, <2>3, MarkTyped
  <2> QED BY <1>7, <2>2, <2>4, <2>5 DEF ScoreCommits, Typed, CutIsLive, TypeOK
<1>8. CASE ScoreFails \/ CutFails \/ PersistFails
  BY <1>8, FailsTyped DEF ScoreFails, CutFails, PersistFails, Steps
<1>9. CASE CutSkips
  <2>1. run' \in Run /\ run'.pc # "cut"
    BY <1>0, <1>9, GoesTyped DEF CutSkips, Places, Steps
  <2>2. done' \in [Steps -> Uploads \cup {None}]
    BY <1>0, <1>9, MarkTyped DEF CutSkips, Steps
  <2> QED BY <1>9, <2>1, <2>2 DEF CutSkips, Typed, CutIsLive, TypeOK
<1>10. CASE CutPuts
  <2>1. PICK cut \in SUBSET Live :
          clips' = clips \cup cut /\ run' = [run EXCEPT !.pc = "cut", !.cut = cut]
    BY <1>10 DEF CutPuts
  <2>2. cut \subseteq Ids /\ rows' = rows
    BY <1>10, <2>1 DEF Live, CutPuts
  <2>3. run' \in Run /\ run'.cut = cut /\ clips' \in SUBSET Ids
    BY <1>0, <2>1, <2>2 DEF Run, Places, TypeOK
  <2>4. done' \in [Steps -> Uploads \cup {None}]
    BY <1>0, <1>10, MarkTyped DEF CutPuts, Steps
  <2>5. CutIsLive'
    BY <2>1, <2>2, <2>3 DEF CutIsLive, Live
  <2> QED BY <1>10, <2>3, <2>4, <2>5 DEF CutPuts, Typed, TypeOK
<1>11. CASE CutCommits
  <2>1. run.cut \subseteq Live /\ rows' = WithUrls(run.cut)
    BY <1>11 DEF CutCommits, Typed, CutIsLive
  <2>2. \A id \in run.cut : rows[id] \in Row
    BY <1>0, <2>1 DEF Live, TypeOK
  <2>3. rows' \in [Ids -> Row \cup {NoRow}]
    BY <1>0, <2>1, <2>2 DEF WithUrls, Row, TypeOK
  <2>4. Succeeds("CUT_CLIPS") /\ "CUT_CLIPS" \in Steps /\ Goes("PERSIST")
    BY <1>11 DEF CutCommits, Succeeds, After, Steps
  <2>5. run' \in Run /\ run'.pc # "cut"
    BY <1>0, <2>4, GoesTyped DEF Places, Steps
  <2>6. done' \in [Steps -> Uploads \cup {None}]
    BY <1>0, <2>4, MarkTyped
  <2> QED BY <1>11, <2>3, <2>5, <2>6 DEF CutCommits, Typed, CutIsLive, TypeOK
<1>12. CASE Persist
  <2>1. rows' \in [Ids -> Row \cup {NoRow}]
    BY <1>0, <1>12 DEF Persist, WithoutOrphans, TypeOK
  <2>2. Goes("ready")
    BY <1>12 DEF Persist
  <2>3. run' \in Run /\ run'.pc # "cut"
    BY <1>0, <2>2, GoesTyped DEF Places
  <2>4. done' \in [Steps -> Uploads \cup {None}]
    BY <1>0, <1>12 DEF Persist
  <2> QED BY <1>12, <2>1, <2>3, <2>4 DEF Persist, Typed, CutIsLive, TypeOK
<1>13. CASE RunSettles
  BY <1>13, IdleTyped DEF RunSettles, IdleRun, Typed, CutIsLive, TypeOK
<1>14. CASE RunLost
  <2>1. run' \in Run /\ run'.pc # "cut"
    BY <1>14, IdleTyped DEF RunLost, IdleRun
  <2>2. done' \in [Steps -> Uploads \cup {None}]
    BY <1>0, <1>14, MarkTyped DEF RunLost
  <2>3. tasks' \in [BOOLEAN -> Nat]
    BY <1>0, <1>14 DEF RunLost, TypeOK, Run
  <2> QED BY <1>14, <2>1, <2>2, <2>3 DEF RunLost, Typed, CutIsLive, TypeOK
<1>15. CASE UNCHANGED vars
  BY <1>15 DEF vars, Typed, CutIsLive, TypeOK, Live
<1> QED BY <1>1, <1>2, <1>3, <1>4, <1>5, <1>6, <1>7, <1>8, <1>9, <1>10, <1>11, <1>12,
           <1>13, <1>14, <1>15
        DEF Next, Score, Cut, Finish

\* The values of the state stay in their types, for any number of highlights,
\* uploads, calls and crashes (Highlight and Video rows, run_pipeline).
THEOREM HighlightsTyping == Spec => []TypeOK
<1>1. Typed /\ [Next]_vars => Typed'
  BY NextTyped
<1>2. Typed => TypeOK
  BY DEF Typed
<1> QED BY <1>1, <1>2, InitTyped, PTL DEF Spec

-----------------------------------------------------------------------------
(***************************************************************************)
(* The reel of a READY video                                               *)
(***************************************************************************)

\* Every step keeps the status of a video that is worked on PROCESSING.
LEMMA WorkIsToldNext ==
  ASSUME Typed, WorkIsTold, [Next]_vars
  PROVE  WorkIsTold'
<1>0. run \in Run
  BY DEF Typed, TypeOK
<1>1. CASE Reupload
  BY <1>1 DEF Reupload, WorkIsTold, IdleRun
<1>2. ASSUME NEW force \in Forces, ProcessMatch(force) PROVE WorkIsTold'
  BY <1>2 DEF ProcessMatch, WorkIsTold
<1>3. ASSUME NEW force \in BOOLEAN, StartRun(force) PROVE WorkIsTold'
  BY <1>3 DEF StartRun, WorkIsTold
<1>4. ASSUME NEW step \in Steps, StepCached(step) PROVE WorkIsTold'
  BY <1>4 DEF StepCached, WorkIsTold, Steps
<1>5. CASE EarlierStepFails \/ ScoreFails \/ CutFails \/ PersistFails \/ RunSettles \/ RunLost
  BY <1>5 DEF EarlierStepFails, ScoreFails, CutFails, PersistFails, Fails, RunSettles, RunLost,
              IdleRun, WorkIsTold
<1>6. CASE ScoreSkips \/ ScoreEmpties \/ ScoreCommits \/ CutSkips \/ CutPuts \/ CutCommits
  BY <1>6 DEF ScoreSkips, ScoreEmpties, ScoreCommits, CutSkips, CutPuts, CutCommits, Executes,
              WorkIsTold
<1>7. CASE Persist
  <2>1. Goes("ready")
    BY <1>7 DEF Persist
  <2> QED BY <1>0, <2>1, GoesTyped DEF Places, WorkIsTold
<1>8. CASE UNCHANGED vars
  BY <1>8 DEF vars, WorkIsTold
<1> QED BY <1>1, <1>2, <1>3, <1>4, <1>5, <1>6, <1>7, <1>8 DEF Next, Score, Cut, Finish

\* The highlights and the clips of a READY video are only touched after its
\* status says otherwise, whatever is forced (run_pipeline).
THEOREM ReelIsStillAlways == Spec => ReelIsStill
<1> DEFINE Still == status = "READY" /\ status' = "READY" => UNCHANGED <<rows, clips>>
<1>1. Init => WorkIsTold
  BY DEF Init, WorkIsTold, IdleRun
<1>2. Typed /\ WorkIsTold /\ [Next]_vars => Typed' /\ WorkIsTold'
  BY NextTyped, WorkIsToldNext
<1>3. Typed /\ WorkIsTold /\ [Next]_vars => [Still]_vars
  <2> SUFFICES ASSUME Typed, WorkIsTold, Next, status = "READY", status' = "READY"
               PROVE  UNCHANGED <<rows, clips>>
    BY DEF vars
  <2>1. run.pc \in {"idle", "settle", "ready"}
    BY DEF WorkIsTold
  <2>2. CASE Reupload
    BY <2>2 DEF Reupload
  <2>3. ASSUME NEW force \in Forces, ProcessMatch(force) PROVE UNCHANGED <<rows, clips>>
    BY <2>3 DEF ProcessMatch
  <2>4. ASSUME NEW force \in BOOLEAN, StartRun(force) PROVE UNCHANGED <<rows, clips>>
    BY <2>4 DEF StartRun
  <2>5. ASSUME NEW step \in Steps, StepCached(step) PROVE UNCHANGED <<rows, clips>>
    BY <2>5 DEF StepCached
  <2>6. CASE Score \/ Cut \/ Finish
    BY <2>1, <2>6 DEF Score, Cut, Finish, EarlierStepFails, ScoreSkips, ScoreEmpties,
       ScoreCommits, ScoreFails, CutSkips, CutPuts, CutCommits, CutFails, Persist,
       PersistFails, RunSettles, Executes, Fails
  <2>7. CASE RunLost
    BY <2>7 DEF RunLost
  <2> QED BY <2>2, <2>3, <2>4, <2>5, <2>6, <2>7 DEF Next
<1> QED BY <1>1, <1>2, <1>3, InitTyped, PTL DEF Spec, ReelIsStill

-----------------------------------------------------------------------------
(***************************************************************************)
(* Whose rows they are                                                     *)
(***************************************************************************)

\* A new recording is in nothing's cache.
LEMMA ReuploadMarks ==
  ASSUME Typed, MarksArePast, Reupload
  PROVE  MarksArePast' /\ \A step \in Steps : done'[step] # upload'
<1>1. upload \in Uploads /\ upload' = upload + 1 /\ upload' \in Uploads /\ upload' # None
  BY HighlightsAssumption DEF Typed, TypeOK, Reupload, Uploads
<1>2. done' = done /\ \A step \in Steps : done[step] \in Uploads \cup {None}
  BY DEF Reupload, Typed, TypeOK
<1> QED BY <1>1, <1>2 DEF MarksArePast, Uploads

\* Every step keeps the marks past.
LEMMA NextMarks ==
  ASSUME Typed, MarksArePast, [Next]_vars
  PROVE  MarksArePast'
<1>0. done \in [Steps -> Uploads \cup {None}] /\ upload \in Uploads
  BY DEF Typed, TypeOK
<1>1. ASSUME upload' = upload, done' = done PROVE MarksArePast'
  BY <1>1 DEF MarksArePast
<1>2. ASSUME upload' = upload, NEW step \in Steps, Unsettled(step) PROVE MarksArePast'
  BY <1>0, <1>2 DEF MarksArePast, Unsettled
<1>3. ASSUME upload' = upload, NEW step \in Steps, done' = [done EXCEPT ![step] = upload]
      PROVE  MarksArePast'
  BY <1>0, <1>3 DEF MarksArePast, Uploads
<1>4. CASE Reupload
  BY <1>4, ReuploadMarks
<1>5. CASE \/ \E force \in Forces : ProcessMatch(force)
           \/ \E force \in BOOLEAN : StartRun(force)
           \/ \E step \in Steps : StepCached(step)
           \/ EarlierStepFails \/ RunSettles \/ UNCHANGED vars
  BY <1>1, <1>5 DEF ProcessMatch, StartRun, StepCached, EarlierStepFails, RunSettles, vars
<1>6. CASE ScoreSkips \/ ScoreEmpties \/ ScoreFails \/ CutSkips \/ CutPuts \/ CutFails
             \/ PersistFails
  BY <1>2, <1>6 DEF ScoreSkips, ScoreEmpties, ScoreFails, CutSkips, CutPuts, CutFails,
                    PersistFails, Fails, Steps
<1>7. CASE ScoreCommits \/ CutCommits \/ Persist
  BY <1>3, <1>7 DEF ScoreCommits, CutCommits, Persist, Succeeds, Steps
<1>8. CASE RunLost
  BY <1>1, <1>2, <1>8 DEF RunLost
<1> QED BY <1>4, <1>5, <1>6, <1>7, <1>8 DEF Next, Score, Cut, Finish

\* What a selection leaves: its own rows, of this recording, without clips.
LEMMA SelectionIs ==
  ASSUME upload # None, NEW new \in SUBSET Ids, rows' = Replaces(new)
  PROVE  Live' = new /\ \A id \in new : rows'[id].upload = upload /\ ~rows'[id].clip
<1>1. [upload |-> upload, clip |-> FALSE] # NoRow
  BY DEF NoRow
<1> QED BY <1>1 DEF Live, Replaces

\* Giving rows their URLs changes nothing else about them.
LEMMA UrlsAre ==
  ASSUME TypeOK, NEW cut \in SUBSET Live, rows' = WithUrls(cut)
  PROVE  /\ Live' = Live
         /\ \A id \in Live : rows'[id].upload = rows[id].upload
         /\ \A id \in cut : rows'[id].clip
         /\ \A id \in Live \ cut : rows'[id] = rows[id]
<1>1. \A id \in Live : id \in Ids /\ rows[id] \in Row
  BY DEF Live, TypeOK
<1>2. \A id \in Ids : /\ id \in cut => rows'[id] = [rows[id] EXCEPT !.clip = TRUE]
                      /\ id \notin cut => rows'[id] = rows[id]
  BY DEF WithUrls
<1>3. ASSUME NEW id \in cut
      PROVE  rows'[id].clip /\ rows'[id].upload = rows[id].upload /\ rows'[id] # NoRow
  <2>1. rows[id] \in Row /\ rows'[id] = [rows[id] EXCEPT !.clip = TRUE]
    BY <1>1, <1>2, <1>3
  <2> QED BY <2>1 DEF Row, NoRow
<1> QED BY <1>1, <1>2, <1>3 DEF Live

\* PERSIST leaves the rows that have a clip as they are.
LEMMA OrphansAre ==
  ASSUME rows' = WithoutOrphans
  PROVE  Live' = Kept /\ Kept' = Kept /\ \A id \in Kept : rows'[id] = rows[id]
<1>1. \A id \in Ids : rows'[id] = IF id \in Kept THEN rows[id] ELSE NoRow
  BY DEF WithoutOrphans
<1> QED BY <1>1 DEF Live, Kept

\* Every step keeps the rows those of the recording that was worked on.
LEMMA NextFound ==
  ASSUME FoundInv, NothingLeftOver, [Next]_vars
  PROVE  FoundInv'
<1> USE DEF FoundInv
<1>0. /\ run \in Run /\ upload \in Uploads /\ upload # None
      /\ done \in [Steps -> Uploads \cup {None}] /\ rows \in [Ids -> Row \cup {NoRow}]
  BY HighlightsAssumption DEF Typed, TypeOK
<1>1. Typed' /\ MarksArePast'
  BY NextTyped, NextMarks
<1> SUFFICES RowsAreFound'
  BY <1>1
<1> DEFINE Own == \A id \in Live : rows[id].upload = upload
<1>2. ASSUME Own' PROVE RowsAreFound'
  BY <1>2 DEF RowsAreFound
<1>3. ASSUME rows' = rows, upload' = upload, Own PROVE RowsAreFound'
  BY <1>3 DEF RowsAreFound, Live
<1>4. ASSUME rows' = rows, upload' = upload, run'.pc \in {"idle", "SCORE_EVENTS", "emptied"},
             \A step \in Steps : done'[step] = upload => done[step] = upload,
             status' = "READY" => status = "READY"
      PROVE  RowsAreFound'
  BY <1>4 DEF RowsAreFound, Live
<1>5. ASSUME NEW step \in Steps, Unsettled(step)
      PROVE  \A s \in Steps : done'[s] = upload => done[s] = upload
  BY <1>0, <1>5 DEF Unsettled
<1>6. CASE Reupload
  BY <1>6, ReuploadMarks DEF Reupload, RowsAreFound, IdleRun
<1>7. ASSUME NEW force \in Forces, ProcessMatch(force) PROVE RowsAreFound'
  BY <1>7 DEF ProcessMatch, RowsAreFound, Live
<1>8. ASSUME NEW force \in BOOLEAN, StartRun(force) PROVE RowsAreFound'
  BY <1>8, <1>4 DEF StartRun, IdleRun
<1>9. ASSUME NEW step \in Steps, StepCached(step) PROVE RowsAreFound'
  <2>1. Own
    BY <1>9 DEF StepCached, Cached, RowsAreFound
  <2> QED BY <1>9, <2>1, <1>3 DEF StepCached
<1>10. CASE EarlierStepFails \/ ScoreFails \/ CutFails \/ PersistFails
  <2>1. ASSUME NEW step \in Steps, Fails(step) PROVE RowsAreFound'
    BY <2>1, <1>4, <1>5 DEF Fails, IdleRun
  <2>2. CASE EarlierStepFails
    BY <2>2, <1>4 DEF EarlierStepFails, IdleRun
  <2> QED BY <1>10, <2>1, <2>2 DEF ScoreFails, CutFails, PersistFails, Steps
<1>11. CASE ScoreSkips
  <2>1. Own
    BY <1>11 DEF ScoreSkips, NothingLeftOver
  <2> QED BY <1>11, <2>1, <1>3 DEF ScoreSkips
<1>12. CASE ScoreEmpties
  <2>1. run'.pc = "emptied"
    BY <1>0, <1>12, GoesTyped DEF ScoreEmpties, Places
  <2> QED BY <1>12, <2>1, <1>4, <1>5 DEF ScoreEmpties, Steps
<1>13. CASE ScoreCommits
  <2>1. PICK new \in SUBSET Ids : rows' = Replaces(new)
    BY <1>13 DEF ScoreCommits
  <2> QED BY <1>0, <1>13, <2>1, <1>2, SelectionIs DEF ScoreCommits
<1>14. CASE CutSkips \/ CutPuts
  <2>1. Own
    BY <1>14 DEF CutSkips, CutPuts, Executes, RowsAreFound
  <2> QED BY <1>14, <2>1, <1>3 DEF CutSkips, CutPuts
<1>15. CASE CutCommits
  <2>1. Own /\ run.cut \in SUBSET Live /\ rows' = WithUrls(run.cut) /\ upload' = upload
    BY <1>15 DEF CutCommits, RowsAreFound, Typed, CutIsLive
  <2>2. Own'
    BY <2>1, UrlsAre DEF Typed
  <2> QED BY <2>2, <1>2
<1>16. CASE Persist
  <2>1. Own /\ rows' = WithoutOrphans /\ upload' = upload
    BY <1>16 DEF Persist, Executes, RowsAreFound
  <2>2. Own'
    BY <2>1, OrphansAre DEF Kept
  <2> QED BY <2>2, <1>2
<1>17. CASE RunSettles
  <2>1. Own
    BY <1>17 DEF RunSettles, RowsAreFound
  <2> QED BY <1>17, <2>1, <1>3 DEF RunSettles
<1>18. CASE RunLost
  BY <1>18, <1>4, <1>5 DEF RunLost, IdleRun
<1>19. CASE UNCHANGED vars
  BY <1>19 DEF vars, RowsAreFound, Live
<1> QED BY <1>6, <1>7, <1>8, <1>9, <1>10, <1>11, <1>12, <1>13, <1>14, <1>15, <1>16, <1>17,
           <1>18, <1>19
        DEF Next, Score, Cut, Finish

\* "Re-running replaces the previous selection wholesale" (score_events): the
\* highlights of a READY match were found in the recording it has, however runs
\* are forced, fail and die; they are of another one only where a recording
\* without highlights took its place and the selection was left.
THEOREM OnlyLeftoversAreOld ==
  Spec /\ []NothingLeftOver => []HighlightsAreCurrent
<1>1. Init => FoundInv
  <2> SUFFICES ASSUME Init PROVE FoundInv OBVIOUS
  <2>1. Live = {}
    BY DEF Init, Live
  <2> QED BY <2>1, InitTyped DEF Init, FoundInv, MarksArePast, RowsAreFound
<1>2. FoundInv /\ NothingLeftOver /\ [Next]_vars => FoundInv'
  BY NextFound
<1>3. FoundInv => HighlightsAreCurrent
  BY DEF FoundInv, RowsAreFound, HighlightsAreCurrent
<1> QED BY <1>1, <1>2, <1>3, PTL DEF Spec

-----------------------------------------------------------------------------
(***************************************************************************)
(* What the cache stands for                                               *)
(***************************************************************************)

\* Where a run still has each step before it.
LEMMA BeforeIs ==
  /\ Before["SCORE_EVENTS"] = {"emptied"}
  /\ Before["CUT_CLIPS"] = {"emptied", "CUT_CLIPS", "cut"}
  /\ Before["PERSIST"] = {"emptied", "CUT_CLIPS", "cut", "PERSIST"}
  BY DEF Before, Steps

\* Nothing stands without SCORE_EVENTS.
LEMMA NothingStands ==
  ASSUME StandsInOrder, ~Stands("SCORE_EVENTS")
  PROVE  \A step \in Steps : ~Stands(step)
  BY DEF StandsInOrder, Steps

\* Steps that stand no more do no harm while the rows stay and no clip goes.
LEMMA FewerStand ==
  ASSUME CacheRest, rows' = rows, clips \subseteq clips',
         \A step \in Steps : Stands(step)' => Stands(step)
  PROVE  Selected' /\ WasCut' /\ WasKept'
<1>1. Live' = Live /\ Kept' = Kept
  BY DEF Live, Kept
<1>2. /\ Stands("SCORE_EVENTS")' => Stands("SCORE_EVENTS")
      /\ Stands("CUT_CLIPS")' => Stands("CUT_CLIPS")
      /\ Stands("PERSIST")' => Stands("PERSIST")
  BY DEF Steps
<1>3. Selected'
  BY <1>1, <1>2 DEF CacheRest, Selected
<1>4. WasCut'
  BY <1>1, <1>2 DEF CacheRest, WasCut
<1>5. WasKept'
  BY <1>1, <1>2 DEF CacheRest, WasKept
<1> QED BY <1>3, <1>4, <1>5

\* A run that stops leaves standing what stood: it marked at most the step it was
\* executing, and if it was forced, nothing else that it had to repeat is cached.
LEMMA StopsCache ==
  ASSUME CacheInv, FinishesForced, run'.pc = "idle", run.pc # "idle",
         upload' = upload, rows' = rows, clips' = clips,
         \/ done' = done
         \/ \E step \in Steps : /\ Unsettled(step)
                                /\ \/ Executes(step)
                                   \/ step = "SCORE_EVENTS" /\ run.pc = "emptied"
                                   \/ step = "CUT_CLIPS" /\ run.pc = "cut",
         status' = "READY" => status = "READY" \/ run.pc = "settle"
  PROVE  CacheRest'
<1> USE BeforeIs
<1>0. /\ run \in Run /\ upload \in Uploads /\ upload # None
      /\ done \in [Steps -> Uploads \cup {None}]
  BY HighlightsAssumption DEF CacheInv, Typed, TypeOK
<1>1. \A s \in Steps : done'[s] = upload => done[s] = upload
  BY <1>0 DEF Unsettled
<1>2. \A s \in Steps : Stands(s)' <=> done'[s] = upload
  BY DEF Stands, Steps
<1>3. \A s \in Steps : Stands(s)' => Stands(s)
  BY <1>1, <1>2 DEF FinishesForced, Stands
<1>4. StandsInOrder'
  <2>1. CASE done' = done
    <3>1. CASE run.force
      BY <1>2, <1>3, <2>1, <3>1 DEF CacheInv, CacheRest, StandsInOrder, FinishesForced, Stands, Steps
    <3>2. CASE ~run.force
      BY <1>2, <2>1, <3>2 DEF CacheInv, CacheRest, StandsInOrder, Stands, Steps
    <3> QED BY <3>1, <3>2
  <2>2. ASSUME NEW step \in Steps, Unsettled(step), done' # done,
               \/ Executes(step)
               \/ step = "SCORE_EVENTS" /\ run.pc = "emptied"
               \/ step = "CUT_CLIPS" /\ run.pc = "cut"
        PROVE  StandsInOrder'
    <3>1. \A s \in Steps : s # step => done'[s] = done[s]
      BY <1>0, <2>2 DEF Unsettled
    <3>2. ~Stands(step)'
      BY <1>0, <1>2, <2>2 DEF Unsettled
    <3>3. CASE run.force
      BY <1>2, <1>3, <2>2, <3>1, <3>2, <3>3
         DEF CacheInv, CacheRest, StandsInOrder, FinishesForced, Stands, Executes, Steps
    <3>4. CASE ~run.force
      <4>1. done[step] # upload
        BY <1>0, <2>2, <3>4 DEF Executes, Cached, CacheInv, CacheRest, PassedIsDone
      <4> QED BY <1>2, <2>2, <3>1, <3>2, <3>4, <4>1
              DEF CacheInv, CacheRest, StandsInOrder, Stands, Steps
    <3> QED BY <3>3, <3>4
  <2> QED BY <2>1, <2>2
<1>5. Selected' /\ WasCut' /\ WasKept'
  BY <1>3, FewerStand DEF CacheInv
<1>6. PassedIsDone'
  BY DEF PassedIsDone
<1>7. ReadyIsDone'
  <2> SUFFICES ASSUME status' = "READY" PROVE done'["PERSIST"] = upload
    BY <1>2 DEF ReadyIsDone, Steps
  <2>1. run.pc \in {"settle", "ready"}
    BY <1>0 DEF CacheInv, WorkIsTold
  <2>2. done' = done
    BY <2>1 DEF Executes, Steps
  <2> QED BY <2>1, <2>2 DEF CacheInv, CacheRest, PassedIsDone
<1> QED BY <1>4, <1>5, <1>6, <1>7 DEF CacheRest

\* A step that fails stops the run.
LEMMA FailsCache ==
  ASSUME CacheInv, FinishesForced, NEW step \in Steps, Fails(step), run.pc # "idle",
         \/ Executes(step)
         \/ step = "SCORE_EVENTS" /\ run.pc = "emptied"
         \/ step = "CUT_CLIPS" /\ run.pc = "cut"
  PROVE  CacheRest'
<1>1. /\ run'.pc = "idle" /\ upload' = upload /\ rows' = rows /\ clips' = clips
      /\ Unsettled(step) /\ status' # "READY"
  BY DEF Fails, IdleRun
<1> QED BY <1>1, StopsCache

\* SCORE_EVENTS empties the reel, and selects one.
LEMMA ScoreCache ==
  ASSUME CacheInv, NothingLeftOver, FinishesForced, Score
  PROVE  CacheRest'
<1> USE BeforeIs DEF CacheInv, CacheRest
<1>0. /\ run \in Run /\ upload \in Uploads /\ upload # None
      /\ done \in [Steps -> Uploads \cup {None}]
  BY HighlightsAssumption DEF Typed, TypeOK
<1>1. CASE EarlierStepFails
  BY <1>1, StopsCache DEF EarlierStepFails, IdleRun
<1>2. CASE ScoreSkips
  <2>1. /\ run.pc = "SCORE_EVENTS" /\ Live = {} /\ rows' = rows /\ clips' = clips
        /\ upload' = upload /\ status' = status /\ Unsettled("SCORE_EVENTS")
        /\ Goes("CUT_CLIPS")
    BY <1>2 DEF ScoreSkips, Executes, NothingLeftOver
  <2>2. run'.pc = "CUT_CLIPS" /\ run'.force = run.force
    BY <1>0, <2>1, GoesTyped DEF Places, Steps
  <2>3. \A step \in Steps : done[step] # upload
    BY <2>1, NothingStands DEF Selected, Stands, Steps
  <2>4. \A step \in Steps : done'[step] # upload'
    BY <1>0, <2>1, <2>3 DEF Unsettled
  <2>5. Live' = Live
    BY <2>1 DEF Live
  <2>6. status' # "READY"
    BY <2>1 DEF WorkIsTold
  <2> QED BY <2>1, <2>2, <2>4, <2>5, <2>6
          DEF StandsInOrder, PassedIsDone, Selected, WasCut, WasKept, ReadyIsDone, Stands, Steps
<1>3. CASE ScoreEmpties
  <2>1. /\ run.pc = "SCORE_EVENTS" /\ upload' = upload /\ status' = status
        /\ Unsettled("SCORE_EVENTS") /\ Goes("emptied") /\ ~Cached("SCORE_EVENTS")
    BY <1>3 DEF ScoreEmpties, Executes
  <2>2. run'.pc = "emptied" /\ run'.force = run.force
    BY <1>0, <2>1, GoesTyped DEF Places
  <2>3. done' = [done EXCEPT !["SCORE_EVENTS"] = None]
    BY <2>1 DEF Unsettled
  <2>4. ~run.force => \A step \in Steps : done[step] # upload
    BY <2>1, NothingStands DEF Cached, Stands, Steps
  <2>5. \A step \in Steps : ~Stands(step)'
    BY <1>0, <2>1, <2>2, <2>3, <2>4 DEF Stands, Steps
  <2>6. status' # "READY"
    BY <2>1 DEF WorkIsTold
  <2>7. PassedIsDone'
    BY <1>0, <2>2, <2>3 DEF PassedIsDone, Steps
  <2> QED BY <2>5, <2>6, <2>7
          DEF StandsInOrder, Selected, WasCut, WasKept, ReadyIsDone, Steps
<1>4. CASE ScoreCommits
  <2>1. /\ run.pc = "emptied" /\ done["SCORE_EVENTS"] = None /\ upload' = upload
        /\ clips' = clips /\ status' = status
    BY <1>4 DEF ScoreCommits, PassedIsDone
  <2>2. PICK new \in SUBSET Ids : new # {} /\ rows' = Replaces(new)
    BY <1>4 DEF ScoreCommits
  <2>3. done' = [done EXCEPT !["SCORE_EVENTS"] = upload] /\ Goes("CUT_CLIPS")
    BY <1>4 DEF ScoreCommits, Succeeds, After, Steps
  <2>4. run'.pc = "CUT_CLIPS" /\ run'.force = run.force
    BY <1>0, <2>3, GoesTyped DEF Places, Steps
  <2>5. ~run.force => done["CUT_CLIPS"] # upload /\ done["PERSIST"] # upload
    BY <1>0, <2>1, NothingStands DEF Stands, Steps
  <2>6. done'["SCORE_EVENTS"] = upload /\ ~Stands("CUT_CLIPS")' /\ ~Stands("PERSIST")'
    BY <1>0, <2>1, <2>3, <2>4, <2>5 DEF Stands, Steps
  <2>7. Live' = new /\ \A id \in new : ~rows'[id].clip
    BY <1>0, <2>2, SelectionIs
  <2>8. status' # "READY"
    BY <2>1 DEF WorkIsTold
  <2>9. Selected'
    BY <2>2, <2>7 DEF Selected
  <2> QED BY <2>1, <2>4, <2>6, <2>8, <2>9
          DEF StandsInOrder, PassedIsDone, WasCut, WasKept, ReadyIsDone
<1>5. CASE ScoreFails
  <2>1. Fails("SCORE_EVENTS") /\ (Executes("SCORE_EVENTS") \/ run.pc = "emptied")
    BY <1>5 DEF ScoreFails
  <2>2. run.pc # "idle"
    BY <2>1 DEF Executes
  <2> QED BY <2>1, <2>2, FailsCache DEF Steps
<1> QED BY <1>1, <1>2, <1>3, <1>4, <1>5 DEF Score

\* CUT_CLIPS leaves at least one row with a clip, or fails.
LEMMA CutCache ==
  ASSUME CacheInv, FinishesForced, Cut
  PROVE  CacheRest'
<1> USE BeforeIs DEF CacheInv, CacheRest
<1>0. /\ run \in Run /\ upload \in Uploads /\ upload # None
      /\ done \in [Steps -> Uploads \cup {None}]
  BY HighlightsAssumption DEF Typed, TypeOK
<1>1. CASE CutSkips
  <2>1. /\ run.pc = "CUT_CLIPS" /\ Live = {} /\ rows' = rows /\ clips' = clips
        /\ upload' = upload /\ status' = status /\ Unsettled("CUT_CLIPS")
        /\ Goes("PERSIST")
    BY <1>1 DEF CutSkips, Executes
  <2>2. run'.pc = "PERSIST" /\ run'.force = run.force
    BY <1>0, <2>1, GoesTyped DEF Places, Steps
  <2>3. \A step \in Steps : ~Stands(step)
    BY <2>1, NothingStands DEF Selected
  <2>4. done' = [done EXCEPT !["CUT_CLIPS"] = None]
    BY <2>1 DEF Unsettled
  <2>5. \A step \in Steps : ~Stands(step)'
    BY <1>0, <2>1, <2>2, <2>3, <2>4 DEF Stands, Steps
  <2>6. status' # "READY"
    BY <2>1 DEF WorkIsTold
  <2>7. Live' = {}
    BY <2>1 DEF Live
  <2> QED BY <2>2, <2>5, <2>6, <2>7
          DEF StandsInOrder, PassedIsDone, Selected, WasCut, WasKept, ReadyIsDone, Steps
<1>2. CASE CutPuts
  <2>1. PICK cut \in SUBSET Live :
          clips' = clips \cup cut /\ run' = [run EXCEPT !.pc = "cut", !.cut = cut]
    BY <1>2 DEF CutPuts
  <2>2. /\ run.pc = "CUT_CLIPS" /\ ~Cached("CUT_CLIPS") /\ upload' = upload /\ rows' = rows
        /\ status' = status /\ done["SCORE_EVENTS"] = upload
    BY <1>2 DEF CutPuts, Executes, PassedIsDone
  <2>3. done' = [done EXCEPT !["CUT_CLIPS"] = None]
    BY <1>2 DEF CutPuts, Unsettled
  <2>4. run'.pc = "cut" /\ run'.cut = cut /\ run'.force = run.force
    BY <1>0, <2>1 DEF Run
  <2>5. ~Stands("CUT_CLIPS") /\ ~Stands("PERSIST")
    BY <2>2 DEF Cached, Stands, StandsInOrder
  <2>6. ~Stands("CUT_CLIPS")' /\ ~Stands("PERSIST")' /\ Stands("SCORE_EVENTS")
    BY <1>0, <2>2, <2>3, <2>4, <2>5 DEF Stands, Steps
  <2>7. \A step \in Steps : Stands(step)' => Stands(step)
    BY <2>6 DEF Steps
  <2>8. Selected' /\ WasCut' /\ WasKept'
    BY <2>1, <2>2, <2>7, FewerStand
  <2>9. PassedIsDone'
    BY <1>0, <2>1, <2>2, <2>3, <2>4 DEF PassedIsDone, Steps
  <2>10. status' # "READY"
    BY <2>2 DEF WorkIsTold
  <2> QED BY <2>6, <2>8, <2>9, <2>10 DEF StandsInOrder, ReadyIsDone
<1>3. CASE CutCommits
  <2>1. /\ run.pc = "cut" /\ run.cut # {} /\ run.cut \in SUBSET Live /\ run.cut \subseteq clips
        /\ upload' = upload /\ clips' = clips /\ rows' = WithUrls(run.cut) /\ status' = status
    BY <1>3 DEF CutCommits, Typed, CutIsLive, PassedIsDone
  <2>2. done' = [done EXCEPT !["CUT_CLIPS"] = upload] /\ Goes("PERSIST")
    BY <1>3 DEF CutCommits, Succeeds, After, Steps
  <2>3. run'.pc = "PERSIST" /\ run'.force = run.force
    BY <1>0, <2>2, GoesTyped DEF Places, Steps
  <2>4. done["SCORE_EVENTS"] = upload /\ done["CUT_CLIPS"] = None
    BY <2>1 DEF PassedIsDone
  <2>5. Stands("SCORE_EVENTS") /\ ~Stands("CUT_CLIPS") /\ ~Stands("PERSIST")
    BY <1>0, <2>1, <2>4 DEF Stands, StandsInOrder
  <2>6. Stands("SCORE_EVENTS")' /\ Stands("CUT_CLIPS")' /\ ~Stands("PERSIST")'
    BY <1>0, <2>1, <2>2, <2>3, <2>4, <2>5 DEF Stands, Steps
  <2>7. /\ Live' = Live /\ \A id \in run.cut : rows'[id].clip
        /\ \A id \in Live \ run.cut : rows'[id] = rows[id]
    BY <2>1, UrlsAre DEF Typed
  <2>8. Selected'
    BY <2>1, <2>5, <2>7 DEF Selected
  <2>9. WasCut'
    BY <2>1, <2>7 DEF WasCut, Kept
  <2>10. PassedIsDone'
    BY <1>0, <2>1, <2>2, <2>3, <2>4 DEF PassedIsDone, Steps
  <2>11. status' # "READY"
    BY <2>1 DEF WorkIsTold
  <2> QED BY <2>6, <2>8, <2>9, <2>10, <2>11 DEF StandsInOrder, WasKept, ReadyIsDone
<1>4. CASE CutFails
  <2>1. Fails("CUT_CLIPS") /\ (Executes("CUT_CLIPS") \/ run.pc = "cut")
    BY <1>4 DEF CutFails
  <2>2. run.pc # "idle"
    BY <2>1 DEF Executes
  <2> QED BY <2>1, <2>2, FailsCache DEF Steps
<1> QED BY <1>1, <1>2, <1>3, <1>4 DEF Cut

\* PERSIST leaves the rows that have a clip, and only then is the video READY.
LEMMA FinishCache ==
  ASSUME CacheInv, FinishesForced, Finish
  PROVE  CacheRest'
<1> USE BeforeIs DEF CacheInv, CacheRest
<1>0. /\ run \in Run /\ upload \in Uploads /\ upload # None
      /\ done \in [Steps -> Uploads \cup {None}]
  BY HighlightsAssumption DEF Typed, TypeOK
<1>1. CASE Persist
  <2>1. /\ run.pc = "PERSIST" /\ Kept # {} /\ rows' = WithoutOrphans /\ upload' = upload
        /\ clips' = clips /\ done' = [done EXCEPT !["PERSIST"] = upload]
    BY <1>1 DEF Persist, Executes
  <2>2. Goes("ready")
    BY <1>1 DEF Persist
  <2>3. run'.pc = "ready"
    BY <1>0, <2>2, GoesTyped DEF Places
  <2>4. done["SCORE_EVENTS"] = upload /\ done["CUT_CLIPS"] = upload
    BY <2>1 DEF PassedIsDone, Kept
  <2>5. \A step \in Steps : done'[step] = upload' /\ Stands(step)'
    BY <1>0, <2>1, <2>3, <2>4 DEF Stands, Steps
  <2>6. Stands("SCORE_EVENTS")
    BY <2>1, <2>4 DEF Stands
  <2>7. Live' = Kept /\ Kept' = Kept /\ \A id \in Kept : rows'[id] = rows[id]
    BY <2>1, OrphansAre
  <2>8. Selected' /\ WasCut' /\ WasKept'
    BY <2>1, <2>6, <2>7 DEF Selected, WasCut, WasKept, Kept
  <2> QED BY <2>3, <2>5, <2>8 DEF StandsInOrder, PassedIsDone, ReadyIsDone, Steps
<1>2. CASE PersistFails
  <2>1. Fails("PERSIST") /\ Executes("PERSIST")
    BY <1>2 DEF PersistFails
  <2>2. run.pc # "idle"
    BY <2>1 DEF Executes
  <2> QED BY <2>1, <2>2, FailsCache DEF Steps
<1>3. CASE RunSettles
  <2>1. status' = "READY" => status = "READY" \/ run.pc = "settle"
    BY <1>3 DEF RunSettles
  <2> QED BY <1>3, <2>1, StopsCache DEF RunSettles, IdleRun
<1> QED BY <1>1, <1>2, <1>3 DEF Finish

\* Every step keeps what the cache stands for.
LEMMA NextCache ==
  ASSUME CacheInv, NothingLeftOver, [Next]_vars, [FinishesForced]_vars
  PROVE  CacheInv'
<1> USE BeforeIs
<1>0. Typed' /\ WorkIsTold' /\ MarksArePast'
  BY NextTyped, WorkIsToldNext, NextMarks DEF CacheInv
<1> SUFFICES CacheRest'
  BY <1>0 DEF CacheInv
<1>1. CASE UNCHANGED vars
  BY <1>1 DEF vars, CacheInv, CacheRest, StandsInOrder, PassedIsDone, Selected, WasCut, WasKept,
     ReadyIsDone, Stands, Live, Kept
<1>2. CASE Reupload
  <2>1. /\ \A step \in Steps : done'[step] # upload'
        /\ run' = IdleRun /\ status' # "READY"
    BY <1>2, ReuploadMarks DEF Reupload, CacheInv
  <2> QED BY <2>1 DEF CacheRest, StandsInOrder, PassedIsDone, Selected, WasCut, WasKept,
          ReadyIsDone, Stands, Steps, IdleRun
<1>3. ASSUME NEW force \in Forces, ProcessMatch(force) PROVE CacheRest'
  BY <1>3 DEF ProcessMatch, CacheInv, CacheRest, StandsInOrder, PassedIsDone, Selected, WasCut,
     WasKept, ReadyIsDone, Stands, Live, Kept
<1>4. ASSUME NEW force \in BOOLEAN, StartRun(force) PROVE CacheRest'
  <2>1. /\ run'.pc = "SCORE_EVENTS" /\ run.pc = "idle" /\ upload' = upload /\ done' = done
        /\ rows' = rows /\ clips' = clips /\ status' # "READY"
    BY <1>4 DEF StartRun, IdleRun
  <2>2. \A step \in Steps : Stands(step)' <=> Stands(step)
    BY <2>1 DEF Stands, Steps
  <2>3. Selected' /\ WasCut' /\ WasKept'
    BY <2>1, <2>2, FewerStand DEF CacheInv
  <2> QED BY <2>1, <2>2, <2>3
          DEF CacheInv, CacheRest, StandsInOrder, PassedIsDone, ReadyIsDone, Steps
<1>5. ASSUME NEW step \in Steps, StepCached(step) PROVE CacheRest'
  <2>1. /\ run.pc = step /\ ~run.force /\ done[step] = upload /\ Goes(After[step]) /\ run \in Run
        /\ status' = "PROCESSING" /\ upload' = upload /\ done' = done /\ rows' = rows
        /\ clips' = clips
    BY <1>5 DEF StepCached, Cached, CacheInv, Typed, TypeOK, WorkIsTold, Steps
  <2>2. run'.pc = After[step] /\ ~run'.force
    BY <2>1, AfterTyped, GoesTyped
  <2>3. \A s \in Steps : Stands(s)' <=> Stands(s)
    BY <2>1, <2>2 DEF Stands
  <2>4. Selected' /\ WasCut' /\ WasKept'
    BY <2>1, <2>3, FewerStand DEF CacheInv
  <2>5. Live' = Live
    BY <2>1 DEF Live
  <2>6. PassedIsDone'
    BY <2>1, <2>2, <2>5 DEF After, CacheInv, CacheRest, PassedIsDone, Steps
  <2> QED BY <2>1, <2>3, <2>4, <2>6 DEF CacheInv, CacheRest, StandsInOrder, ReadyIsDone, Steps
<1>6. CASE FinishesForced /\ (Score \/ Cut \/ Finish)
  BY <1>6, ScoreCache, CutCache, FinishCache
<1>7. CASE FinishesForced /\ RunLost
  <2>1. /\ run'.pc = "idle" /\ run.pc # "idle" /\ upload' = upload /\ rows' = rows
        /\ clips' = clips /\ status' = status
    BY <1>7 DEF RunLost, IdleRun
  <2>2. done' = done \/ \E step \in Steps : Unsettled(step) /\ Executes(step)
    BY <1>7 DEF RunLost
  <2> QED BY <1>7, <2>1, <2>2, StopsCache
<1> QED BY <1>1, <1>2, <1>3, <1>4, <1>5, <1>6, <1>7 DEF Next

\* "A highlight row with no clip is a broken card" (persist): a READY match has a
\* highlight and each has its clip, whatever fails, dies or is uploaded again.
\* Cards are spoilt only where a forced run stopped half-way and left later steps
\* in the cache, or where a recording without highlights took the place of one
\* that had some (_should_skip, score_events).
THEOREM OnlyHalfRepeatsSpoilCards ==
  Spec /\ []NothingLeftOver /\ [][FinishesForced]_vars => []ReadyCardsPlay
<1>1. Init => CacheInv
  <2> SUFFICES ASSUME Init PROVE CacheInv OBVIOUS
  <2>1. upload # None /\ (\A step \in Steps : done[step] = None) /\ run.pc = "idle"
          /\ status # "READY"
    BY HighlightsAssumption DEF Init, Uploads, IdleRun
  <2> QED BY <2>1, InitTyped
          DEF CacheInv, CacheRest, WorkIsTold, MarksArePast, StandsInOrder, PassedIsDone, Selected,
              WasCut, WasKept, ReadyIsDone, Stands, Steps
<1>2. CacheInv /\ NothingLeftOver /\ [Next]_vars /\ [FinishesForced]_vars => CacheInv'
  BY NextCache
<1>3. CacheInv => ReadyCardsPlay
  <2> SUFFICES ASSUME CacheInv, status = "READY"
               PROVE  Live # {} /\ \A id \in Live : rows[id].clip /\ id \in clips
    BY DEF ReadyCardsPlay
  <2>1. Stands("SCORE_EVENTS") /\ Stands("PERSIST")
    BY DEF CacheInv, CacheRest, ReadyIsDone, StandsInOrder
  <2> QED BY <2>1 DEF CacheInv, CacheRest, Selected, WasKept, Kept
<1> QED BY <1>1, <1>2, <1>3, PTL DEF Spec

=============================================================================
