------------------------------- MODULE Domain -------------------------------
(***************************************************************************)
(* The vocabulary of the platform: the status enumerations every component *)
(* shares and the order of the processing pipeline.                        *)
(***************************************************************************)

\* domain/enums.py: MatchStatus.
MatchStatuses == {"SCHEDULED", "CHECK_IN", "RECORDING", "UPLOADING",
                  "PROCESSING", "READY", "FAILED"}

\* MatchStatus.accepts_players: players may check in until kick-off.
AcceptsPlayers == {"SCHEDULED", "CHECK_IN"}

\* domain/enums.py: VideoStatus.
VideoStatuses == {"PENDING", "UPLOADING", "UPLOADED",
                  "PROCESSING", "READY", "FAILED"}

\* domain/enums.py: JobStatus.
JobStatuses == {"PENDING", "RUNNING", "SUCCEEDED", "FAILED", "SKIPPED"}

\* domain/enums.py: PIPELINE_ORDER, REQUIRED_STEPS and AI_STEPS.
PIPELINE_ORDER == << "VALIDATE", "PROBE", "TRANSCODE", "SAMPLE_FRAMES",
                     "DETECT_PLAYERS", "TRACK", "JERSEY_OCR", "SCORE_EVENTS",
                     "CUT_CLIPS", "THUMBNAILS", "PERSIST" >>

REQUIRED_STEPS == {"VALIDATE", "PROBE", "TRANSCODE",
                   "SCORE_EVENTS", "CUT_CLIPS", "PERSIST"}

AI_STEPS == {"DETECT_PLAYERS", "TRACK", "JERSEY_OCR"}

\* The steps whose code raises StepSkipped on some input.
SKIPPING_STEPS == AI_STEPS \cup
                  {"SAMPLE_FRAMES", "SCORE_EVENTS", "CUT_CLIPS", "THUMBNAILS"}

\* What a step reads from files another step left in the run's temporary
\* directory, and skips without.  DETECT_PLAYERS samples its own frames when
\* SAMPLE_FRAMES did not run, so it is not listed.
WORKDIR_INPUTS == [s \in {"TRACK", "JERSEY_OCR"} |->
                      IF s = "TRACK" THEN "DETECT_PLAYERS" ELSE "TRACK"]
=============================================================================
