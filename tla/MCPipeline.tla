----------------------------- MODULE MCPipeline -----------------------------
(***************************************************************************)
(* Instances of Pipeline for TLC.                                          *)
(***************************************************************************)
EXTENDS Pipeline, Domain, TLC

CONSTANTS w1, w2, u1, u2, r1

\* A pipeline with one step of each kind: a required one, two optional ones
\* of which the second needs the first's scratch files, a required one that
\* may skip, and PERSIST.
ShortOrder == << "VALIDATE", "DETECT_PLAYERS", "TRACK", "SCORE_EVENTS", "PERSIST" >>

\* ... one with what the interleavings of two workers need, and one with an
\* optional step, a required one that may skip, and PERSIST.
TinyOrder  == << "VALIDATE", "SCORE_EVENTS", "PERSIST" >>
KindsOrder == << "TRACK", "SCORE_EVENTS", "PERSIST" >>

ShortRequired == {"VALIDATE", "SCORE_EVENTS", "PERSIST"}
ShortSkipping == {"DETECT_PLAYERS", "TRACK", "SCORE_EVENTS"}
ShortInputs   == [s \in {"TRACK"} |-> "DETECT_PLAYERS"]
TinySkipping  == {"SCORE_EVENTS"}
KindsRequired == {"SCORE_EVENTS", "PERSIST"}
KindsSkipping == {"TRACK", "SCORE_EVENTS"}
NoInputs      == [s \in {} |-> ""]

OneWorker  == {w1}
TwoWorkers == {w1, w2}
OneReaper  == {r1}
OneUpload  == {u1}
TwoUploads == {u1, u2}

FullImage  == [w \in {w1} |-> Steps]
FullImages == [w \in TwoWorkers |-> Steps]
\* Two workers of the same image can change places.
SameImages == Permutations(TwoWorkers)
\* One image is without the CV steps, the other lacks two required ones, as
\* when the steps are split over nodes.
SplitImages == [w \in TwoWorkers |-> IF w = w1 THEN Steps \ AI_STEPS
                                     ELSE Steps \ {"SCORE_EVENTS", "PERSIST"}]
=============================================================================
