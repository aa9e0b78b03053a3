---------------------------- MODULE MCRecording ----------------------------
(***************************************************************************)
(* Instances of Recording for TLC.                                         *)
(***************************************************************************)
EXTENDS Recording

CONSTANT c1

OneContent   == {c1}
SegmentsOnly == Indexes
BothShapes   == Indexes \cup {MASTER}
=============================================================================
