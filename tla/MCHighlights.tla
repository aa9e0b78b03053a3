---------------------------- MODULE MCHighlights ----------------------------
(***************************************************************************)
(* Instances of Highlights for TLC.                                        *)
(***************************************************************************)
EXTENDS Highlights, TLC

CONSTANTS h1, h2, h3, h4, h5

\* Enough for two selections of which one has two moments, or for three.
FiveIds  == {h1, h2, h3, h4, h5}
FourIds  == {h1, h2, h3, h4}

\* Ids are fresh and have no order.
Symmetric == Permutations(Ids)
=============================================================================
