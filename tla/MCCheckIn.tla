------------------------------ MODULE MCCheckIn ------------------------------
(***************************************************************************)
(* Instances of CheckIn for TLC.                                           *)
(***************************************************************************)
EXTENDS CheckIn, TLC

CONSTANTS q1, q2, q3, q4, ana, bob, seven, nine, A, B

ThreeRequests == {q1, q2, q3}
FourRequests  == {q1, q2, q3, q4}
TwoUsers      == {ana, bob}
TwoTeams      == {A, B}
TwoNumbers    == {seven, nine}

\* Requests, users, teams and numbers are interchangeable.
Symmetric ==
  Permutations(Requests) \cup Permutations(Users)
    \cup Permutations(Teams) \cup Permutations(Numbers)
=============================================================================
