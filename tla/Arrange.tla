------------------------------ MODULE Arrange ------------------------------
(* What the program does with a list of things it ranks: it sorts them, takes   *)
(* the best, or walks them best first and drops those that clash with one it has   *)
(* taken. An order is a set of pairs that tells any two apart. SortSeq and folds    *)
(* over sequences compute the same, but nothing can be proved of them.               *)
EXTENDS Integers, FiniteSets

(* sorted(): the members of S in the order R.                                   *)
Arranged(S, R) ==
    LET place(x) == Cardinality({y \in S: <<y, x>> \in R}) + 1
    IN [i \in 1..Cardinality(S) |-> CHOOSE x \in S: place(x) = i]

Ascending(S) == Arranged(S, {p \in S \X S: p[1] < p[2]})

(* The n members of S that come first.                                          *)
Foremost(S, R, n) == {x \in S: Cardinality({y \in S: <<y, x>> \in R}) < n}

(* The walk: what is taken bars what comes after it and clashes with it.        *)
Taken(S, R, Clashes) ==
    LET taken[free \in SUBSET S] ==
            IF free = {} THEN {}
            ELSE LET best == CHOOSE p \in free: \A q \in free \ {p}: <<p, q>> \in R
                 IN {best} \cup taken[{q \in free \ {best}: <<best, q>> \notin Clashes}]
    IN taken[S]

(* The walk ends when n were taken, which are the first n it would take.        *)
Picked(S, R, Clashes, n) == Foremost(Taken(S, R, Clashes), R, n)
=============================================================================
