----------------------------- MODULE MCAnalysis -----------------------------
(***************************************************************************)
(* The analysis steps for TLC. What one hands to the next is a file or a    *)
(* row that the next takes as any input of its kind: a behaviour of the       *)
(* model is one of one step, so that their states add and do not multiply.     *)
(***************************************************************************)
EXTENDS Tracker, JerseyVote, Sampling, Reel

TwoNumbers == {7, 10}
Percents == {10, 30, 60}

Weights == [motion |-> 3, density |-> 2]
Motions == UNION {[S -> 0..2]: S \in (SUBSET (0..5)) \ {{}}}
Densities == {[b \in {k, k + 2} |-> b]: k \in 0..3} \cup {[b \in {k} |-> 1]: k \in {0, 5}}
Series == [motion |-> Motions, density |-> Densities]
Differences == UNION {[1..n -> 0..3]: n \in 3..5}
Dice == {30, 50, 80}

\* Longer than the rolls, to the second and past one; shorter than both; shorter
\* than a second; and cut without a roll before or after.
FiveFilms == {[duration |-> 24, pre |-> 4, post |-> 8], [duration |-> 21, pre |-> 5, post |-> 6],
              [duration |-> 5, pre |-> 32, post |-> 40], [duration |-> 3, pre |-> 0, post |-> 4],
              [duration |-> 21, pre |-> 0, post |-> 0]}

WideAndTall == {[width |-> 192, height |-> 108], [width |-> 64, height |-> 36],
                [width |-> 54, height |-> 96]}

UpToNine == 1..9
UpToSeven == 1..7
TwoSizes == 1..2
ThreePlaces == {<<0, 0>>, <<Grid \div 2, 4>>, <<Grid, Grid \div 2>>}

VARIABLE part

analysisVars == <<part, trackerVars, jerseyVars, reelVars, samplingVars>>

AnalysisInit ==
    /\ part \in {"tracker", "jersey", "reel", "sampling"}
    /\ TrackerInit
    /\ JerseyInit /\ (part # "jersey" => \A p \in Players: roster[p] = 7)
    /\ ReelInit /\ (part # "reel" => stage = "dice" /\ "heuristic" \notin detectors /\ film.duration = 24)
    /\ SamplingInit /\ (part # "sampling" => picture.frames = 1 /\ picture.master.width = 64)

AnalysisNext ==
    /\ UNCHANGED part
    /\ \/ part = "tracker" /\ TrackerNext /\ UNCHANGED <<jerseyVars, reelVars, samplingVars>>
       \/ part = "jersey" /\ JerseyNext /\ UNCHANGED <<trackerVars, reelVars, samplingVars>>
       \/ part = "reel" /\ ReelNext /\ UNCHANGED <<trackerVars, jerseyVars, samplingVars>>
       \/ part = "sampling" /\ SamplingNext /\ UNCHANGED <<trackerVars, jerseyVars, reelVars>>

AnalysisSpec == AnalysisInit /\ [][AnalysisNext]_analysisVars
=============================================================================
