-------------------------------- MODULE Reel --------------------------------
(* SCORE_EVENTS: the detector ladder, the scoring of each detector, and the     *)
(* selection of the reel (matchly_shared/highlights, ai_worker/highlights,        *)
(* video_worker/highlights). Time is counted in quarters of a second, so that a    *)
(* recording need not end where a bucket of a second does and the middle of one is  *)
(* a number; scores are whole percents.                                              *)
EXTENDS Integers, FiniteSets, Sequences, SequencesExt, Arrange

CONSTANTS
    Films,            \* recordings: how long, and the rolls Settings gives their clips
    Weight,           \* signal |-> Settings.signal_weight_*
    RawSeries,        \* signal |-> the series it may measure: bucket |-> value
    Frames,           \* the frame-difference series there may be
    MockScores,       \* what the mock's dice may come to
    MinScore, MaxOverlap, MaxCount, PeakMargin \* settings

(* A series has a value in some of the buckets; n frames have n - 1 differences. *)
ASSUME ReelAssumption ==
    /\ Films \subseteq [duration: Nat \ {0}, pre: Nat, post: Nat]
    /\ IsFiniteSet(DOMAIN Weight) /\ \A s \in DOMAIN Weight: Weight[s] \in Nat
    /\ \A s \in DOMAIN Weight: \A raw \in RawSeries[s]:
          /\ DOMAIN raw # {} /\ IsFiniteSet(DOMAIN raw)
          /\ \A b \in DOMAIN raw: raw[b] \in Int
    /\ \A series \in Frames: series \in Seq(Nat)
    /\ MockScores \subseteq Nat
    /\ MaxCount \in Nat /\ MinScore \in Int /\ MaxOverlap \in Int

Signals == DOMAIN Weight

Second == 4    \* GRID_SECONDS and SAMPLE_INTERVAL

(* The last bucket may reach past the end.                                      *)
Buckets(duration) == (duration + Second - 1) \div Second

VARIABLES
    film,        \* the recording this step runs on
    stage,       \* "signals", "frames" or "dice" by the detector; "scored", "selected"
    detectors,   \* what this process registered
    computed,    \* signal |-> its normalised series
    failed,      \* the signals that raised or measured nothing
    candidates,  \* scored moments, in the detector's order
    reel         \* the windows selected

reelVars == <<film, stage, detectors, computed, failed, candidates, reel>>

Ladder == <<"heuristic", "motion", "mock">>   \* by falling priority

(* A worker without the CV packages never registers the first rung.             *)
ReelInit ==
    /\ film \in Films
    /\ detectors \in {{"motion", "mock"}, {"heuristic", "motion", "mock"}}
    /\ \E tracks, pixels \in BOOLEAN:
          LET supports == [d \in ToSet(Ladder) |->
                              CASE d = "heuristic" -> tracks [] d = "motion" -> pixels
                                [] OTHER -> TRUE]
              chosen == CHOOSE i \in 1..3: /\ Ladder[i] \in detectors /\ supports[Ladder[i]]
                                           /\ \A j \in 1..(i - 1):
                                                 ~ (Ladder[j] \in detectors /\ supports[Ladder[j]])
          IN stage = <<"signals", "frames", "dice">>[chosen]
    /\ computed = <<>> /\ failed = {}
    /\ candidates = <<>> /\ reel = <<>>

-----------------------------------------------------------------------------
(* A series is scaled against its own range; one value or a flat one says .5.   *)
Normalise(raw) ==
    LET values == {raw[b]: b \in DOMAIN raw}
        low == CHOOSE v \in values: \A u \in values: v <= u
        high == CHOOSE v \in values: \A u \in values: v >= u
    IN [b \in DOMAIN raw |-> IF low = high THEN 50 ELSE (100 * (raw[b] - low)) \div (high - low)]

(* compute_signals: one signal after another; one that raises is left out.      *)
ComputeSignal(s) ==
    /\ stage = "signals" /\ s \notin DOMAIN computed \cup failed
    /\ \/ /\ \E raw \in RawSeries[s]:
                /\ \A b \in DOMAIN raw: b < Buckets(film.duration)
                /\ computed' = [t \in DOMAIN computed \cup {s} |->
                                   IF t = s THEN Normalise(raw) ELSE computed[t]]
          /\ UNCHANGED failed
       \/ failed' = failed \cup {s} /\ UNCHANGED computed
    /\ UNCHANGED <<film, stage, detectors, candidates, reel>>

At(series, b) == IF b \in DOMAIN series THEN series[b] ELSE 0

(* fuse: the weighted mean over the signals there are, for every bucket any of  *)
(* them speaks of.                                                                *)
Fused(series, buckets) ==
    LET total == SumFunctionOnSet(Weight, DOMAIN series)
        heard(b) == [s \in DOMAIN series |-> At(series[s], b) * Weight[s]]
        score(b) == SumFunction(heard(b)) \div total
        spoken == Ascending({b \in 0..(buckets - 1): \E s \in DOMAIN series: At(series[s], b) > 0})
    IN IF total = 0 THEN <<>>
       ELSE [i \in DOMAIN spoken |->
               [at |-> Second * spoken[i] + Second \div 2,
                score |-> IF score(spoken[i]) > 99 THEN 99 ELSE score(spoken[i])]]

(* Local maxima, or everything when there is none.                              *)
Peaks(fused) ==
    LET score(i) == IF i \in DOMAIN fused THEN fused[i].score ELSE -100
        peaks == {i \in DOMAIN fused: /\ fused[i].score >= score(i - 1) + PeakMargin
                                      /\ fused[i].score >= score(i + 1)}
    IN IF Len(fused) < 3 \/ peaks = {} THEN fused
       ELSE LET order == Ascending(peaks) IN [i \in DOMAIN order |-> fused[order[i]]]

Heuristic ==
    /\ stage = "signals" /\ DOMAIN computed \cup failed = Signals
    /\ candidates' = Peaks(Fused(computed, Buckets(film.duration)))
    /\ stage' = "scored"
    /\ UNCHANGED <<film, detectors, computed, failed, reel>>

(* Motion: the moments that stand out of the match's own median by .6 of its    *)
(* deviation, scored by how far. Fewer than four samples say nothing.              *)
MotionCandidates(series) ==
    LET n == Len(series)
        sum == FoldSeq(LAMBDA v, acc: v + acc, 0, series)
        variance == n * FoldSeq(LAMBDA v, acc: v * v + acc, 0, series) - sum * sum \* times n * n
        sorted == SortSeq(series, <)
        median == sorted[(n + 1) \div 2] + sorted[n \div 2 + 1]                  \* times 2
        beats(v, tenths) == 2 * v >= median /\ 25 * n * n * (2 * v - median) * (2 * v - median)
                                                 >= tenths * tenths * variance
        score(v) == IF beats(v, 30) THEN 99 ELSE IF beats(v, 15) THEN 75 ELSE 60
    IN IF n < 4 \/ variance = 0 THEN <<>>
       ELSE LET out == Ascending({i \in 1..n: beats(series[i], 6)})
            IN [k \in DOMAIN out |-> [at |-> Second * out[k], score |-> score(series[out[k]])]]

Motion ==
    /\ stage = "frames"
    /\ \E series \in Frames: /\ Len(series) < Buckets(film.duration)
                             /\ candidates' = MotionCandidates(series)
    /\ stage' = "scored"
    /\ UNCHANGED <<film, detectors, computed, failed, reel>>

(* The floor: evenly spread moments from a seeded die, none of them at or past  *)
(* the end of what it takes for the duration, which is a second at least. Sixtieths  *)
(* of a quarter until the moments are rounded.                                        *)
MockTime(duration, i, tenths) ==
    LET margin == IF 3 * duration < 600 * Second THEN 3 * duration ELSE 600 * Second
        span == IF 60 * duration - 2 * margin > 60 * Second THEN 60 * duration - 2 * margin
                ELSE 60 * Second
    IN (30 * margin + span * (10 * (i - 1) + tenths)) \div 1800

Mock ==
    /\ stage = "dice"
    /\ \E scores \in [1..3 -> MockScores], tenths \in [1..3 -> {0, 9}]:
          LET duration == IF film.duration > Second THEN film.duration ELSE Second
              at(i) == MockTime(duration, i, tenths[i])
              inside == Ascending({i \in 1..3: at(i) < duration})
          IN candidates' = [k \in DOMAIN inside |->
                               [at |-> at(inside[k]), score |-> scores[inside[k]]]]
    /\ stage' = "scored"
    /\ UNCHANGED <<film, detectors, computed, failed, reel>>

-----------------------------------------------------------------------------
(* Faulty: the window is not clamped at the end.                                *)
WindowPastTheEnd(f, c) ==
    [start |-> IF c.at > f.pre THEN c.at - f.pre ELSE 0,
     end |-> c.at + f.post, score |-> c.score]

(* A moment becomes a window, clamped to the recording. One that is not longer   *)
(* than nothing is made a second long, if the recording has one.                    *)
Window(f, c) ==
    LET start == IF c.at > f.pre THEN c.at - f.pre ELSE 0
        end == IF c.at + f.post < f.duration THEN c.at + f.post ELSE f.duration
    IN [start |-> start, score |-> c.score,
        end |-> IF end > start THEN end
                ELSE IF start + Second < f.duration THEN start + Second ELSE f.duration]

Common(a, b) == (IF a.end < b.end THEN a.end ELSE b.end)
                - (IF a.start > b.start THEN a.start ELSE b.start)
Shorter(a, b) == IF a.end - a.start < b.end - b.start THEN a.end - a.start ELSE b.end - b.start

TooClose(a, b) == Common(a, b) > 0 /\ 100 * Common(a, b) > MaxOverlap * Shorter(a, b)

(* Best first; equal ones keep their order.                                     *)
Better(scored, i, j) ==
    \/ scored[i].score > scored[j].score
    \/ scored[i].score = scored[j].score /\ i < j

Duplicates(f, scored, among) ==
    {p \in among \X among: TooClose(Window(f, scored[p[1]]), Window(f, scored[p[2]]))}

(* Faulty: the moments are walked as they come.                                 *)
KeptInOrder(f, scored) ==
    LET good == {i \in DOMAIN scored: scored[i].score >= MinScore}
    IN Picked(good, {p \in good \X good: p[1] < p[2]}, Duplicates(f, scored, good), MaxCount)

(* The candidates that clear the bar are walked, near duplicates are dropped.   *)
Kept(f, scored) ==
    LET good == {i \in DOMAIN scored: scored[i].score >= MinScore}
    IN Picked(good, {p \in good \X good: Better(scored, p[1], p[2])},
              Duplicates(f, scored, good), MaxCount)

(* The kept ones in the order of the match; at the very start, as they rank.    *)
Earlier(f, scored, i, j) ==
    LET lead == Window(f, scored[j]).start - Window(f, scored[i]).start
    IN lead > 0 \/ (lead = 0 /\ Better(scored, i, j))

InMatchOrder(f, scored, kept) ==
    Arranged(kept, {p \in kept \X kept: Earlier(f, scored, p[1], p[2])})

(* select, and SCORE_EVENTS is skipped when nothing is left.                    *)
Select ==
    /\ stage = "scored"
    /\ LET order == InMatchOrder(film, candidates, Kept(film, candidates))
       IN reel' = [k \in DOMAIN order |-> Window(film, candidates[order[k]])]
    /\ stage' = "selected"
    /\ UNCHANGED <<film, detectors, computed, failed, candidates>>

ReelNext == (\E s \in Signals: ComputeSignal(s)) \/ Heuristic \/ Motion \/ Mock \/ Select

ReelSpec == ReelInit /\ [][ReelNext]_reelVars

-----------------------------------------------------------------------------
(* The reel plays in match order, no two clips are near duplicates, none reaches *)
(* past the end of the recording, one that starts inside it has a length, and all     *)
(* do when the clips open a second or more before the moment: however long the        *)
(* recording is and however short of its rolls (selection.py:27-75).                    *)
ReelIsWatchable ==
    /\ Len(reel) <= MaxCount
    /\ \A i \in DOMAIN reel:
          /\ 0 <= reel[i].start /\ reel[i].end <= film.duration
          /\ film.pre >= Second => reel[i].start < film.duration
          /\ reel[i].start < film.duration => reel[i].start < reel[i].end
    /\ \A i, j \in DOMAIN reel: i < j => /\ reel[i].start <= reel[j].start
                                         /\ ~ TooClose(reel[i], reel[j])

(* What highlights_time_order asks of a row (models.py): false of the code when   *)
(* clips do not open before their moment, for the middle of the last bucket may lie  *)
(* past the end of the recording.                                                     *)
ClipsHaveLength == \A i \in DOMAIN reel: reel[i].start < reel[i].end

(* A moment above the bar is left out only for a better one: it is too close to *)
(* a clip that scores no less, or the reel is full of such clips                    *)
(* (selection.py:49-72: best moments).                                               *)
LeftOutForBetter ==
    stage = "selected" =>
        \A i \in DOMAIN candidates:
            LET w == Window(film, candidates[i])
                better == {k \in DOMAIN reel: reel[k].score >= w.score}
            IN w.score >= MinScore =>
                 \/ \E k \in better: reel[k] = w \/ TooClose(w, reel[k])
                 \/ Cardinality(better) = MaxCount
=============================================================================
