------------------------------ MODULE Sampling ------------------------------
(* What the CV steps look at: which sampled frames, which moments of a track,   *)
(* and which pixels. One player stands at a place of the picture; the frame is     *)
(* scaled, the box found on it, stored with the track and scaled back to cut the    *)
(* shirt out of the master (steps/cv.py, jersey/base.py, jersey/recognizer.py).       *)
EXTENDS Integers, FiniteSets, Sequences, SequencesExt, Arrange

CONSTANTS
    FrameCounts,     \* how many frames the proxy may yield
    MaxDetectionFrames, \* Settings.max_detection_frames
    FrameWidth,      \* Settings.proxy_height, which the frames take as their width
    Masters,         \* [width, height] of the recordings there may be
    Grid, Places,    \* the player's places, in 1 / Grid of the picture
    Lengths, Sizes,  \* how long a track may be, and how large its boxes
    MaxCrops         \* Settings.jersey_crops_per_track

ASSUME SamplingAssumption ==
    /\ FrameCounts \subseteq Nat /\ MaxDetectionFrames \in Nat \ {0}
    /\ Lengths \subseteq Nat /\ Sizes \subseteq Nat /\ MaxCrops \in Nat \ {0}

VARIABLES
    step,     \* "frames", "thinned", "tracked", "moments", "cropped"
    picture,  \* how many frames were sampled, and of what master
    indexes,  \* the sampled frame each detection was made on
    place,    \* the player: x, y of the box's corner, in Grid
    stored,   \* the stored place: x, y in Grid
    track,    \* the size of the track's box at each second
    moments,  \* the seconds that are looked at on the master
    crop      \* the corner of the box in the master's pixels

samplingVars == <<step, picture, indexes, place, stored, track, moments, crop>>

Origin == <<0, 0>>

SamplingInit ==
    /\ step = "frames"
    /\ picture \in [frames: FrameCounts, master: Masters]
    /\ indexes = <<>> /\ place = Origin /\ stored = Origin
    /\ track = <<>> /\ moments = <<>> /\ crop = Origin

-----------------------------------------------------------------------------
(* detect_players thins a long recording evenly. Faulty: it is truncated.       *)
Truncated(n, limit) == [i \in 1..(IF n > limit THEN limit ELSE n) |-> i - 1]
Thinned(n, limit) ==
    IF n > limit THEN [i \in 1..limit |-> ((i - 1) * n) \div limit] ELSE [i \in 1..n |-> i - 1]

DetectPlayers ==
    /\ step = "frames"
    /\ indexes' = Thinned(picture.frames, MaxDetectionFrames)
    /\ place' \in Places
    /\ step' = "thinned"
    /\ UNCHANGED <<picture, stored, track, moments, crop>>

(* Where the detector finds the player: on a frame FrameWidth wide, whatever    *)
(* the recording is (ffmpeg keeps the aspect).                                    *)
FrameHeight == (FrameWidth * picture.master.height) \div picture.master.width
Found == <<(place[1] * FrameWidth) \div Grid, (place[2] * FrameHeight) \div Grid>>

(* _persist_tracks divides by the size of the recording.                        *)
PersistTrack ==
    /\ step = "thinned"
    /\ stored' = <<(Found[1] * Grid) \div picture.master.width,
                   (Found[2] * Grid) \div picture.master.height>>
    /\ track' \in UNION {[1..n -> Sizes]: n \in Lengths}
    /\ step' = "tracked"
    /\ UNCHANGED <<picture, indexes, place, moments, crop>>

(* choose_moments: the largest boxes first, none within half a second or a       *)
(* (2 * limit)-th of the track of one that was taken. A point is one second.       *)
Distance(s, t) == IF s > t THEN s - t ELSE t - s
Near(s, t, n) == s = t \/ 2 * MaxCrops * Distance(s, t) < n - 1

BySize(sizes) ==
    {p \in (DOMAIN sizes) \X (DOMAIN sizes):
        \/ sizes[p[1]] > sizes[p[2]]
        \/ sizes[p[1]] = sizes[p[2]] /\ p[1] < p[2]}

(* Faulty: the largest boxes, wherever they are.                                *)
LargestMoments(sizes) == Foremost(DOMAIN sizes, BySize(sizes), MaxCrops)

ChosenMoments(sizes) ==
    Picked(DOMAIN sizes, BySize(sizes),
           {p \in (DOMAIN sizes) \X (DOMAIN sizes): Near(p[1], p[2], Len(sizes))}, MaxCrops)

ChooseMoments ==
    /\ step = "tracked"
    /\ moments' = Ascending(ChosenMoments(track))
    /\ step' = "moments"
    /\ UNCHANGED <<picture, indexes, place, stored, track, crop>>

(* _master_scale compares heights; jersey_region multiplies by it, extract_crops *)
(* clamps to the frame.                                                            *)
EffectiveHeight == IF FrameWidth < picture.master.height THEN FrameWidth ELSE picture.master.height
Scaled(v) == (v * picture.master.height) \div EffectiveHeight

ExtractCrops ==
    /\ step = "moments"
    /\ crop' = <<Scaled(Found[1]), Scaled(Found[2])>>
    /\ step' = "cropped"
    /\ UNCHANGED <<picture, indexes, place, stored, track, moments>>

SamplingNext == DetectPlayers \/ PersistTrack \/ ChooseMoments \/ ExtractCrops

SamplingSpec == SamplingInit /\ [][SamplingNext]_samplingVars

-----------------------------------------------------------------------------
(* A thinned recording is seen whole: the frames looked at are in order, each   *)
(* once, and no part longer than a stride is left out; the timestamp given to a    *)
(* detection (its number by the coarser rate) is that of its frame, to a sample     *)
(* (cv.py:90-97, yolo.py:86-90).                                                      *)
WholeMatchIsSeen ==
    step = "thinned" =>
        LET n == picture.frames
            k == Len(indexes)
        IN /\ \A i \in 1..(k - 1): indexes[i] < indexes[i + 1]
           /\ \A i \in 1..k: /\ indexes[i] \in 0..(n - 1)
                             /\ k * indexes[i] <= (i - 1) * n
                             /\ (i - 1) * n < k * (indexes[i] + 1)

(* The moments read on the master are spread over the track, the largest box is *)
(* one of them, and a second left out is near one at least as large, unless the     *)
(* reader has enough of those (recognizer.py:26-52).                                  *)
MomentsAreSpread ==
    step = "moments" =>
        LET n == Len(track)
            taken == ToSet(moments)
            larger(t) == {s \in taken: track[s] >= track[t]}
        IN /\ \A s, t \in taken: s # t => ~ Near(s, t, n)
           /\ \A t \in (1..n) \ taken: \/ \E s \in larger(t): Near(s, t, n)
                                       \/ Cardinality(larger(t)) = MaxCrops

(* cv.py:197-198: "positions are stored normalised so nothing downstream has to  *)
(* know either resolution", and jersey/base.py:44: "``scale`` converts proxy         *)
(* coordinates to master coordinates". The stored place and the corner of the crop    *)
(* are the player's, up to the rounding of two scalings.                                *)
PlacesAreKept ==
    step = "cropped" =>
        /\ stored[1] >= place[1] - 1
        /\ Grid * crop[1] >= place[1] * picture.master.width - 4 * Grid
=============================================================================
