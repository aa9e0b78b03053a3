------------------------------ MODULE Tracker ------------------------------
(* The association of boxes to tracks, as ByteTracker.track does it             *)
(* (ai_worker/tracking/bytetrack.py). One step is one sampled frame. The       *)
(* pixels are abstracted to the overlap of every live track's predicted box     *)
(* with every box of the frame: the detector and the players choose it.          *)
EXTENDS Integers, FiniteSets, Sequences, SequencesExt, Arrange

CONSTANTS
    MaxAge,         \* MAX_AGE: frames a track may go unseen
    MinTrackLength, \* MIN_TRACK_LENGTH: shorter tracks are noise
    MaxFrames, MaxLive, MaxStrong, MaxWeak  \* bounds of the instance

(* Overlap levels of a stage: below its threshold (MATCH_IOU for confident      *)
(* boxes, RESCUE_IOU for weak ones), at it, better.                               *)
Levels == 0..2
Threshold == 1

ASSUME TrackerAssumption ==
    MaxAge \in Nat /\ MaxStrong \in Nat /\ MaxWeak \in Nat

(* Tracks are kept by their reference, a number: the order in which they were   *)
(* started, and so that of the list of live ones.                                *)
VARIABLES
    live,      \* reference |-> track
    finished,  \* reference |-> closed track
    refs,      \* how many references were given out
    frame,     \* frames processed
    boxes      \* the frame at hand: how many boxes, and their overlaps

trackerVars == <<live, finished, refs, frame, boxes>>

NoFrame == [strong |-> 0, weak |-> 0, ahead |-> <<>>, behind |-> <<>>, at |-> 0]

TrackerInit ==
    /\ live = <<>> /\ finished = <<>>
    /\ refs = 0 /\ frame = 0
    /\ boxes = NoFrame

(* The next frame's boxes: `strong` at HIGH_CONFIDENCE, `weak` between it and   *)
(* LOW_CONFIDENCE, each overlapping the predicted box of each live track by some  *)
(* amount.                                                                         *)
Detect ==
    /\ boxes = NoFrame /\ frame < MaxFrames
    /\ \E strong \in 0..MaxStrong, weak \in 0..MaxWeak:
       /\ Cardinality(DOMAIN live) + strong <= MaxLive
       /\ \E ahead \in [(DOMAIN live) \X (1..strong) -> Levels],
             behind \in [(DOMAIN live) \X (1..weak) -> Levels]:
             boxes' = [strong |-> strong, weak |-> weak, ahead |-> ahead, behind |-> behind,
                       at |-> frame + 1]
    /\ UNCHANGED <<live, finished, refs, frame>>

-----------------------------------------------------------------------------
(* Greedy matching: pairs at the threshold are walked in falling order of        *)
(* (overlap, track, box), and one is taken if its track and its box are free.      *)
Before(iou, p, q) ==
    \/ iou[p] > iou[q]
    \/ iou[p] = iou[q] /\ p[1] > q[1]
    \/ iou[p] = iou[q] /\ p[1] = q[1] /\ p[2] > q[2]

Rival(p, q) == p[1] = q[1] \/ p[2] = q[2]

Joinable(tracks, found, iou) == {p \in tracks \X found: iou[p] >= Threshold}

(* Faulty: only a pair that is the first of its track and of its box is taken.  *)
AssociateFirstOnly(tracks, found, iou) ==
    LET near == Joinable(tracks, found, iou)
    IN {p \in near: \A q \in near \ {p}: Rival(p, q) => Before(iou, p, q)}

Associate(tracks, found, iou) ==
    LET near == Joinable(tracks, found, iou)
    IN Taken(near, {x \in near \X near: Before(iou, x[1], x[2])},
             {x \in near \X near: Rival(x[1], x[2])})

(* A track the frame's box is joined to. Faulty: the misses are not forgotten. *)
SeenAgainOnly(t) == [t EXCEPT !.points = Append(@, boxes.at)]
Seen(t) == [points |-> Append(t.points, boxes.at), misses |-> 0]

Missed(t) == [t EXCEPT !.misses = @ + 1]

Started == [points |-> <<boxes.at>>, misses |-> 0]

-----------------------------------------------------------------------------
(* Stage one: confident boxes claim tracks. Stage two: weak ones rescue the     *)
(* tracks nothing claimed.                                                        *)
Pairs == Associate(DOMAIN live, 1..boxes.strong, boxes.ahead)
Claimed == {p[1]: p \in Pairs}
Leftovers == DOMAIN live \ Claimed
Rescued == Associate(Leftovers, 1..boxes.weak, boxes.behind)

(* Confident boxes left over start tracks, tracks unseen too long are closed.   *)
Track ==
    /\ boxes # NoFrame
    /\ LET kept == Claimed \cup {p[1]: p \in Rescued}
           fresh == boxes.strong - Cardinality(Pairs)
           all == [r \in DOMAIN live \cup (refs + 1)..(refs + fresh) |->
                      IF r \notin DOMAIN live THEN Started
                      ELSE IF r \in kept THEN Seen(live[r]) ELSE Missed(live[r])]
           old == {r \in DOMAIN all: all[r].misses > MaxAge}
       IN /\ live' = Restrict(all, DOMAIN all \ old)
          /\ finished' = [r \in DOMAIN finished \cup old |->
                            IF r \in old THEN all[r] ELSE finished[r]]
          /\ refs' = refs + fresh
    /\ frame' = boxes.at
    /\ boxes' = NoFrame

TrackerNext == Detect \/ Track

TrackerSpec == TrackerInit /\ [][TrackerNext]_trackerVars

(* The tracks the step returns if the video ends here: what is live is closed,  *)
(* short tracks are dropped, the rest is ordered by first appearance and, of      *)
(* equal ones, as they were closed.                                                 *)
FirstSeen(t) == t.points[1]

AllTracks ==
    [r \in DOMAIN finished \cup DOMAIN live |->
        IF r \in DOMAIN finished THEN finished[r] ELSE live[r]]

ClosedAfter(r) == IF r \in DOMAIN finished THEN Last(finished[r].points) ELSE frame

Precedes(tracks, a, b) ==
    LET first == FirstSeen(tracks[a]) - FirstSeen(tracks[b])
        closed == ClosedAfter(a) - ClosedAfter(b)
    IN \/ first < 0
       \/ first = 0 /\ closed < 0
       \/ first = 0 /\ closed = 0 /\ a < b

Returned(tracks) ==
    LET long == {r \in DOMAIN tracks: Len(tracks[r].points) >= MinTrackLength}
    IN Arranged(long, {p \in long \X long: Precedes(tracks, p[1], p[2])})

(* Faulty: a track that was closed before the end is not returned.              *)
LiveTracks == Returned(live)

Tracks == Returned(AllTracks)

-----------------------------------------------------------------------------
(* Every pair that could have been joined and was not lost an end to a pair of  *)
(* at least its overlap: no box is held back from a track nothing better took.   *)
Settled(tracks, found, iou, pairs) ==
    \A p \in tracks \X found:
        iou[p] >= Threshold /\ p \notin pairs =>
            \E q \in pairs: Rival(p, q) /\ iou[q] >= iou[p]

(* Both stages are settled, so a new track is started only for a box no free    *)
(* track matched, and a weak box is lost only to a better one (bytetrack.py:76,  *)
(* 138-172: two stages, each greedy).                                             *)
ClaimsAreStable ==
    /\ Settled(DOMAIN live, 1..boxes.strong, boxes.ahead, Pairs)
    /\ Settled(Leftovers, 1..boxes.weak, boxes.behind, Rescued)

(* A track is live as long as it was seen within the last MaxAge frames, and a  *)
(* closed one was not: an occlusion of up to MaxAge frames, whenever it comes,    *)
(* keeps the player's track (bytetrack.py:62, 160-177).                           *)
OccludedAreKept ==
    /\ \A r \in DOMAIN live: frame - Last(live[r].points) <= MaxAge
    /\ \A r \in DOMAIN finished: frame - Last(finished[r].points) > MaxAge

(* The returned tracks: by first appearance, and every reference that was given *)
(* out and lasted is among them, closed early or not (bytetrack.py:175-189).      *)
LastingTracksAreReturned ==
    LET all == AllTracks
        out == Tracks
    IN /\ \A i, j \in DOMAIN out:
              i < j => out[i] # out[j] /\ FirstSeen(all[out[i]]) <= FirstSeen(all[out[j]])
       /\ ToSet(out) = {r \in 1..refs: Len(all[r].points) >= MinTrackLength}
=============================================================================
