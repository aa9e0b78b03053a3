-------------------------- MODULE Analysis_proofs --------------------------
(***************************************************************************)
(* Proofs about the analysis steps: Sampling for any recording and limit,  *)
(* JerseyVote for any roster, reads and settings that are shares, Tracker  *)
(* for any number of tracks, boxes and frames, Reel for any recording,     *)
(* settings and series.                                                    *)
(***************************************************************************)
EXTENDS Tracker, JerseyVote, Sampling, Reel, TLAPS, FiniteSetTheorems, WellFoundedInduction

-----------------------------------------------------------------------------
(***************************************************************************)
(* Sampling: the frames that are looked at.                                *)
(***************************************************************************)
LEMMA Division ==
  ASSUME NEW a \in Nat, NEW b \in Nat, b > 0
  PROVE  /\ a \div b \in Nat
         /\ b * (a \div b) <= a /\ a < b * (a \div b) + b
  OBVIOUS

\* The i-th frame looked at, of n of which k are.
LEMMA Strides ==
  ASSUME NEW n \in Nat, NEW k \in Nat, k > 0, k <= n, NEW i \in 1..k
  PROVE  LET at(j) == ((j - 1) * n) \div k
         IN  /\ at(i) \in 0..(n - 1)
             /\ k * at(i) <= (i - 1) * n
             /\ (i - 1) * n < k * (at(i) + 1)
             /\ i < k => at(i) < at(i + 1)
<1> DEFINE a == (i - 1) * n
           q == a \div k
           r == (i * n) \div k
<1>1. a \in Nat /\ i * n \in Nat /\ i * n = a + n
  OBVIOUS
<1>2. q \in Nat /\ k * q <= a /\ a < k * q + k
  BY <1>1, Division
<1>3. r \in Nat /\ k * r <= a + n /\ a + n < k * r + k
  BY <1>1, Division
<1>4. k * (q + 1) = k * q + k
  BY <1>2
<1>5. a + n <= k * n
  <2>1. i * n <= k * n
    OBVIOUS
  <2> QED BY <1>1, <2>1
<1> HIDE DEF a, q, r
<1>6. q < n
  <2> SUFFICES ASSUME q >= n PROVE FALSE
    BY <1>2
  <2>1. k * q >= k * n
    BY <1>2
  <2>2. k * q \in Int /\ k * n \in Int /\ a \in Int
    BY <1>1, <1>2 DEF a
  <2> QED BY <1>2, <1>5, <2>1, <2>2
<1>7. q < r
  <2> SUFFICES ASSUME r <= q PROVE FALSE
    BY <1>2, <1>3
  <2>1. k * r <= k * q
    BY <1>2, <1>3
  <2>2. k * q \in Int /\ k * r \in Int /\ a \in Int
    BY <1>1, <1>2, <1>3 DEF a
  <2> QED BY <1>2, <1>3, <2>1, <2>2
<1>8. ((i - 1) * n) \div k = q /\ (((i + 1) - 1) * n) \div k = r
  BY DEF a, q, r
<1> QED BY <1>2, <1>4, <1>6, <1>7, <1>8 DEF a

SamplingInv ==
  /\ picture.frames \in Nat
  /\ step = "thinned" => indexes = Thinned(picture.frames, MaxDetectionFrames)

\* A thinned recording is seen whole, for any number of frames and any limit:
\* each frame looked at once and in order, no stride left out
\* (detect_players, cv.py:90-97).
THEOREM WholeMatchIsSeenAlways == SamplingSpec => []WholeMatchIsSeen
<1>1. SamplingInit => SamplingInv
  BY SamplingAssumption DEF SamplingInit, SamplingInv
<1>2. SamplingInv /\ [SamplingNext]_samplingVars => SamplingInv'
  BY DEF SamplingInv, SamplingNext, samplingVars, DetectPlayers, PersistTrack,
         ChooseMoments, ExtractCrops
<1>3. SamplingInv => WholeMatchIsSeen
  <2> SUFFICES ASSUME SamplingInv, step = "thinned" PROVE WholeMatchIsSeen
    BY DEF WholeMatchIsSeen
  <2> DEFINE n == picture.frames
             k == Len(indexes)
  <2>1. n \in Nat /\ indexes = Thinned(n, MaxDetectionFrames)
    BY DEF SamplingInv
  <2> SUFFICES /\ \A i \in 1..(k - 1): indexes[i] < indexes[i + 1]
               /\ \A i \in 1..k: /\ indexes[i] \in 0..(n - 1)
                                 /\ k * indexes[i] <= (i - 1) * n
                                 /\ (i - 1) * n < k * (indexes[i] + 1)
    BY DEF WholeMatchIsSeen
  <2> HIDE DEF n, k
  <2>2. CASE n > MaxDetectionFrames
    <3>1. indexes = [i \in 1..MaxDetectionFrames |-> ((i - 1) * n) \div MaxDetectionFrames]
      BY <2>1, <2>2 DEF Thinned
    <3>2. k = MaxDetectionFrames /\ k \in Nat /\ k > 0 /\ k <= n
      BY <2>1, <2>2, <3>1, SamplingAssumption DEF k
    <3>3. \A i \in 1..k : indexes[i] = ((i - 1) * n) \div k
      BY <3>1, <3>2
    <3>4. ASSUME NEW i \in 1..k
          PROVE  /\ indexes[i] \in 0..(n - 1)
                 /\ k * indexes[i] <= (i - 1) * n
                 /\ (i - 1) * n < k * (indexes[i] + 1)
                 /\ i < k => indexes[i] < indexes[i + 1]
      <4>1. i < k => i + 1 \in 1..k
        BY <3>2
      <4> QED BY <2>1, <3>2, <3>3, <4>1, Strides
    <3> QED BY <3>2, <3>4
  <2>3. CASE ~(n > MaxDetectionFrames)
    <3>1. indexes = [i \in 1..n |-> i - 1]
      BY <2>1, <2>3 DEF Thinned
    <3>2. k = n
      BY <2>1, <3>1 DEF k
    <3>3. \A i \in 1..n : indexes[i] = i - 1
      BY <3>1
    <3>4. ASSUME NEW i \in 1..n
          PROVE  n * (i - 1) <= (i - 1) * n /\ (i - 1) * n < n * i
      <4>1. n * i = (i - 1) * n + n /\ n * (i - 1) = (i - 1) * n
        BY <2>1
      <4> QED BY <2>1, <4>1
    <3> QED BY <2>1, <3>2, <3>3, <3>4
  <2> QED BY <2>2, <2>3, SamplingAssumption
<1> QED BY <1>1, <1>2, <1>3, PTL DEF SamplingSpec

-----------------------------------------------------------------------------
(***************************************************************************)
(* Tracker: every track's misses are the frames since it was last seen.    *)
(***************************************************************************)
\* A track whose misses are counted right once `now` frames were processed.
IsTrack(t, now) ==
    /\ t \in [points: Seq(Nat), misses: Nat]
    /\ t.points # <<>>
    /\ now - t.points[Len(t.points)] = t.misses

\* The strengthening: misses are counted, and the age limit parts live tracks
\* from closed ones.
MissesAreCounted ==
    /\ frame \in Nat
    /\ boxes # NoFrame => boxes.at = frame + 1
    /\ \A r \in DOMAIN live: IsTrack(live[r], frame) /\ live[r].misses <= MaxAge
    /\ \A r \in DOMAIN finished:
          /\ finished[r] \in [points: Seq(Nat), misses: Nat]
          /\ finished[r].points # <<>>
          /\ frame - finished[r].points[Len(finished[r].points)] > MaxAge

LEMMA LastOfAppend ==
  ASSUME NEW s \in Seq(Nat), NEW e \in Nat
  PROVE  LET longer == Append(s, e)
         IN  longer \in Seq(Nat) /\ longer # <<>> /\ longer[Len(longer)] = e
OBVIOUS

LEMMA SeenCounts ==
  ASSUME NEW t, NEW now \in Nat, IsTrack(t, now), boxes.at = now + 1
  PROVE  IsTrack(Seen(t), now + 1)
<1>1. t \in [points: Seq(Nat), misses: Nat]
  BY DEF IsTrack
<1>2. Seen(t) = [points |-> Append(t.points, now + 1), misses |-> 0]
  BY DEF Seen
<1> DEFINE s == Append(t.points, now + 1)
<1>3. /\ s \in Seq(Nat) /\ s # <<>>
      /\ s[Len(s)] = now + 1
  BY <1>1, LastOfAppend
<1> HIDE DEF s
<1> QED BY <1>2, <1>3 DEF IsTrack, s

LEMMA MissedCounts ==
  ASSUME NEW t, NEW now \in Nat, IsTrack(t, now)
  PROVE  IsTrack(Missed(t), now + 1)
<1>1. /\ t \in [points: Seq(Nat), misses: Nat] /\ t.points # <<>>
      /\ now - t.points[Len(t.points)] = t.misses
  BY DEF IsTrack
<1>2. Missed(t) = [points |-> t.points, misses |-> t.misses + 1]
  BY <1>1 DEF Missed
<1>3. t.points[Len(t.points)] \in Nat
  BY <1>1
<1>4. now + 1 - t.points[Len(t.points)] = t.misses + 1
  BY <1>1, <1>3
<1> QED BY <1>1, <1>2, <1>4 DEF IsTrack

LEMMA StartedCounts ==
  ASSUME NEW now \in Nat, boxes.at = now + 1
  PROVE  IsTrack(Started, now + 1)
BY DEF IsTrack, Started

LEMMA TrackKeepsMisses ==
  ASSUME MissesAreCounted, Track
  PROVE  MissesAreCounted'
<1> USE TrackerAssumption
<1> DEFINE kept == Claimed \cup {p[1]: p \in Rescued}
           fresh == boxes.strong - Cardinality(Pairs)
           all == [r \in DOMAIN live \cup (refs + 1)..(refs + fresh) |->
                      IF r \notin DOMAIN live THEN Started
                      ELSE IF r \in kept THEN Seen(live[r]) ELSE Missed(live[r])]
           old == {r \in DOMAIN all: all[r].misses > MaxAge}
           now == frame + 1
<1>1. /\ live' = Restrict(all, DOMAIN all \ old)
      /\ finished' = [r \in DOMAIN finished \cup old |->
                        IF r \in old THEN all[r] ELSE finished[r]]
      /\ frame' = boxes.at /\ boxes' = NoFrame
      /\ boxes.at = now /\ frame \in Nat /\ now \in Nat
  BY DEF Track, MissesAreCounted
<1> HIDE DEF kept, fresh
<1>2. ASSUME NEW r \in DOMAIN all PROVE IsTrack(all[r], now)
  <2>1. CASE r \notin DOMAIN live
    BY <1>1, <2>1, StartedCounts
  <2>2. CASE r \in DOMAIN live /\ r \in kept
    <3>1. IsTrack(live[r], frame)
      BY <2>2 DEF MissesAreCounted
    <3> QED BY <1>1, <2>2, <3>1, SeenCounts
  <2>3. CASE r \in DOMAIN live /\ r \notin kept
    <3>1. IsTrack(live[r], frame)
      BY <2>3 DEF MissesAreCounted
    <3> QED BY <1>1, <2>3, <3>1, MissedCounts
  <2> QED BY <2>1, <2>2, <2>3
<1> HIDE DEF all
<1>3. ASSUME NEW r \in DOMAIN live' PROVE IsTrack(live'[r], now) /\ live'[r].misses <= MaxAge
  <2>1. r \in DOMAIN all /\ r \notin old /\ live'[r] = all[r]
    BY <1>1 DEF Restrict
  <2>2. all[r].misses \in Nat
    BY <1>2, <2>1 DEF IsTrack
  <2> QED BY <1>2, <2>1, <2>2
<1>4. ASSUME NEW r \in DOMAIN finished'
      PROVE  /\ finished'[r] \in [points: Seq(Nat), misses: Nat]
             /\ finished'[r].points # <<>>
             /\ now - finished'[r].points[Len(finished'[r].points)] > MaxAge
  <2>1. CASE r \in old
    <3>1. finished'[r] = all[r] /\ r \in DOMAIN all /\ all[r].misses > MaxAge
      BY <1>1, <2>1
    <3> QED BY <1>2, <3>1 DEF IsTrack
  <2>2. CASE r \notin old
    <3>1. r \in DOMAIN finished /\ finished'[r] = finished[r]
      BY <1>1, <2>2
    <3>2. /\ finished[r] \in [points: Seq(Nat), misses: Nat]
          /\ finished[r].points # <<>>
          /\ frame - finished[r].points[Len(finished[r].points)] > MaxAge
      BY <3>1 DEF MissesAreCounted
    <3>3. finished[r].points[Len(finished[r].points)] \in Nat
      BY <3>2
    <3>4. now - finished[r].points[Len(finished[r].points)] > MaxAge
      BY <1>1, <3>2, <3>3
    <3> QED BY <3>1, <3>2, <3>4
  <2> QED BY <2>1, <2>2
<1> QED BY <1>1, <1>3, <1>4 DEF MissesAreCounted

LEMMA MissesStayCounted == TrackerSpec => []MissesAreCounted
<1>1. TrackerInit => MissesAreCounted
  BY DEF TrackerInit, MissesAreCounted
<1>2. MissesAreCounted /\ [TrackerNext]_trackerVars => MissesAreCounted'
  <2> SUFFICES ASSUME MissesAreCounted, [TrackerNext]_trackerVars
               PROVE  MissesAreCounted'
    OBVIOUS
  <2>1. CASE Detect
    <3>1. /\ live' = live /\ finished' = finished /\ frame' = frame
          /\ boxes'.at = frame + 1
      BY <2>1 DEF Detect
    <3> QED BY <3>1 DEF MissesAreCounted
  <2>2. CASE Track
    BY <2>2, TrackKeepsMisses
  <2>3. CASE UNCHANGED trackerVars
    BY <2>3 DEF trackerVars, MissesAreCounted
  <2> QED BY <2>1, <2>2, <2>3 DEF TrackerNext
<1> QED BY <1>1, <1>2, PTL DEF TrackerSpec

\* However the boxes fall and however long the video, a track seen within the
\* last MaxAge frames is live and one that is closed was not: an occlusion of
\* up to MaxAge frames keeps the player's track (bytetrack.py:62, 160-177).
THEOREM OccludedAreKeptAlways == TrackerSpec => []OccludedAreKept
<1>1. MissesAreCounted => OccludedAreKept
  <2> SUFFICES ASSUME MissesAreCounted PROVE OccludedAreKept
    OBVIOUS
  <2>1. \A r \in DOMAIN live: frame - Last(live[r].points) <= MaxAge
    BY DEF MissesAreCounted, IsTrack, Last
  <2>2. \A r \in DOMAIN finished: frame - Last(finished[r].points) > MaxAge
    BY DEF MissesAreCounted, Last
  <2> QED BY <2>1, <2>2 DEF OccludedAreKept
<1> QED BY <1>1, MissesStayCounted, PTL

-----------------------------------------------------------------------------
(***************************************************************************)
(* Recursion over the subsets of a finite set. What is greedily taken from *)
(* a set, or summed over it, is defined by what a smaller set gives; that  *)
(* such a function exists, and what holds of it, follows from a smallest   *)
(* set that would be an exception.                                         *)
(***************************************************************************)
LEMMA SmallestSet ==
  ASSUME NEW S, IsFiniteSet(S), NEW F, F \subseteq SUBSET S, F # {}
  PROVE  \E T \in F: \A U \in F: U \subseteq T => U = T
<1> DEFINE R == StrictSubsetOrdering(S)
<1>1. IsWellFoundedOn(R, SUBSET S)
  BY FS_StrictSubsetOrderingWellFounded, FS_FiniteSubsetsOfFinite
<1>2. \A p: p \in R <=> p \in (SUBSET S) \X (SUBSET S) /\ p[1] \subseteq p[2] /\ p[1] # p[2]
  BY DEF StrictSubsetOrdering
<1> HIDE DEF R
<1>3. PICK T \in F: \A U \in F: ~ (<<U, T>> \in R)
  BY <1>1, WFMin
<1>4. ASSUME NEW U \in F, U \subseteq T PROVE U = T
  <2>1. <<U, T>> \in (SUBSET S) \X (SUBSET S)
    OBVIOUS
  <2>2. <<U, T>> \notin R
    BY <1>3
  <2> QED BY <1>2, <1>4, <2>1, <2>2
<1> QED BY <1>4

\* f is defined on the subsets of S by what it is on smaller ones.
Defined(f, S, V, base, smaller, out) ==
    /\ f \in [SUBSET S -> V]
    /\ \A T \in SUBSET S:
          f[T] = IF T = {} THEN base ELSE out[<<T, f[smaller[T]]>>]

Shrinks(smaller, S) ==
    /\ smaller \in [SUBSET S -> SUBSET S]
    /\ \A T \in SUBSET S: T # {} => smaller[T] \subseteq T /\ smaller[T] # T

\* Where every exception has a smaller one there is none.
LEMMA NoException ==
  ASSUME NEW S, IsFiniteSet(S), NEW smaller, Shrinks(smaller, S),
         NEW F, F \subseteq SUBSET S, \A T \in F: T # {} /\ smaller[T] \in F
  PROVE  F = {}
<1> SUFFICES ASSUME F # {} PROVE FALSE
  OBVIOUS
<1>1. PICK U \in F: \A W \in F: W \subseteq U => W = U
  BY SmallestSet
<1>2. U # {} /\ smaller[U] \in F
  OBVIOUS
<1>3. smaller[U] \subseteq U /\ smaller[U] # U
  BY <1>2 DEF Shrinks
<1> QED BY <1>1, <1>2, <1>3

LEMMA DefinedOnce ==
  ASSUME NEW S, IsFiniteSet(S), NEW smaller, Shrinks(smaller, S),
         NEW V, NEW base, NEW out,
         NEW A \in SUBSET S, NEW f, Defined(f, A, V, base, smaller, out),
         NEW B \in SUBSET S, NEW g, Defined(g, B, V, base, smaller, out),
         NEW T, T \subseteq A, T \subseteq B
  PROVE  f[T] = g[T]
<1> DEFINE F == {U \in SUBSET S: U \subseteq A /\ U \subseteq B /\ f[U] # g[U]}
<1>1. ASSUME NEW U \in F PROVE U # {} /\ smaller[U] \in F
  <2>1. U # {}
    BY DEF Defined
  <2>2. /\ smaller[U] \subseteq U
        /\ f[U] = out[<<U, f[smaller[U]]>>] /\ g[U] = out[<<U, g[smaller[U]]>>]
    BY <2>1 DEF Defined, Shrinks
  <2> QED BY <2>1, <2>2
<1>2. F = {}
  <2>1. F \subseteq SUBSET S
    OBVIOUS
  <2> HIDE DEF F
  <2> QED BY <1>1, <2>1, NoException
<1> QED BY <1>2

LEMMA Recursion ==
  ASSUME NEW S, IsFiniteSet(S), NEW smaller, Shrinks(smaller, S),
         NEW V, NEW base \in V, NEW out \in [(SUBSET S) \X V -> V]
  PROVE  \E f: Defined(f, S, V, base, smaller, out)
<1> DEFINE D(f, T) == Defined(f, T, V, base, smaller, out)
           F == {T \in SUBSET S: ~ \E f: D(f, T)}
<1> SUFFICES ASSUME F # {} PROVE FALSE
  OBVIOUS
<1>1. PICK T \in F: \A U \in F: U \subseteq T => U = T
  <2>1. F \subseteq SUBSET S
    OBVIOUS
  <2> HIDE DEF F
  <2> QED BY <2>1, SmallestSet
<1> DEFINE on(U) == CHOOSE f: D(f, U)
           below(U) == on(U)[U]
           of(U) == IF U = {} THEN base ELSE out[<<U, below(smaller[U])>>]
           h == [U \in SUBSET T |-> of(U)]
<1>2. ASSUME NEW U \in SUBSET T, U # T PROVE D(on(U), U)
  <2>1. \E f: D(f, U)
    BY <1>1, <1>2
  <2> HIDE DEF D
  <2> QED BY <2>1
<1>3. ASSUME NEW U \in SUBSET T, U # {}
      PROVE  smaller[U] \in SUBSET T /\ smaller[U] # T /\ smaller[U] \subseteq U /\ smaller[U] # U
  BY <1>3 DEF Shrinks
<1>4. ASSUME NEW U \in SUBSET T, U # T PROVE below(U) \in V /\ below(U) = of(U)
  <2>1. on(U) \in [SUBSET U -> V]
    BY <1>2, <1>4 DEF Defined
  <2>2. on(U)[U] = IF U = {} THEN base ELSE out[<<U, on(U)[smaller[U]]>>]
    BY <1>2, <1>4 DEF Defined
  <2>3. U # {} => on(U)[smaller[U]] = below(smaller[U])
    <3> SUFFICES ASSUME U # {} PROVE on(U)[smaller[U]] = on(smaller[U])[smaller[U]]
      OBVIOUS
    <3>1. D(on(U), U) /\ D(on(smaller[U]), smaller[U])
      BY <1>2, <1>3, <1>4
    <3>2. smaller[U] \in SUBSET S /\ U \in SUBSET S /\ smaller[U] \subseteq U
      BY <1>3
    <3> HIDE DEF on
    <3> QED BY <3>1, <3>2, DefinedOnce
  <2> HIDE DEF on
  <2> QED BY <2>1, <2>2, <2>3
<1> HIDE DEF below
<1>5. ASSUME NEW U \in SUBSET T PROVE of(U) \in V
  <2>1. CASE U = {}
    BY <2>1
  <2>2. CASE U # {}
    <3>1. below(smaller[U]) \in V
      BY <1>3, <1>4, <2>2
    <3>2. <<U, below(smaller[U])>> \in (SUBSET S) \X V
      BY <3>1
    <3> QED BY <2>2, <3>2
  <2> QED BY <2>1, <2>2
<1>6. h \in [SUBSET T -> V]
  <2> HIDE DEF of
  <2> QED BY <1>5
<1>7. ASSUME NEW U \in SUBSET T
      PROVE  h[U] = IF U = {} THEN base ELSE out[<<U, h[smaller[U]]>>]
  <2>1. CASE U = {}
    BY <2>1
  <2>2. CASE U # {}
    <3>1. h[smaller[U]] = below(smaller[U])
      <4>1. smaller[U] \in SUBSET T /\ smaller[U] # T
        BY <1>3, <2>2
      <4>2. of(smaller[U]) = below(smaller[U])
        BY <1>4, <4>1
      <4> HIDE DEF of
      <4> QED BY <4>1, <4>2
    <3> QED BY <2>2, <3>1
  <2> QED BY <2>1, <2>2
<1>8. D(h, T)
  <2> HIDE DEF h
  <2> QED BY <1>6, <1>7 DEF Defined
<1> HIDE DEF D, h
<1> QED BY <1>1, <1>8

\* A finite set has a first member in any order that compares all of them.
LEMMA HasFirst ==
  ASSUME NEW F, IsFiniteSet(F), F # {}, NEW R,
         \A p, q \in F: <<p, q>> \in R \/ <<q, p>> \in R,
         \A p, q, r \in F: <<p, q>> \in R /\ <<q, r>> \in R => <<p, r>> \in R
  PROVE  \E p \in F: \A q \in F: <<p, q>> \in R
<1> DEFINE Above(p) == {q \in F: <<q, p>> \in R}
           A == {Above(p): p \in F}
<1>1. PICK T \in A: \A U \in A: U \subseteq T => U = T
  <2>1. A \subseteq SUBSET F
    OBVIOUS
  <2>2. PICK p \in F: TRUE
    OBVIOUS
  <2>3. Above(p) \in A
    OBVIOUS
  <2> HIDE DEF A
  <2> QED BY <2>1, <2>3, SmallestSet
<1>2. PICK p \in F: T = Above(p)
  OBVIOUS
<1>3. ASSUME NEW q \in F PROVE <<p, q>> \in R
  <2> SUFFICES ASSUME <<p, q>> \notin R PROVE FALSE
    OBVIOUS
  <2>1. <<q, p>> \in R
    OBVIOUS
  <2>2. Above(q) \subseteq Above(p)
    BY <2>1
  <2>3. Above(q) = Above(p)
    <3>1. Above(q) \in A
      OBVIOUS
    <3> HIDE DEF Above, A
    <3> QED BY <1>1, <1>2, <2>2, <3>1
  <2>4. p \in Above(p)
    OBVIOUS
  <2> QED BY <2>3, <2>4
<1> QED BY <1>3

-----------------------------------------------------------------------------
(***************************************************************************)
(* Arrange: what is sorted, taken best first, or walked.                   *)
(***************************************************************************)
\* R tells any two members of S apart.
Ranks(R, S) ==
    /\ \A p \in S: <<p, p>> \notin R
    /\ \A p, q \in S: p # q => <<p, q>> \in R \/ <<q, p>> \in R
    /\ \A p, q, r \in S: <<p, q>> \in R /\ <<q, r>> \in R => <<p, r>> \in R

\* The members of a finite set, each with its rank in an order that tells any
\* two apart: every rank is taken, and by one.
LEMMA Ranking ==
  ASSUME NEW K, IsFiniteSet(K), NEW R, Ranks(R, K)
  PROVE  LET rank(r) == Cardinality({q \in K: <<q, r>> \in R}) + 1
         IN  /\ \A p \in K: rank(p) \in 1..Cardinality(K)
             /\ \A p, q \in K: <<p, q>> \in R <=> rank(p) < rank(q)
             /\ \A i \in 1..Cardinality(K): \E r \in K: rank(r) = i
<1> USE DEF Ranks
<1> DEFINE below(r) == {q \in K: <<q, r>> \in R}
           n == Cardinality(K)
           rank(r) == Cardinality(below(r)) + 1
           ranked == [r \in K |-> rank(r)]
<1>1. n \in Nat
  BY FS_CardinalityType
<1>2. ASSUME NEW p \in K PROVE IsFiniteSet(below(p)) /\ Cardinality(below(p)) \in Nat
  <2>1. below(p) \subseteq K
    OBVIOUS
  <2> HIDE DEF below
  <2> QED BY <2>1, FS_Subset, FS_CardinalityType
<1>3. ASSUME NEW p \in K PROVE rank(p) \in 1..n
  <2>1. below(p) \subseteq K \ {p}
    OBVIOUS
  <2>2. IsFiniteSet(K \ {p}) /\ Cardinality(K \ {p}) = n - 1
    BY FS_RemoveElement
  <2> HIDE DEF below, n
  <2>3. Cardinality(below(p)) <= n - 1
    BY <2>1, <2>2, FS_Subset
  <2> QED BY <1>1, <1>2, <2>3
<1>4. ASSUME NEW p \in K, NEW q \in K, <<p, q>> \in R PROVE rank(p) < rank(q)
  <2>1. below(p) \subseteq below(q) \ {p}
    BY <1>4
  <2>2. p \in below(q)
    BY <1>4
  <2> HIDE DEF below
  <2>3. /\ IsFiniteSet(below(q) \ {p})
        /\ Cardinality(below(q) \ {p}) = Cardinality(below(q)) - 1
    BY <1>2, <2>2, FS_RemoveElement
  <2>4. Cardinality(below(p)) <= Cardinality(below(q)) - 1
    BY <2>1, <2>3, FS_Subset
  <2> QED BY <1>2, <2>4
<1> HIDE DEF rank, n
<1>5. ASSUME NEW p \in K, NEW q \in K PROVE <<p, q>> \in R <=> rank(p) < rank(q)
  <2>1. rank(p) \in Int /\ rank(q) \in Int
    BY <1>1, <1>3
  <2>2. CASE <<p, q>> \in R
    BY <1>4, <2>2
  <2>3. CASE <<q, p>> \in R /\ <<p, q>> \notin R
    BY <1>4, <2>1, <2>3
  <2>4. CASE p = q
    BY <2>1, <2>4
  <2> QED BY <2>2, <2>3, <2>4
<1>6. ranked \in Injection(K, 1..n)
  <2>1. ranked \in [K -> 1..n]
    BY <1>3
  <2>2. \A p, q \in K: ranked[p] = ranked[q] => p = q
    <3> SUFFICES ASSUME NEW p \in K, NEW q \in K, rank(p) = rank(q) PROVE p = q
      OBVIOUS
    <3>1. rank(p) \in Int
      BY <1>1, <1>3
    <3>2. <<p, q>> \notin R /\ <<q, p>> \notin R
      BY <1>5, <3>1
    <3> QED BY <3>2
  <2> HIDE DEF ranked
  <2> QED BY <2>1, <2>2 DEF Injection, IsInjective
<1>7. \A i \in 1..n: \E r \in K: rank(r) = i
  <2>1. IsFiniteSet(1..n) /\ Cardinality(1..n) = n
    BY <1>1, FS_Interval
  <2>2. ranked \in Surjection(K, 1..n)
    <3> HIDE DEF ranked
    <3> QED BY <1>6, <2>1, FS_Injection DEF n
  <2>3. \A i \in 1..n: \E r \in K: ranked[r] = i
    <3> HIDE DEF ranked
    <3> QED BY <2>2 DEF Surjection
  <2> QED BY <2>3
<1> QED BY <1>3, <1>5, <1>7 DEF rank, n

LEMMA ArrangedIs ==
  ASSUME NEW K, IsFiniteSet(K), NEW R, Ranks(R, K)
  PROVE  LET out == Arranged(K, R)
             n == Cardinality(K)
         IN  /\ n \in Nat /\ out \in [1..n -> K]
             /\ \A x \in K: \E i \in 1..n: out[i] = x
             /\ \A i, j \in 1..n: i < j => <<out[i], out[j]>> \in R /\ out[i] # out[j]
<1> USE DEF Ranks
<1> DEFINE rank(r) == Cardinality({q \in K: <<q, r>> \in R}) + 1
           n == Cardinality(K)
           out == [i \in 1..n |-> CHOOSE r \in K: rank(r) = i]
<1>1. /\ \A p \in K: rank(p) \in 1..n
      /\ \A p, q \in K: <<p, q>> \in R <=> rank(p) < rank(q)
      /\ \A i \in 1..n: \E r \in K: rank(r) = i
  BY Ranking
<1>2. n \in Nat
  BY FS_CardinalityType
<1>3. Arranged(K, R) = out
  BY DEF Arranged
<1> HIDE DEF rank, n
<1>4. \A i \in 1..n: out[i] \in K /\ rank(out[i]) = i
  BY <1>1
<1>5. DOMAIN out = 1..n /\ out = [i \in 1..n |-> out[i]]
  OBVIOUS
<1> HIDE DEF out
<1>6. out \in [1..n -> K]
  BY <1>4, <1>5
<1>7. ASSUME NEW x \in K PROVE out[rank(x)] = x /\ rank(x) \in 1..n
  <2>1. /\ rank(x) \in 1..n /\ rank(x) \in Int
        /\ rank(out[rank(x)]) = rank(x) /\ out[rank(x)] \in K
    BY <1>1, <1>2, <1>4
  <2>2. <<x, out[rank(x)]>> \notin R /\ <<out[rank(x)], x>> \notin R
    BY <1>1, <2>1
  <2> QED BY <2>1, <2>2
<1>8. ASSUME NEW i \in 1..n, NEW j \in 1..n, i < j
      PROVE  <<out[i], out[j]>> \in R /\ out[i] # out[j]
  <2>1. rank(out[i]) < rank(out[j]) /\ out[i] \in K /\ out[j] \in K
    BY <1>4, <1>8
  <2> QED BY <1>1, <2>1
<1> QED BY <1>2, <1>3, <1>6, <1>7, <1>8 DEF n

LEMMA AscendingIs ==
  ASSUME NEW S, IsFiniteSet(S), S \subseteq Int
  PROVE  LET out == Ascending(S)
             n == Cardinality(S)
         IN  /\ n \in Nat /\ out \in [1..n -> S] /\ DOMAIN out = 1..n
             /\ \A x \in S: \E i \in 1..n: out[i] = x
             /\ \A i, j \in 1..n: i < j => out[i] < out[j]
<1> DEFINE R == {p \in S \X S: p[1] < p[2]}
           out == Arranged(S, R)
<1>1. \A p, q \in S: <<p, q>> \in R <=> p < q
  OBVIOUS
<1> HIDE DEF R
<1>2. Ranks(R, S)
  BY <1>1 DEF Ranks
<1>3. /\ Cardinality(S) \in Nat /\ out \in [1..Cardinality(S) -> S]
      /\ \A x \in S: \E i \in 1..Cardinality(S): out[i] = x
      /\ \A i, j \in 1..Cardinality(S): i < j => <<out[i], out[j]>> \in R /\ out[i] # out[j]
  BY <1>2, ArrangedIs
<1>4. Ascending(S) = out
  BY DEF Ascending, R
<1> HIDE DEF out
<1>5. \A i, j \in 1..Cardinality(S): i < j => out[i] < out[j]
  BY <1>1, <1>3
<1> QED BY <1>3, <1>4, <1>5

\* Who is not among the first n of them comes after n others.
LEMMA ForemostIs ==
  ASSUME NEW K, IsFiniteSet(K), NEW R, Ranks(R, K), NEW n \in Nat
  PROVE  LET F == Foremost(K, R, n)
         IN  /\ F \subseteq K /\ IsFiniteSet(F)
             /\ Cardinality(F) \in Nat /\ Cardinality(F) <= n
             /\ \A x \in K \ F: Cardinality(F) = n /\ \A y \in F: <<y, x>> \in R
<1> DEFINE rank(r) == Cardinality({q \in K: <<q, r>> \in R}) + 1
           F == Foremost(K, R, n)
           ranked == [r \in F |-> rank(r)]
<1>1. /\ \A p \in K: rank(p) \in 1..Cardinality(K)
      /\ \A p, q \in K: <<p, q>> \in R <=> rank(p) < rank(q)
      /\ \A i \in 1..Cardinality(K): \E r \in K: rank(r) = i
  BY Ranking
<1>2. Cardinality(K) \in Nat
  BY FS_CardinalityType
<1>3. \A x \in K: x \in F <=> rank(x) <= n
  <2> SUFFICES ASSUME NEW x \in K PROVE x \in F <=> rank(x) <= n
    OBVIOUS
  <2>1. rank(x) \in 1..Cardinality(K)
    BY <1>1
  <2>2. x \in F <=> rank(x) - 1 < n
    <3> DEFINE c(z) == Cardinality({q \in K: <<q, z>> \in R})
    <3>1. c(x) + 1 \in 1..Cardinality(K)
      BY <2>1
    <3>2. c(x) \in Int
      <4>1. IsFiniteSet({q \in K: <<q, x>> \in R})
        BY FS_Subset
      <4> QED BY <4>1, FS_CardinalityType
    <3>3. x \in F <=> c(x) < n
      BY DEF Foremost
    <3>4. rank(x) = c(x) + 1
      OBVIOUS
    <3> HIDE DEF c, rank, F
    <3> QED BY <3>2, <3>3, <3>4
  <2> HIDE DEF rank
  <2> QED BY <1>2, <2>1, <2>2
<1>4. F \subseteq K /\ IsFiniteSet(F)
  <2>1. F \subseteq K
    BY DEF Foremost
  <2> QED BY <2>1, FS_Subset
<1> HIDE DEF rank, F
<1>5. /\ \A x \in F: rank(x) \in 1..n
      /\ \A x, y \in F: rank(x) = rank(y) => x = y
  <2>1. \A x \in F: rank(x) \in 1..n
    BY <1>1, <1>2, <1>3, <1>4
  <2>2. ASSUME NEW x \in F, NEW y \in F, rank(x) = rank(y) PROVE x = y
    <3>1. x \in K /\ y \in K /\ rank(x) \in Int
      BY <1>4, <2>1
    <3>2. <<x, y>> \notin R /\ <<y, x>> \notin R
      BY <1>1, <2>2, <3>1
    <3> QED BY <3>1, <3>2 DEF Ranks
  <2> QED BY <2>1, <2>2
<1>6. ranked \in Injection(F, 1..n)
  BY <1>5 DEF Injection, IsInjective
<1>7. IsFiniteSet(1..n) /\ Cardinality(1..n) = n
  BY FS_Interval
<1>8. Cardinality(F) \in Nat /\ Cardinality(F) <= n
  <2> HIDE DEF ranked
  <2> QED BY <1>4, <1>6, <1>7, FS_Injection, FS_CardinalityType
<1>9. ASSUME NEW x \in K \ F PROVE Cardinality(F) = n /\ \A y \in F: <<y, x>> \in R
  <2>1. rank(x) \in 1..Cardinality(K) /\ ~ (rank(x) <= n)
    BY <1>1, <1>3
  <2>2. n < Cardinality(K) /\ n < rank(x)
    BY <1>2, <2>1
  <2>3. ASSUME NEW i \in 1..n PROVE \E r \in F: ranked[r] = i
    <3>1. i \in 1..Cardinality(K) /\ i <= n
      BY <1>2, <2>2
    <3>2. PICK r \in K: rank(r) = i
      BY <1>1, <3>1
    <3>3. r \in F
      BY <1>3, <3>1, <3>2
    <3> QED BY <3>2, <3>3
  <2>4. ranked \in Surjection(F, 1..n)
    BY <1>5, <2>3 DEF Surjection
  <2>5. Cardinality(F) >= n
    <3> HIDE DEF ranked
    <3> QED BY <1>4, <1>7, <2>4, FS_Surjection
  <2>6. \A y \in F: y \in K /\ rank(y) < rank(x)
    BY <1>2, <1>4, <1>5, <2>1, <2>2
  <2> QED BY <1>1, <1>8, <2>5, <2>6
<1> QED BY <1>4, <1>8, <1>9 DEF F

\* f is what the walk takes of any part of S.
Walks(f, S, R, C) ==
    /\ f \in [SUBSET S -> SUBSET S]
    /\ \A free \in SUBSET S:
          f[free] = IF free = {} THEN {}
                    ELSE LET best == CHOOSE p \in free: \A q \in free \ {p}: <<p, q>> \in R
                         IN  {best} \cup f[{q \in free \ {best}: <<best, q>> \notin C}]

LEMMA BestIsFirst ==
  ASSUME NEW S, NEW R, Ranks(R, S), NEW free, free \subseteq S, IsFiniteSet(free), free # {}
  PROVE  LET best == CHOOSE p \in free: \A q \in free \ {p}: <<p, q>> \in R
         IN  best \in free /\ \A q \in free \ {best}: <<best, q>> \in R
<1> DEFINE Q == R \cup {<<p, p>>: p \in free}
<1>1. \A p, q \in free: <<p, q>> \in Q <=> p = q \/ <<p, q>> \in R
  OBVIOUS
<1> HIDE DEF Q
<1>2. /\ \A p, q \in free: <<p, q>> \in Q \/ <<q, p>> \in Q
      /\ \A p, q, r \in free: <<p, q>> \in Q /\ <<q, r>> \in Q => <<p, r>> \in Q
  BY <1>1 DEF Ranks
<1>3. \E p \in free: \A q \in free: <<p, q>> \in Q
  BY <1>2, HasFirst
<1>4. \E p \in free: \A q \in free \ {p}: <<p, q>> \in R
  BY <1>1, <1>3
<1> QED BY <1>4

LEMMA TakenWalks ==
  ASSUME NEW S, IsFiniteSet(S), NEW R, Ranks(R, S), NEW C
  PROVE  \E f: Walks(f, S, R, C) /\ f[S] = Taken(S, R, C)
<1> DEFINE best(free) == CHOOSE p \in free: \A q \in free \ {p}: <<p, q>> \in R
           rest(free) == {q \in free \ {best(free)}: <<best(free), q>> \notin C}
           smaller == [free \in SUBSET S |-> rest(free)]
           out == [x \in (SUBSET S) \X (SUBSET S) |-> ({best(x[1])} \cap S) \cup x[2]]
           walked(f, free) == IF free = {} THEN {} ELSE {best(free)} \cup f[rest(free)]
           taken[free \in SUBSET S] == walked(taken, free)
<1>1. Taken(S, R, C) = taken[S]
  BY DEF Taken
<1>2. \A free \in SUBSET S: free # {} => best(free) \in free
  <2> SUFFICES ASSUME NEW free \in SUBSET S, free # {} PROVE best(free) \in free
    OBVIOUS
  <2>1. IsFiniteSet(free)
    BY FS_Subset
  <2> QED BY <2>1, BestIsFirst
<1> HIDE DEF best
<1>3. Shrinks(smaller, S)
  <2>1. smaller \in [SUBSET S -> SUBSET S]
    OBVIOUS
  <2>2. ASSUME NEW free \in SUBSET S, free # {}
        PROVE  smaller[free] \subseteq free /\ smaller[free] # free
    <3>1. smaller[free] = rest(free)
      OBVIOUS
    <3> QED BY <1>2, <2>2, <3>1
  <2> HIDE DEF smaller
  <2> QED BY <2>1, <2>2 DEF Shrinks
<1>4. PICK f: Defined(f, S, SUBSET S, {}, smaller, out)
  <2>1. out \in [(SUBSET S) \X (SUBSET S) -> SUBSET S]
    OBVIOUS
  <2> HIDE DEF out, smaller
  <2> QED BY <1>3, <2>1, Recursion
<1>5. f \in [SUBSET S -> SUBSET S]
  BY <1>4 DEF Defined
<1>6. ASSUME NEW free \in SUBSET S PROVE f[free] = walked(f, free)
  <2>1. f[free] = IF free = {} THEN {} ELSE out[<<free, f[smaller[free]]>>]
    BY <1>4 DEF Defined
  <2>2. smaller[free] = rest(free) /\ rest(free) \in SUBSET S
    OBVIOUS
  <2>3. <<free, f[rest(free)]>> \in (SUBSET S) \X (SUBSET S)
    BY <1>5, <2>2
  <2>4. out[<<free, f[rest(free)]>>] = ({best(free)} \cap S) \cup f[rest(free)]
    BY <2>3
  <2> HIDE DEF out, smaller, rest
  <2> QED BY <1>2, <2>1, <2>2, <2>4
<1>7. taken = [free \in SUBSET S |-> walked(taken, free)]
  <2> DEFINE P(g) == g = [free \in SUBSET S |-> walked(g, free)]
  <2>1. P(f)
    <3> HIDE DEF walked
    <3> QED BY <1>5, <1>6
  <2>2. P(taken) <=> P(CHOOSE g: P(g))
    OBVIOUS
  <2>3. P(CHOOSE g: P(g))
    <3> HIDE DEF P
    <3> QED BY <2>1
  <2> QED BY <2>2, <2>3 DEF P
<1> HIDE DEF taken
<1>8. \A free \in SUBSET S: taken[free] = f[free]
  <2> DEFINE F == {free \in SUBSET S: taken[free] # f[free]}
  <2>1. ASSUME NEW free \in F PROVE free # {} /\ smaller[free] \in F
    <3>1. taken[free] = walked(taken, free) /\ f[free] = walked(f, free)
      <4> HIDE DEF walked
      <4> QED BY <1>6, <1>7
    <3>2. free # {} /\ taken[rest(free)] # f[rest(free)]
      <4> HIDE DEF rest
      <4> QED BY <3>1
    <3>3. smaller[free] = rest(free) /\ rest(free) \in SUBSET S
      OBVIOUS
    <3> HIDE DEF rest
    <3> QED BY <3>2, <3>3
  <2>2. F \subseteq SUBSET S
    OBVIOUS
  <2>3. F = {}
    <3> HIDE DEF F, smaller
    <3> QED BY <1>3, <2>1, <2>2, NoException
  <2> QED BY <2>3
<1> HIDE DEF walked, rest
<1>9. \A free \in SUBSET S: f[free] = IF free = {} THEN {} ELSE {best(free)} \cup f[rest(free)]
  BY <1>6 DEF walked
<1>10. Walks(f, S, R, C)
  BY <1>5, <1>9 DEF Walks, rest, best
<1> QED BY <1>1, <1>8, <1>10

\* The walk in three facts that tell it from any other choice: nothing it takes
\* clashes with what it took before, and only what does is left out.
LEMMA TakenIs ==
  ASSUME NEW S, IsFiniteSet(S), NEW R, Ranks(R, S), NEW C
  PROVE  LET T == Taken(S, R, C)
         IN  /\ T \subseteq S
             /\ \A p, q \in T: <<p, q>> \in R => <<p, q>> \notin C
             /\ \A q \in S \ T: \E p \in T: <<p, q>> \in R /\ <<p, q>> \in C
<1> DEFINE best(free) == CHOOSE p \in free: \A q \in free \ {p}: <<p, q>> \in R
           smaller == [free \in SUBSET S |->
                         {q \in free \ {best(free)}: <<best(free), q>> \notin C}]
<1>1. PICK f: Walks(f, S, R, C) /\ f[S] = Taken(S, R, C)
  BY TakenWalks
<1>2. ASSUME NEW free \in SUBSET S, free # {}
      PROVE  /\ best(free) \in free
             /\ \A q \in free \ {best(free)}: <<best(free), q>> \in R
             /\ f[free] = {best(free)} \cup f[smaller[free]]
             /\ smaller[free] = {q \in free \ {best(free)}: <<best(free), q>> \notin C}
             /\ smaller[free] \in SUBSET S
  <2>1. IsFiniteSet(free)
    BY FS_Subset
  <2>2. best(free) \in free /\ \A q \in free \ {best(free)}: <<best(free), q>> \in R
    BY <1>2, <2>1, BestIsFirst
  <2>3. smaller[free] = {q \in free \ {best(free)}: <<best(free), q>> \notin C}
    OBVIOUS
  <2> HIDE DEF smaller
  <2>4. f[free] = {best(free)} \cup f[smaller[free]]
    BY <1>1, <1>2, <2>3 DEF Walks
  <2> HIDE DEF best
  <2> QED BY <2>2, <2>3, <2>4
<1>3. Shrinks(smaller, S)
  <2>1. smaller \in [SUBSET S -> SUBSET S]
    OBVIOUS
  <2> HIDE DEF smaller, best
  <2>2. \A free \in SUBSET S: free # {} => smaller[free] \subseteq free /\ smaller[free] # free
    BY <1>2
  <2> QED BY <2>1, <2>2 DEF Shrinks
<1> HIDE DEF smaller, best
<1> DEFINE Walked(free, t) ==
             /\ t \subseteq free
             /\ \A p, q \in t: <<p, q>> \in R => <<p, q>> \notin C
             /\ \A q \in free \ t: \E p \in t: <<p, q>> \in R /\ <<p, q>> \in C
           F == {free \in SUBSET S: ~ Walked(free, f[free])}
<1>4. ASSUME NEW free \in F PROVE free # {} /\ smaller[free] \in F
  <2>1. free # {}
    BY <1>1 DEF Walks
  <2> SUFFICES ASSUME smaller[free] \notin F PROVE FALSE
    BY <2>1
  <2> DEFINE less == smaller[free]
             b == best(free)
             t == f[less]
  <2>2. /\ b \in free /\ \A q \in free \ {b}: <<b, q>> \in R
        /\ f[free] = {b} \cup t
        /\ less = {q \in free \ {b}: <<b, q>> \notin C} /\ less \in SUBSET S
    BY <1>2, <2>1
  <2>3. Walked(less, t)
    BY <2>2
  <2>4. free \subseteq S
    OBVIOUS
  <2> HIDE DEF less, b, t
  <2>5. t \subseteq less /\ f[free] \subseteq free
    BY <2>2, <2>3
  <2>6. ASSUME NEW p \in f[free], NEW q \in f[free], <<p, q>> \in R PROVE <<p, q>> \notin C
    <3>1. CASE p \in t /\ q \in t
      BY <2>3, <2>6, <3>1
    <3>2. CASE p = b /\ q \in t
      BY <2>2, <2>5, <3>2
    <3>3. CASE q = b
      <4>1. p = b \/ <<b, p>> \in R
        BY <2>2, <2>5
      <4>2. p \in S /\ b \in S
        BY <2>2, <2>4, <2>5
      <4> QED BY <2>6, <3>3, <4>1, <4>2 DEF Ranks
    <3> QED BY <2>2, <3>1, <3>2, <3>3
  <2>7. ASSUME NEW q \in free \ f[free]
        PROVE  \E p \in f[free]: <<p, q>> \in R /\ <<p, q>> \in C
    <3>1. q # b /\ q \notin t /\ b \in f[free] /\ t \subseteq f[free]
      BY <2>2
    <3>2. CASE q \in less
      BY <2>3, <3>1, <3>2
    <3>3. CASE q \notin less
      BY <2>2, <3>1, <3>3
    <3> QED BY <3>2, <3>3
  <2> QED BY <2>5, <2>6, <2>7
<1>5. F = {}
  <2>1. F \subseteq SUBSET S
    OBVIOUS
  <2> HIDE DEF F
  <2> QED BY <1>3, <1>4, <2>1, NoException
<1>6. Walked(S, f[S])
  <2> HIDE DEF Walked
  <2> QED BY <1>5
<1> QED BY <1>1, <1>6

\* What is left out of the first n clashes with one of them that comes before
\* it, or comes after all n.
LEMMA PickedIs ==
  ASSUME NEW S, IsFiniteSet(S), NEW R, Ranks(R, S), NEW C, NEW n \in Nat
  PROVE  LET K == Picked(S, R, C, n)
         IN  /\ K \subseteq S /\ IsFiniteSet(K)
             /\ Cardinality(K) \in Nat /\ Cardinality(K) <= n
             /\ \A p, q \in K: <<p, q>> \in R => <<p, q>> \notin C
             /\ \A q \in S \ K:
                   \/ \E p \in K: <<p, q>> \in R /\ <<p, q>> \in C
                   \/ Cardinality(K) = n /\ \A p \in K: <<p, q>> \in R
<1> DEFINE T == Taken(S, R, C)
           K == Foremost(T, R, n)
<1>1. /\ T \subseteq S
      /\ \A p, q \in T: <<p, q>> \in R => <<p, q>> \notin C
      /\ \A q \in S \ T: \E p \in T: <<p, q>> \in R /\ <<p, q>> \in C
  BY TakenIs
<1> HIDE DEF T
<1>2. IsFiniteSet(T) /\ Ranks(R, T)
  BY <1>1, FS_Subset DEF Ranks
<1>3. /\ K \subseteq T /\ IsFiniteSet(K)
      /\ Cardinality(K) \in Nat /\ Cardinality(K) <= n
      /\ \A x \in T \ K: Cardinality(K) = n /\ \A y \in K: <<y, x>> \in R
  BY <1>2, ForemostIs
<1>4. Picked(S, R, C, n) = K
  BY DEF Picked, T
<1> HIDE DEF K
<1>5. ASSUME NEW q \in S \ K
      PROVE  \/ \E p \in K: <<p, q>> \in R /\ <<p, q>> \in C
             \/ Cardinality(K) = n /\ \A p \in K: <<p, q>> \in R
  <2>1. CASE q \in T
    BY <1>3, <2>1
  <2>2. CASE q \notin T
    <3>1. PICK p \in T: <<p, q>> \in R /\ <<p, q>> \in C
      BY <1>1, <2>2
    <3>2. CASE p \in K
      BY <3>1, <3>2
    <3>3. CASE p \notin K
      <4>1. Cardinality(K) = n /\ \A y \in K: <<y, p>> \in R
        BY <1>3, <3>3
      <4>2. \A y \in K: <<y, q>> \in R
        BY <1>1, <1>3, <3>1, <4>1 DEF Ranks
      <4> QED BY <4>1, <4>2
    <3> QED BY <3>2, <3>3
  <2> QED BY <2>1, <2>2
<1> QED BY <1>1, <1>3, <1>4, <1>5

-----------------------------------------------------------------------------
(***************************************************************************)
(* Tracker: the greedy association settles what could be joined.           *)
(***************************************************************************)
LEMMA Association ==
  ASSUME NEW tracks \in SUBSET Int, IsFiniteSet(tracks),
         NEW found \in SUBSET Int, IsFiniteSet(found), NEW iou,
         \A p \in tracks \X found: iou[p] \in Levels
  PROVE  LET near == Joinable(tracks, found, iou)
             pairs == Associate(tracks, found, iou)
         IN  /\ near \subseteq tracks \X found /\ IsFiniteSet(near)
             /\ pairs \subseteq near
             /\ \A p, q \in pairs: Rival(p, q) => p = q
             /\ \A q \in near \ pairs: \E p \in pairs: Rival(p, q) /\ iou[p] >= iou[q]
<1> DEFINE near == Joinable(tracks, found, iou)
           R == {x \in near \X near: Before(iou, x[1], x[2])}
           C == {x \in near \X near: Rival(x[1], x[2])}
           pairs == Taken(near, R, C)
<1>1. near \subseteq tracks \X found /\ IsFiniteSet(near)
  <2>1. near \subseteq tracks \X found
    BY DEF Joinable
  <2>2. IsFiniteSet(tracks \X found)
    BY FS_Product
  <2> QED BY <2>1, <2>2, FS_Subset
<1>2. Associate(tracks, found, iou) = pairs
  BY DEF Associate
<1> HIDE DEF near
<1>3. /\ \A p, q \in near: <<p, q>> \in R <=> Before(iou, p, q)
      /\ \A p, q \in near: <<p, q>> \in C <=> Rival(p, q)
  OBVIOUS
<1> HIDE DEF R, C
<1>4. \A p \in near: /\ p = <<p[1], p[2]>> /\ p[1] \in Int /\ p[2] \in Int
                     /\ iou[p] \in Int
  <2>1. ASSUME NEW p \in tracks \X found
        PROVE  p = <<p[1], p[2]>> /\ p[1] \in Int /\ p[2] \in Int
    <3>1. p = <<p[1], p[2]>>
      OBVIOUS
    <3>2. p[1] \in tracks /\ p[2] \in found
      OBVIOUS
    <3> QED BY <3>1, <3>2
  <2>2. \A p \in tracks \X found: iou[p] \in Int
    BY DEF Levels
  <2> QED BY <1>1, <2>1, <2>2
<1>5. Ranks(R, near)
  <2>1. \A p \in near: ~ Before(iou, p, p)
    BY <1>4 DEF Before
  <2>2. \A p, q \in near: p # q => Before(iou, p, q) \/ Before(iou, q, p)
    BY <1>4 DEF Before
  <2>3. \A p, q, r \in near: Before(iou, p, q) /\ Before(iou, q, r) => Before(iou, p, r)
    BY <1>4 DEF Before
  <2> QED BY <1>3, <2>1, <2>2, <2>3 DEF Ranks
<1>6. /\ pairs \subseteq near
      /\ \A p, q \in pairs: <<p, q>> \in R => <<p, q>> \notin C
      /\ \A q \in near \ pairs: \E p \in pairs: <<p, q>> \in R /\ <<p, q>> \in C
  BY <1>1, <1>5, TakenIs
<1> HIDE DEF pairs
<1>7. ASSUME NEW p \in pairs, NEW q \in pairs, Rival(p, q) PROVE p = q
  <2>1. Rival(q, p)
    BY <1>7 DEF Rival
  <2>2. <<p, q>> \notin R /\ <<q, p>> \notin R
    BY <1>3, <1>6, <1>7, <2>1
  <2> QED BY <1>5, <1>6, <2>2 DEF Ranks
<1>8. ASSUME NEW q \in near \ pairs PROVE \E p \in pairs: Rival(p, q) /\ iou[p] >= iou[q]
  <2>1. PICK p \in pairs: <<p, q>> \in R /\ <<p, q>> \in C
    BY <1>6
  <2>2. p \in near /\ Before(iou, p, q) /\ Rival(p, q)
    BY <1>3, <1>6, <2>1
  <2>3. iou[p] >= iou[q]
    BY <1>4, <2>2 DEF Before
  <2> QED BY <2>2, <2>3
<1> QED BY <1>1, <1>2, <1>6, <1>7, <1>8 DEF near

LEMMA GreedySettles ==
  ASSUME NEW tracks \in SUBSET Int, IsFiniteSet(tracks),
         NEW found \in SUBSET Int, IsFiniteSet(found), NEW iou,
         \A p \in tracks \X found: iou[p] \in Levels
  PROVE  /\ Settled(tracks, found, iou, Associate(tracks, found, iou))
         /\ IsFiniteSet(Associate(tracks, found, iou))
<1> DEFINE near == Joinable(tracks, found, iou)
           pairs == Associate(tracks, found, iou)
<1>1. /\ IsFiniteSet(near) /\ pairs \subseteq near
      /\ \A q \in near \ pairs: \E p \in pairs: Rival(p, q) /\ iou[p] >= iou[q]
  BY Association
<1>2. \A p \in tracks \X found: iou[p] >= Threshold => p \in near
  BY DEF Joinable
<1> HIDE DEF near, pairs
<1>3. \A p, q: Rival(p, q) => Rival(q, p)
  BY DEF Rival
<1>4. Settled(tracks, found, iou, pairs)
  BY <1>1, <1>2, <1>3 DEF Settled
<1>5. IsFiniteSet(pairs)
  BY <1>1, FS_Subset
<1> QED BY <1>4, <1>5 DEF pairs

LEMMA NoOneTwice ==
  ASSUME NEW tracks \in SUBSET Int, IsFiniteSet(tracks),
         NEW found \in SUBSET Int, IsFiniteSet(found), NEW iou,
         \A p \in tracks \X found: iou[p] \in Levels
  PROVE  /\ Associate(tracks, found, iou) \subseteq tracks \X found
         /\ \A p, q \in Associate(tracks, found, iou): p[1] = q[1] \/ p[2] = q[2] => p = q
BY Association DEF Rival

LEMMA FiniteRange ==
  ASSUME NEW n \in Nat
  PROVE  IsFiniteSet(1..n) /\ 1..n \subseteq Int /\ Cardinality(1..n) = n
<1>1. IsFiniteSet(1..n) /\ Cardinality(1..n) = n
  BY FS_Interval
<1> QED BY <1>1

\* The strengthening: what the frame's boxes overlap is measured against every
\* track that is live, and there are finitely many of them.
BoxesMeetTracks ==
    /\ refs \in Int
    /\ DOMAIN live \subseteq Int /\ IsFiniteSet(DOMAIN live)
    /\ boxes.strong \in Nat /\ boxes.weak \in Nat
    /\ \A p \in (DOMAIN live) \X (1..boxes.strong): boxes.ahead[p] \in Levels
    /\ \A p \in (DOMAIN live) \X (1..boxes.weak): boxes.behind[p] \in Levels

LEMMA BoxesMeet == TrackerSpec => []BoxesMeetTracks
<1> USE TrackerAssumption
<1>1. TrackerInit => BoxesMeetTracks
  <2>1. DOMAIN <<>> = {} /\ IsFiniteSet({})
    BY FS_EmptySet
  <2> QED BY <2>1 DEF TrackerInit, BoxesMeetTracks, NoFrame
<1>2. BoxesMeetTracks /\ [TrackerNext]_trackerVars => BoxesMeetTracks'
  <2> SUFFICES ASSUME BoxesMeetTracks, [TrackerNext]_trackerVars
               PROVE  BoxesMeetTracks'
    OBVIOUS
  <2>1. CASE Detect
    <3>1. live' = live /\ refs' = refs
      BY <2>1 DEF Detect
    <3>2. PICK strong \in 0..MaxStrong, weak \in 0..MaxWeak:
            \E ahead \in [(DOMAIN live) \X (1..strong) -> Levels],
               behind \in [(DOMAIN live) \X (1..weak) -> Levels]:
              boxes' = [strong |-> strong, weak |-> weak, ahead |-> ahead, behind |-> behind,
                        at |-> frame + 1]
      BY <2>1 DEF Detect
    <3>3. PICK ahead \in [(DOMAIN live) \X (1..strong) -> Levels],
               behind \in [(DOMAIN live) \X (1..weak) -> Levels]:
              boxes' = [strong |-> strong, weak |-> weak, ahead |-> ahead, behind |-> behind,
                        at |-> frame + 1]
      BY <3>2
    <3>4. /\ boxes'.strong = strong /\ boxes'.weak = weak
          /\ boxes'.ahead = ahead /\ boxes'.behind = behind
      BY <3>3
    <3>5. strong \in Nat /\ weak \in Nat
      OBVIOUS
    <3>6. /\ \A p \in (DOMAIN live) \X (1..strong): ahead[p] \in Levels
          /\ \A p \in (DOMAIN live) \X (1..weak): behind[p] \in Levels
      OBVIOUS
    <3> QED BY <3>1, <3>4, <3>5, <3>6 DEF BoxesMeetTracks
  <2>2. CASE Track
    <3> DEFINE fresh == boxes.strong - Cardinality(Pairs)
               given == (refs + 1)..(refs + fresh)
    <3>1. /\ DOMAIN live' \subseteq DOMAIN live \cup given
          /\ refs' = refs + fresh /\ boxes' = NoFrame
      <4> DEFINE kept == Claimed \cup {p[1]: p \in Rescued}
                 all == [r \in DOMAIN live \cup given |->
                            IF r \notin DOMAIN live THEN Started
                            ELSE IF r \in kept THEN Seen(live[r]) ELSE Missed(live[r])]
                 old == {r \in DOMAIN all: all[r].misses > MaxAge}
      <4>1. /\ live' = Restrict(all, DOMAIN all \ old)
            /\ refs' = refs + fresh /\ boxes' = NoFrame
        BY <2>2 DEF Track
      <4>2. DOMAIN live' \subseteq DOMAIN all
        <5> HIDE DEF all
        <5> QED BY <4>1 DEF Restrict
      <4> QED BY <4>1, <4>2
    <3>2. fresh \in Int
      <4>1. IsFiniteSet(1..boxes.strong) /\ 1..boxes.strong \subseteq Int
        BY FiniteRange DEF BoxesMeetTracks
      <4>2. IsFiniteSet(Pairs)
        BY <4>1, GreedySettles DEF Pairs, BoxesMeetTracks
      <4>3. Cardinality(Pairs) \in Nat
        BY <4>2, FS_CardinalityType
      <4> QED BY <4>3 DEF BoxesMeetTracks
    <3> HIDE DEF fresh
    <3>3. refs' \in Int /\ given \subseteq Int /\ IsFiniteSet(given)
      BY <3>1, <3>2, FS_Interval DEF BoxesMeetTracks
    <3> HIDE DEF given
    <3>4. DOMAIN live' \subseteq Int /\ IsFiniteSet(DOMAIN live')
      <4>1. IsFiniteSet(DOMAIN live \cup given)
        BY <3>3, FS_Union DEF BoxesMeetTracks
      <4>2. IsFiniteSet(DOMAIN live')
        BY <3>1, <4>1, FS_Subset
      <4> QED BY <3>1, <3>3, <4>2 DEF BoxesMeetTracks
    <3>5. boxes'.strong = 0 /\ boxes'.weak = 0 /\ 1..0 = {}
      BY <3>1 DEF NoFrame
    <3> QED BY <3>3, <3>4, <3>5 DEF BoxesMeetTracks
  <2>3. CASE UNCHANGED trackerVars
    BY <2>3 DEF trackerVars, BoxesMeetTracks
  <2> QED BY <2>1, <2>2, <2>3 DEF TrackerNext
<1> QED BY <1>1, <1>2, PTL DEF TrackerSpec

\* However many tracks and boxes a frame has and however they overlap: in each
\* of the two stages, what could have been joined and was not lost its track or
\* its box to an overlap at least as large (bytetrack.py:76, 138-172).
THEOREM ClaimsAreStableAlways == TrackerSpec => []ClaimsAreStable
<1>1. BoxesMeetTracks => ClaimsAreStable
  <2> SUFFICES ASSUME BoxesMeetTracks PROVE ClaimsAreStable
    OBVIOUS
  <2>1. /\ IsFiniteSet(1..boxes.strong) /\ 1..boxes.strong \subseteq Int
        /\ IsFiniteSet(1..boxes.weak) /\ 1..boxes.weak \subseteq Int
    BY FiniteRange DEF BoxesMeetTracks
  <2>2. Settled(DOMAIN live, 1..boxes.strong, boxes.ahead, Pairs)
    BY <2>1, GreedySettles DEF Pairs, BoxesMeetTracks
  <2>3. Settled(Leftovers, 1..boxes.weak, boxes.behind, Rescued)
    <3>1. Leftovers \subseteq DOMAIN live
      BY DEF Leftovers
    <3>2. /\ Leftovers \subseteq Int /\ IsFiniteSet(Leftovers)
          /\ \A p \in Leftovers \X (1..boxes.weak): boxes.behind[p] \in Levels
      BY <3>1, FS_Subset DEF BoxesMeetTracks
    <3> QED BY <2>1, <3>2, GreedySettles DEF Rescued
  <2> QED BY <2>2, <2>3 DEF ClaimsAreStable
<1> QED BY <1>1, BoxesMeet, PTL

-----------------------------------------------------------------------------
(***************************************************************************)
(* Tracker: what the step returns.                                         *)
(***************************************************************************)
\* A reference that was given out is that of a live track or of a closed one.
RefsAreKept == refs \in Nat /\ DOMAIN live \cup DOMAIN finished = 1..refs

LEMMA FreshAreCounted ==
  ASSUME BoxesMeetTracks
  PROVE  boxes.strong - Cardinality(Pairs) \in Nat
<1> DEFINE box == [p \in Pairs |-> p[2]]
           found == 1..boxes.strong
<1>1. boxes.strong \in Nat
  BY DEF BoxesMeetTracks
<1>2. IsFiniteSet(found) /\ found \subseteq Int /\ Cardinality(found) = boxes.strong
  BY <1>1, FiniteRange
<1>3. /\ DOMAIN live \subseteq Int /\ IsFiniteSet(DOMAIN live)
      /\ \A p \in (DOMAIN live) \X found: boxes.ahead[p] \in Levels
  BY DEF BoxesMeetTracks
<1> HIDE DEF found
<1>4. /\ Pairs \subseteq (DOMAIN live) \X found /\ IsFiniteSet(Pairs)
      /\ \A p, q \in Pairs: p[1] = q[1] \/ p[2] = q[2] => p = q
  BY <1>2, <1>3, NoOneTwice, GreedySettles DEF Pairs, found
<1>5. box \in Injection(Pairs, found)
  BY <1>4 DEF Injection, IsInjective
<1> HIDE DEF box
<1>6. Cardinality(Pairs) <= boxes.strong /\ Cardinality(Pairs) \in Nat
  BY <1>2, <1>4, <1>5, FS_Injection, FS_CardinalityType
<1> QED BY <1>1, <1>6

LEMMA RefsStayKept == TrackerSpec => []RefsAreKept
<1>1. TrackerInit => RefsAreKept
  BY DEF TrackerInit, RefsAreKept
<1>2. RefsAreKept /\ BoxesMeetTracks /\ [TrackerNext]_trackerVars => RefsAreKept'
  <2> SUFFICES ASSUME RefsAreKept, BoxesMeetTracks, [TrackerNext]_trackerVars
               PROVE  RefsAreKept'
    OBVIOUS
  <2>1. CASE Detect
    BY <2>1 DEF Detect, RefsAreKept
  <2>2. CASE Track
    <3> DEFINE kept == Claimed \cup {p[1]: p \in Rescued}
               fresh == boxes.strong - Cardinality(Pairs)
               given == (refs + 1)..(refs + fresh)
               all == [r \in DOMAIN live \cup given |->
                          IF r \notin DOMAIN live THEN Started
                          ELSE IF r \in kept THEN Seen(live[r]) ELSE Missed(live[r])]
               old == {r \in DOMAIN all: all[r].misses > MaxAge}
    <3>1. /\ live' = Restrict(all, DOMAIN all \ old)
          /\ finished' = [r \in DOMAIN finished \cup old |->
                            IF r \in old THEN all[r] ELSE finished[r]]
          /\ refs' = refs + fresh
      BY <2>2 DEF Track
    <3>2. fresh \in Nat /\ refs \in Nat
      BY FreshAreCounted DEF RefsAreKept
    <3>3. old \subseteq DOMAIN all /\ DOMAIN all = DOMAIN live \cup given
      OBVIOUS
    <3> HIDE DEF fresh, all, old
    <3>4. DOMAIN live' \cup DOMAIN finished' = (DOMAIN live \cup DOMAIN finished) \cup given
      <4>1. DOMAIN live' = DOMAIN all \ old /\ DOMAIN finished' = DOMAIN finished \cup old
        BY <3>1 DEF Restrict
      <4> HIDE DEF given
      <4> QED BY <3>3, <4>1
    <3>5. (1..refs) \cup given = 1..(refs + fresh) /\ refs + fresh \in Nat
      BY <3>2
    <3> QED BY <3>1, <3>4, <3>5 DEF RefsAreKept
  <2>3. CASE UNCHANGED trackerVars
    BY <2>3 DEF trackerVars, RefsAreKept
  <2> QED BY <2>1, <2>2, <2>3 DEF TrackerNext
<1> QED BY <1>1, <1>2, BoxesMeet, PTL DEF TrackerSpec

\* However the video goes: the tracks the step returns are those of every
\* reference that was given out and lasted, each once and by first appearance,
\* whether it was closed on the way or at the end (bytetrack.py:175-189).
THEOREM LastingTracksAreReturnedAlways == TrackerSpec => []LastingTracksAreReturned
<1>1. RefsAreKept /\ MissesAreCounted => LastingTracksAreReturned
  <2> SUFFICES ASSUME RefsAreKept, MissesAreCounted PROVE LastingTracksAreReturned
    OBVIOUS
  <2> DEFINE all == AllTracks
             long == {r \in DOMAIN all: Len(all[r].points) >= MinTrackLength}
             R == {p \in long \X long: Precedes(all, p[1], p[2])}
             n == Cardinality(long)
             out == Arranged(long, R)
  <2>1. Tracks = out
    BY DEF Tracks, Returned
  <2>2. DOMAIN all = 1..refs /\ IsFiniteSet(1..refs) /\ refs \in Nat
    BY FiniteRange DEF RefsAreKept, AllTracks
  <2>3. ASSUME NEW r \in 1..refs
        PROVE  FirstSeen(all[r]) \in Int /\ ClosedAfter(r) \in Int
    <3>1. /\ all[r] \in [points: Seq(Nat), misses: Nat] /\ all[r].points # <<>>
          /\ r \in DOMAIN finished => all[r] = finished[r]
      BY <2>2 DEF AllTracks, MissesAreCounted, IsTrack
    <3> HIDE DEF all
    <3> DEFINE s == all[r].points
    <3>2. s \in Seq(Nat) /\ s # <<>>
      BY <3>1
    <3> HIDE DEF s
    <3>3. s[1] \in Int /\ s[Len(s)] \in Int
      BY <3>2
    <3>4. frame \in Int
      BY DEF MissesAreCounted
    <3> QED BY <3>1, <3>3, <3>4 DEF s, FirstSeen, ClosedAfter, Last
  <2>4. long \subseteq 1..refs /\ IsFiniteSet(long)
    <3>1. long \subseteq 1..refs
      BY <2>2
    <3> QED BY <2>2, <3>1, FS_Subset
  <2>5. \A p, q \in long: <<p, q>> \in R <=> Precedes(all, p, q)
    OBVIOUS
  <2>6. \A p \in long: /\ p \in Int /\ FirstSeen(all[p]) \in Int /\ ClosedAfter(p) \in Int
    BY <2>3, <2>4
  <2>7. long = {r \in 1..refs: Len(all[r].points) >= MinTrackLength}
    BY <2>2
  <2> HIDE DEF all, long, R
  <2>8. /\ \A p \in long: ~ Precedes(all, p, p)
        /\ \A p, q \in long: p # q => Precedes(all, p, q) \/ Precedes(all, q, p)
    BY <2>6 DEF Precedes
  <2>9. \A p, q, r \in long: Precedes(all, p, q) /\ Precedes(all, q, r) => Precedes(all, p, r)
    BY <2>6 DEF Precedes
  <2>10. /\ out \in [1..n -> long]
         /\ \A x \in long: \E i \in 1..n: out[i] = x
         /\ \A i, j \in 1..n: i < j => <<out[i], out[j]>> \in R /\ out[i] # out[j]
    <3>1. Ranks(R, long)
      <4>1. /\ \A p \in long: <<p, p>> \notin R
            /\ \A p, q \in long: p # q => <<p, q>> \in R \/ <<q, p>> \in R
        BY <2>5, <2>8
      <4>2. \A p, q, r \in long: <<p, q>> \in R /\ <<q, r>> \in R => <<p, r>> \in R
        BY <2>5, <2>9
      <4> QED BY <4>1, <4>2 DEF Ranks
    <3>2. IsFiniteSet(long)
      BY <2>4
    <3> QED BY <3>1, <3>2, ArrangedIs
  <2> HIDE DEF out, n
  <2>11. DOMAIN out = 1..n
    BY <2>10
  <2>12. ASSUME NEW i \in DOMAIN out, NEW j \in DOMAIN out, i < j
         PROVE  out[i] # out[j] /\ FirstSeen(all[out[i]]) <= FirstSeen(all[out[j]])
    <3>1. /\ out[i] \in long /\ out[j] \in long /\ out[i] # out[j]
          /\ Precedes(all, out[i], out[j])
      BY <2>5, <2>10, <2>11, <2>12
    <3>2. FirstSeen(all[out[i]]) <= FirstSeen(all[out[j]])
      BY <2>6, <3>1 DEF Precedes
    <3> QED BY <3>1, <3>2
  <2>13. ToSet(out) = long
    BY <2>10, <2>11 DEF ToSet
  <2> QED BY <2>1, <2>7, <2>12, <2>13 DEF LastingTracksAreReturned, all
<1> QED BY <1>1, RefsStayKept, MissesStayCounted, PTL

-----------------------------------------------------------------------------
(***************************************************************************)
(* What the members of a set weigh together.                               *)
(***************************************************************************)
Weights(g, S) == IsFiniteSet(S) /\ \A i \in S: g[i] \in Nat

\* f is what any part of S weighs, one member picked after the other.
Sums(f, g, S) ==
    /\ f \in [SUBSET S -> Nat]
    /\ \A T \in SUBSET S:
          /\ f[T] = SumFunctionOnSet(g, T)
          /\ f[T] = IF T = {} THEN 0
                    ELSE LET x == CHOOSE x \in T: TRUE
                         IN  g[x] + f[T \ {x}]

LEMMA SumPicks ==
  ASSUME NEW g, NEW S, Weights(g, S)
  PROVE  \E f: Sums(f, g, S)
<1> DEFINE pick(T) == CHOOSE x \in T: TRUE
           of(i) == g[i]
           smaller == [T \in SUBSET S |-> T \ {pick(T)}]
           out == [x \in (SUBSET S) \X Nat |-> IF x[1] = {} THEN 0 ELSE of(pick(x[1])) + x[2]]
           sum(f, T) == IF T = {} THEN 0 ELSE of(pick(T)) + f[T \ {pick(T)}]
<1>1. IsFiniteSet(S) /\ \A i \in S: of(i) \in Nat
  BY DEF Weights
<1>2. \A T: T # {} => pick(T) \in T
  OBVIOUS
<1>3. Shrinks(smaller, S)
  <2>1. smaller \in [SUBSET S -> SUBSET S]
    OBVIOUS
  <2>2. \A T \in SUBSET S: T # {} => smaller[T] \subseteq T /\ smaller[T] # T
    BY <1>2
  <2> HIDE DEF smaller
  <2> QED BY <2>1, <2>2 DEF Shrinks
<1>4. PICK f: Defined(f, S, Nat, 0, smaller, out)
  <2>1. out \in [(SUBSET S) \X Nat -> Nat]
    <3> HIDE DEF of, pick
    <3> QED BY <1>1, <1>2
  <2> HIDE DEF out, smaller
  <2> QED BY <1>1, <1>3, <2>1, Recursion
<1>5. f \in [SUBSET S -> Nat]
  BY <1>4 DEF Defined
<1>6. ASSUME NEW T \in SUBSET S PROVE f[T] = sum(f, T)
  <2>1. f[T] = IF T = {} THEN 0 ELSE out[<<T, f[smaller[T]]>>]
    BY <1>4 DEF Defined
  <2>2. smaller[T] = T \ {pick(T)} /\ T \ {pick(T)} \in SUBSET S
    OBVIOUS
  <2>3. out[<<T, f[T \ {pick(T)}]>>] = IF T = {} THEN 0 ELSE of(pick(T)) + f[T \ {pick(T)}]
    <3>1. <<T, f[T \ {pick(T)}]>> \in (SUBSET S) \X Nat
      <4> HIDE DEF pick
      <4> QED BY <1>5, <2>2
    <3> HIDE DEF pick, of
    <3> QED BY <3>1
  <2> HIDE DEF out, smaller, of, pick
  <2> QED BY <2>1, <2>2, <2>3
<1>7. ASSUME NEW T \in SUBSET S PROVE f[T] = SumFunctionOnSet(g, T)
  <2> DEFINE P(h) == h = [U \in SUBSET T |-> sum(h, U)]
             iter[U \in SUBSET T] == sum(iter, U)
             F == {U \in SUBSET T: iter[U] # f[U]}
  <2>1. SumFunctionOnSet(g, T) = iter[T]
    BY DEF SumFunctionOnSet, FoldFunctionOnSet, MapThenFoldSet
  <2>2. P([U \in SUBSET T |-> f[U]])
    <3>1. ASSUME NEW U \in SUBSET T
          PROVE  f[U] = sum([W \in SUBSET T |-> f[W]], U)
      <4> HIDE DEF pick, of
      <4> QED BY <1>6
    <3> HIDE DEF sum
    <3> QED BY <3>1
  <2>3. P(iter)
    <3>1. P(iter) <=> P(CHOOSE h: P(h))
      OBVIOUS
    <3>2. P(CHOOSE h: P(h))
      <4> HIDE DEF P
      <4> QED BY <2>2
    <3> QED BY <3>1, <3>2
  <2> HIDE DEF iter
  <2>4. ASSUME NEW U \in F PROVE U # {} /\ smaller[U] \in F
    <3>1. iter[U] = sum(iter, U) /\ f[U] = sum(f, U)
      <4> HIDE DEF sum
      <4> QED BY <1>6, <2>3
    <3>2. U # {} /\ iter[U \ {pick(U)}] # f[U \ {pick(U)}]
      <4> HIDE DEF pick, of
      <4> QED BY <3>1
    <3>3. smaller[U] = U \ {pick(U)} /\ U \ {pick(U)} \in SUBSET T
      <4> HIDE DEF pick
      <4> QED OBVIOUS
    <3> HIDE DEF pick, smaller
    <3> QED BY <3>2, <3>3
  <2>5. F = {}
    <3>1. F \subseteq SUBSET S
      OBVIOUS
    <3> HIDE DEF F, smaller
    <3> QED BY <1>1, <1>3, <2>4, <3>1, NoException
  <2> QED BY <2>1, <2>5
<1>8. ASSUME NEW T \in SUBSET S
      PROVE  /\ f[T] = SumFunctionOnSet(g, T)
             /\ f[T] = IF T = {} THEN 0
                       ELSE LET x == CHOOSE x \in T: TRUE
                            IN  g[x] + f[T \ {x}]
  BY <1>6, <1>7
<1> QED BY <1>5, <1>8 DEF Sums

LEMMA SumEmpty ==
  ASSUME NEW g
  PROVE  SumFunctionOnSet(g, {}) = 0
<1>1. Weights(g, {})
  BY FS_EmptySet DEF Weights
<1>2. PICK f: Sums(f, g, {})
  BY <1>1, SumPicks
<1> QED BY <1>2 DEF Sums

LEMMA SumType ==
  ASSUME NEW g, NEW S, Weights(g, S)
  PROVE  SumFunctionOnSet(g, S) \in Nat
<1>1. PICK f: Sums(f, g, S)
  BY SumPicks
<1> QED BY <1>1 DEF Sums

LEMMA WeightsPart ==
  ASSUME NEW g, NEW S, Weights(g, S), NEW T, T \subseteq S
  PROVE  Weights(g, T)
BY FS_Subset DEF Weights

\* Any one of them may be weighed first.
LEMMA SumAny ==
  ASSUME NEW g, NEW S, Weights(g, S), NEW i \in S
  PROVE  SumFunctionOnSet(g, S) = g[i] + SumFunctionOnSet(g, S \ {i})
<1> DEFINE c(j) == g[j]
           w(T) == SumFunctionOnSet(g, T)
           F == {T \in SUBSET S: \E j \in T: w(T) # c(j) + w(T \ {j})}
<1>1. \A j \in S: c(j) \in Nat
  BY DEF Weights
<1>2. \A T \in SUBSET S: w(T) \in Nat
  BY WeightsPart, SumType
<1>3. ASSUME NEW T \in SUBSET S, T # {}
      PROVE  \E x \in T: w(T) = c(x) + w(T \ {x})
  <2>1. PICK f: Sums(f, g, S)
    BY SumPicks
  <2> DEFINE x == CHOOSE x \in T: TRUE
  <2>2. x \in T
    BY <1>3
  <2>3. f[T] = c(x) + f[T \ {x}]
    BY <1>3, <2>1 DEF Sums
  <2> HIDE DEF x
  <2>4. f[T] = w(T) /\ f[T \ {x}] = w(T \ {x})
    BY <2>1 DEF Sums
  <2> QED BY <2>2, <2>3, <2>4
<1> HIDE DEF c, w
<1>4. F = {}
  <2> SUFFICES ASSUME F # {} PROVE FALSE
    OBVIOUS
  <2>1. PICK T \in F: \A U \in F: U \subseteq T => U = T
    <3>1. F \subseteq SUBSET S /\ IsFiniteSet(S)
      BY DEF Weights
    <3> HIDE DEF F
    <3> QED BY <3>1, SmallestSet
  <2>2. PICK j \in T: w(T) # c(j) + w(T \ {j})
    OBVIOUS
  <2>3. PICK x \in T: w(T) = c(x) + w(T \ {x})
    BY <1>3
  <2>4. x # j
    BY <2>2, <2>3
  <2>5. T \ {x} \notin F /\ T \ {j} \notin F
    BY <2>1
  <2>6. w(T \ {x}) = c(j) + w((T \ {x}) \ {j})
    BY <2>4, <2>5
  <2>7. w(T \ {j}) = c(x) + w((T \ {j}) \ {x})
    BY <2>4, <2>5
  <2>8. (T \ {j}) \ {x} = (T \ {x}) \ {j}
    OBVIOUS
  <2>9. /\ c(x) \in Nat /\ c(j) \in Nat /\ w((T \ {x}) \ {j}) \in Nat
    BY <1>1, <1>2
  <2> HIDE DEF F
  <2> QED BY <2>2, <2>3, <2>6, <2>7, <2>8, <2>9
<1>5. S \in SUBSET S /\ S \notin F
  BY <1>4
<1> HIDE DEF F
<1>6. w(S) = c(i) + w(S \ {i})
  BY <1>5 DEF F
<1> QED BY <1>6 DEF c, w

-----------------------------------------------------------------------------
(***************************************************************************)
(* JerseyVote: what a set of reads weighs together.                        *)
(***************************************************************************)
Weighed(votes, S) ==
    S \subseteq DOMAIN votes /\ IsFiniteSet(S) /\ \A i \in S: votes[i].confidence \in Nat

LEMMA CastIs ==
  ASSUME NEW votes, NEW S, Weighed(votes, S)
  PROVE  LET g == [i \in DOMAIN votes |-> votes[i].confidence]
         IN  /\ Weights(g, S) /\ \A i \in S: g[i] = votes[i].confidence
             /\ \A T: Cast(votes, T) = SumFunctionOnSet(g, T)
BY DEF Cast, Weighed, Weights

LEMMA CastEmpty ==
  ASSUME NEW votes
  PROVE  Cast(votes, {}) = 0
BY SumEmpty DEF Cast

LEMMA CastType ==
  ASSUME NEW votes, NEW S, Weighed(votes, S)
  PROVE  Cast(votes, S) \in Nat
<1> DEFINE g == [j \in DOMAIN votes |-> votes[j].confidence]
<1>1. Weights(g, S) /\ \A T: Cast(votes, T) = SumFunctionOnSet(g, T)
  BY CastIs
<1> HIDE DEF g
<1> QED BY <1>1, SumType

LEMMA WeighedPart ==
  ASSUME NEW votes, NEW S, Weighed(votes, S), NEW T, T \subseteq S
  PROVE  Weighed(votes, T)
BY FS_Subset DEF Weighed

LEMMA CastAny ==
  ASSUME NEW votes, NEW S, Weighed(votes, S), NEW i \in S
  PROVE  Cast(votes, S) = votes[i].confidence + Cast(votes, S \ {i})
<1> DEFINE g == [j \in DOMAIN votes |-> votes[j].confidence]
<1>1. /\ Weights(g, S) /\ \A j \in S: g[j] = votes[j].confidence
      /\ \A T: Cast(votes, T) = SumFunctionOnSet(g, T)
  BY CastIs
<1> HIDE DEF g
<1>2. SumFunctionOnSet(g, S) = g[i] + SumFunctionOnSet(g, S \ {i})
  BY <1>1, SumAny
<1> QED BY <1>1, <1>2

\* The same reads at other places weigh the same.
LEMMA CastMoved ==
  ASSUME NEW a, NEW S, Weighed(a, S), NEW b, NEW Z, Weighed(b, Z), NEW m \in [S -> Z],
         \A i, j \in S: m[i] = m[j] => i = j, Z = {m[i]: i \in S},
         \A i \in S: b[m[i]].confidence = a[i].confidence
  PROVE  Cast(a, S) = Cast(b, Z)
<1> DEFINE img(T) == {m[i]: i \in T}
           F == {T \in SUBSET S: Cast(a, T) # Cast(b, img(T))}
<1>1. F = {}
  <2> SUFFICES ASSUME F # {} PROVE FALSE
    OBVIOUS
  <2>1. PICK T \in F: \A U \in F: U \subseteq T => U = T
    <3>1. F \subseteq SUBSET S /\ IsFiniteSet(S)
      BY DEF Weighed
    <3> HIDE DEF F
    <3> QED BY <3>1, SmallestSet
  <2>2. Cast(a, T) # Cast(b, img(T)) /\ T \in SUBSET S
    OBVIOUS
  <2>3. T # {}
    <3> SUFFICES ASSUME T = {} PROVE FALSE
      OBVIOUS
    <3>1. img(T) = {}
      OBVIOUS
    <3> HIDE DEF img
    <3> QED BY <2>2, <3>1, CastEmpty
  <2>4. PICK x \in T: TRUE
    BY <2>3
  <2>5. Cast(a, T \ {x}) = Cast(b, img(T \ {x}))
    <3>1. T \ {x} \notin F
      BY <2>1
    <3> HIDE DEF img
    <3> QED BY <2>2, <3>1
  <2>6. img(T \ {x}) = img(T) \ {m[x]}
    BY <2>2
  <2>7. m[x] \in img(T) /\ img(T) \subseteq Z
    BY <2>2
  <2>8. Cast(a, T) = a[x].confidence + Cast(a, T \ {x})
    <3>1. Weighed(a, T)
      BY <2>2, WeighedPart
    <3> QED BY <3>1, CastAny
  <2>9. Cast(b, img(T)) = b[m[x]].confidence + Cast(b, img(T) \ {m[x]})
    <3> HIDE DEF img
    <3>1. Weighed(b, img(T))
      BY <2>7, WeighedPart
    <3> QED BY <2>7, <3>1, CastAny
  <2>10. b[m[x]].confidence = a[x].confidence
    BY <2>2
  <2> HIDE DEF img, F
  <2> QED BY <2>2, <2>5, <2>6, <2>8, <2>9, <2>10
<1>2. S \notin F /\ img(S) = Z
  BY <1>1
<1> HIDE DEF img
<1>3. Cast(a, S) = Cast(b, img(S))
  BY <1>2
<1> QED BY <1>2, <1>3

-----------------------------------------------------------------------------
(***************************************************************************)
(* JerseyVote: the verdict, without the order the numbers are ranked in.   *)
(***************************************************************************)
Reads == Seq([number: Numbers, confidence: Confidences])

\* The number that wins is one that has reads, votes, share and lead: the lead
\* is more than nothing, so that there is one such number or none.
Verdict(votes, allowed, n) ==
    LET usable == Usable(votes, allowed)
        its == Of(votes, usable, n)
    IN /\ its # {} /\ Cardinality(its) >= MinVotes
       /\ 100 * Cast(votes, its) >= MinShare * Cast(votes, usable)
       /\ \A i \in usable \ its:
             100 * (Cast(votes, its) - Cast(votes, Of(votes, usable, votes[i].number)))
                >= MinMargin * Cast(votes, usable)

LEMMA ReadAt ==
  ASSUME NEW votes \in Reads, NEW i \in 1..Len(votes)
  PROVE  votes[i] \in [number: Numbers, confidence: Confidences]
<1> DEFINE S == [number: Numbers, confidence: Confidences]
<1>1. votes \in Seq(S)
  BY DEF Reads
<1> HIDE DEF S
<1>2. votes[i] \in S
  BY <1>1
<1> QED BY <1>2 DEF S

LEMMA UsableReads ==
  ASSUME NEW votes \in Reads, NEW allowed
  PROVE  LET usable == Usable(votes, allowed)
         IN  /\ usable \subseteq 1..Len(votes) /\ usable \subseteq Nat
             /\ Weighed(votes, usable)
             /\ \A i \in usable: /\ votes[i].confidence \in Nat \ {0}
                                 /\ votes[i].number \in Numbers \cap allowed
<1> DEFINE usable == Usable(votes, allowed)
<1>1. usable \subseteq 1..Len(votes) /\ usable \subseteq Nat
  BY DEF Usable, Reads
<1>2. IsFiniteSet(usable)
  <2>1. Len(votes) \in Nat
    BY DEF Reads
  <2> QED BY <1>1, <2>1, FiniteRange, FS_Subset
<1>3. ASSUME NEW i \in usable
      PROVE  votes[i].confidence \in Nat \ {0} /\ votes[i].number \in Numbers \cap allowed
  <2>1. votes[i] \in [number: Numbers, confidence: Confidences]
    <3>1. i \in 1..Len(votes)
      BY <1>1
    <3> QED BY <3>1, ReadAt
  <2>2. votes[i].confidence >= MinReadConfidence /\ votes[i].number \in allowed
    BY DEF Usable
  <2>3. votes[i].confidence \in Nat /\ votes[i].number \in Numbers
    BY <2>1, JerseyAssumption
  <2>4. votes[i].confidence # 0
    BY <2>2, <2>3, JerseyAssumption
  <2> QED BY <2>2, <2>3, <2>4
<1>4. usable \subseteq DOMAIN votes
  BY DEF Usable
<1> HIDE DEF usable
<1>5. Weighed(votes, usable)
  BY <1>2, <1>3, <1>4 DEF Weighed
<1> QED BY <1>1, <1>3, <1>5 DEF usable

LEMMA LeastNatural ==
  ASSUME NEW T, T \subseteq Nat, IsFiniteSet(T), T # {}
  PROVE  \E x \in T: \A y \in T: x <= y
<1> DEFINE R == {p \in T \X T: p[1] <= p[2]}
<1>1. \A p, q \in T: <<p, q>> \in R <=> p <= q
  OBVIOUS
<1> HIDE DEF R
<1>2. \A p, q \in T: <<p, q>> \in R \/ <<q, p>> \in R
  <2>1. \A p, q \in T: p <= q \/ q <= p
    OBVIOUS
  <2> QED BY <1>1, <2>1
<1>3. \A p, q, r \in T: <<p, q>> \in R /\ <<q, r>> \in R => <<p, r>> \in R
  <2>1. \A p, q, r \in T: p <= q /\ q <= r => p <= r
    OBVIOUS
  <2> QED BY <1>1, <2>1
<1>4. \E p \in T: \A q \in T: <<p, q>> \in R
  BY <1>2, <1>3, HasFirst
<1> QED BY <1>1, <1>4

LEMMA HasWinner ==
  ASSUME NEW votes \in Reads, NEW allowed,
         Usable(votes, allowed) # {}
  PROVE  LET usable == Usable(votes, allowed)
             w == Winner(votes, usable)
         IN  /\ w \in {votes[i].number: i \in usable}
             /\ \A k \in {votes[i].number: i \in usable} \ {w}: Ahead(votes, usable, w, k)
<1> DEFINE usable == Usable(votes, allowed)
           numbers == {votes[i].number: i \in usable}
           its(n) == Of(votes, usable, n)
           R == {p \in numbers \X numbers: p[1] = p[2] \/ Ahead(votes, usable, p[1], p[2])}
<1>1. usable \subseteq Nat /\ Weighed(votes, usable) /\ IsFiniteSet(usable)
  BY UsableReads DEF Weighed
<1>2. ASSUME NEW n \in numbers
      PROVE  Cast(votes, its(n)) \in Nat /\ First(its(n)) \in its(n) /\ First(its(n)) \in Nat
  <2>1. its(n) \subseteq usable /\ its(n) # {}
    BY DEF Of
  <2>2. Weighed(votes, its(n)) /\ IsFiniteSet(its(n)) /\ its(n) \subseteq Nat
    BY <1>1, <2>1, WeighedPart DEF Weighed
  <2>3. Cast(votes, its(n)) \in Nat
    BY <2>2, CastType
  <2> HIDE DEF its
  <2>4. \E x \in its(n): \A y \in its(n): x <= y
    BY <2>1, <2>2, LeastNatural
  <2>5. First(its(n)) \in its(n)
    BY <2>4 DEF First
  <2> QED BY <2>2, <2>3, <2>5
<1>3. \A n, k \in numbers: n # k => First(its(n)) # First(its(k))
  <2> SUFFICES ASSUME NEW n \in numbers, NEW k \in numbers, First(its(n)) = First(its(k))
               PROVE  n = k
    OBVIOUS
  <2>1. First(its(n)) \in its(n) /\ First(its(n)) \in its(k)
    <3> HIDE DEF its, numbers
    <3> QED BY <1>2
  <2> QED BY <2>1 DEF Of
<1>4. \A n, k \in numbers:
         Ahead(votes, usable, n, k) <=>
            \/ Cast(votes, its(n)) > Cast(votes, its(k))
            \/ Cast(votes, its(n)) = Cast(votes, its(k)) /\ First(its(n)) < First(its(k))
  BY DEF Ahead
<1>5. IsFiniteSet(numbers) /\ numbers # {}
  <2>1. numbers # {}
    <3>1. PICK i \in usable: TRUE
      OBVIOUS
    <3>2. votes[i].number \in numbers
      OBVIOUS
    <3> QED BY <3>2
  <2> DEFINE number == [i \in usable |-> votes[i].number]
  <2>2. number \in Surjection(usable, numbers)
    BY DEF Surjection
  <2> HIDE DEF usable, numbers
  <2>3. IsFiniteSet(numbers)
    BY <1>1, <2>2, FS_Surjection
  <2> QED BY <2>1, <2>3
<1>6. \A n, k \in numbers: <<n, k>> \in R <=> n = k \/ Ahead(votes, usable, n, k)
  OBVIOUS
<1> HIDE DEF R, numbers, its
<1>7. \A n, k \in numbers: <<n, k>> \in R \/ <<k, n>> \in R
  <2>1. \A n, k \in numbers:
           n # k => Ahead(votes, usable, n, k) \/ Ahead(votes, usable, k, n)
    BY <1>2, <1>3, <1>4
  <2> QED BY <1>6, <2>1
<1>8. \A n, k, j \in numbers: <<n, k>> \in R /\ <<k, j>> \in R => <<n, j>> \in R
  BY <1>2, <1>4, <1>6
<1>9. PICK n \in numbers: \A k \in numbers: <<n, k>> \in R
  BY <1>5, <1>7, <1>8, HasFirst
<1>10. \A k \in numbers \ {n}: Ahead(votes, usable, n, k)
  BY <1>6, <1>9
<1> DEFINE w == CHOOSE n_1 \in numbers: \A k \in numbers \ {n_1}: Ahead(votes, usable, n_1, k)
<1>11. w \in numbers /\ \A k \in numbers \ {w}: Ahead(votes, usable, w, k)
  BY <1>10
<1>12. Winner(votes, usable) = w
  BY DEF Winner, numbers
<1> HIDE DEF w
<1> QED BY <1>11, <1>12 DEF numbers

\* A share or a lead is measured by a product of two numbers of the votes.
LEMMA Products ==
  ASSUME NEW s \in 0..100, NEW u \in Nat, NEW c \in Nat
  PROVE  s * u \in Nat /\ s * (u + c) = s * u + s * c /\ s * c <= 100 * c
<1>1. PICK r \in Nat: r + s = 100
  <2>1. 100 - s \in Nat /\ (100 - s) + s = 100
    OBVIOUS
  <2> QED BY <2>1
<1>2. r * c \in Nat /\ s * c \in Nat /\ (r + s) * c = r * c + s * c
  OBVIOUS
<1>3. s * c <= (r + s) * c
  BY <1>2
<1> QED BY <1>1, <1>3

LEMMA VoteIsVerdict ==
  ASSUME NEW votes \in Reads, NEW allowed, NEW n, n # Nobody
  PROVE  Vote(votes, allowed) = n <=> Verdict(votes, allowed, n)
<1> USE JerseyAssumption
<1> DEFINE usable == Usable(votes, allowed)
           numbers == {votes[i].number: i \in usable}
           w == Winner(votes, usable)
           its(k) == Of(votes, usable, k)
           weight(k) == Cast(votes, its(k))
           Wins(k) == /\ Cardinality(its(k)) >= MinVotes
                      /\ 100 * weight(k) >= MinShare * Cast(votes, usable)
                      /\ \A i \in usable \ its(k):
                            100 * (weight(k) - weight(votes[i].number))
                               >= MinMargin * Cast(votes, usable)
<1>1. Vote(votes, allowed) = IF usable # {} /\ Wins(w) THEN w ELSE Nobody
  BY DEF Vote
<1>2. Verdict(votes, allowed, n) <=> its(n) # {} /\ Wins(n)
  BY DEF Verdict
<1>3. usable # {} => w \in numbers /\ \A k \in numbers \ {w}: Ahead(votes, usable, w, k)
  BY HasWinner
<1>4. \A k: its(k) # {} <=> k \in numbers
  BY DEF Of
<1>5. \A k: weight(k) \in Nat
  <2> TAKE k
  <2>1. Weighed(votes, usable) /\ its(k) \subseteq usable
    BY UsableReads DEF Of
  <2> HIDE DEF usable, its
  <2> QED BY <2>1, WeighedPart, CastType
<1>6. usable # {} => MinMargin * Cast(votes, usable) \in Nat \ {0}
  <2> SUFFICES ASSUME usable # {} PROVE MinMargin * Cast(votes, usable) \in Nat \ {0}
    OBVIOUS
  <2>1. PICK i \in usable: TRUE
    OBVIOUS
  <2>2. Weighed(votes, usable) /\ votes[i].confidence \in Nat \ {0}
    BY <2>1, UsableReads
  <2> HIDE DEF usable
  <2>3. Cast(votes, usable) = votes[i].confidence + Cast(votes, usable \ {i})
    BY <2>2, CastAny
  <2>4. Cast(votes, usable \ {i}) \in Nat
    BY <2>2, WeighedPart, CastType
  <2>5. Cast(votes, usable) \in Nat \ {0}
    BY <2>2, <2>3, <2>4
  <2> DEFINE total == Cast(votes, usable)
  <2>6. total \in Nat \ {0}
    BY <2>5
  <2> HIDE DEF total
  <2>7. MinMargin * total \in Nat \ {0}
    BY <2>6
  <2> QED BY <2>7 DEF total
<1>7. ASSUME Verdict(votes, allowed, n) PROVE w = n /\ usable # {}
  <2>1. n \in numbers /\ usable # {} /\ Wins(n)
    <3>1. n \in numbers
      BY <1>2, <1>4, <1>7
    <3> QED BY <1>2, <1>7, <3>1
  <2> SUFFICES ASSUME w # n PROVE FALSE
    BY <2>1
  <2>2. Ahead(votes, usable, w, n) /\ w \in numbers
    BY <1>3, <2>1
  <2>3. weight(w) >= weight(n)
    <3>1. weight(w) > weight(n) \/ weight(w) = weight(n)
      BY <2>2 DEF Ahead
    <3> HIDE DEF weight
    <3> QED BY <1>5, <3>1
  <2>4. PICK i \in usable: votes[i].number = w
    BY <2>2
  <2>5. i \notin its(n)
    BY <2>4 DEF Of
  <2>6. 100 * (weight(n) - weight(w)) >= MinMargin * Cast(votes, usable)
    BY <2>1, <2>4, <2>5
  <2>7. MinMargin * Cast(votes, usable) \in Nat \ {0}
    BY <1>6, <2>1
  <2>8. weight(n) \in Nat /\ weight(w) \in Nat
    BY <1>5
  <2> HIDE DEF weight, usable, w
  <2> QED BY <2>3, <2>6, <2>7, <2>8
<1>8. ASSUME Vote(votes, allowed) = n PROVE Verdict(votes, allowed, n)
  <2>1. usable # {} /\ Wins(w) /\ w = n
    BY <1>1, <1>8
  <2>2. its(n) # {}
    BY <1>3, <1>4, <2>1
  <2> HIDE DEF Wins, its, w, usable
  <2> QED BY <1>2, <2>1, <2>2
<1>9. ASSUME Verdict(votes, allowed, n) PROVE Vote(votes, allowed) = n
  <2>1. Wins(n)
    BY <1>2, <1>9
  <2>2. w = n /\ usable # {}
    BY <1>7, <1>9
  <2> HIDE DEF Wins, w, usable
  <2> QED BY <1>1, <2>1, <2>2
<1> QED BY <1>8, <1>9

-----------------------------------------------------------------------------
(***************************************************************************)
(* JerseyVote: the step, while staff correct the roster.                   *)
(***************************************************************************)
MaybeNumber == Numbers \cup {Nobody}

\* The strengthening: the row is the step's reading of the roster as it was,
\* and what it names is still on the roster as it is.
JerseyInv ==
    /\ roster \in [Players -> MaybeNumber]
    /\ reads \in Reads
    /\ row \in [number: MaybeNumber, player: Players \cup {Nobody}]
    /\ ocr # "waiting" => registered = RegisteredNumbers(wore)
    /\ row.player # Nobody =>
          /\ ocr # "waiting"
          /\ row.number \in DOMAIN registered /\ row.player = registered[row.number]
          /\ roster[row.player] # Nobody

LEMMA RegisteredAlone ==
  ASSUME NEW worn, NEW n \in DOMAIN RegisteredNumbers(worn)
  PROVE  /\ RegisteredNumbers(worn)[n] \in Players
         /\ {p \in Players: worn[p] = n} = {RegisteredNumbers(worn)[n]}
<1> DEFINE wearers == {p \in Players: worn[p] = n}
<1>1. Cardinality(wearers) = 1 /\ RegisteredNumbers(worn)[n] = CHOOSE p \in wearers: TRUE
  BY DEF RegisteredNumbers
<1>2. wearers \subseteq Players /\ IsFiniteSet(wearers)
  BY FS_Subset, JerseyAssumption
<1> HIDE DEF wearers
<1>3. PICK p: wearers = {p}
  BY <1>1, <1>2, FS_Singleton
<1>4. (CHOOSE q \in wearers: TRUE) = p /\ p \in Players
  BY <1>2, <1>3
<1> QED BY <1>1, <1>3, <1>4 DEF wearers

LEMMA VoteIsAllowed ==
  ASSUME NEW votes \in Reads, NEW allowed, Vote(votes, allowed) # Nobody
  PROVE  Vote(votes, allowed) \in Numbers \cap allowed
<1> DEFINE n == Vote(votes, allowed)
<1>1. Verdict(votes, allowed, n)
  <2> HIDE DEF n
  <2>1. n = Vote(votes, allowed) /\ n # Nobody
    BY DEF n
  <2> QED BY <2>1, VoteIsVerdict
<1> HIDE DEF n
<1>2. PICK i \in Usable(votes, allowed): votes[i].number = n
  BY <1>1 DEF Verdict, Of
<1>3. n \in Numbers \cap allowed
  BY <1>2, UsableReads
<1> QED BY <1>3 DEF n

LEMMA JerseyInvariant == JerseySpec => []JerseyInv
<1> USE JerseyAssumption
<1>1. JerseyInit => JerseyInv
  <2> SUFFICES ASSUME JerseyInit PROVE JerseyInv
    OBVIOUS
  <2>1. roster \in [Players -> MaybeNumber]
    BY DEF JerseyInit, MaybeNumber
  <2>2. reads \in Reads
    BY DEF JerseyInit, Reads
  <2>3. row = [number |-> Nobody, player |-> Nobody] /\ ocr = "waiting"
    BY DEF JerseyInit, Unattributed
  <2> QED BY <2>1, <2>2, <2>3 DEF JerseyInv, MaybeNumber
<1>2. JerseyInv /\ [JerseyNext]_jerseyVars => JerseyInv'
  <2> SUFFICES ASSUME JerseyInv, [JerseyNext]_jerseyVars
               PROVE  JerseyInv'
    OBVIOUS
  <2>1. CASE LoadRoster
    <3>1. /\ roster' = roster /\ reads' = reads /\ row' = row
          /\ registered' = RegisteredNumbers(wore') /\ ocr = "waiting"
      BY <2>1 DEF LoadRoster
    <3>2. row.player = Nobody
      BY <3>1 DEF JerseyInv
    <3> QED BY <3>1, <3>2 DEF JerseyInv
  <2>2. CASE ReadCrop
    <3>1. /\ roster' = roster /\ row' = row /\ registered' = registered
          /\ wore' = wore /\ ocr' = ocr
      BY <2>2 DEF ReadCrop
    <3>2. reads' \in Reads
      <4>1. PICK n \in Numbers, c \in Confidences:
               reads' = Append(reads, [number |-> n, confidence |-> c])
        BY <2>2 DEF ReadCrop
      <4>2. [number |-> n, confidence |-> c] \in [number: Numbers, confidence: Confidences]
        OBVIOUS
      <4> QED BY <4>1, <4>2 DEF JerseyInv, Reads
    <3> QED BY <3>1, <3>2 DEF JerseyInv
  <2>3. CASE Attribute
    <3> DEFINE n == Vote(reads, DOMAIN registered)
    <3>1. /\ roster' = roster /\ reads' = reads /\ registered' = registered /\ wore' = wore
          /\ ocr = "reading" /\ ocr' \in {"done", "failed"}
          /\ \/ row' = row
             \/ /\ n # Nobody /\ roster[registered[n]] # Nobody
                /\ row' = [number |-> n, player |-> registered[n]]
      BY <2>3 DEF Attribute
    <3>2. registered = RegisteredNumbers(wore)
      BY <3>1 DEF JerseyInv
    <3>3. CASE row' = row
      BY <3>1, <3>3 DEF JerseyInv
    <3>4. CASE /\ n # Nobody /\ roster[registered[n]] # Nobody
               /\ row' = [number |-> n, player |-> registered[n]]
      <4>1. n \in Numbers /\ n \in DOMAIN registered
        BY <3>4, VoteIsAllowed DEF JerseyInv
      <4> HIDE DEF n
      <4>2. registered[n] \in Players
        BY <3>2, <4>1, RegisteredAlone
      <4>3. /\ row' \in [number: MaybeNumber, player: Players \cup {Nobody}]
            /\ row'.number = n /\ row'.player = registered[n]
        BY <3>4, <4>1, <4>2 DEF MaybeNumber
      <4> QED BY <3>1, <3>2, <3>4, <4>1, <4>3 DEF JerseyInv
    <3> QED BY <3>1, <3>3, <3>4
  <2>4. ASSUME NEW p \in Players, UpdatePlayer(p) PROVE JerseyInv'
    <3>1. /\ reads' = reads /\ row' = row /\ registered' = registered /\ wore' = wore
          /\ ocr' = ocr /\ \E n \in Numbers: roster' = [roster EXCEPT ![p] = n]
      BY <2>4 DEF UpdatePlayer
    <3>2. /\ roster' \in [Players -> MaybeNumber]
          /\ \A q \in Players: roster[q] # Nobody => roster'[q] # Nobody
      BY <3>1 DEF JerseyInv, MaybeNumber
    <3>3. row.player \in Players \cup {Nobody}
      BY DEF JerseyInv
    <3> QED BY <3>1, <3>2, <3>3 DEF JerseyInv
  <2>5. ASSUME NEW p \in Players, RemovePlayer(p) PROVE JerseyInv'
    <3>1. /\ reads' = reads /\ registered' = registered /\ wore' = wore /\ ocr' = ocr
          /\ roster' = [roster EXCEPT ![p] = Nobody]
          /\ row' = IF row.player = p THEN [row EXCEPT !.player = Nobody] ELSE row
      BY <2>5 DEF RemovePlayer
    <3>2. /\ roster' \in [Players -> MaybeNumber]
          /\ \A q \in Players: q # p => roster'[q] = roster[q]
      BY <3>1 DEF JerseyInv, MaybeNumber
    <3>3. row \in [number: MaybeNumber, player: Players \cup {Nobody}]
      BY DEF JerseyInv
    <3>4. CASE row.player = p
      <4>1. row' \in [number: MaybeNumber, player: Players \cup {Nobody}]
            /\ row'.player = Nobody
        BY <3>1, <3>3, <3>4
      <4> QED BY <3>1, <3>2, <4>1 DEF JerseyInv
    <3>5. CASE row.player # p
      BY <3>1, <3>2, <3>3, <3>5 DEF JerseyInv
    <3> QED BY <3>4, <3>5
  <2>6. CASE UNCHANGED jerseyVars
    BY <2>6 DEF jerseyVars, JerseyInv
  <2> QED BY <2>1, <2>2, <2>3, <2>4, <2>5, <2>6 DEF JerseyNext
<1> QED BY <1>1, <1>2, PTL DEF JerseySpec

\* Whatever the crops are read as and whatever staff correct meanwhile: a track
\* is attributed only to a player who alone wore the number when the roster was
\* read and who still is on it (cv.py:319-335, models.py:504 SET NULL).
THEOREM AttributionIsUnambiguousAlways == JerseySpec => []AttributionIsUnambiguous
<1>1. JerseyInv => AttributionIsUnambiguous
  <2> SUFFICES ASSUME JerseyInv, row.player # Nobody
               PROVE  /\ {p \in Players: wore[p] = row.number} = {row.player}
                      /\ roster[row.player] # Nobody
    BY DEF AttributionIsUnambiguous
  <2>1. /\ registered = RegisteredNumbers(wore) /\ row.number \in DOMAIN registered
        /\ row.player = registered[row.number] /\ roster[row.player] # Nobody
    BY DEF JerseyInv
  <2> QED BY <2>1, RegisteredAlone
<1> QED BY <1>1, JerseyInvariant, PTL

-----------------------------------------------------------------------------
(***************************************************************************)
(* JerseyVote: the order of the reads.                                     *)
(***************************************************************************)
LEMMA Exchange ==
  ASSUME NEW a \in Reads, NEW i \in 1..(Len(a) - 1)
  PROVE  LET b == Exchanged(a, i)
         IN  /\ b \in Reads /\ Len(b) = Len(a)
             /\ \A j \in 1..Len(a): /\ Neighbour(i, j) \in 1..Len(a)
                                    /\ Neighbour(i, Neighbour(i, j)) = j
                                    /\ b[Neighbour(i, j)] = a[j]
             /\ Exchanged(b, i) = a
<1> DEFINE S == [number: Numbers, confidence: Confidences]
           b == Exchanged(a, i)
<1>1. a \in Seq(S) /\ Len(a) \in Nat /\ DOMAIN a = 1..Len(a)
  BY DEF Reads
<1>2. \A j \in 1..Len(a): /\ Neighbour(i, j) \in 1..Len(a)
                          /\ Neighbour(i, Neighbour(i, j)) = j
  BY <1>1 DEF Neighbour
<1>3. \A j \in 1..Len(a): b[j] = a[Neighbour(i, j)]
  BY <1>1 DEF Exchanged
<1>4. b \in Seq(S) /\ Len(b) = Len(a)
  <2>1. b = [j \in 1..Len(a) |-> a[Neighbour(i, j)]]
    BY <1>1 DEF Exchanged
  <2>2. \A j \in 1..Len(a): a[Neighbour(i, j)] \in S
    <3> HIDE DEF S
    <3> QED BY <1>1, <1>2
  <2> HIDE DEF S, b
  <2> QED BY <1>1, <2>1, <2>2
<1>5. \A j \in 1..Len(a): b[Neighbour(i, j)] = a[j]
  <2> HIDE DEF b
  <2> QED BY <1>2, <1>3
<1>6. Exchanged(b, i) = a
  <2>1. DOMAIN b = 1..Len(a)
    BY <1>4
  <2>2. Exchanged(b, i) = [j \in 1..Len(a) |-> b[Neighbour(i, j)]]
    <3> HIDE DEF b
    <3> QED BY <2>1 DEF Exchanged
  <2>3. a = [j \in 1..Len(a) |-> a[j]]
    BY <1>1
  <2> HIDE DEF b
  <2> QED BY <1>5, <2>2, <2>3
<1> QED BY <1>2, <1>4, <1>5, <1>6 DEF Reads

\* Reads that are found elsewhere are as many and weigh the same.
LEMMA Relocated ==
  ASSUME NEW a, NEW S, Weighed(a, S), NEW b, NEW Z, Weighed(b, Z), NEW m,
         Z = {m[j]: j \in S}, m \in [S -> Z],
         \A i, j \in S: m[i] = m[j] => i = j,
         \A j \in S: b[m[j]] = a[j]
  PROVE  Cast(a, S) = Cast(b, Z) /\ Cardinality(S) = Cardinality(Z)
<1>1. IsFiniteSet(S)
  BY DEF Weighed
<1>2. m \in Surjection(S, Z) /\ m \in Injection(S, Z)
  BY DEF Surjection, Injection, IsInjective
<1>3. Cardinality(S) = Cardinality(Z)
  BY <1>1, <1>2, FS_Surjection
<1>4. \A j \in S: b[m[j]].confidence = a[j].confidence
  OBVIOUS
<1>5. Cast(a, S) = Cast(b, Z)
  BY <1>4, CastMoved
<1> QED BY <1>3, <1>5

LEMMA ExchangedVerdict ==
  ASSUME NEW a \in Reads, NEW i \in 1..(Len(a) - 1), NEW allowed, NEW n,
         Verdict(a, allowed, n)
  PROVE  Verdict(Exchanged(a, i), allowed, n)
<1> DEFINE b == Exchanged(a, i)
           sw(j) == Neighbour(i, j)
           N == 1..Len(a)
           ua == Usable(a, allowed)
           ub == Usable(b, allowed)
           ia(k) == Of(a, ua, k)
           ib(k) == Of(b, ub, k)
<1>1. /\ DOMAIN a = N /\ DOMAIN b = N /\ b \in Reads
      /\ \A j \in N: sw(j) \in N /\ sw(sw(j)) = j /\ b[sw(j)] = a[j]
  <2>1. b \in Reads /\ Len(b) = Len(a)
    BY Exchange
  <2>2. DOMAIN a = N /\ DOMAIN b = N
    <3> HIDE DEF b
    <3> QED BY <2>1 DEF Reads
  <2> QED BY <2>1, <2>2, Exchange
<1> HIDE DEF N, sw, b
<1>2. ub = {sw(j): j \in ua}
  <2>1. \A j \in N: j \in ua <=> sw(j) \in ub
    BY <1>1 DEF Usable
  <2>2. ua \subseteq N /\ ub \subseteq N
    BY <1>1 DEF Usable
  <2> HIDE DEF ua, ub
  <2> QED BY <1>1, <2>1, <2>2
<1>3. ua \subseteq N
  BY <1>1 DEF Usable
<1>4. \A k: ib(k) = {sw(j): j \in ia(k)}
  BY <1>1, <1>2, <1>3 DEF Of
<1>5. ASSUME NEW S, S \subseteq ua, NEW Z, Z = {sw(j): j \in S}
      PROVE  Cast(a, S) = Cast(b, Z) /\ Cardinality(S) = Cardinality(Z)
  <2> DEFINE m == [j \in S |-> sw(j)]
  <2>1. Weighed(a, S)
    <3>1. Weighed(a, ua)
      BY UsableReads
    <3> HIDE DEF ua
    <3> QED BY <1>5, <3>1, WeighedPart
  <2>2. Z = {m[j]: j \in S} /\ m \in [S -> Z]
    BY <1>5
  <2>3. /\ \A j, k \in S: m[j] = m[k] => j = k
        /\ \A j \in S: b[m[j]] = a[j]
    <3>1. S \subseteq N
      BY <1>3, <1>5
    <3> HIDE DEF ua
    <3> QED BY <1>1, <3>1
  <2>4. Weighed(b, Z)
    <3>1. Weighed(b, ub)
      BY <1>1, UsableReads
    <3> HIDE DEF ua, ub
    <3>2. Z \subseteq ub
      BY <1>2, <1>5
    <3> QED BY <3>1, <3>2, WeighedPart
  <2> HIDE DEF m, ua
  <2> QED BY <2>1, <2>2, <2>3, <2>4, Relocated
<1>6. Cast(a, ua) = Cast(b, ub)
  BY <1>2, <1>5
<1>7. \A k: /\ Cast(a, ia(k)) = Cast(b, ib(k)) /\ Cardinality(ia(k)) = Cardinality(ib(k))
            /\ ia(k) = {} <=> ib(k) = {}
  <2> TAKE k
  <2>1. ia(k) \subseteq ua
    BY DEF Of
  <2> HIDE DEF ia, ib, ua
  <2> QED BY <1>4, <1>5, <2>1
<1>8. /\ ia(n) # {} /\ Cardinality(ia(n)) >= MinVotes
      /\ 100 * Cast(a, ia(n)) >= MinShare * Cast(a, ua)
      /\ \A j \in ua \ ia(n):
            100 * (Cast(a, ia(n)) - Cast(a, ia(a[j].number))) >= MinMargin * Cast(a, ua)
  BY DEF Verdict
<1>9. ASSUME NEW z \in ub \ ib(n)
      PROVE  100 * (Cast(b, ib(n)) - Cast(b, ib(b[z].number))) >= MinMargin * Cast(b, ub)
  <2>1. PICK j \in ua: z = sw(j)
    BY <1>2
  <2>2. j \notin ia(n) /\ b[z].number = a[j].number
    <3>1. b[z] = a[j]
      BY <1>1, <1>3, <2>1
    <3> QED BY <1>4, <2>1, <3>1
  <2>3. 100 * (Cast(a, ia(n)) - Cast(a, ia(a[j].number))) >= MinMargin * Cast(a, ua)
    BY <1>8, <2>2
  <2> HIDE DEF ia, ib, ua, ub
  <2>4. b[z].number = a[j].number
    BY <2>2
  <2> QED BY <1>6, <1>7, <2>3, <2>4
<1>10. /\ ib(n) # {} /\ Cardinality(ib(n)) >= MinVotes
       /\ 100 * Cast(b, ib(n)) >= MinShare * Cast(b, ub)
  <2> HIDE DEF ia, ib, ua, ub
  <2> QED BY <1>6, <1>7, <1>8
<1> QED BY <1>9, <1>10 DEF Verdict, b

\* However many reads a track has: exchanging two neighbours, and so any change
\* of their order, leaves the verdict, though of equal weights the one read
\* first is the winner that is looked at (voting.py:112).
THEOREM VerdictIgnoresOrderAlways == JerseySpec => []VerdictIgnoresOrder
<1>1. JerseyInv => VerdictIgnoresOrder
  <2> SUFFICES ASSUME JerseyInv, NEW i \in 1..(Len(reads) - 1)
               PROVE  Vote(Exchanged(reads, i), DOMAIN registered)
                        = Vote(reads, DOMAIN registered)
    BY DEF VerdictIgnoresOrder
  <2> DEFINE b == Exchanged(reads, i)
             allowed == DOMAIN registered
             va == Vote(reads, allowed)
             vb == Vote(b, allowed)
  <2>1. reads \in Reads
    BY DEF JerseyInv
  <2>2. b \in Reads /\ Len(b) = Len(reads) /\ Exchanged(b, i) = reads
    BY <2>1, Exchange
  <2> HIDE DEF b, allowed
  <2>3. ASSUME va # Nobody PROVE vb = va
    <3>1. Verdict(reads, allowed, va)
      <4>1. PICK n: n = va
        OBVIOUS
      <4> QED BY <2>1, <2>3, <4>1, VoteIsVerdict
    <3>2. Verdict(b, allowed, va)
      <4> HIDE DEF va
      <4> QED BY <2>1, <3>1, ExchangedVerdict DEF b
    <3> HIDE DEF va
    <3> QED BY <2>2, <2>3, <3>2, VoteIsVerdict
  <2>4. ASSUME vb # Nobody PROVE vb = va
    <3>1. Verdict(b, allowed, vb)
      <4>1. PICK n: n = vb
        OBVIOUS
      <4> QED BY <2>2, <2>4, <4>1, VoteIsVerdict
    <3>2. Verdict(reads, allowed, vb)
      <4>1. i \in 1..(Len(b) - 1)
        BY <2>2
      <4> HIDE DEF vb
      <4> QED BY <2>2, <3>1, <4>1, ExchangedVerdict
    <3> HIDE DEF vb
    <3> QED BY <2>1, <2>4, <3>2, VoteIsVerdict
  <2>5. vb = va
    BY <2>3, <2>4
  <2> QED BY <2>5 DEF b, allowed
<1> QED BY <1>1, JerseyInvariant, PTL

-----------------------------------------------------------------------------
(***************************************************************************)
(* JerseyVote: one more read of the number that wins.                      *)
(***************************************************************************)
LEMMA AgreedVerdict ==
  ASSUME NEW a \in Reads, NEW allowed, NEW n, Verdict(a, allowed, n),
         NEW r \in [number: Numbers, confidence: Confidences], r.number = n
  PROVE  Append(a, r) \in Reads /\ Verdict(Append(a, r), allowed, n)
<1> USE JerseyAssumption
<1> DEFINE b == Append(a, r)
           last == Len(a) + 1
           c == r.confidence
           ua == Usable(a, allowed)
           ub == Usable(b, allowed)
           ia(k) == Of(a, ua, k)
           ib(k) == Of(b, ub, k)
           W == Cast(a, ia(n))
           U == Cast(a, ua)
           X(k) == Cast(a, ia(k))
<1>1. /\ b \in Reads /\ DOMAIN b = 1..last /\ DOMAIN a = 1..Len(a)
      /\ last \in Nat /\ last \notin 1..Len(a) /\ 1..last = 1..Len(a) \cup {last}
      /\ b[last] = r /\ \A j \in 1..Len(a): b[j] = a[j]
  <2> DEFINE S == [number: Numbers, confidence: Confidences]
  <2>1. a \in Seq(S) /\ r \in S
    BY DEF Reads
  <2> HIDE DEF S
  <2>2. /\ b \in Seq(S) /\ DOMAIN b = 1..last /\ DOMAIN a = 1..Len(a)
        /\ last \in Nat /\ last \notin 1..Len(a) /\ 1..last = 1..Len(a) \cup {last}
        /\ b[last] = r /\ \A j \in 1..Len(a): b[j] = a[j]
    BY <2>1
  <2> QED BY <2>2 DEF Reads, S
<1> HIDE DEF b, last
<1>2. c \in Nat /\ ua \subseteq 1..Len(a)
  BY <1>1 DEF Usable
<1>3. \A j \in 1..Len(a): j \in ub <=> j \in ua
  BY <1>1 DEF Usable
<1>4. ASSUME NEW S, S \subseteq ua
      PROVE  Cast(b, S) = Cast(a, S) /\ Cast(a, S) \in Nat /\ IsFiniteSet(S)
  <2> DEFINE m == [j \in S |-> j]
  <2>1. Weighed(a, S)
    <3>1. Weighed(a, ua)
      BY UsableReads
    <3> HIDE DEF ua
    <3> QED BY <1>4, <3>1, WeighedPart
  <2>2. S = {m[j]: j \in S} /\ m \in [S -> S] /\ \A i, j \in S: m[i] = m[j] => i = j
    OBVIOUS
  <2>3. \A j \in S: b[m[j]] = a[j]
    <3>1. S \subseteq 1..Len(a)
      BY <1>2, <1>4
    <3> QED BY <1>1, <3>1
  <2>4. Weighed(b, S)
    <3>1. Weighed(b, ub)
      BY <1>1, UsableReads
    <3> HIDE DEF ua, ub
    <3>2. S \subseteq ub
      BY <1>2, <1>3, <1>4
    <3> QED BY <3>1, <3>2, WeighedPart
  <2> HIDE DEF m, ua
  <2>5. Cast(a, S) = Cast(b, S)
    BY <2>1, <2>2, <2>3, <2>4, Relocated
  <2> QED BY <2>1, <2>5, CastType DEF Weighed
<1>5. /\ ia(n) # {} /\ Cardinality(ia(n)) >= MinVotes
      /\ 100 * W >= MinShare * U
      /\ \A j \in ua \ ia(n): 100 * (W - X(a[j].number)) >= MinMargin * U
  BY DEF Verdict
<1>6. \A k: ia(k) \subseteq ua
  BY DEF Of
<1>7. \A k: X(k) \in Nat /\ Cast(b, ia(k)) = X(k) /\ IsFiniteSet(ia(k))
  <2> HIDE DEF ia, ua
  <2> QED BY <1>4, <1>6
<1>8. U \in Nat /\ Cast(b, ua) = U
  BY <1>4
<1>9. CASE c < MinReadConfidence
  <2>1. last \notin ub
    BY <1>1, <1>2, <1>9 DEF Usable
  <2>2. ub = ua
    <3>1. ub \subseteq 1..Len(a) \cup {last}
      BY <1>1 DEF Usable
    <3> HIDE DEF ua, ub
    <3> QED BY <1>2, <1>3, <2>1, <3>1
  <2>3. \A k: ib(k) = ia(k)
    BY <1>1, <1>2, <2>2 DEF Of
  <2>4. \A j \in ua: b[j].number = a[j].number
    BY <1>1, <1>2
  <2>5. /\ ib(n) # {} /\ Cardinality(ib(n)) >= MinVotes
        /\ 100 * Cast(b, ib(n)) >= MinShare * Cast(b, ub)
        /\ \A j \in ub \ ib(n):
              100 * (Cast(b, ib(n)) - Cast(b, ib(b[j].number))) >= MinMargin * Cast(b, ub)
    <3> HIDE DEF ia, ib, ua, ub
    <3> QED BY <1>5, <1>7, <1>8, <2>2, <2>3, <2>4
  <2> QED BY <1>1, <2>5 DEF Verdict, b
<1>10. CASE c >= MinReadConfidence
  <2>1. n \in allowed
    <3>1. PICK j \in ua: a[j].number = n
      BY <1>5 DEF Of
    <3> QED BY <3>1, UsableReads
  <2>2. last \in ub
    BY <1>1, <1>10, <2>1 DEF Usable
  <2>3. ub = ua \cup {last} /\ last \notin ua
    <3>1. ub \subseteq 1..Len(a) \cup {last}
      BY <1>1 DEF Usable
    <3> DEFINE N == 1..Len(a)
    <3>2. ub \subseteq N \cup {last} /\ ua \subseteq N /\ last \notin N
      BY <1>1, <1>2, <3>1
    <3>3. \A j \in N: j \in ub <=> j \in ua
      BY <1>3
    <3> HIDE DEF ua, ub, N
    <3> QED BY <2>2, <3>2, <3>3
  <2>4. \A j \in ua: b[j].number = a[j].number
    BY <1>1, <1>2
  <2>5. ib(n) = ia(n) \cup {last} /\ last \notin ia(n)
    BY <1>1, <2>3, <2>4 DEF Of
  <2>6. \A k: k # n => ib(k) = ia(k)
    BY <1>1, <2>3, <2>4 DEF Of
  <2> HIDE DEF ia, ib, ua, ub
  <2>7. ASSUME NEW S, S \subseteq ub, last \in S, S \ {last} \subseteq ua
        PROVE  Cast(b, S) = c + Cast(a, S \ {last})
    <3>1. Weighed(b, S)
      <4>1. Weighed(b, ub)
        BY <1>1, UsableReads DEF ub
      <4> QED BY <2>7, <4>1, WeighedPart
    <3>2. Cast(b, S) = b[last].confidence + Cast(b, S \ {last})
      BY <2>7, <3>1, CastAny
    <3> QED BY <1>1, <1>4, <2>7, <3>2
  <2>8. Cast(b, ub) = U + c
    <3>1. ub \ {last} = ua
      BY <2>3
    <3>2. Cast(b, ub) = c + U
      BY <2>2, <2>7, <3>1
    <3> QED BY <1>2, <1>8, <3>2
  <2>9. Cast(b, ib(n)) = W + c
    <3>1. ib(n) \ {last} = ia(n) /\ last \in ib(n) /\ ib(n) \subseteq ub /\ ia(n) \subseteq ua
      BY <1>6, <2>3, <2>5
    <3>2. Cast(b, ib(n)) = c + W
      BY <2>7, <3>1
    <3>3. W \in Nat
      BY <1>7
    <3> QED BY <1>2, <3>2, <3>3
  <2>10. /\ MinShare * U \in Nat /\ MinShare * (U + c) = MinShare * U + MinShare * c
         /\ MinShare * c \in Nat /\ MinShare * c <= 100 * c
    BY <1>2, <1>8, Products
  <2>11. /\ MinMargin * U \in Nat /\ MinMargin * (U + c) = MinMargin * U + MinMargin * c
         /\ MinMargin * c \in Nat /\ MinMargin * c <= 100 * c
    <3>1. MinMargin \in 0..100
      OBVIOUS
    <3> QED BY <1>2, <1>8, <3>1, Products
  <2>12. Cardinality(ib(n)) >= MinVotes
    <3>1. IsFiniteSet(ia(n))
      BY <1>7
    <3>2. Cardinality(ib(n)) = Cardinality(ia(n)) + 1 /\ Cardinality(ia(n)) \in Nat
      BY <2>5, <3>1, FS_AddElement, FS_CardinalityType
    <3> QED BY <1>5, <3>2
  <2>13. W \in Nat
    BY <1>7
  <2>14. 100 * (W + c) >= MinShare * (U + c)
    <3> HIDE DEF W, U, c
    <3> QED BY <1>2, <1>5, <2>10, <2>13
  <2>15. ASSUME NEW j \in ub \ ib(n)
         PROVE  100 * (Cast(b, ib(n)) - Cast(b, ib(b[j].number))) >= MinMargin * Cast(b, ub)
    <3>1. j \in ua \ ia(n)
      BY <2>3, <2>5
    <3>2. b[j].number = a[j].number /\ a[j].number # n
      BY <2>4, <3>1 DEF ia, Of
    <3> DEFINE x == X(a[j].number)
    <3>3. Cast(b, ib(b[j].number)) = x /\ x \in Nat
      BY <1>7, <2>6, <3>2
    <3>4. 100 * (W - x) >= MinMargin * U
      BY <1>5, <3>1
    <3>5. 100 * ((W + c) - x) >= MinMargin * (U + c)
      <4> DEFINE mu == MinMargin * U
                 mc == MinMargin * c
                 total == MinMargin * (U + c)
      <4>1. total = mu + mc /\ mu \in Nat /\ mc \in Nat /\ mc <= 100 * c
        BY <2>11
      <4>2. 100 * (W - x) >= mu
        BY <3>4
      <4>3. W \in Nat /\ x \in Nat /\ c \in Nat
        BY <1>2, <2>13, <3>3
      <4> HIDE DEF W, U, c, x, mu, mc, total
      <4>4. 100 * ((W + c) - x) = 100 * (W - x) + 100 * c
        BY <4>3
      <4>5. 100 * ((W + c) - x) >= total
        BY <4>1, <4>2, <4>3, <4>4
      <4> QED BY <4>5 DEF total
    <3> DEFINE wb == Cast(b, ib(n))
               xb == Cast(b, ib(b[j].number))
               tb == Cast(b, ub)
    <3>6. wb = W + c /\ xb = x /\ tb = U + c
      BY <2>8, <2>9, <3>3
    <3> HIDE DEF W, U, c, x, wb, xb, tb
    <3>7. 100 * (wb - xb) >= MinMargin * tb
      BY <3>5, <3>6
    <3> QED BY <3>7 DEF wb, xb, tb
  <2>16. ib(n) # {}
    BY <2>5
  <2>17. 100 * Cast(b, ib(n)) >= MinShare * Cast(b, ub)
    BY <2>8, <2>9, <2>14
  <2> QED BY <1>1, <2>12, <2>15, <2>16, <2>17 DEF Verdict, b, ib, ub
<1>11. c < MinReadConfidence \/ c >= MinReadConfidence
  BY <1>2
<1> QED BY <1>9, <1>10, <1>11

\* However long a track and whatever was read before: a further read of the
\* number that wins never loses it the track, however unsure (voting.py:14-24).
THEOREM AgreementIsKeptAlways == JerseySpec => AgreementIsKept
<1> DEFINE A == LET n == Vote(reads, DOMAIN registered) IN
                Len(reads') > Len(reads) /\ n # Nobody /\ Last(reads').number = n
                   => Vote(reads', DOMAIN registered) = n
<1>1. JerseyInv /\ [JerseyNext]_jerseyVars => [A]_jerseyVars
  <2> SUFFICES ASSUME JerseyInv, JerseyNext, Len(reads') > Len(reads) PROVE A
    OBVIOUS
  <2> DEFINE n == Vote(reads, DOMAIN registered)
  <2>1. reads \in Reads
    BY DEF JerseyInv
  <2>2. reads' # reads
    <3>1. Len(reads) \in Nat
      BY <2>1 DEF Reads
    <3> QED BY <3>1
  <2>3. ReadCrop
    BY <2>2 DEF JerseyNext, LoadRoster, Attribute, UpdatePlayer, RemovePlayer
  <2>4. PICK r \in [number: Numbers, confidence: Confidences]: reads' = Append(reads, r)
    <3>1. PICK k \in Numbers, c \in Confidences:
             reads' = Append(reads, [number |-> k, confidence |-> c])
      BY <2>3 DEF ReadCrop
    <3>2. [number |-> k, confidence |-> c] \in [number: Numbers, confidence: Confidences]
      OBVIOUS
    <3> QED BY <3>1, <3>2
  <2>5. Last(reads') = r
    <3> DEFINE S == [number: Numbers, confidence: Confidences]
    <3>1. reads \in Seq(S) /\ r \in S
      BY <2>1 DEF Reads
    <3> HIDE DEF S
    <3> QED BY <2>4, <3>1 DEF Last
  <2>6. ASSUME n # Nobody, r.number = n PROVE Vote(reads', DOMAIN registered) = n
    <3>1. PICK k: k = n
      OBVIOUS
    <3>2. Verdict(reads, DOMAIN registered, k)
      BY <2>1, <2>6, <3>1, VoteIsVerdict
    <3>3. Append(reads, r) \in Reads /\ Verdict(Append(reads, r), DOMAIN registered, k)
      <4> HIDE DEF n
      <4> QED BY <2>1, <2>6, <3>1, <3>2, AgreedVerdict
    <3> HIDE DEF n
    <3>4. Vote(Append(reads, r), DOMAIN registered) = k
      BY <2>6, <3>1, <3>3, VoteIsVerdict
    <3> QED BY <2>4, <3>1, <3>4
  <2> QED BY <2>5, <2>6
<1> QED BY <1>1, JerseyInvariant, PTL DEF JerseySpec, AgreementIsKept

-----------------------------------------------------------------------------
(***************************************************************************)
(* Sampling: the moments that are read on the master.                      *)
(***************************************************************************)
\* The strengthening: the moments are the walk over the track that was stored.
MomentsInv ==
    /\ step \in {"tracked", "moments"} => \E n \in Lengths: track \in [1..n -> Sizes]
    /\ step = "moments" => moments = Ascending(ChosenMoments(track))

LEMMA MomentsAreTheWalk == SamplingSpec => []MomentsInv
<1>1. SamplingInit => MomentsInv
  BY DEF SamplingInit, MomentsInv
<1>2. MomentsInv /\ [SamplingNext]_samplingVars => MomentsInv'
  <2> SUFFICES ASSUME MomentsInv, [SamplingNext]_samplingVars
               PROVE  MomentsInv'
    OBVIOUS
  <2>1. CASE DetectPlayers
    BY <2>1 DEF DetectPlayers, MomentsInv
  <2>2. CASE PersistTrack
    BY <2>2 DEF PersistTrack, MomentsInv
  <2>3. CASE ChooseMoments
    BY <2>3 DEF ChooseMoments, MomentsInv
  <2>4. CASE ExtractCrops
    BY <2>4 DEF ExtractCrops, MomentsInv
  <2>5. CASE UNCHANGED samplingVars
    BY <2>5 DEF samplingVars, MomentsInv
  <2> QED BY <2>1, <2>2, <2>3, <2>4, <2>5 DEF SamplingNext
<1> QED BY <1>1, <1>2, PTL DEF SamplingSpec

LEMMA MomentsOfTrack ==
  ASSUME NEW n \in Nat, NEW sizes \in [1..n -> Nat]
  PROVE  LET taken == ChosenMoments(sizes)
             larger(t) == {s \in taken: sizes[s] >= sizes[t]}
         IN  /\ taken \subseteq 1..n /\ IsFiniteSet(taken) /\ Len(sizes) = n
             /\ \A s, t \in taken: s # t => ~ Near(s, t, n)
             /\ \A t \in (1..n) \ taken: \/ \E s \in larger(t): Near(s, t, n)
                                         \/ Cardinality(larger(t)) = MaxCrops
<1> DEFINE S == 1..n
           R == BySize(sizes)
           C == {p \in (DOMAIN sizes) \X (DOMAIN sizes): Near(p[1], p[2], Len(sizes))}
           taken == Picked(S, R, C, MaxCrops)
           larger(t) == {s \in taken: sizes[s] >= sizes[t]}
<1>1. DOMAIN sizes = S /\ Len(sizes) = n /\ IsFiniteSet(S)
  BY FiniteRange
<1>2. ChosenMoments(sizes) = taken
  BY <1>1 DEF ChosenMoments
<1> DEFINE before(s, t) == sizes[s] > sizes[t] \/ (sizes[s] = sizes[t] /\ s < t)
<1>3. \A s, t \in S: <<s, t>> \in R <=> before(s, t)
  <2>1. R = {p \in S \X S: before(p[1], p[2])}
    BY <1>1 DEF BySize
  <2> HIDE DEF S, R, before
  <2> QED BY <2>1
<1>4. \A s, t \in S: <<s, t>> \in C <=> Near(s, t, n)
  BY <1>1
<1>5. \A s \in S: s \in Int /\ sizes[s] \in Int
  OBVIOUS
<1> HIDE DEF R, C, S
<1>6. Ranks(R, S)
  <2>1. \A s \in S: ~ before(s, s)
    BY <1>5
  <2>2. \A s, t \in S: s # t => before(s, t) \/ before(t, s)
    BY <1>5
  <2>3. \A r, s, t \in S: before(r, s) /\ before(s, t) => before(r, t)
    BY <1>5
  <2> HIDE DEF before
  <2> QED BY <1>3, <2>1, <2>2, <2>3 DEF Ranks
<1>7. /\ taken \subseteq S /\ IsFiniteSet(taken)
      /\ \A p, q \in taken: <<p, q>> \in R => <<p, q>> \notin C
      /\ \A q \in S \ taken:
            \/ \E p \in taken: <<p, q>> \in R /\ <<p, q>> \in C
            \/ Cardinality(taken) = MaxCrops /\ \A p \in taken: <<p, q>> \in R
  BY <1>1, <1>6, PickedIs, SamplingAssumption
<1> HIDE DEF taken
<1>8. \A s, t \in S: Near(s, t, n) => Near(t, s, n)
  BY <1>5 DEF Near, Distance
<1>9. ASSUME NEW s \in taken, NEW t \in taken, s # t PROVE ~ Near(s, t, n)
  <2>1. <<s, t>> \in R \/ <<t, s>> \in R
    BY <1>6, <1>7, <1>9 DEF Ranks
  <2>2. <<s, t>> \notin C \/ <<t, s>> \notin C
    BY <1>7, <2>1
  <2> QED BY <1>4, <1>7, <1>8, <2>2
<1>10. ASSUME NEW t \in S \ taken
       PROVE  \/ \E s \in larger(t): Near(s, t, n)
              \/ Cardinality(larger(t)) = MaxCrops
  <2>1. \A s \in taken: <<s, t>> \in R => s \in larger(t)
    BY <1>3, <1>5, <1>7
  <2>2. CASE \E p \in taken: <<p, t>> \in R /\ <<p, t>> \in C
    BY <1>4, <1>7, <2>1, <2>2
  <2>3. CASE Cardinality(taken) = MaxCrops /\ \A p \in taken: <<p, t>> \in R
    <3>1. larger(t) = taken
      BY <2>1, <2>3
    <3> QED BY <2>3, <3>1
  <2> QED BY <1>7, <2>2, <2>3
<1> QED BY <1>1, <1>2, <1>7, <1>9, <1>10 DEF S

\* However long a track and whatever its boxes: the moments read are apart, and
\* a second that is left out is near one that shows the player at least as large
\* or there are enough of those (choose_moments, recognizer.py:26-52).
THEOREM MomentsAreSpreadAlways == SamplingSpec => []MomentsAreSpread
<1>1. MomentsInv => MomentsAreSpread
  <2> SUFFICES ASSUME MomentsInv, step = "moments" PROVE MomentsAreSpread
    BY DEF MomentsAreSpread
  <2> DEFINE chosen == ChosenMoments(track)
  <2>1. PICK n \in Lengths: track \in [1..n -> Sizes]
    BY DEF MomentsInv
  <2>2. n \in Nat /\ track \in [1..n -> Nat]
    BY <2>1, SamplingAssumption
  <2>3. /\ chosen \subseteq 1..n /\ IsFiniteSet(chosen) /\ Len(track) = n
        /\ \A s, t \in chosen: s # t => ~ Near(s, t, n)
        /\ \A t \in (1..n) \ chosen:
              \/ \E s \in {s \in chosen: track[s] >= track[t]}: Near(s, t, n)
              \/ Cardinality({s \in chosen: track[s] >= track[t]}) = MaxCrops
    BY <2>2, MomentsOfTrack
  <2>4. moments = Ascending(chosen)
    BY DEF MomentsInv
  <2> HIDE DEF chosen
  <2>5. ToSet(moments) = chosen
    <3>1. chosen \subseteq Int
      BY <2>3
    <3> DEFINE k == Cardinality(chosen)
    <3>2. /\ moments \in [1..k -> chosen] /\ DOMAIN moments = 1..k
          /\ \A x \in chosen: \E i \in 1..k: moments[i] = x
      BY <2>3, <2>4, <3>1, AscendingIs
    <3> HIDE DEF k
    <3> QED BY <3>2 DEF ToSet
  <2> QED BY <2>3, <2>5 DEF MomentsAreSpread
<1> QED BY <1>1, MomentsAreTheWalk, PTL

-----------------------------------------------------------------------------
(***************************************************************************)
(* Reel: what the detectors hand to the selection.                         *)
(***************************************************************************)
Filmed == [duration: Nat \ {0}, pre: Nat, post: Nat]

\* A moment lies in one of the buckets of the recording, the last of which may
\* reach past its end, and has a score.
Moments(f) == [at: 0..(Second * Buckets(f.duration) - 1), score: Nat]

\* The buckets cover the recording and no second more.
LEMMA BucketsAre ==
  ASSUME NEW f \in Filmed
  PROVE  /\ f.duration \in Nat \ {0} /\ f.pre \in Nat /\ f.post \in Nat
         /\ Buckets(f.duration) \in Nat \ {0}
         /\ f.duration <= Second * Buckets(f.duration)
         /\ Second * Buckets(f.duration) < f.duration + Second
<1> DEFINE d == f.duration
           b == (d + 3) \div 4
<1>1. d \in Nat \ {0} /\ f.pre \in Nat /\ f.post \in Nat
  BY DEF Filmed
<1>2. Buckets(d) = b /\ Second = 4
  BY <1>1 DEF Buckets, Second
<1> HIDE DEF d
<1>3. b \in Nat /\ 4 * b <= d + 3 /\ d + 3 < 4 * b + 4
  BY <1>1, Division
<1> HIDE DEF b
<1>4. b \in Nat \ {0} /\ d <= 4 * b /\ 4 * b < d + 4
  BY <1>1, <1>3
<1> QED BY <1>1, <1>2, <1>4 DEF d

IsNormal(series) == \A b \in DOMAIN series: series[b] \in Nat

LEMMA Extremes ==
  ASSUME NEW T, T \subseteq Int, IsFiniteSet(T), T # {}
  PROVE  /\ \E x \in T: \A y \in T: x <= y
         /\ \E x \in T: \A y \in T: x >= y
<1> DEFINE R == {p \in T \X T: p[1] <= p[2]}
           Q == {p \in T \X T: p[1] >= p[2]}
<1>1. /\ \A p, q \in T: <<p, q>> \in R <=> p <= q
      /\ \A p, q \in T: <<p, q>> \in Q <=> p >= q
  OBVIOUS
<1> HIDE DEF R, Q
<1>2. /\ \A p, q \in T: p <= q \/ q <= p
      /\ \A p, q, r \in T: p <= q /\ q <= r => p <= r
      /\ \A p, q \in T: p >= q <=> q <= p
  OBVIOUS
<1>3. \E p \in T: \A q \in T: <<p, q>> \in R
  <2>1. /\ \A p, q \in T: <<p, q>> \in R \/ <<q, p>> \in R
        /\ \A p, q, r \in T: <<p, q>> \in R /\ <<q, r>> \in R => <<p, r>> \in R
    BY <1>1, <1>2
  <2> QED BY <2>1, HasFirst
<1>4. \E p \in T: \A q \in T: <<p, q>> \in Q
  <2>1. /\ \A p, q \in T: <<p, q>> \in Q \/ <<q, p>> \in Q
        /\ \A p, q, r \in T: <<p, q>> \in Q /\ <<q, r>> \in Q => <<p, r>> \in Q
    BY <1>1, <1>2
  <2> QED BY <2>1, HasFirst
<1> QED BY <1>1, <1>3, <1>4

\* A series that was measured is scaled to numbers that are not negative.
LEMMA NormaliseIs ==
  ASSUME NEW raw, DOMAIN raw # {}, IsFiniteSet(DOMAIN raw), \A b \in DOMAIN raw: raw[b] \in Int
  PROVE  IsNormal(Normalise(raw))
<1> DEFINE values == {raw[b]: b \in DOMAIN raw}
           low == CHOOSE v \in values: \A u \in values: v <= u
           high == CHOOSE v \in values: \A u \in values: v >= u
<1>1. IsFiniteSet(values) /\ values \subseteq Int /\ values # {}
  <2> DEFINE of == [b \in DOMAIN raw |-> raw[b]]
  <2>1. of \in Surjection(DOMAIN raw, values)
    BY DEF Surjection
  <2> HIDE DEF of
  <2>2. IsFiniteSet(values)
    <3> HIDE DEF values
    <3> QED BY <2>1, FS_Surjection
  <2>3. PICK b \in DOMAIN raw: TRUE
    OBVIOUS
  <2>4. raw[b] \in values
    OBVIOUS
  <2> QED BY <2>2, <2>4
<1>2. Normalise(raw) = [b \in DOMAIN raw |->
                          IF low = high THEN 50 ELSE (100 * (raw[b] - low)) \div (high - low)]
  BY DEF Normalise
<1>3. \A b \in DOMAIN raw: raw[b] \in values
  OBVIOUS
<1> HIDE DEF values
<1>4. /\ low \in values /\ \A u \in values: low <= u
      /\ high \in values /\ \A u \in values: high >= u
  BY <1>1, Extremes
<1> HIDE DEF low, high
<1>5. ASSUME NEW b \in DOMAIN raw, low # high
      PROVE  (100 * (raw[b] - low)) \div (high - low) \in Nat
  <2>1. 100 * (raw[b] - low) \in Nat /\ high - low \in Nat /\ high - low > 0
    BY <1>1, <1>3, <1>4, <1>5
  <2> QED BY <2>1, Division
<1>6. \A b \in DOMAIN raw:
         (IF low = high THEN 50 ELSE (100 * (raw[b] - low)) \div (high - low)) \in Nat
  BY <1>5
<1> QED BY <1>2, <1>6 DEF IsNormal

LEMMA FusedIs ==
  ASSUME NEW f \in Filmed, NEW series, DOMAIN series \subseteq Signals, \A s \in DOMAIN series: IsNormal(series[s])
  PROVE  Fused(series, Buckets(f.duration)) \in Seq(Moments(f))
<1> USE ReelAssumption
<1> DEFINE D == DOMAIN series
           total == SumFunctionOnSet(Weight, D)
           heard(b) == [s \in D |-> At(series[s], b) * Weight[s]]
           score(b) == SumFunction(heard(b)) \div total
           buckets == Buckets(f.duration)
           S == {b \in 0..(buckets - 1): \E s \in D: At(series[s], b) > 0}
           spoken == Ascending(S)
           at(i) == Second * spoken[i] + Second \div 2
           worth(i) == IF score(spoken[i]) > 99 THEN 99 ELSE score(spoken[i])
           out == [i \in DOMAIN spoken |-> [at |-> at(i), score |-> worth(i)]]
           n == Cardinality(S)
<1>1. Fused(series, buckets) = IF total = 0 THEN <<>> ELSE out
  BY DEF Fused
<1>2. IsFiniteSet(D) /\ \A s \in D: Weight[s] \in Nat
  BY FS_Subset DEF Signals
<1>3. total \in Nat
  BY <1>2, SumType DEF Weights
<1>4. ASSUME NEW b PROVE SumFunction(heard(b)) \in Nat
  <2>1. ASSUME NEW s \in D PROVE heard(b)[s] \in Nat
    <3> DEFINE v == At(series[s], b)
               w == Weight[s]
    <3>1. v \in Nat
      BY DEF IsNormal, At
    <3>2. w \in Nat
      BY <1>2
    <3>3. heard(b)[s] = v * w
      OBVIOUS
    <3> HIDE DEF v, w, heard
    <3> QED BY <3>1, <3>2, <3>3
  <2>2. DOMAIN heard(b) = D
    OBVIOUS
  <2> HIDE DEF heard, D
  <2>3. SumFunctionOnSet(heard(b), D) \in Nat
    BY <1>2, <2>1, SumType DEF Weights
  <2> QED BY <2>2, <2>3 DEF SumFunction
<1> HIDE DEF total
<1>5. total # 0 => \A b: score(b) \in Nat
  <2> SUFFICES ASSUME total # 0, NEW b PROVE score(b) \in Nat
    OBVIOUS
  <2>1. SumFunction(heard(b)) \in Nat
    BY <1>4
  <2> HIDE DEF heard
  <2>2. total > 0
    BY <1>3
  <2> QED BY <1>3, <2>1, <2>2, Division
<1>6. buckets \in Nat /\ S \subseteq 0..(buckets - 1) /\ S \subseteq Int /\ IsFiniteSet(S)
  <2>1. S \subseteq 0..(buckets - 1)
    OBVIOUS
  <2>2. buckets \in Nat /\ buckets - 1 \in Int
    BY BucketsAre
  <2> HIDE DEF buckets
  <2>3. IsFiniteSet(0..(buckets - 1))
    BY <2>2, FS_Interval
  <2> HIDE DEF S
  <2>4. IsFiniteSet(S)
    BY <2>1, <2>3, FS_Subset
  <2> QED BY <2>1, <2>2, <2>4
<1> HIDE DEF S, score
<1>7. n \in Nat /\ spoken \in [1..n -> S] /\ DOMAIN spoken = 1..n
  BY <1>6, AscendingIs
<1> HIDE DEF n, spoken
<1>8. CASE total # 0
  <2>1. ASSUME NEW i \in 1..n PROVE at(i) \in 0..(Second * buckets - 1) /\ worth(i) \in Nat
    <3>1. spoken[i] \in 0..(buckets - 1)
      BY <1>6, <1>7
    <3>2. at(i) \in 0..(Second * buckets - 1)
      <4> HIDE DEF buckets
      <4> QED BY <1>6, <3>1 DEF Second
    <3>3. score(spoken[i]) \in Nat
      BY <1>5, <1>8
    <3> QED BY <3>2, <3>3
  <2> HIDE DEF at, worth
  <2>2. \A i \in 1..n: [at |-> at(i), score |-> worth(i)] \in Moments(f)
    BY <2>1 DEF Moments
  <2>3. out \in [1..n -> Moments(f)]
    BY <1>7, <2>2
  <2> HIDE DEF out
  <2> QED BY <1>1, <1>7, <1>8, <2>3
<1>9. CASE total = 0
  BY <1>1, <1>9
<1> QED BY <1>8, <1>9

LEMMA PeaksAre ==
  ASSUME NEW f, NEW fused \in Seq(Moments(f))
  PROVE  Peaks(fused) \in Seq(Moments(f))
<1> DEFINE score(i) == IF i \in DOMAIN fused THEN fused[i].score ELSE -100
           S == {i \in DOMAIN fused: /\ fused[i].score >= score(i - 1) + PeakMargin
                                     /\ fused[i].score >= score(i + 1)}
           order == Ascending(S)
           out == [i \in DOMAIN order |-> fused[order[i]]]
           n == Cardinality(S)
<1>1. Peaks(fused) = IF Len(fused) < 3 \/ S = {} THEN fused ELSE out
  BY DEF Peaks
<1>2. S \subseteq 1..Len(fused) /\ Len(fused) \in Nat
  OBVIOUS
<1> HIDE DEF S
<1>3. IsFiniteSet(S) /\ S \subseteq Int
  BY <1>2, FiniteRange, FS_Subset
<1>4. n \in Nat /\ order \in [1..n -> S] /\ DOMAIN order = 1..n
  BY <1>3, AscendingIs
<1> HIDE DEF n, order
<1>5. \A i \in 1..n: fused[order[i]] \in Moments(f)
  <2>1. \A j \in 1..Len(fused): fused[j] \in Moments(f)
    OBVIOUS
  <2> QED BY <1>2, <1>4, <2>1
<1>6. out \in [1..n -> Moments(f)]
  BY <1>4, <1>5
<1> HIDE DEF out
<1> QED BY <1>1, <1>4, <1>6

LEMMA MotionCandidatesAre ==
  ASSUME NEW f \in Filmed, NEW series \in Frames, Len(series) < Buckets(f.duration)
  PROVE  MotionCandidates(series) \in Seq(Moments(f))
<1> DEFINE n == Len(series)
           sum == FoldSeq(LAMBDA v, acc: v + acc, 0, series)
           variance == n * FoldSeq(LAMBDA v, acc: v * v + acc, 0, series) - sum * sum
           sorted == SortSeq(series, <)
           median == sorted[(n + 1) \div 2] + sorted[n \div 2 + 1]
           beats(v, tenths) == 2 * v >= median /\ 25 * n * n * (2 * v - median) * (2 * v - median)
                                                    >= tenths * tenths * variance
           score(v) == IF beats(v, 30) THEN 99 ELSE IF beats(v, 15) THEN 75 ELSE 60
           S == {i \in 1..n: beats(series[i], 6)}
           order == Ascending(S)
           out == [k \in DOMAIN order |-> [at |-> Second * order[k], score |-> score(series[order[k]])]]
           quiet == n < 4 \/ variance = 0
           m == Cardinality(S)
<1>1. MotionCandidates(series) = IF quiet THEN <<>> ELSE out
  BY DEF MotionCandidates
<1>2. \A v: score(v) \in Nat
  <2> HIDE DEF beats
  <2> QED OBVIOUS
<1>3. S \subseteq 1..n
  <2> HIDE DEF beats
  <2> QED OBVIOUS
<1> DEFINE buckets == Buckets(f.duration)
<1>4. n \in Nat /\ n < buckets /\ buckets \in Nat
  BY ReelAssumption, BucketsAre
<1> HIDE DEF buckets
<1> HIDE DEF quiet, S, score, n
<1>5. IsFiniteSet(S) /\ S \subseteq Int
  BY <1>3, <1>4, FiniteRange, FS_Subset
<1>6. m \in Nat /\ order \in [1..m -> S] /\ DOMAIN order = 1..m
  BY <1>5, AscendingIs
<1> HIDE DEF order, m
<1>7. ASSUME NEW k \in 1..m
      PROVE  [at |-> Second * order[k], score |-> score(series[order[k]])] \in Moments(f)
  <2>1. order[k] \in 1..n
    BY <1>3, <1>6
  <2>2. Second * order[k] \in 0..(Second * buckets - 1)
    BY <1>4, <2>1 DEF Second
  <2> QED BY <1>2, <2>2 DEF Moments, buckets
<1>8. out \in [1..m -> Moments(f)]
  BY <1>6, <1>7
<1> HIDE DEF out
<1> QED BY <1>1, <1>6, <1>8

\* A moment of the mock lies between the margins, which are in the recording.
LEMMA MockTimeIs ==
  ASSUME NEW d \in Nat, d >= Second, NEW i \in 1..3, NEW tenths \in {0, 9}
  PROVE  MockTime(d, i, tenths) \in Nat
<1> DEFINE margin == IF 3 * d < 600 * Second THEN 3 * d ELSE 600 * Second
           span == IF 60 * d - 2 * margin > 60 * Second THEN 60 * d - 2 * margin
                   ELSE 60 * Second
           slot == 10 * (i - 1) + tenths
<1>1. margin \in Nat /\ span \in Nat /\ slot \in Nat
  BY DEF Second
<1>2. MockTime(d, i, tenths) = (30 * margin + span * slot) \div 1800
  BY DEF MockTime
<1> HIDE DEF margin, span, slot
<1>3. span * slot \in Nat
  BY <1>1
<1>4. 30 * margin + span * slot \in Nat
  BY <1>1, <1>3
<1> QED BY <1>2, <1>4, Division

LEMMA MockCandidatesAre ==
  ASSUME NEW f \in Filmed, NEW scores \in [1..3 -> MockScores], NEW tenths \in [1..3 -> {0, 9}]
  PROVE  LET duration == IF f.duration > Second THEN f.duration ELSE Second
             at(i) == MockTime(duration, i, tenths[i])
             inside == Ascending({i \in 1..3: at(i) < duration})
         IN  [k \in DOMAIN inside |-> [at |-> at(inside[k]), score |-> scores[inside[k]]]]
               \in Seq(Moments(f))
<1> DEFINE duration == IF f.duration > Second THEN f.duration ELSE Second
           at(i) == MockTime(duration, i, tenths[i])
           S == {i \in 1..3: at(i) < duration}
           inside == Ascending(S)
           out == [k \in DOMAIN inside |-> [at |-> at(inside[k]), score |-> scores[inside[k]]]]
           n == Cardinality(S)
<1>1. duration \in Nat /\ duration >= Second /\ duration <= Second * Buckets(f.duration)
  <2> DEFINE d == f.duration
             b == Buckets(f.duration)
  <2>1. d \in Nat /\ d <= Second * b /\ b \in Nat \ {0}
    BY BucketsAre
  <2> HIDE DEF d, b
  <2>2. LET x == IF d > Second THEN d ELSE Second
        IN  x \in Nat /\ x >= Second /\ x <= Second * b
    BY <2>1 DEF Second
  <2> QED BY <2>2 DEF d, b
<1> HIDE DEF duration
<1>2. \A i \in S: at(i) \in Nat /\ at(i) < duration /\ scores[i] \in Nat
  BY <1>1, MockTimeIs, ReelAssumption
<1>3. S \subseteq 1..3
  OBVIOUS
<1> HIDE DEF at, S
<1>4. IsFiniteSet(S) /\ S \subseteq Int
  BY <1>3, FiniteRange, FS_Subset
<1>5. n \in Nat /\ inside \in [1..n -> S] /\ DOMAIN inside = 1..n
  BY <1>4, AscendingIs
<1> HIDE DEF inside, n
<1>6. ASSUME NEW k \in 1..n
      PROVE  [at |-> at(inside[k]), score |-> scores[inside[k]]] \in Moments(f)
  <2> DEFINE b == Buckets(f.duration)
             t == at(inside[k])
  <2>1. t \in Nat /\ t < duration /\ scores[inside[k]] \in Nat
    BY <1>2, <1>5
  <2>2. b \in Nat
    BY BucketsAre
  <2>3. t \in 0..(Second * b - 1)
    <3>1. duration <= Second * b
      BY <1>1
    <3> HIDE DEF t, b
    <3> QED BY <1>1, <2>1, <2>2, <3>1 DEF Second
  <2> QED BY <2>1, <2>3 DEF Moments
<1>7. out \in [1..n -> Moments(f)]
  BY <1>5, <1>6
<1>8. out \in Seq(Moments(f))
  <2> HIDE DEF out
  <2> QED BY <1>5, <1>7
<1> QED BY <1>8 DEF at, S, inside, duration

-----------------------------------------------------------------------------
(***************************************************************************)
(* Reel: the selection.                                                    *)
(***************************************************************************)
LEMMA WindowIs ==
  ASSUME NEW f \in Filmed, NEW c \in Moments(f)
  PROVE  LET w == Window(f, c)
         IN  /\ w.start \in Nat /\ w.end \in Nat /\ w.score = c.score /\ w.score \in Nat
             /\ w.end <= f.duration
             /\ w.start < f.duration => w.start < w.end
             /\ f.pre >= Second => w.start < f.duration
<1> DEFINE at == c.at
           d == f.duration
           pre == f.pre
           post == f.post
           b == Buckets(f.duration)
           start == IF at > pre THEN at - pre ELSE 0
           cut == IF at + post < d THEN at + post ELSE d
           end == IF cut > start THEN cut
                  ELSE IF start + Second < d THEN start + Second ELSE d
<1>1. Window(f, c) = [start |-> start, score |-> c.score, end |-> end]
  BY DEF Window
<1>2. /\ d \in Nat \ {0} /\ pre \in Nat /\ post \in Nat /\ b \in Nat \ {0}
      /\ Second * b < d + Second
  BY BucketsAre
<1>3. at \in 0..(Second * b - 1) /\ c.score \in Nat
  BY DEF Moments
<1> HIDE DEF at, d, pre, post, b
<1>4. start \in Nat /\ (pre >= Second => start < d)
  BY <1>2, <1>3 DEF Second
<1>5. cut \in Nat /\ cut <= d
  BY <1>2, <1>3 DEF Second
<1> HIDE DEF start, cut
<1>6. end \in Nat /\ end <= d /\ (start < d => start < end)
  BY <1>2, <1>4, <1>5 DEF Second
<1> HIDE DEF end
<1> QED BY <1>1, <1>3, <1>4, <1>6 DEF d, pre

LEMMA ClosenessIsMutual ==
  ASSUME NEW a, a.start \in Int, a.end \in Int, NEW b, b.start \in Int, b.end \in Int
  PROVE  TooClose(a, b) => TooClose(b, a)
<1>1. Common(a, b) = Common(b, a)
  BY DEF Common
<1>2. Shorter(a, b) = Shorter(b, a)
  BY DEF Shorter
<1> QED BY <1>1, <1>2 DEF TooClose

\* The moments that are kept, in the order of the match.
Selected(f, scored, kept, order) ==
    /\ kept = Kept(f, scored) /\ order = InMatchOrder(f, scored, kept)
    /\ kept \subseteq DOMAIN scored
    /\ Cardinality(kept) \in Nat /\ Cardinality(kept) <= MaxCount
    /\ order \in [1..Cardinality(kept) -> kept]
    /\ \A x \in kept: \E k \in 1..Cardinality(kept): order[k] = x
    /\ \A j, k \in 1..Cardinality(kept): j < k =>
          /\ order[j] # order[k]
          /\ Window(f, scored[order[j]]).start <= Window(f, scored[order[k]]).start
    /\ \A i, j \in kept: i # j => ~ TooClose(Window(f, scored[i]), Window(f, scored[j]))
    /\ \A i \in (DOMAIN scored) \ kept: scored[i].score >= MinScore =>
          \/ \E j \in kept: /\ scored[j].score >= scored[i].score
                            /\ TooClose(Window(f, scored[j]), Window(f, scored[i]))
          \/ /\ Cardinality(kept) = MaxCount
             /\ \A j \in kept: scored[j].score >= scored[i].score

LEMMA SelectionIs ==
  ASSUME NEW f \in Filmed, NEW scored \in Seq(Moments(f))
  PROVE  \E kept, order: Selected(f, scored, kept, order)
<1> USE ReelAssumption
<1> DEFINE N == DOMAIN scored
           W(i) == Window(f, scored[i])
           score(i) == scored[i].score
           better(i, j) == Better(scored, i, j)
           good == {i \in N: scored[i].score >= MinScore}
           R == {p \in good \X good: better(p[1], p[2])}
           C == {p \in good \X good: TooClose(W(p[1]), W(p[2]))}
           kept == Picked(good, R, C, MaxCount)
           Q == {p \in kept \X kept: Earlier(f, scored, p[1], p[2])}
           n == Cardinality(kept)
           order == Arranged(kept, Q)
<1>1. N = 1..Len(scored) /\ Len(scored) \in Nat
  OBVIOUS
<1>2. ASSUME NEW i \in N
      PROVE  /\ i \in Int /\ score(i) \in Int /\ W(i).start \in Int /\ W(i).end \in Int
             /\ W(i).score = score(i)
  <2>1. scored[i] \in Moments(f)
    BY <1>1
  <2> QED BY <1>1, <2>1, WindowIs
<1>3. Kept(f, scored) = kept /\ InMatchOrder(f, scored, kept) = order
  BY DEF Kept, Duplicates, InMatchOrder
<1>4. ASSUME NEW i \in N, NEW j \in N
      PROVE  better(i, j) <=> \/ score(i) > score(j)
                              \/ score(i) = score(j) /\ i < j
  BY DEF Better
<1>5. ASSUME NEW i \in N, NEW j \in N
      PROVE  Earlier(f, scored, i, j) <=> \/ W(j).start - W(i).start > 0
                                          \/ W(j).start - W(i).start = 0 /\ better(i, j)
  BY DEF Earlier
<1>6. good \subseteq N /\ IsFiniteSet(good) /\ \A i \in N: score(i) >= MinScore => i \in good
  <2>1. good \subseteq N /\ \A i \in N: score(i) >= MinScore => i \in good
    OBVIOUS
  <2> HIDE DEF good
  <2> QED BY <1>1, <2>1, FiniteRange, FS_Subset
<1> HIDE DEF good, better
<1>7. /\ \A i, j \in good: <<i, j>> \in R <=> better(i, j)
      /\ \A i, j \in good: <<i, j>> \in C <=> TooClose(W(i), W(j))
  <2> HIDE DEF W
  <2> QED OBVIOUS
<1>8. \A i, j \in kept: <<i, j>> \in Q <=> Earlier(f, scored, i, j)
  <2> HIDE DEF kept
  <2> QED OBVIOUS
<1> HIDE DEF R, C, Q, N, W, score
<1>9. /\ \A i \in N: ~ better(i, i)
      /\ \A i, j \in N: i # j => better(i, j) \/ better(j, i)
      /\ \A i, j, k \in N: better(i, j) /\ better(j, k) => better(i, k)
  <2>1. ASSUME NEW i \in N PROVE ~ better(i, i)
    BY <1>2, <1>4
  <2>2. ASSUME NEW i \in N, NEW j \in N, i # j PROVE better(i, j) \/ better(j, i)
    BY <1>2, <1>4, <2>2
  <2>3. ASSUME NEW i \in N, NEW j \in N, NEW k \in N, better(i, j), better(j, k)
        PROVE  better(i, k)
    <3>1. /\ score(i) > score(j) \/ (score(i) = score(j) /\ i < j)
          /\ score(j) > score(k) \/ (score(j) = score(k) /\ j < k)
      BY <1>4, <2>3
    <3>2. score(i) > score(k) \/ (score(i) = score(k) /\ i < k)
      BY <1>2, <3>1
    <3> QED BY <1>4, <3>2
  <2> QED BY <2>1, <2>2, <2>3
<1>10. Ranks(R, good)
  BY <1>6, <1>7, <1>9 DEF Ranks
<1>11. /\ kept \subseteq good /\ IsFiniteSet(kept) /\ n \in Nat /\ n <= MaxCount
       /\ \A p, q \in kept: <<p, q>> \in R => <<p, q>> \notin C
       /\ \A q \in good \ kept:
             \/ \E p \in kept: <<p, q>> \in R /\ <<p, q>> \in C
             \/ n = MaxCount /\ \A p \in kept: <<p, q>> \in R
  BY <1>6, <1>10, PickedIs
<1> HIDE DEF kept, n
<1>12. Ranks(Q, kept)
  <2>1. /\ \A i \in N: ~ Earlier(f, scored, i, i)
        /\ \A i, j \in N: i # j => Earlier(f, scored, i, j) \/ Earlier(f, scored, j, i)
    BY <1>2, <1>5, <1>9
  <2>2. \A i, j, k \in N: Earlier(f, scored, i, j) /\ Earlier(f, scored, j, k)
                            => Earlier(f, scored, i, k)
    <3> SUFFICES ASSUME NEW i \in N, NEW j \in N, NEW k \in N,
                        Earlier(f, scored, i, j), Earlier(f, scored, j, k)
                 PROVE  Earlier(f, scored, i, k)
      OBVIOUS
    <3> DEFINE a == W(i).start
               b == W(j).start
               c == W(k).start
    <3>1. a \in Int /\ b \in Int /\ c \in Int
      BY <1>2
    <3>2. /\ b - a > 0 \/ (b - a = 0 /\ better(i, j))
          /\ c - b > 0 \/ (c - b = 0 /\ better(j, k))
      BY <1>5
    <3> HIDE DEF a, b, c
    <3>3. c - a > 0 \/ (c - a = 0 /\ better(i, j) /\ better(j, k))
      BY <3>1, <3>2
    <3>4. c - a > 0 \/ (c - a = 0 /\ better(i, k))
      BY <1>9, <3>3
    <3> QED BY <1>5, <3>4 DEF a, c
  <2>3. kept \subseteq N
    BY <1>6, <1>11
  <2> QED BY <1>8, <2>1, <2>2, <2>3 DEF Ranks
<1>13. /\ order \in [1..n -> kept]
       /\ \A x \in kept: \E k \in 1..n: order[k] = x
       /\ \A j, k \in 1..n: j < k => <<order[j], order[k]>> \in Q /\ order[j] # order[k]
  BY <1>11, <1>12, ArrangedIs DEF n
<1> HIDE DEF order
<1>14. kept \subseteq N
  BY <1>6, <1>11
<1>15. ASSUME NEW j \in 1..n, NEW k \in 1..n, j < k
       PROVE  order[j] # order[k] /\ W(order[j]).start <= W(order[k]).start
  <2>1. order[j] \in kept /\ order[k] \in kept /\ order[j] # order[k]
        /\ Earlier(f, scored, order[j], order[k])
    BY <1>8, <1>13, <1>15
  <2>2. ASSUME NEW x \in N, NEW y \in N, Earlier(f, scored, x, y)
        PROVE  W(x).start <= W(y).start
    <3> DEFINE a == W(x).start
               b == W(y).start
    <3>1. a \in Int /\ b \in Int /\ (b - a > 0 \/ b - a = 0)
      BY <1>2, <1>5, <2>2
    <3> HIDE DEF a, b
    <3>2. a <= b
      BY <3>1
    <3> QED BY <3>2 DEF a, b
  <2>3. W(order[j]).start <= W(order[k]).start
    BY <1>14, <2>1, <2>2
  <2> QED BY <2>1, <2>3
<1>16. \A i, j \in N: TooClose(W(i), W(j)) => TooClose(W(j), W(i))
  BY <1>2, ClosenessIsMutual
<1>17. ASSUME NEW i \in kept, NEW j \in kept, i # j PROVE ~ TooClose(W(i), W(j))
  <2>1. <<i, j>> \in R \/ <<j, i>> \in R
    BY <1>10, <1>11, <1>17 DEF Ranks
  <2>2. <<i, j>> \notin C \/ <<j, i>> \notin C
    BY <1>11, <2>1
  <2> QED BY <1>7, <1>11, <1>14, <1>16, <2>2
<1>18. ASSUME NEW i \in N \ kept, score(i) >= MinScore
       PROVE  \/ \E j \in kept: score(j) >= score(i) /\ TooClose(W(j), W(i))
              \/ n = MaxCount /\ \A j \in kept: score(j) >= score(i)
  <2>1. i \in good \ kept
    BY <1>6, <1>18
  <2>2. \A j \in kept: <<j, i>> \in R => score(j) >= score(i)
    BY <1>2, <1>4, <1>7, <1>11, <1>14, <2>1
  <2>3. \A j \in kept: <<j, i>> \in C => TooClose(W(j), W(i))
    BY <1>7, <1>11, <2>1
  <2> QED BY <1>11, <2>1, <2>2, <2>3
<1>19. Selected(f, scored, kept, order)
  BY <1>3, <1>11, <1>13, <1>14, <1>15, <1>17, <1>18 DEF Selected, N, W, score, n
<1> QED BY <1>19

\* The strengthening: what is scored lies in a bucket of the recording, and the
\* reel is the selection of it.
ReelInv ==
    /\ film \in Filmed
    /\ DOMAIN computed \subseteq Signals /\ \A s \in DOMAIN computed: IsNormal(computed[s])
    /\ candidates \in Seq(Moments(film))
    /\ stage # "selected" => reel = <<>>
    /\ stage = "selected" =>
          LET order == InMatchOrder(film, candidates, Kept(film, candidates))
          IN  reel = [k \in DOMAIN order |-> Window(film, candidates[order[k]])]

LEMMA ReelInvariant == ReelSpec => []ReelInv
<1>1. ReelInit => ReelInv
  <2> SUFFICES ASSUME ReelInit PROVE ReelInv
    OBVIOUS
  <2>1. stage # "selected"
    <3>1. PICK tracks \in BOOLEAN, pixels \in BOOLEAN:
            LET supports == [d \in ToSet(Ladder) |->
                                CASE d = "heuristic" -> tracks [] d = "motion" -> pixels
                                  [] OTHER -> TRUE]
                chosen == CHOOSE i \in 1..3: /\ Ladder[i] \in detectors /\ supports[Ladder[i]]
                                             /\ \A j \in 1..(i - 1):
                                                   ~ (Ladder[j] \in detectors /\ supports[Ladder[j]])
            IN  stage = <<"signals", "frames", "dice">>[chosen]
      BY DEF ReelInit
    <3> DEFINE supports == [d \in ToSet(Ladder) |->
                              CASE d = "heuristic" -> tracks [] d = "motion" -> pixels
                                [] OTHER -> TRUE]
               able(i) == Ladder[i] \in detectors /\ supports[Ladder[i]]
               first(i) == able(i) /\ \A j \in 1..(i - 1): ~ able(j)
               chosen == CHOOSE i \in 1..3: first(i)
    <3>2. stage = <<"signals", "frames", "dice">>[chosen]
      BY <3>1
    <3>3. able(3)
      <4>1. Ladder[3] = "mock" /\ "mock" \in ToSet(Ladder)
        BY DEF Ladder, ToSet
      <4>2. "mock" \in detectors
        BY DEF ReelInit
      <4>3. supports["mock"]
        BY <4>1
      <4> QED BY <4>1, <4>2, <4>3
    <3> HIDE DEF able
    <3>4. \E i \in 1..3: first(i)
      <4>1. first(1) \/ first(2) \/ first(3)
        BY <3>3
      <4> QED BY <4>1
    <3>5. chosen \in 1..3
      <4> HIDE DEF first
      <4> QED BY <3>4
    <3> HIDE DEF chosen
    <3> QED BY <3>2, <3>5
  <2>2. computed = <<>> /\ candidates = <<>> /\ reel = <<>> /\ film \in Filmed
    BY ReelAssumption DEF ReelInit, Filmed
  <2> QED BY <2>1, <2>2 DEF ReelInv
<1>2. ReelInv /\ [ReelNext]_reelVars => ReelInv'
  <2> SUFFICES ASSUME ReelInv, [ReelNext]_reelVars PROVE ReelInv'
    OBVIOUS
  <2>1. ASSUME NEW s \in Signals, ComputeSignal(s) PROVE ReelInv'
    <3>1. /\ stage = "signals" /\ stage' = stage /\ candidates' = candidates /\ reel' = reel
          /\ film' = film
          /\ \/ computed' = computed
             \/ \E raw \in RawSeries[s]:
                  computed' = [t \in DOMAIN computed \cup {s} |->
                                 IF t = s THEN Normalise(raw) ELSE computed[t]]
      BY <2>1 DEF ComputeSignal
    <3>2. CASE computed' = computed
      BY <3>1, <3>2 DEF ReelInv
    <3>3. ASSUME NEW raw \in RawSeries[s],
                 computed' = [t \in DOMAIN computed \cup {s} |->
                                IF t = s THEN Normalise(raw) ELSE computed[t]]
          PROVE  ReelInv'
      <4>1. IsNormal(Normalise(raw))
        <5>1. /\ DOMAIN raw # {} /\ IsFiniteSet(DOMAIN raw)
              /\ \A b \in DOMAIN raw: raw[b] \in Int
          BY ReelAssumption DEF Signals
        <5> QED BY <5>1, NormaliseIs
      <4>2. \A t \in DOMAIN computed': IsNormal(computed'[t])
        BY <3>3, <4>1 DEF ReelInv
      <4>3. DOMAIN computed' \subseteq Signals
        BY <3>3 DEF ReelInv
      <4> QED BY <3>1, <4>2, <4>3 DEF ReelInv
    <3> QED BY <3>1, <3>2, <3>3
  <2>2. ASSUME stage \in {"signals", "frames", "dice"}, stage' = "scored",
               computed' = computed, reel' = reel, film' = film,
               candidates' \in Seq(Moments(film))
        PROVE  ReelInv'
    BY <2>2 DEF ReelInv
  <2>3. CASE Heuristic
    <3>1. Fused(computed, Buckets(film.duration)) \in Seq(Moments(film))
      BY FusedIs DEF ReelInv
    <3>2. Peaks(Fused(computed, Buckets(film.duration))) \in Seq(Moments(film))
      BY <3>1, PeaksAre
    <3> QED BY <2>2, <2>3, <3>2 DEF Heuristic
  <2>4. CASE Motion
    <3>1. \E series \in Frames: /\ Len(series) < Buckets(film.duration)
                               /\ candidates' = MotionCandidates(series)
      BY <2>4 DEF Motion
    <3>2. candidates' \in Seq(Moments(film))
      BY <3>1, MotionCandidatesAre DEF ReelInv
    <3> QED BY <2>2, <2>4, <3>2 DEF Motion
  <2>5. CASE Mock
    <3>1. PICK scores \in [1..3 -> MockScores], tenths \in [1..3 -> {0, 9}]:
            LET duration == IF film.duration > Second THEN film.duration ELSE Second
                at(i) == MockTime(duration, i, tenths[i])
                inside == Ascending({i \in 1..3: at(i) < duration})
            IN  candidates' = [k \in DOMAIN inside |->
                                 [at |-> at(inside[k]), score |-> scores[inside[k]]]]
      BY <2>5 DEF Mock
    <3>2. candidates' \in Seq(Moments(film))
      BY <3>1, MockCandidatesAre DEF ReelInv
    <3> QED BY <2>2, <2>5, <3>2 DEF Mock
  <2>6. CASE Select
    BY <2>6 DEF Select, ReelInv
  <2>7. CASE UNCHANGED reelVars
    BY <2>7 DEF reelVars, ReelInv
  <2> QED BY <2>1, <2>3, <2>4, <2>5, <2>6, <2>7 DEF ReelNext
<1> QED BY <1>1, <1>2, PTL DEF ReelSpec

\* What is in the reel, clip by clip.
LEMMA ReelIs ==
  ASSUME ReelInv, stage = "selected"
  PROVE  \E kept, order:
            /\ Selected(film, candidates, kept, order)
            /\ Len(reel) = Cardinality(kept) /\ DOMAIN reel = 1..Cardinality(kept)
            /\ \A k \in DOMAIN reel: reel[k] = Window(film, candidates[order[k]])
<1>1. PICK kept, order: Selected(film, candidates, kept, order)
  BY SelectionIs DEF ReelInv
<1> DEFINE n == Cardinality(kept)
<1>2. /\ kept = Kept(film, candidates) /\ order = InMatchOrder(film, candidates, kept)
      /\ order \in [1..n -> kept] /\ n \in Nat
  BY <1>1 DEF Selected
<1>3. reel = [k \in DOMAIN order |-> Window(film, candidates[order[k]])]
  BY <1>2 DEF ReelInv
<1> HIDE DEF n
<1>4. DOMAIN reel = 1..n /\ \A k \in 1..n: reel[k] = Window(film, candidates[order[k]])
  BY <1>2, <1>3
<1>5. Len(reel) = n
  BY <1>2, <1>3
<1> QED BY <1>1, <1>4, <1>5 DEF n

\* Whatever the detectors found, however long the recording is and whatever the
\* settings are: the reel plays in the order of the match, no clip reaches past
\* the end, one that starts inside the recording has a length and all do when they
\* open a second or more before their moment, there are no more than asked for
\* and no two are near duplicates (selection.py:27-75).
THEOREM ReelIsWatchableAlways == ReelSpec => []ReelIsWatchable
<1>1. ReelInv => ReelIsWatchable
  <2> SUFFICES ASSUME ReelInv PROVE ReelIsWatchable
    OBVIOUS
  <2>1. CASE stage # "selected"
    <3>1. reel = <<>> /\ Len(reel) = 0 /\ MaxCount \in Nat
      BY <2>1, ReelAssumption DEF ReelInv
    <3> QED BY <3>1 DEF ReelIsWatchable
  <2>2. CASE stage = "selected"
    <3>1. PICK kept, order:
            /\ Selected(film, candidates, kept, order)
            /\ Len(reel) = Cardinality(kept) /\ DOMAIN reel = 1..Cardinality(kept)
            /\ \A k \in DOMAIN reel: reel[k] = Window(film, candidates[order[k]])
      BY <2>2, ReelIs
    <3> DEFINE n == Cardinality(kept)
    <3>2. /\ n <= MaxCount /\ order \in [1..n -> kept] /\ kept \subseteq DOMAIN candidates
          /\ \A j, k \in 1..n: j < k =>
                /\ order[j] # order[k]
                /\ Window(film, candidates[order[j]]).start <= Window(film, candidates[order[k]]).start
          /\ \A i, j \in kept: i # j => ~ TooClose(Window(film, candidates[i]), Window(film, candidates[j]))
      BY <3>1 DEF Selected
    <3> HIDE DEF n
    <3>3. Len(reel) <= MaxCount /\ DOMAIN reel = 1..n
          /\ \A k \in 1..n: reel[k] = Window(film, candidates[order[k]])
      BY <3>1, <3>2 DEF n
    <3>4. ASSUME NEW k \in DOMAIN reel
          PROVE  /\ 0 <= reel[k].start /\ reel[k].end <= film.duration
                 /\ film.pre >= Second => reel[k].start < film.duration
                 /\ reel[k].start < film.duration => reel[k].start < reel[k].end
      <4>1. order[k] \in DOMAIN candidates
        BY <3>2, <3>3
      <4>2. candidates[order[k]] \in Moments(film) /\ film \in Filmed
        BY <4>1 DEF ReelInv
      <4>3. reel[k] = Window(film, candidates[order[k]])
        BY <3>3
      <4> QED BY <4>2, <4>3, WindowIs
    <3>5. ASSUME NEW i \in DOMAIN reel, NEW j \in DOMAIN reel, i < j
          PROVE  reel[i].start <= reel[j].start /\ ~ TooClose(reel[i], reel[j])
      <4>1. i \in 1..n /\ j \in 1..n /\ order[i] \in kept /\ order[j] \in kept
        BY <3>2, <3>3
      <4>2. reel[i] = Window(film, candidates[order[i]]) /\ reel[j] = Window(film, candidates[order[j]])
        BY <3>3, <4>1
      <4> QED BY <3>2, <3>5, <4>1, <4>2
    <3> QED BY <3>3, <3>4, <3>5 DEF ReelIsWatchable
  <2> QED BY <2>1, <2>2
<1> QED BY <1>1, ReelInvariant, PTL

\* Whatever the detectors found: a moment above the bar is left out only for one
\* that scores no less and is too close to it, or for as many as the reel may
\* hold that all score no less (selection.py:49-72).
THEOREM LeftOutForBetterAlways == ReelSpec => []LeftOutForBetter
<1>1. ReelInv => LeftOutForBetter
  <2> SUFFICES ASSUME ReelInv, stage = "selected", NEW i \in DOMAIN candidates,
                      Window(film, candidates[i]).score >= MinScore
               PROVE  LET w == Window(film, candidates[i])
                          better == {k \in DOMAIN reel: reel[k].score >= w.score}
                      IN  \/ \E k \in better: reel[k] = w \/ TooClose(w, reel[k])
                          \/ Cardinality(better) = MaxCount
    BY DEF LeftOutForBetter
  <2> DEFINE w == Window(film, candidates[i])
             better == {k \in DOMAIN reel: reel[k].score >= w.score}
  <2>1. PICK kept, order:
          /\ Selected(film, candidates, kept, order)
          /\ Len(reel) = Cardinality(kept) /\ DOMAIN reel = 1..Cardinality(kept)
          /\ \A k \in DOMAIN reel: reel[k] = Window(film, candidates[order[k]])
    BY ReelIs
  <2> DEFINE n == Cardinality(kept)
  <2>2. /\ order \in [1..n -> kept] /\ kept \subseteq DOMAIN candidates /\ n \in Nat
        /\ \A x \in kept: \E k \in 1..n: order[k] = x
        /\ i \notin kept /\ candidates[i].score >= MinScore =>
              \/ \E j \in kept: /\ candidates[j].score >= candidates[i].score
                                /\ TooClose(Window(film, candidates[j]), w)
              \/ /\ n = MaxCount
                 /\ \A j \in kept: candidates[j].score >= candidates[i].score
    BY <2>1 DEF Selected
  <2>3. ASSUME NEW j \in DOMAIN candidates
        PROVE  /\ Window(film, candidates[j]).score = candidates[j].score
               /\ candidates[j].score \in Nat
               /\ Window(film, candidates[j]).start \in Int /\ Window(film, candidates[j]).end \in Int
    <3>1. candidates[j] \in Moments(film) /\ film \in Filmed
      BY DEF ReelInv
    <3> QED BY <3>1, WindowIs
  <2> HIDE DEF n
  <2>4. DOMAIN reel = 1..n /\ \A k \in 1..n: reel[k] = Window(film, candidates[order[k]])
    BY <2>1 DEF n
  <2>5. ASSUME NEW j \in kept, candidates[j].score >= candidates[i].score
        PROVE  \E k \in better: reel[k] = Window(film, candidates[j])
    <3>1. PICK k \in 1..n: order[k] = j
      BY <2>2
    <3>2. reel[k] = Window(film, candidates[j])
      BY <2>4, <3>1
    <3>3. reel[k].score >= w.score
      BY <2>2, <2>3, <2>5, <3>2
    <3> QED BY <2>4, <3>1, <3>2, <3>3
  <2>6. CASE i \in kept
    <3>1. candidates[i].score >= candidates[i].score
      BY <2>3
    <3>2. \E k \in better: reel[k] = w
      BY <2>5, <2>6, <3>1
    <3> QED BY <3>2
  <2>7. CASE \E j \in kept: /\ candidates[j].score >= candidates[i].score
                            /\ TooClose(Window(film, candidates[j]), w)
    <3>1. PICK j \in kept: /\ candidates[j].score >= candidates[i].score
                           /\ TooClose(Window(film, candidates[j]), w)
      BY <2>7
    <3>2. PICK k \in better: reel[k] = Window(film, candidates[j])
      BY <2>5, <3>1
    <3>3. TooClose(w, Window(film, candidates[j]))
      BY <2>2, <2>3, <3>1, ClosenessIsMutual
    <3> QED BY <3>2, <3>3
  <2>8. CASE n = MaxCount /\ \A j \in kept: candidates[j].score >= candidates[i].score
    <3>1. ASSUME NEW k \in 1..n PROVE k \in better
      <4>1. order[k] \in kept /\ order[k] \in DOMAIN candidates
        BY <2>2
      <4>2. reel[k] = Window(film, candidates[order[k]])
        BY <2>4
      <4>3. reel[k].score >= w.score
        BY <2>3, <2>8, <4>1, <4>2
      <4> QED BY <2>4, <4>3
    <3>2. better = 1..n
      BY <2>4, <3>1
    <3> HIDE DEF better
    <3>3. Cardinality(better) = MaxCount
      BY <2>2, <2>8, <3>2, FiniteRange
    <3> QED BY <3>3 DEF better
  <2>9. candidates[i].score >= MinScore
    BY <2>3
  <2> HIDE DEF better, w
  <2> QED BY <2>2, <2>6, <2>7, <2>8, <2>9 DEF better, w
<1> QED BY <1>1, ReelInvariant, PTL
=============================================================================
