----------------------------- MODULE JerseyVote -----------------------------
(* JERSEY_OCR for one track: the roster is read, crop after crop is read, the   *)
(* reads are voted on and the track's row is attributed (steps/cv.py,            *)
(* jersey/voting.py). Staff correct the roster at any time, the minutes the       *)
(* crops take included. Confidences are whole percents, shares are compared by     *)
(* multiplying out; the recognizer is free to read anything.                        *)
EXTENDS Integers, FiniteSets, Sequences, SequencesExt

CONSTANTS
    Players,            \* ids of MatchPlayer rows
    Numbers,            \* shirt numbers a crop may be read as
    Confidences,        \* percents
    Nobody,
    MinVotes, MinShare, MinMargin, MinReadConfidence,
    MaxReads, MaxCorrections    \* bounds of the instance

ASSUME JerseyAssumption ==
    /\ IsFiniteSet(Players) /\ Confidences \subseteq Nat
    /\ MinVotes \in Nat
    /\ MinShare \in 0..100 /\ MinMargin \in 1..100
    /\ MinReadConfidence \in Nat \ {0}
    /\ Nobody \notin Players /\ Nobody \notin Numbers

VARIABLES
    roster,      \* player |-> shirt number, Nobody once removed
    registered,  \* what the step read of it: number |-> player
    wore,        \* history: the roster when the step read it
    reads,       \* the track's reads, in order
    ocr,         \* "waiting", "reading", "done", "failed"
    row,         \* the PlayerTrack row: its number and its player
    corrections

jerseyVars == <<roster, registered, wore, reads, ocr, row, corrections>>

Unattributed == [number |-> Nobody, player |-> Nobody]

JerseyInit ==
    /\ roster \in [Players -> Numbers]
    /\ registered = <<>> /\ wore = <<>> /\ reads = <<>>
    /\ ocr = "waiting" /\ row = Unattributed
    /\ corrections = 0

-----------------------------------------------------------------------------
(* A number two players wear is left out. Faulty: the last row wins.            *)
RegisteredByLastRow(worn) ==
    LET numbers == {worn[p]: p \in Players} \ {Nobody}
    IN [n \in numbers |-> CHOOSE p \in Players: worn[p] = n]

RegisteredNumbers(worn) ==
    LET wearers(n) == {p \in Players: worn[p] = n}
        numbers == {n \in Numbers: Cardinality(wearers(n)) = 1}
    IN [n \in numbers |-> CHOOSE p \in wearers(n): TRUE]

(* The reads that count, by their place; what they weigh together; the first.   *)
Usable(votes, allowed) ==
    {i \in DOMAIN votes: votes[i].confidence >= MinReadConfidence /\ votes[i].number \in allowed}
Cast(votes, of) == SumFunctionOnSet([i \in DOMAIN votes |-> votes[i].confidence], of)
First(of) == CHOOSE i \in of: \A j \in of: i <= j

Of(votes, usable, n) == {i \in usable: votes[i].number = n}

(* The heaviest number; of equal ones the one that was read first.              *)
Ahead(votes, usable, n, k) ==
    LET its(m) == Of(votes, usable, m)
    IN \/ Cast(votes, its(n)) > Cast(votes, its(k))
       \/ Cast(votes, its(n)) = Cast(votes, its(k)) /\ First(its(n)) < First(its(k))
Winner(votes, usable) ==
    LET numbers == {votes[i].number: i \in usable}
    IN CHOOSE n \in numbers: \A k \in numbers \ {n}: Ahead(votes, usable, n, k)

(* Faulty: the margin over the runner-up is not asked for.                      *)
VoteWithoutMargin(votes, allowed) ==
    LET usable == Usable(votes, allowed)
        winner == Winner(votes, usable)
        its == Of(votes, usable, winner)
    IN IF usable # {} /\ Cardinality(its) >= MinVotes
          /\ 100 * Cast(votes, its) >= MinShare * Cast(votes, usable)
       THEN winner ELSE Nobody

(* Faulty: the share is the winner's confidence per read of the track.          *)
VotePerRead(votes, allowed) ==
    LET usable == Usable(votes, allowed)
        winner == Winner(votes, usable)
        its == Of(votes, usable, winner)
        lead(n) == Cast(votes, its) - Cast(votes, Of(votes, usable, n))
    IN IF /\ usable # {} /\ Cardinality(its) >= MinVotes
          /\ Cast(votes, its) >= MinShare * Len(votes)
          /\ \A i \in usable \ its: 100 * lead(votes[i].number) >= MinMargin * Cast(votes, usable)
       THEN winner ELSE Nobody

(* vote: the heaviest number, if it has the votes, the share and the lead over  *)
(* every other.                                                                    *)
Vote(votes, allowed) ==
    LET usable == Usable(votes, allowed)
        winner == Winner(votes, usable)
        its == Of(votes, usable, winner)
        lead(n) == Cast(votes, its) - Cast(votes, Of(votes, usable, n))
    IN IF /\ usable # {} /\ Cardinality(its) >= MinVotes
          /\ 100 * Cast(votes, its) >= MinShare * Cast(votes, usable)
          /\ \A i \in usable \ its: 100 * lead(votes[i].number) >= MinMargin * Cast(votes, usable)
       THEN winner ELSE Nobody

-----------------------------------------------------------------------------
(* read_jerseys begins: nobody checked in under a number of his own skips it.   *)
LoadRoster ==
    /\ ocr = "waiting"
    /\ registered' = RegisteredNumbers(roster) /\ wore' = roster
    /\ ocr' = IF registered' = <<>> THEN "done" ELSE "reading"
    /\ UNCHANGED <<roster, reads, row, corrections>>

ReadCrop ==
    /\ ocr = "reading" /\ Len(reads) < MaxReads
    /\ \E n \in Numbers, c \in Confidences:
          reads' = Append(reads, [number |-> n, confidence |-> c])
    /\ UNCHANGED <<roster, registered, wore, ocr, row, corrections>>

(* The vote is written to the row; the foreign key refuses a player who was     *)
(* removed meanwhile, and the step fails.                                          *)
Attribute ==
    /\ ocr = "reading"
    /\ LET n == Vote(reads, DOMAIN registered) IN
       \/ /\ n = Nobody /\ ocr' = "done" /\ UNCHANGED row
       \/ /\ n # Nobody /\ roster[registered[n]] = Nobody
          /\ ocr' = "failed" /\ UNCHANGED row
       \/ /\ n # Nobody /\ roster[registered[n]] # Nobody
          /\ ocr' = "done" /\ row' = [number |-> n, player |-> registered[n]]
    /\ UNCHANGED <<roster, registered, wore, reads, corrections>>

(* PATCH and DELETE .../players/{id}: whatever the match's status. A row of a   *)
(* removed player is set to NULL by the foreign key.                               *)
UpdatePlayer(p) ==
    /\ corrections < MaxCorrections /\ roster[p] # Nobody
    /\ \E n \in Numbers \ {roster[p]}: roster' = [roster EXCEPT ![p] = n]
    /\ corrections' = corrections + 1
    /\ UNCHANGED <<registered, wore, reads, ocr, row>>

(* Faulty: the deletion leaves the reference in the track's row.                *)
RemovePlayerOnly(p) ==
    /\ corrections < MaxCorrections /\ roster[p] # Nobody
    /\ roster' = [roster EXCEPT ![p] = Nobody]
    /\ corrections' = corrections + 1
    /\ UNCHANGED <<registered, wore, reads, ocr, row>>

RemovePlayer(p) ==
    /\ corrections < MaxCorrections /\ roster[p] # Nobody
    /\ roster' = [roster EXCEPT ![p] = Nobody]
    /\ row' = IF row.player = p THEN [row EXCEPT !.player = Nobody] ELSE row
    /\ corrections' = corrections + 1
    /\ UNCHANGED <<registered, wore, reads, ocr>>

JerseyNext ==
    \/ LoadRoster \/ ReadCrop \/ Attribute
    \/ \E p \in Players: UpdatePlayer(p) \/ RemovePlayer(p)

JerseySpec == JerseyInit /\ [][JerseyNext]_jerseyVars

-----------------------------------------------------------------------------
(* The verdict is the reads', not their order's: exchanging two neighbours      *)
(* never changes it, though equal weights are ranked by first read               *)
(* (voting.py:112: the margin keeps ties from being answers).                     *)
Neighbour(i, j) == IF j = i THEN i + 1 ELSE IF j = i + 1 THEN i ELSE j
Exchanged(s, i) == [j \in DOMAIN s |-> s[Neighbour(i, j)]]

VerdictIgnoresOrder ==
    \A i \in 1..(Len(reads) - 1):
        Vote(Exchanged(reads, i), DOMAIN registered) = Vote(reads, DOMAIN registered)

(* Another read of the number that wins, however unsure, never loses it the     *)
(* track (voting.py:14-24: outliers are outvoted, more agreement is more certain). *)
AgreementIsKept ==
    [][LET n == Vote(reads, DOMAIN registered) IN
       Len(reads') > Len(reads) /\ n # Nobody /\ Last(reads').number = n
          => Vote(reads', DOMAIN registered) = n]_jerseyVars

(* A track is attributed only to a player who alone wore the number when the    *)
(* step read the roster, and who still is on it (cv.py:319-335,                    *)
(* models.py:504 SET NULL).                                                         *)
AttributionIsUnambiguous ==
    row.player # Nobody =>
        /\ {p \in Players: wore[p] = row.number} = {row.player}
        /\ roster[row.player] # Nobody
=============================================================================
