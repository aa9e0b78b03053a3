------------------------------ MODULE Bookings ------------------------------
(***************************************************************************)
(* The bookings of one field: matches are created by staff after a check   *)
(* for overlaps, edited and deleted before or after they are played.       *)
(*                                                                         *)
(* A staff request loads and checks in one step and writes in another, as  *)
(* in CheckIn: whatever else commits comes in between.  Time is a small    *)
(* range of hours.  Join codes and titles are left out.                    *)
(***************************************************************************)
EXTENDS Integers

CONSTANTS
  Matches,   \* ids of rows
  Desks,     \* members of staff with one request each
  Hours,     \* the last hour there is
  MaxEdits   \* bounds the reschedules

ASSUME BookingsAssumption == Hours \in Nat /\ MaxEdits \in Nat

VARIABLES
  match,     \* the rows of the table
  request,   \* what each desk is about to write
  knew,      \* history: which rows the overlap check of a match could see
  moved,     \* history: the matches that were rescheduled
  edits      \* reschedules so far

vars == <<match, request, knew, moved, edits>>

Windows == {w \in (0 .. Hours) \X (0 .. Hours) : w[1] < w[2]}
\* RECORDED stands for UPLOADING, PROCESSING and READY.
Statuses == {"SCHEDULED", "CHECK_IN", "RECORDING", "RECORDED", "FAILED"}
Rows     == [status : Statuses, from : 0 .. Hours, to : 0 .. Hours]
Absent   == [status |-> "none", from |-> 0, to |-> 0]
Idle     == [pc |-> "idle", id |-> {}, loaded |-> Absent, from |-> 0, to |-> 0, saw |-> {}]

Exists(m) == match[m].status # "none"
Booked    == {m \in Matches : Exists(m)}
ToPlay(m) == match[m].status \in {"SCHEDULED", "CHECK_IN", "RECORDING"}

BookingsTypeOK ==
  /\ match \in [Matches -> Rows \cup {Absent}]
  /\ request \in [Desks -> [pc : {"idle", "create", "edit"}, id : SUBSET Matches,
                            loaded : Rows \cup {Absent}, from : 0 .. Hours, to : 0 .. Hours,
                            saw : SUBSET Matches]]
  /\ knew \in [Matches -> SUBSET Matches]
  /\ moved \subseteq Matches
  /\ edits \in 0 .. MaxEdits

Init ==
  /\ match = [m \in Matches |-> Absent]
  /\ request = [d \in Desks |-> Idle]
  /\ knew = [m \in Matches |-> {}] /\ moved = {} /\ edits = 0

-----------------------------------------------------------------------------
Overlap(a, b) == a.from < b.to /\ a.to > b.from

\* Faulty variant: a match that is being recorded does not count.
InTheWayUntilKickOff(m, w) ==
  Exists(m) /\ match[m].status \notin {"FAILED", "RECORDING"}
            /\ Overlap(match[m], [from |-> w[1], to |-> w[2]])
\* create_match: what refuses a booking of window w.
InTheWay(m, w) ==
  Exists(m) /\ match[m].status # "FAILED" /\ Overlap(match[m], [from |-> w[1], to |-> w[2]])

CreateChecks(d, w) ==
  /\ request[d] = Idle
  /\ \A m \in Matches : ~InTheWay(m, w)
  /\ request' = [request EXCEPT ![d] =
                   [pc |-> "create", id |-> {}, loaded |-> Absent,
                    from |-> w[1], to |-> w[2], saw |-> Booked]]
  /\ UNCHANGED <<match, knew, moved, edits>>

CreateInserts(d) ==
  /\ request[d].pc = "create"
  /\ \E m \in Matches :
       /\ ~Exists(m)
       /\ match' = [match EXCEPT ![m] = [status |-> "SCHEDULED", from |-> request[d].from,
                                         to |-> request[d].to]]
       /\ knew' = [knew EXCEPT ![m] = request[d].saw]
       /\ moved' = moved \ {m}
  /\ request' = [request EXCEPT ![d] = Idle]
  /\ UNCHANGED edits

\* update_match: either time may be given, and the order is checked against
\* the other one as it was loaded.
EditLoads(d, m, w) ==
  /\ request[d] = Idle /\ edits < MaxEdits
  /\ match[m].status \in {"SCHEDULED", "CHECK_IN"}
  /\ <<match[m].from, match[m].to>> # w
  /\ request' = [request EXCEPT ![d] =
                   [pc |-> "edit", id |-> {m}, loaded |-> match[m],
                    from |-> w[1], to |-> w[2], saw |-> {}]]
  /\ edits' = edits + 1
  /\ UNCHANGED <<match, knew, moved>>

\* The UPDATE names the columns that differ from what was loaded.
Edited(m, r) ==
  [status |-> match[m].status,
   from   |-> IF r.from # r.loaded.from THEN r.from ELSE match[m].from,
   to     |-> IF r.to # r.loaded.to THEN r.to ELSE match[m].to]

\* Faulty variant: matches_time_order is missing.
AnyOrder(row) == TRUE
InOrder(row) == row.from < row.to

\* A row that is gone, or a row against matches_time_order, fails the request.
EditWrites(d) ==
  /\ request[d].pc = "edit"
  /\ LET written == {m \in request[d].id : InOrder(Edited(m, request[d]))} IN
       /\ match' = [m \in Matches |-> IF m \in written THEN Edited(m, request[d])
                                                       ELSE match[m]]
       /\ moved' = moved \cup written
  /\ request' = [request EXCEPT ![d] = Idle]
  /\ UNCHANGED <<knew, edits>>

\* A request that has not yet written finds no row m any more.
Forgotten(d, m) == [request[d] EXCEPT !.saw = @ \ {m}, !.id = @ \ {m}]

\* delete_match, at any status.
DeleteMatch(m) ==
  /\ Exists(m)
  /\ match' = [match EXCEPT ![m] = Absent]
  /\ knew' = [x \in Matches |-> IF x = m THEN {} ELSE knew[x] \ {m}]
  /\ request' = [d \in Desks |-> Forgotten(d, m)]
  /\ moved' = moved \ {m}
  /\ UNCHANGED edits

\* A match is played, recorded and processed: see CheckIn, Recording, Pipeline.
Advances(before, after) ==
  \/ before = "SCHEDULED" /\ after = "CHECK_IN"
  \/ before \in {"SCHEDULED", "CHECK_IN"} /\ after = "RECORDING"
  \/ before = "RECORDING" /\ after = "RECORDED"
  \/ before = "RECORDED" /\ after = "FAILED"
  \/ before = "FAILED" /\ after = "RECORDED"

Progresses(m, status) ==
  /\ Advances(match[m].status, status)
  /\ match' = [match EXCEPT ![m].status = status]
  /\ UNCHANGED <<request, knew, moved, edits>>

Next ==
  \/ \E d \in Desks :
       \/ \E w \in Windows : CreateChecks(d, w) \/ \E m \in Matches : EditLoads(d, m, w)
       \/ CreateInserts(d) \/ EditWrites(d)
  \/ \E m \in Matches : DeleteMatch(m) \/ \E status \in Statuses : Progresses(m, status)

Spec == Init /\ [][Next]_vars

-----------------------------------------------------------------------------
\* Every match ends after it starts, although two edits that each respect the
\* order may move one end each.
TimesOrdered == \A m \in Booked : match[m].from < match[m].to

DoubleBooked(m, n) == m # n /\ ToPlay(m) /\ ToPlay(n) /\ Overlap(match[m], match[n])

\* One camera, one match at a time: two matches still to be played share an
\* hour only when one of them was rescheduled, or when each was checked before
\* the other was there.  The slot of a failed match that is given away, and the
\* failed match that is processed again, do not collide.
DoubleBookingIsExplained ==
  \A m, n \in Matches :
    DoubleBooked(m, n) => \/ {m, n} \cap moved # {}
                          \/ m \notin knew[n] /\ n \notin knew[m]
=============================================================================
