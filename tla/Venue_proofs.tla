---------------------------- MODULE Venue_proofs ----------------------------
(***************************************************************************)
(* Proofs about Bookings, for any number of matches, members of staff,     *)
(* hours and reschedules, and about Migrations, for any history of         *)
(* commands.                                                               *)
(***************************************************************************)
EXTENDS Bookings, Migrations, SequenceTheorems, TLAPS

(***************************************************************************)
(*                             The bookings                                *)
(***************************************************************************)
\* What a request knows is of rows that exist: a deleted row is forgotten.
KnownExist ==
  /\ \A m \in Matches : knew[m] \subseteq Booked
  /\ \A d \in Desks : request[d].saw \subseteq Booked /\ request[d].id \subseteq Booked

\* A match that could be seen when n was checked, that neither has been
\* rescheduled since, and that is still to be played, does not overlap it.
CheckedApart ==
  \A m, n \in Matches :
    m \in knew[n] /\ m \notin moved /\ n \notin moved /\ ToPlay(m) =>
      ~Overlap(match[m], match[n])

\* The same of a creation that is checked and not yet written.
PendingApart ==
  \A d \in Desks : \A m \in Matches :
    request[d].pc = "create" /\ m \in request[d].saw /\ m \notin moved /\ ToPlay(m) =>
      ~Overlap(match[m], request[d])

PendingOrdered ==
  \A d \in Desks : request[d].pc = "create" => request[d].from < request[d].to

\* The strengthening that is inductive.
BookingsInv ==
  BookingsTypeOK /\ KnownExist /\ CheckedApart /\ PendingApart /\ PendingOrdered
                 /\ TimesOrdered

-----------------------------------------------------------------------------
LEMMA BookingsInitially == Init => BookingsInv
<1> SUFFICES ASSUME Init PROVE BookingsInv OBVIOUS
<1> USE BookingsAssumption
<1>1. BookingsTypeOK
  BY DEF Init, BookingsTypeOK, Idle, Absent, Rows
<1>2. Booked = {}
  BY DEF Init, Booked, Exists, Absent
<1>3. KnownExist /\ CheckedApart
  BY DEF Init, KnownExist, CheckedApart, Idle
<1>4. PendingApart /\ PendingOrdered
  BY DEF Init, PendingApart, PendingOrdered, Idle
<1>5. TimesOrdered
  BY <1>2 DEF TimesOrdered
<1> QED BY <1>1, <1>3, <1>4, <1>5 DEF BookingsInv

LEMMA CheckKeeps ==
  ASSUME BookingsInv, NEW d \in Desks, NEW w \in Windows, CreateChecks(d, w)
  PROVE  BookingsInv'
<1> USE BookingsAssumption DEF BookingsInv
<1>1. /\ match' = match /\ knew' = knew /\ moved' = moved /\ edits' = edits
      /\ request' = [request EXCEPT ![d] =
                       [pc |-> "create", id |-> {}, loaded |-> Absent,
                        from |-> w[1], to |-> w[2], saw |-> Booked]]
      /\ \A m \in Matches : ~InTheWay(m, w)
  BY DEF CreateChecks
<1>2. w \in (0 .. Hours) \X (0 .. Hours) /\ w[1] < w[2]
  BY DEF Windows
<1>3. /\ request'[d] = [pc |-> "create", id |-> {}, loaded |-> Absent,
                        from |-> w[1], to |-> w[2], saw |-> Booked]
      /\ \A e \in Desks \ {d} : request'[e] = request[e]
  BY <1>1 DEF BookingsTypeOK, Idle
<1>4. Booked' = Booked /\ Booked \subseteq Matches
  BY <1>1 DEF Booked, Exists
<1>5. BookingsTypeOK'
  BY <1>1, <1>2, <1>3, <1>4 DEF BookingsTypeOK
<1>6. KnownExist' /\ TimesOrdered'
  BY <1>1, <1>3, <1>4 DEF KnownExist, TimesOrdered
<1>7. CheckedApart'
  BY <1>1 DEF CheckedApart, ToPlay
<1>8. PendingApart'
  <2> SUFFICES ASSUME NEW e \in Desks, NEW m \in Matches, request'[e].pc = "create",
                      m \in request'[e].saw, m \notin moved', ToPlay(m)'
               PROVE  ~Overlap(match'[m], request'[e])
    BY DEF PendingApart, Overlap
  <2>1. CASE e = d
    <3>1. Exists(m) /\ match[m].status # "FAILED"
      BY <1>1 DEF ToPlay, Exists
    <3>2. ~Overlap(match[m], [from |-> w[1], to |-> w[2]])
      BY <1>1, <3>1 DEF InTheWay
    <3> QED BY <1>1, <1>3, <2>1, <3>2 DEF Overlap
  <2>2. CASE e # d
    BY <1>1, <1>3, <2>2 DEF PendingApart, ToPlay
  <2> QED BY <2>1, <2>2
<1>9. PendingOrdered'
  BY <1>2, <1>3 DEF PendingOrdered
<1> QED BY <1>5, <1>6, <1>7, <1>8, <1>9

LEMMA InsertKeeps ==
  ASSUME BookingsInv, NEW d \in Desks, CreateInserts(d)
  PROVE  BookingsInv'
<1> USE BookingsAssumption DEF BookingsInv
<1>1. PICK m \in Matches :
        /\ ~Exists(m)
        /\ match' = [match EXCEPT ![m] = [status |-> "SCHEDULED", from |-> request[d].from,
                                          to |-> request[d].to]]
        /\ knew' = [knew EXCEPT ![m] = request[d].saw]
        /\ moved' = moved \ {m}
  BY DEF CreateInserts
<1>2. /\ request[d].pc = "create" /\ edits' = edits
      /\ request' = [request EXCEPT ![d] = Idle]
  BY DEF CreateInserts
<1>3. /\ match'[m] = [status |-> "SCHEDULED", from |-> request[d].from, to |-> request[d].to]
      /\ \A x \in Matches \ {m} : match'[x] = match[x]
      /\ knew'[m] = request[d].saw
      /\ \A x \in Matches \ {m} : knew'[x] = knew[x]
      /\ request'[d] = Idle
      /\ \A e \in Desks \ {d} : request'[e] = request[e]
  BY <1>1, <1>2 DEF BookingsTypeOK
<1>4. m \notin Booked /\ Booked' = Booked \cup {m}
  BY <1>1, <1>3 DEF Booked, Exists
<1>5. BookingsTypeOK'
  <2>1. match'[m] \in Rows
    BY <1>3 DEF BookingsTypeOK, Rows, Statuses
  <2>2. match' \in [Matches -> Rows \cup {Absent}]
    BY <1>1, <1>3, <2>1 DEF BookingsTypeOK
  <2> QED BY <1>1, <1>2, <2>2 DEF BookingsTypeOK, Idle
<1>6. KnownExist'
  BY <1>3, <1>4 DEF KnownExist, Idle
<1>7. CheckedApart'
  <2> SUFFICES ASSUME NEW a \in Matches, NEW b \in Matches, a \in knew'[b],
                      a \notin moved', b \notin moved', ToPlay(a)'
               PROVE  ~Overlap(match'[a], match'[b])
    BY DEF CheckedApart, Overlap
  <2>1. a # m
    BY <1>3, <1>4 DEF KnownExist
  <2>2. CASE b = m
    BY <1>1, <1>2, <1>3, <2>1, <2>2 DEF PendingApart, ToPlay, Overlap
  <2>3. CASE b # m
    BY <1>1, <1>3, <2>1, <2>3 DEF CheckedApart, ToPlay
  <2> QED BY <2>2, <2>3
<1>8. PendingApart'
  <2> SUFFICES ASSUME NEW e \in Desks, NEW x \in Matches, request'[e].pc = "create",
                      x \in request'[e].saw, x \notin moved', ToPlay(x)'
               PROVE  ~Overlap(match'[x], request'[e])
    BY DEF PendingApart, Overlap
  <2>1. e # d
    BY <1>3 DEF Idle
  <2>2. x # m
    BY <1>3, <1>4, <2>1 DEF KnownExist
  <2> QED BY <1>1, <1>3, <2>1, <2>2 DEF PendingApart, ToPlay
<1>9. PendingOrdered'
  BY <1>3 DEF PendingOrdered, Idle
<1>10. TimesOrdered'
  <2> SUFFICES ASSUME NEW x \in Booked' PROVE match'[x].from < match'[x].to
    BY DEF TimesOrdered
  <2>1. CASE x = m
    BY <1>2, <1>3, <2>1 DEF PendingOrdered
  <2>2. CASE x # m
    BY <1>3, <1>4, <2>2 DEF TimesOrdered, Booked
  <2> QED BY <2>1, <2>2
<1> QED BY <1>5, <1>6, <1>7, <1>8, <1>9, <1>10

LEMMA LoadKeeps ==
  ASSUME BookingsInv, NEW d \in Desks, NEW w \in Windows, NEW m \in Matches,
         EditLoads(d, m, w)
  PROVE  BookingsInv'
<1> USE BookingsAssumption DEF BookingsInv
<1>1. /\ match' = match /\ knew' = knew /\ moved' = moved
      /\ edits < MaxEdits /\ edits' = edits + 1
      /\ request' = [request EXCEPT ![d] =
                       [pc |-> "edit", id |-> {m}, loaded |-> match[m],
                        from |-> w[1], to |-> w[2], saw |-> {}]]
  BY DEF EditLoads
<1>2. /\ request'[d] = [pc |-> "edit", id |-> {m}, loaded |-> match[m],
                        from |-> w[1], to |-> w[2], saw |-> {}]
      /\ \A e \in Desks \ {d} : request'[e] = request[e]
  BY <1>1 DEF BookingsTypeOK, Idle
<1>3. w \in (0 .. Hours) \X (0 .. Hours)
  BY DEF Windows
<1>4. BookingsTypeOK'
  BY <1>1, <1>2, <1>3 DEF BookingsTypeOK
<1>5. KnownExist' /\ TimesOrdered'
  <2>1. m \in Booked /\ Booked' = Booked
    BY <1>1 DEF EditLoads, Booked, Exists
  <2> QED BY <1>1, <1>2, <2>1 DEF KnownExist, TimesOrdered
<1>6. CheckedApart'
  BY <1>1 DEF CheckedApart, ToPlay
<1>7. PendingApart' /\ PendingOrdered'
  BY <1>1, <1>2 DEF PendingApart, PendingOrdered, ToPlay
<1> QED BY <1>4, <1>5, <1>6, <1>7

\* An UPDATE changes the window of a row, never that there is one, nor its
\* status, and the row is recorded as moved.
LEMMA WriteKeeps ==
  ASSUME BookingsInv, NEW d \in Desks, EditWrites(d)
  PROVE  BookingsInv'
<1> USE BookingsAssumption DEF BookingsInv
<1> DEFINE written == {m \in request[d].id : InOrder(Edited(m, request[d]))}
<1>1. /\ match' = [m \in Matches |-> IF m \in written THEN Edited(m, request[d])
                                                      ELSE match[m]]
      /\ moved' = moved \cup written
      /\ request' = [request EXCEPT ![d] = Idle]
      /\ knew' = knew /\ edits' = edits
  BY DEF EditWrites
<1>2. written \subseteq Matches
  BY DEF BookingsTypeOK
<1>3. /\ request'[d] = Idle
      /\ \A e \in Desks \ {d} : request'[e] = request[e]
  BY <1>1 DEF BookingsTypeOK
<1>4. ASSUME NEW m \in Matches
      PROVE  /\ Edited(m, request[d]).status = match[m].status
             /\ match[m] \in Rows => Edited(m, request[d]) \in Rows
             /\ match[m] = Absent => match[m] \notin Rows
  BY DEF BookingsTypeOK, Edited, Rows, Absent, Statuses
<1>5. \A m \in Matches : match'[m].status = match[m].status
  BY <1>1, <1>4
<1>6. \A m \in Matches \ written : match'[m] = match[m]
  BY <1>1
<1>7. Booked' = Booked
  BY <1>5 DEF Booked, Exists
<1>8. \A m \in written : match[m] \in Rows
  <2> SUFFICES ASSUME NEW m \in written PROVE match[m] \in Rows
    OBVIOUS
  <2>1. m \in Matches /\ match[m].status # "none"
    BY <1>2 DEF KnownExist, Booked, Exists
  <2>2. match[m] # Absent
    BY <2>1 DEF Absent
  <2> QED BY <2>1, <2>2 DEF BookingsTypeOK
<1>9. BookingsTypeOK'
  <2>1. \A m \in Matches : match'[m] \in Rows \cup {Absent}
    BY <1>1, <1>4, <1>6, <1>8 DEF BookingsTypeOK
  <2> QED BY <1>1, <1>2, <2>1 DEF BookingsTypeOK, Idle
<1>10. KnownExist'
  BY <1>1, <1>3, <1>7 DEF KnownExist, Idle
<1>11. CheckedApart'
  BY <1>1, <1>5, <1>6 DEF CheckedApart, ToPlay
<1>12. PendingApart' /\ PendingOrdered'
  BY <1>1, <1>3, <1>5, <1>6 DEF PendingApart, PendingOrdered, ToPlay, Idle
<1>13. TimesOrdered'
  BY <1>1, <1>6, <1>7 DEF TimesOrdered, Booked, InOrder
<1> QED BY <1>9, <1>10, <1>11, <1>12, <1>13

LEMMA DeleteKeeps ==
  ASSUME BookingsInv, NEW m \in Matches, DeleteMatch(m)
  PROVE  BookingsInv'
<1> USE BookingsAssumption DEF BookingsInv
<1>1. /\ match' = [match EXCEPT ![m] = Absent]
      /\ knew' = [x \in Matches |-> IF x = m THEN {} ELSE knew[x] \ {m}]
      /\ request' = [d \in Desks |-> Forgotten(d, m)]
      /\ moved' = moved \ {m} /\ edits' = edits
  BY DEF DeleteMatch
<1>2. /\ match'[m] = Absent
      /\ \A x \in Matches \ {m} : match'[x] = match[x]
  BY <1>1 DEF BookingsTypeOK
<1>3. Booked' = Booked \ {m} /\ ~ToPlay(m)'
  BY <1>2 DEF Booked, Exists, Absent, ToPlay
<1>4. ASSUME NEW d \in Desks
      PROVE  /\ request'[d].pc = request[d].pc
             /\ request'[d].from = request[d].from
             /\ request'[d].to = request[d].to
             /\ request'[d].loaded = request[d].loaded
             /\ request'[d].saw = request[d].saw \ {m}
             /\ request'[d].id = request[d].id \ {m}
             /\ request'[d] \in [pc : {"idle", "create", "edit"}, id : SUBSET Matches,
                                 loaded : Rows \cup {Absent}, from : 0 .. Hours,
                                 to : 0 .. Hours, saw : SUBSET Matches]
  BY <1>1 DEF Forgotten, BookingsTypeOK
<1>5. BookingsTypeOK'
  BY <1>1, <1>2, <1>4 DEF BookingsTypeOK
<1>6. KnownExist'
  BY <1>1, <1>3, <1>4 DEF KnownExist
<1>7. CheckedApart'
  <2> SUFFICES ASSUME NEW a \in Matches, NEW b \in Matches, a \in knew'[b],
                      a \notin moved', b \notin moved', ToPlay(a)'
               PROVE  ~Overlap(match'[a], match'[b])
    BY DEF CheckedApart, Overlap
  <2>1. a # m /\ b # m
    BY <1>1, <1>3
  <2> QED BY <1>1, <1>2, <2>1 DEF CheckedApart, ToPlay
<1>8. PendingApart'
  <2> SUFFICES ASSUME NEW e \in Desks, NEW x \in Matches, request'[e].pc = "create",
                      x \in request'[e].saw, x \notin moved', ToPlay(x)'
               PROVE  ~Overlap(match'[x], request'[e])
    BY DEF PendingApart, Overlap
  <2>1. x # m
    BY <1>3
  <2> QED BY <1>1, <1>2, <1>4, <2>1 DEF PendingApart, ToPlay, Overlap
<1>9. PendingOrdered'
  BY <1>4 DEF PendingOrdered
<1>10. TimesOrdered'
  BY <1>2, <1>3 DEF TimesOrdered, Booked
<1> QED BY <1>5, <1>6, <1>7, <1>8, <1>9, <1>10

\* No status leads back to one that is still to be played.
LEMMA ProgressKeeps ==
  ASSUME BookingsInv, NEW m \in Matches, NEW status \in Statuses, Progresses(m, status)
  PROVE  BookingsInv'
<1> USE BookingsAssumption DEF BookingsInv
<1>1. /\ match' = [match EXCEPT ![m].status = status]
      /\ Advances(match[m].status, status)
      /\ UNCHANGED <<request, knew, moved, edits>>
  BY DEF Progresses
<1>2. match[m] \in Rows
  BY <1>1 DEF Advances, BookingsTypeOK, Absent
<1>3. /\ match'[m] = [status |-> status, from |-> match[m].from, to |-> match[m].to]
      /\ \A x \in Matches \ {m} : match'[x] = match[x]
  BY <1>1, <1>2 DEF BookingsTypeOK, Rows
<1>4. \A x \in Matches : /\ match'[x].from = match[x].from
                         /\ match'[x].to = match[x].to
                         /\ ToPlay(x)' => ToPlay(x)
                         /\ Exists(x)' <=> Exists(x)
  BY <1>1, <1>2, <1>3 DEF Advances, ToPlay, Exists, Rows, Statuses
<1>5. Booked' = Booked
  BY <1>4 DEF Booked
<1>6. BookingsTypeOK'
  <2>1. match'[m] \in Rows
    BY <1>2, <1>3 DEF Rows
  <2> QED BY <1>1, <1>3, <2>1 DEF BookingsTypeOK
<1>7. KnownExist' /\ PendingOrdered'
  BY <1>1, <1>5 DEF KnownExist, PendingOrdered
<1>8. CheckedApart' /\ PendingApart'
  BY <1>1, <1>4 DEF CheckedApart, PendingApart, Overlap
<1>9. TimesOrdered'
  BY <1>4, <1>5 DEF TimesOrdered, Booked
<1> QED BY <1>6, <1>7, <1>8, <1>9

-----------------------------------------------------------------------------
THEOREM BookingsInvariant == Spec => []BookingsInv
<1>1. BookingsInv /\ [Next]_vars => BookingsInv'
  <2> SUFFICES ASSUME BookingsInv, [Next]_vars PROVE BookingsInv'
    OBVIOUS
  <2>1. ASSUME NEW d \in Desks, NEW w \in Windows, CreateChecks(d, w) PROVE BookingsInv'
    BY <2>1, CheckKeeps
  <2>2. ASSUME NEW d \in Desks, NEW w \in Windows, NEW m \in Matches, EditLoads(d, m, w)
        PROVE  BookingsInv'
    BY <2>2, LoadKeeps
  <2>3. ASSUME NEW d \in Desks, CreateInserts(d) PROVE BookingsInv'
    BY <2>3, InsertKeeps
  <2>4. ASSUME NEW d \in Desks, EditWrites(d) PROVE BookingsInv'
    BY <2>4, WriteKeeps
  <2>5. ASSUME NEW m \in Matches, DeleteMatch(m) PROVE BookingsInv'
    BY <2>5, DeleteKeeps
  <2>6. ASSUME NEW m \in Matches, NEW status \in Statuses, Progresses(m, status)
        PROVE  BookingsInv'
    BY <2>6, ProgressKeeps
  <2>7. CASE UNCHANGED vars
    BY <2>7 DEF vars, BookingsInv, BookingsTypeOK, KnownExist, CheckedApart, PendingApart,
                PendingOrdered, TimesOrdered, Booked, Exists, ToPlay
  <2> QED BY <2>1, <2>2, <2>3, <2>4, <2>5, <2>6, <2>7 DEF Next
<1> QED BY <1>1, BookingsInitially, PTL DEF Spec

\* A match always ends after it starts, whatever edits race: update_match
\* (match_service.py:192) and the CHECK constraint of the table.
THEOREM TimesOrderedAlways == Spec => []TimesOrdered
<1>1. BookingsInv => TimesOrdered
  BY DEF BookingsInv
<1> QED BY <1>1, BookingsInvariant, PTL

\* A pitch is booked twice only after a reschedule or when neither creation
\* could see the other (match_service.py:147-154, 195).
THEOREM DoubleBookingsAreExplained == Spec => []DoubleBookingIsExplained
<1>1. BookingsInv => DoubleBookingIsExplained
  <2> SUFFICES ASSUME BookingsInv, NEW m \in Matches, NEW n \in Matches,
                      DoubleBooked(m, n), {m, n} \cap moved = {}
               PROVE  m \notin knew[n] /\ n \notin knew[m]
    BY DEF DoubleBookingIsExplained
  <2>1. Overlap(match[m], match[n]) /\ Overlap(match[n], match[m])
    BY DEF DoubleBooked, Overlap
  <2> QED BY <2>1 DEF DoubleBooked, BookingsInv, CheckedApart
<1> QED BY <1>1, BookingsInvariant, PTL

-----------------------------------------------------------------------------
(***************************************************************************)
(*                            The migrations                               *)
(***************************************************************************)
BaseTables == {Initial[i] : i \in 1..13}
TypesOf(names) == UNION {Database[t].types : t \in names}

\* What a database at revision r consists of.
TablesAt(r) ==
  CASE r = 0 -> {} [] r \in {1, 2} -> BaseTables [] r = 3 -> BaseTables \cup {"video_segments"}
TypesAt(r)   == IF r = 0 THEN {} ELSE TypesOf(BaseTables)
ColumnsAt(r) == IF r < 2 THEN {} ELSE {"token_hash"}

MigrationsTypeOK ==
  revision \in 0..Newest /\ goal \in (0..Newest) \cup {NoGoal} /\ done \in Nat

\* What a rollback restores is a database at some revision.
SavedIsWhole ==
  /\ saved.revision \in 0..Newest
  /\ saved.tables = TablesAt(saved.revision)
  /\ saved.types = TypesAt(saved.revision)
  /\ saved.columns = ColumnsAt(saved.revision)

Whole ==
  /\ done = 0
  /\ tables = TablesAt(revision) /\ types = TypesAt(revision) /\ columns = ColumnsAt(revision)

\* What there is after so many statements of each of the six migrations.
CreatingInitial ==
  /\ revision = 0 /\ goal > 0 /\ done <= 13
  /\ tables = {Initial[i] : i \in 1..done} /\ types = TypesOf(tables) /\ columns = {}

AddingToken ==
  /\ revision = 1 /\ goal > 1 /\ done <= 1
  /\ tables = BaseTables /\ types = TypesOf(BaseTables)
  /\ columns = IF done = 0 THEN {} ELSE {"token_hash"}

CreatingSegments ==
  /\ revision = 2 /\ goal = 3 /\ done <= 1
  /\ tables = IF done = 0 THEN BaseTables ELSE BaseTables \cup {"video_segments"}
  /\ types = TypesOf(BaseTables) /\ columns = {"token_hash"}

DroppingSegments ==
  /\ revision = 3 /\ goal < 3 /\ done <= 1
  /\ tables = IF done = 0 THEN BaseTables \cup {"video_segments"} ELSE BaseTables
  /\ types = TypesOf(BaseTables) /\ columns = {"token_hash"}

DroppingToken ==
  /\ revision = 2 /\ goal < 2 /\ done <= 1
  /\ tables = BaseTables /\ types = TypesOf(BaseTables)
  /\ columns = IF done = 0 THEN {"token_hash"} ELSE {}

DroppingInitial ==
  /\ revision = 1 /\ goal = 0 /\ done <= 22
  /\ tables = {DropOrder[i] : i \in (done + 1)..13}
  /\ types = TypesOf(BaseTables) \ {TypeNames[i] : i \in 1..(done - 13)}
  /\ columns = {}

PartWay ==
  IF Underway
  THEN \/ CreatingInitial \/ AddingToken \/ CreatingSegments
       \/ DroppingSegments \/ DroppingToken \/ DroppingInitial
  ELSE Whole

MigrationsInv == MigrationsTypeOK /\ SavedIsWhole /\ PartWay

-----------------------------------------------------------------------------

\* The tables each table refers to, and the types it needs.
LEMMA SchemaTable ==
  /\ RefersTo("otp_challenges") = {} /\ Database["otp_challenges"].types = {}
  /\ RefersTo("users") = {} /\ Database["users"].types = {"user_role"}
  /\ RefersTo("venues") = {} /\ Database["venues"].types = {}
  /\ RefersTo("fields") = {"venues"} /\ Database["fields"].types = {}
  /\ RefersTo("refresh_tokens") = {"users"} /\ Database["refresh_tokens"].types = {}
  /\ RefersTo("venue_members") = {"users", "venues"} /\ Database["venue_members"].types = {"venue_role"}
  /\ RefersTo("cameras") = {"fields"} /\ Database["cameras"].types = {"camera_status"}
  /\ RefersTo("matches") = {"fields", "users"} /\ Database["matches"].types = {"match_status"}
  /\ RefersTo("match_players") = {"matches", "users"} /\ Database["match_players"].types = {"team"}
  /\ RefersTo("videos") = {"matches"} /\ Database["videos"].types = {"video_status"}
  /\ RefersTo("highlights") = {"match_players", "matches", "videos"} /\ Database["highlights"].types = {"highlight_type"}
  /\ RefersTo("player_tracks") = {"match_players", "videos"} /\ Database["player_tracks"].types = {}
  /\ RefersTo("processing_jobs") = {"videos"} /\ Database["processing_jobs"].types = {"job_step", "job_status"}
  /\ RefersTo("video_segments") = {"videos"} /\ Database["video_segments"].types = {}
<1>1. RefersTo("otp_challenges") = {} /\ Database["otp_challenges"].types = {}
  <2>1. Database["otp_challenges"] = OtpChallengesTable
    BY DEF Database
  <2>2. OtpChallengesTable.refs = <<>> /\ OtpChallengesTable.types = {}
    BY DEF OtpChallengesTable, Table, NoReferences
  <2>3. DOMAIN (<<>>) = {}
    OBVIOUS
  <2> QED
    BY <2>1, <2>2, <2>3 DEF RefersTo
<1>2. RefersTo("users") = {} /\ Database["users"].types = {"user_role"}
  <2>1. Database["users"] = UsersTable
    BY DEF Database
  <2>2. UsersTable.refs = <<>> /\ UsersTable.types = {"user_role"}
    BY DEF UsersTable, Table, NoReferences
  <2>3. DOMAIN (<<>>) = {}
    OBVIOUS
  <2> QED
    BY <2>1, <2>2, <2>3 DEF RefersTo
<1>3. RefersTo("venues") = {} /\ Database["venues"].types = {}
  <2>1. Database["venues"] = VenuesTable
    BY DEF Database
  <2>2. VenuesTable.refs = <<>> /\ VenuesTable.types = {}
    BY DEF VenuesTable, Table, NoReferences
  <2>3. DOMAIN (<<>>) = {}
    OBVIOUS
  <2> QED
    BY <2>1, <2>2, <2>3 DEF RefersTo
<1>4. RefersTo("fields") = {"venues"} /\ Database["fields"].types = {}
  <2>1. Database["fields"] = FieldsTable
    BY DEF Database
  <2>2. DOMAIN FieldsTable.refs = {"venue_id"} /\ FieldsTable.types = {}
    BY DEF FieldsTable, Table
  <2>3. /\ FieldsTable.refs["venue_id"].to = "venues"
    BY DEF FieldsTable, Table, Cascade, SetNull, Restricted
  <2> QED
    BY <2>1, <2>2, <2>3 DEF RefersTo
<1>5. RefersTo("refresh_tokens") = {"users"} /\ Database["refresh_tokens"].types = {}
  <2>1. Database["refresh_tokens"] = RefreshTokensTable
    BY DEF Database
  <2>2. DOMAIN RefreshTokensTable.refs = {"user_id"} /\ RefreshTokensTable.types = {}
    BY DEF RefreshTokensTable, Table
  <2>3. /\ RefreshTokensTable.refs["user_id"].to = "users"
    BY DEF RefreshTokensTable, Table, Cascade, SetNull, Restricted
  <2> QED
    BY <2>1, <2>2, <2>3 DEF RefersTo
<1>6. RefersTo("venue_members") = {"users", "venues"} /\ Database["venue_members"].types = {"venue_role"}
  <2>1. Database["venue_members"] = VenueMembersTable
    BY DEF Database
  <2>2. DOMAIN VenueMembersTable.refs = {"venue_id", "user_id"} /\ VenueMembersTable.types = {"venue_role"}
    BY DEF VenueMembersTable, Table
  <2>3. /\ VenueMembersTable.refs["venue_id"].to = "venues"
        /\ VenueMembersTable.refs["user_id"].to = "users"
    BY DEF VenueMembersTable, Table, Cascade, SetNull, Restricted
  <2> QED
    BY <2>1, <2>2, <2>3 DEF RefersTo
<1>7. RefersTo("cameras") = {"fields"} /\ Database["cameras"].types = {"camera_status"}
  <2>1. Database["cameras"] = CamerasTable
    BY DEF Database
  <2>2. DOMAIN CamerasTable.refs = {"field_id"} /\ CamerasTable.types = {"camera_status"}
    BY DEF CamerasTable, Table
  <2>3. /\ CamerasTable.refs["field_id"].to = "fields"
    BY DEF CamerasTable, Table, Cascade, SetNull, Restricted
  <2> QED
    BY <2>1, <2>2, <2>3 DEF RefersTo
<1>8. RefersTo("matches") = {"fields", "users"} /\ Database["matches"].types = {"match_status"}
  <2>1. Database["matches"] = MatchesTable
    BY DEF Database
  <2>2. DOMAIN MatchesTable.refs = {"field_id", "created_by"} /\ MatchesTable.types = {"match_status"}
    BY DEF MatchesTable, Table
  <2>3. /\ MatchesTable.refs["field_id"].to = "fields"
        /\ MatchesTable.refs["created_by"].to = "users"
    BY DEF MatchesTable, Table, Cascade, SetNull, Restricted
  <2> QED
    BY <2>1, <2>2, <2>3 DEF RefersTo
<1>9. RefersTo("match_players") = {"matches", "users"} /\ Database["match_players"].types = {"team"}
  <2>1. Database["match_players"] = MatchPlayersTable
    BY DEF Database
  <2>2. DOMAIN MatchPlayersTable.refs = {"match_id", "user_id"} /\ MatchPlayersTable.types = {"team"}
    BY DEF MatchPlayersTable, Table
  <2>3. /\ MatchPlayersTable.refs["match_id"].to = "matches"
        /\ MatchPlayersTable.refs["user_id"].to = "users"
    BY DEF MatchPlayersTable, Table, Cascade, SetNull, Restricted
  <2> QED
    BY <2>1, <2>2, <2>3 DEF RefersTo
<1>10. RefersTo("videos") = {"matches"} /\ Database["videos"].types = {"video_status"}
  <2>1. Database["videos"] = VideosTable
    BY DEF Database
  <2>2. DOMAIN VideosTable.refs = {"match_id"} /\ VideosTable.types = {"video_status"}
    BY DEF VideosTable, Table
  <2>3. /\ VideosTable.refs["match_id"].to = "matches"
    BY DEF VideosTable, Table, Cascade, SetNull, Restricted
  <2> QED
    BY <2>1, <2>2, <2>3 DEF RefersTo
<1>11. RefersTo("highlights") = {"match_players", "matches", "videos"} /\ Database["highlights"].types = {"highlight_type"}
  <2>1. Database["highlights"] = HighlightsTable
    BY DEF Database
  <2>2. DOMAIN HighlightsTable.refs = {"match_id", "video_id", "player_id"} /\ HighlightsTable.types = {"highlight_type"}
    BY DEF HighlightsTable, Table
  <2>3. /\ HighlightsTable.refs["match_id"].to = "matches"
        /\ HighlightsTable.refs["video_id"].to = "videos"
        /\ HighlightsTable.refs["player_id"].to = "match_players"
    BY DEF HighlightsTable, Table, Cascade, SetNull, Restricted
  <2> QED
    BY <2>1, <2>2, <2>3 DEF RefersTo
<1>12. RefersTo("player_tracks") = {"match_players", "videos"} /\ Database["player_tracks"].types = {}
  <2>1. Database["player_tracks"] = PlayerTracksTable
    BY DEF Database
  <2>2. DOMAIN PlayerTracksTable.refs = {"video_id", "player_id"} /\ PlayerTracksTable.types = {}
    BY DEF PlayerTracksTable, Table
  <2>3. /\ PlayerTracksTable.refs["video_id"].to = "videos"
        /\ PlayerTracksTable.refs["player_id"].to = "match_players"
    BY DEF PlayerTracksTable, Table, Cascade, SetNull, Restricted
  <2> QED
    BY <2>1, <2>2, <2>3 DEF RefersTo
<1>13. RefersTo("processing_jobs") = {"videos"} /\ Database["processing_jobs"].types = {"job_step", "job_status"}
  <2>1. Database["processing_jobs"] = ProcessingJobsTable
    BY DEF Database
  <2>2. DOMAIN ProcessingJobsTable.refs = {"video_id"} /\ ProcessingJobsTable.types = {"job_step", "job_status"}
    BY DEF ProcessingJobsTable, Table
  <2>3. /\ ProcessingJobsTable.refs["video_id"].to = "videos"
    BY DEF ProcessingJobsTable, Table, Cascade, SetNull, Restricted
  <2> QED
    BY <2>1, <2>2, <2>3 DEF RefersTo
<1>14. RefersTo("video_segments") = {"videos"} /\ Database["video_segments"].types = {}
  <2>1. Database["video_segments"] = VideoSegmentsTable
    BY DEF Database
  <2>2. DOMAIN VideoSegmentsTable.refs = {"video_id"} /\ VideoSegmentsTable.types = {}
    BY DEF VideoSegmentsTable, Table
  <2>3. /\ VideoSegmentsTable.refs["video_id"].to = "videos"
    BY DEF VideoSegmentsTable, Table, Cascade, SetNull, Restricted
  <2> QED
    BY <2>1, <2>2, <2>3 DEF RefersTo
<1> QED
  BY <1>1, <1>2, <1>3, <1>4, <1>5, <1>6, <1>7, <1>8, <1>9, <1>10, <1>11, <1>12, <1>13, <1>14

\* ... and are the ones the classes declare.
LEMMA SchemaModels ==
  /\ DOMAIN Models = BaseTables \cup {"video_segments"}
  /\ \A t \in DOMAIN Models : Database[t] = Models[t].table
<1>1. DOMAIN Models = {"otp_challenges", "users", "venues", "fields", "refresh_tokens", "venue_members", "cameras", "matches", "match_players", "videos", "highlights", "player_tracks", "processing_jobs", "video_segments"}
  BY DEF Models
<1>2. BaseTables = {"otp_challenges", "users", "venues", "fields", "refresh_tokens", "venue_members", "cameras", "matches", "match_players", "videos", "highlights", "player_tracks", "processing_jobs"}
  BY DEF BaseTables, Initial
<1>3. Database["otp_challenges"] = Models["otp_challenges"].table
  BY DEF Database, Models, OtpChallengesTable, OtpChallenge, Class
<1>4. Database["users"] = Models["users"].table
  BY DEF Database, Models, UsersTable, User, Class
<1>5. Database["venues"] = Models["venues"].table
  BY DEF Database, Models, VenuesTable, Venue, Class
<1>6. Database["fields"] = Models["fields"].table
  BY DEF Database, Models, FieldsTable, Field, Class
<1>7. Database["refresh_tokens"] = Models["refresh_tokens"].table
  BY DEF Database, Models, RefreshTokensTable, RefreshToken, Class
<1>8. Database["venue_members"] = Models["venue_members"].table
  BY DEF Database, Models, VenueMembersTable, VenueMember, Class
<1>9. Database["cameras"] = Models["cameras"].table
  BY DEF Database, Models, CamerasTable, Camera, Class
<1>10. Database["matches"] = Models["matches"].table
  BY DEF Database, Models, MatchesTable, Match, Class
<1>11. Database["match_players"] = Models["match_players"].table
  BY DEF Database, Models, MatchPlayersTable, MatchPlayer, Class
<1>12. Database["videos"] = Models["videos"].table
  BY DEF Database, Models, VideosTable, Video, Class
<1>13. Database["highlights"] = Models["highlights"].table
  BY DEF Database, Models, HighlightsTable, Highlight, Class
<1>14. Database["player_tracks"] = Models["player_tracks"].table
  BY DEF Database, Models, PlayerTracksTable, PlayerTrack, Class
<1>15. Database["processing_jobs"] = Models["processing_jobs"].table
  BY DEF Database, Models, ProcessingJobsTable, ProcessingJob, Class
<1>16. Database["video_segments"] = Models["video_segments"].table
  BY DEF Database, Models, VideoSegmentsTable, VideoSegment, Class
<1> QED
  BY <1>1, <1>2, <1>3, <1>4, <1>5, <1>6, <1>7, <1>8, <1>9, <1>10, <1>11, <1>12, <1>13, <1>14, <1>15, <1>16

-----------------------------------------------------------------------------
(***************************************************************************)
(* The order of the statements.                                            *)
(***************************************************************************)
\* A table is created after the tables it refers to, once, and shares no type.
LEMMA InitialIs == Len(Initial) = 13 /\ DOMAIN Initial = 1..13
BY DEF Initial

LEMMA CreatedAfter ==
  \A i \in 1..13 : \A t \in RefersTo(Initial[i]) : \E j \in 1..13 : j < i /\ t = Initial[j]
BY SchemaTable DEF Initial

LEMMA CreatedOnce == \A i, j \in 1..13 : i < j => Initial[i] # Initial[j]
BY DEF Initial

LEMMA OwnTypes ==
  \A i, j \in 1..13 : i < j => Database[Initial[i]].types \cap Database[Initial[j]].types = {}
BY SchemaTable DEF Initial

\* It is dropped before the tables it refers to; no table is left out and no type.
LEMMA DropOrderIs ==
  /\ Len(DropOrder) = 13 /\ DOMAIN DropOrder = 1..13
  /\ Len(TypeNames) = 9 /\ DOMAIN TypeNames = 1..9
  /\ BaseTables = {DropOrder[i] : i \in 1..13}
  /\ \A i, j \in 1..13 : i < j => /\ DropOrder[i] # DropOrder[j]
                                  /\ DropOrder[i] \notin RefersTo(DropOrder[j])
  /\ TypesOf(BaseTables) = {TypeNames[i] : i \in 1..9}
<1>1. /\ Len(DropOrder) = 13 /\ DOMAIN DropOrder = 1..13
      /\ Len(TypeNames) = 9 /\ DOMAIN TypeNames = 1..9
  BY DEF DropOrder, TypeNames
<1>2. BaseTables = {DropOrder[i] : i \in 1..13}
  BY DEF BaseTables, Initial, DropOrder
<1>3. \A i, j \in 1..13 : i < j => DropOrder[i] # DropOrder[j]
  BY DEF DropOrder
<1>4. \A i, j \in 1..13 : i < j => DropOrder[i] \notin RefersTo(DropOrder[j])
  BY SchemaTable DEF DropOrder
<1>5. TypesOf(BaseTables) = {TypeNames[i] : i \in 1..9}
  BY SchemaTable DEF TypesOf, BaseTables, Initial, TypeNames
<1> QED
  BY <1>1, <1>2, <1>3, <1>4, <1>5

\* The last table refers to others, nothing refers to it, and it needs no type.
LEMMA LastTable ==
  /\ "video_segments" \notin BaseTables
  /\ RefersTo("video_segments") \subseteq BaseTables
  /\ \A t \in BaseTables : "video_segments" \notin RefersTo(t)
  /\ Database["video_segments"].types = {}
  /\ "cameras" \in BaseTables
BY SchemaTable DEF BaseTables, Initial

LEMMA InitialScripts ==
  /\ Len(Create(Initial)) = 13
  /\ \A i \in 1..13 : Create(Initial)[i] = [do |-> "CREATE", on |-> Initial[i]]
  /\ Len(DropInitial) = 22
  /\ \A i \in 1..13 : DropInitial[i] = [do |-> "DROP", on |-> DropOrder[i]]
  /\ \A i \in 14..22 : DropInitial[i] = [do |-> "DROP_TYPE", on |-> TypeNames[i - 13]]
<1>1. Create(Initial) = [i \in 1..13 |-> [do |-> "CREATE", on |-> Initial[i]]]
  BY InitialIs DEF Create, Each
<1>2. /\ Len(Create(Initial)) = 13
      /\ \A i \in 1..13 : Create(Initial)[i] = [do |-> "CREATE", on |-> Initial[i]]
  BY <1>1
<1> DEFINE first == Drop(DropOrder)
           second == DropTypes(TypeNames)
<1>3. first = [i \in 1..13 |-> [do |-> "DROP", on |-> DropOrder[i]]]
  BY DropOrderIs DEF Drop, Each
<1>4. second = [i \in 1..9 |-> [do |-> "DROP_TYPE", on |-> TypeNames[i]]]
  BY DropOrderIs DEF DropTypes, Each
<1>5. Len(first) = 13 /\ Len(second) = 9
  BY <1>3, <1>4
<1>8. DropInitial = first \o second
  BY DEF DropInitial
<1> DEFINE S == {first[i] : i \in 1..13} \cup {second[i] : i \in 1..9}
<1>6. first \in [1..13 -> S]
  <2>1. \A i \in 1..13 : first[i] \in S
    OBVIOUS
  <2> HIDE DEF S
  <2> QED
    BY <1>3, <2>1
<1>7. second \in [1..9 -> S]
  <2>1. \A i \in 1..9 : second[i] \in S
    OBVIOUS
  <2> HIDE DEF S
  <2> QED
    BY <1>4, <2>1
<1> HIDE DEF first, second, S
<1>9. /\ Len(DropInitial) = 13 + 9
      /\ \A i \in 1..(13 + 9) : DropInitial[i] = IF i <= 13 THEN first[i] ELSE second[i - 13]
  <2>1. first \in Seq(S) /\ second \in Seq(S)
    <3>1. \A n \in Nat : [1..n -> S] \subseteq Seq(S)
      BY SeqDef, Zenon
    <3>2. 13 \in Nat /\ 9 \in Nat
      OBVIOUS
    <3>3. [1..13 -> S] \subseteq Seq(S) /\ [1..9 -> S] \subseteq Seq(S)
      BY <3>1, <3>2, Zenon
    <3> QED
      BY <1>6, <1>7, <3>3, Zenon
  <2>2. /\ Len(first \o second) = Len(first) + Len(second)
        /\ \A i \in 1..(Len(first) + Len(second)) :
             (first \o second)[i] = IF i <= Len(first) THEN first[i] ELSE second[i - Len(first)]
    BY <2>1, ConcatProperties
  <2> QED
    BY <1>5, <1>8, <2>2
<1>10. \A i \in 1..13 : DropInitial[i] = [do |-> "DROP", on |-> DropOrder[i]]
  BY <1>3, <1>9
<1>11. \A i \in 14..22 : DropInitial[i] = [do |-> "DROP_TYPE", on |-> TypeNames[i - 13]]
  BY <1>4, <1>9
<1> QED
  BY <1>2, <1>9, <1>10, <1>11

\* What the six migrations consist of.
LEMMA ScriptIs ==
  ASSUME MigrationsTypeOK
  PROVE
  /\ CreatingInitial =>
       /\ Len(Script) = 13
       /\ \A i \in 1..13 : Script[i].do = "CREATE" /\ Script[i].on = Initial[i]
  /\ AddingToken =>
       Len(Script) = 1 /\ Script[1].do = "ADD_COLUMN" /\ Script[1].on = "token_hash"
  /\ CreatingSegments =>
       Len(Script) = 1 /\ Script[1].do = "CREATE" /\ Script[1].on = "video_segments"
  /\ DroppingSegments =>
       Len(Script) = 1 /\ Script[1].do = "DROP" /\ Script[1].on = "video_segments"
  /\ DroppingToken =>
       Len(Script) = 1 /\ Script[1].do = "DROP_COLUMN" /\ Script[1].on = "token_hash"
  /\ DroppingInitial =>
       /\ Len(Script) = 22
       /\ \A i \in 1..13 : Script[i].do = "DROP" /\ Script[i].on = DropOrder[i]
       /\ \A i \in 14..22 : Script[i].do = "DROP_TYPE" /\ Script[i].on = TypeNames[i - 13]
<1>t. revision \in 0..3 /\ goal \in -1..3
  BY DEF MigrationsTypeOK, NoGoal, Newest
<1>1. ASSUME CreatingInitial
      PROVE  /\ Len(Script) = 13
             /\ \A i \in 1..13 : Script[i].do = "CREATE" /\ Script[i].on = Initial[i]
  <2>1. Script = Upgrade(1)
    BY <1>1, <1>t DEF CreatingInitial, Script
  <2>2. Upgrade(1) = Create(Initial)
    BY DEF Upgrade
  <2> QED
    BY <2>1, <2>2, InitialScripts
<1>2. ASSUME AddingToken
      PROVE  Len(Script) = 1 /\ Script[1].do = "ADD_COLUMN" /\ Script[1].on = "token_hash"
  <2>1. Script = Upgrade(2)
    BY <1>2, <1>t DEF AddingToken, Script
  <2>2. Upgrade(2) = AddColumns(<<"token_hash">>)
    BY DEF Upgrade
  <2> QED
    BY <2>1, <2>2 DEF AddColumns, Each
<1>3. ASSUME CreatingSegments
      PROVE  Len(Script) = 1 /\ Script[1].do = "CREATE" /\ Script[1].on = "video_segments"
  <2>1. Script = Upgrade(3)
    BY <1>3, <1>t DEF CreatingSegments, Script
  <2>2. Upgrade(3) = Create(<<"video_segments">>)
    BY DEF Upgrade
  <2> QED
    BY <2>1, <2>2 DEF Create, Each
<1>4. ASSUME DroppingSegments
      PROVE  Len(Script) = 1 /\ Script[1].do = "DROP" /\ Script[1].on = "video_segments"
  <2>1. Script = Downgrade(3)
    BY <1>4, <1>t DEF DroppingSegments, Script
  <2>2. Downgrade(3) = Drop(<<"video_segments">>)
    BY DEF Downgrade
  <2> QED
    BY <2>1, <2>2 DEF Drop, Each
<1>5. ASSUME DroppingToken
      PROVE  Len(Script) = 1 /\ Script[1].do = "DROP_COLUMN" /\ Script[1].on = "token_hash"
  <2>1. Script = Downgrade(2)
    BY <1>5, <1>t DEF DroppingToken, Script
  <2>2. Downgrade(2) = DropColumns(<<"token_hash">>)
    BY DEF Downgrade
  <2> QED
    BY <2>1, <2>2 DEF DropColumns, Each
<1>6. ASSUME DroppingInitial
      PROVE  /\ Len(Script) = 22
             /\ \A i \in 1..13 : Script[i].do = "DROP" /\ Script[i].on = DropOrder[i]
             /\ \A i \in 14..22 : Script[i].do = "DROP_TYPE" /\ Script[i].on = TypeNames[i - 13]
  <2>1. Script = Downgrade(1)
    BY <1>6, <1>t DEF DroppingInitial, Script
  <2>2. Downgrade(1) = DropInitial
    BY DEF Downgrade
  <2> QED
    BY <2>1, <2>2, InitialScripts
<1> QED
  BY <1>1, <1>2, <1>3, <1>4, <1>5, <1>6

-----------------------------------------------------------------------------
(***************************************************************************)
(* The invariant is inductive.                                             *)
(***************************************************************************)
\* Before the first statement the database is that of the revision.
LEMMA PartWayAtFirst == MigrationsTypeOK /\ Underway /\ Whole => PartWay
<1> SUFFICES ASSUME MigrationsTypeOK, Underway, Whole
             PROVE  PartWay
  OBVIOUS
<1> USE DEF NoGoal, Newest
<1>1. revision \in 0..3 /\ goal \in 0..3 /\ goal # revision /\ done = 0
  BY DEF MigrationsTypeOK, Underway, Whole
<1>2. CASE revision = 0
  <2>1. tables = {} /\ types = {} /\ columns = {}
    BY <1>2 DEF Whole, TablesAt, TypesAt, ColumnsAt
  <2>2. {Initial[i] : i \in 1..done} = {} /\ TypesOf(tables) = {}
    BY <1>1, <2>1 DEF TypesOf
  <2> QED
    BY <1>1, <1>2, <2>1, <2>2 DEF PartWay, CreatingInitial
<1>3. CASE revision = 1
  <2>1. tables = BaseTables /\ types = TypesOf(BaseTables) /\ columns = {}
    BY <1>3 DEF Whole, TablesAt, TypesAt, ColumnsAt
  <2>2. CASE goal > 1
    BY <1>1, <1>3, <2>1, <2>2 DEF PartWay, AddingToken
  <2>3. CASE goal = 0
    <3>1. tables = {DropOrder[i] : i \in (done + 1)..13}
      BY <1>1, <2>1, DropOrderIs
    <3>2. {TypeNames[i] : i \in 1..(done - 13)} = {}
      BY <1>1
    <3> QED
      BY <1>1, <1>3, <2>1, <2>3, <3>1, <3>2 DEF PartWay, DroppingInitial
  <2> QED
    BY <1>1, <1>3, <2>2, <2>3
<1>4. CASE revision = 2
  <2>1. tables = BaseTables /\ types = TypesOf(BaseTables) /\ columns = {"token_hash"}
    BY <1>4 DEF Whole, TablesAt, TypesAt, ColumnsAt
  <2> QED
    BY <1>1, <1>4, <2>1 DEF PartWay, CreatingSegments, DroppingToken
<1>5. CASE revision = 3
  <2>1. /\ tables = BaseTables \cup {"video_segments"} /\ types = TypesOf(BaseTables)
        /\ columns = {"token_hash"}
    BY <1>5 DEF Whole, TablesAt, TypesAt, ColumnsAt
  <2> QED
    BY <1>1, <1>5, <2>1 DEF PartWay, DroppingSegments
<1> QED
  BY <1>1, <1>2, <1>3, <1>4, <1>5

\* No statement is refused.
LEMMA PartWayApplies == MigrationsInv => MigrationsApply
<1> SUFFICES ASSUME MigrationsTypeOK, PartWay, Underway, done < Len(Script)
             PROVE  Applies(Script[done + 1])
  BY DEF MigrationsInv, MigrationsApply
<1>t. done \in Nat
  BY DEF MigrationsTypeOK
<1> DEFINE s == Script[done + 1]
<1>1. CASE CreatingInitial
  <2>0. /\ Len(Script) = 13
        /\ \A i \in 1..13 : Script[i].do = "CREATE" /\ Script[i].on = Initial[i]
    BY <1>1, ScriptIs
  <2>1. s.do = "CREATE" /\ s.on = Initial[done + 1] /\ done + 1 \in 1..13
    BY <1>t, <2>0
  <2>2. tables = {Initial[i] : i \in 1..done} /\ types = TypesOf(tables)
    BY <1>1 DEF CreatingInitial
  <2>3. \A i \in 1..done : i \in 1..13 /\ i < done + 1
    BY <1>t, <2>1
  <2>4. Initial[done + 1] \notin tables
    BY <2>1, <2>2, <2>3, CreatedOnce
  <2>5. \A t \in RefersTo(Initial[done + 1]) : \E j \in 1..13 : j < done + 1 /\ t = Initial[j]
    BY <2>1, CreatedAfter
  <2>6. RefersTo(Initial[done + 1]) \subseteq tables
    BY <1>t, <2>2, <2>5
  <2>7. \A i \in 1..done :
          Database[Initial[i]].types \cap Database[Initial[done + 1]].types = {}
    BY <2>1, <2>3, OwnTypes
  <2>8. Database[Initial[done + 1]].types \cap types = {}
    BY <2>2, <2>7 DEF TypesOf
  <2> QED
    BY <2>1, <2>4, <2>6, <2>8 DEF Applies
<1>2. CASE AddingToken
  <2>0. Len(Script) = 1 /\ Script[1].do = "ADD_COLUMN" /\ Script[1].on = "token_hash"
    BY <1>2, ScriptIs
  <2>1. s.do = "ADD_COLUMN" /\ s.on = "token_hash" /\ done = 0
    BY <1>t, <2>0
  <2> QED
    BY <1>2, <2>1, LastTable DEF AddingToken, Applies, AddedTo
<1>3. CASE CreatingSegments
  <2>0. Len(Script) = 1 /\ Script[1].do = "CREATE" /\ Script[1].on = "video_segments"
    BY <1>3, ScriptIs
  <2>1. s.do = "CREATE" /\ s.on = "video_segments" /\ done = 0
    BY <1>t, <2>0
  <2> QED
    BY <1>3, <2>1, LastTable DEF CreatingSegments, Applies
<1>4. CASE DroppingSegments
  <2>0. Len(Script) = 1 /\ Script[1].do = "DROP" /\ Script[1].on = "video_segments"
    BY <1>4, ScriptIs
  <2>1. s.do = "DROP" /\ s.on = "video_segments" /\ done = 0
    BY <1>t, <2>0
  <2> QED
    BY <1>4, <2>1, LastTable DEF DroppingSegments, Applies
<1>5. CASE DroppingToken
  <2>0. Len(Script) = 1 /\ Script[1].do = "DROP_COLUMN" /\ Script[1].on = "token_hash"
    BY <1>5, ScriptIs
  <2>1. s.do = "DROP_COLUMN" /\ s.on = "token_hash" /\ done = 0
    BY <1>t, <2>0
  <2> QED
    BY <1>5, <2>1 DEF DroppingToken, Applies
<1>6. CASE DroppingInitial
  <2>0. /\ Len(Script) = 22
        /\ \A i \in 1..13 : Script[i].do = "DROP" /\ Script[i].on = DropOrder[i]
        /\ \A i \in 14..22 : Script[i].do = "DROP_TYPE" /\ Script[i].on = TypeNames[i - 13]
    BY <1>6, ScriptIs
  <2>1. CASE done < 13
    <3>1. s.do = "DROP" /\ s.on = DropOrder[done + 1] /\ done + 1 \in 1..13
      BY <1>t, <2>0, <2>1
    <3>2. s.on \in tables
      BY <1>6, <1>t, <3>1 DEF DroppingInitial
    <3>3. \A t \in tables \ {s.on} : s.on \notin RefersTo(t)
      <4> SUFFICES ASSUME NEW i \in (done + 1)..13, DropOrder[i] # DropOrder[done + 1]
                   PROVE  DropOrder[done + 1] \notin RefersTo(DropOrder[i])
        BY <1>6, <3>1 DEF DroppingInitial
      <4>1. i \in 1..13 /\ done + 1 < i
        BY <1>t
      <4> QED
        BY <3>1, <4>1, DropOrderIs
    <3> QED
      BY <3>1, <3>2, <3>3 DEF Applies
  <2>2. CASE done >= 13
    <3>1. s.do = "DROP_TYPE"
      BY <1>t, <2>0, <2>2
    <3>2. tables = {}
      BY <1>6, <1>t, <2>2 DEF DroppingInitial
    <3> QED
      BY <3>1, <3>2 DEF Applies
  <2> QED
    BY <1>t, <2>1, <2>2
<1> QED
  BY <1>1, <1>2, <1>3, <1>4, <1>5, <1>6 DEF PartWay

\* A statement takes the database one step further in the present migration.
LEMMA PartWayStatement ==
  ASSUME MigrationsInv, Statement
  PROVE  PartWay'
<1>u. /\ Underway /\ done < Len(Script) /\ Execute(Script[done + 1])
      /\ done' = done + 1 /\ revision' = revision /\ goal' = goal /\ Underway'
  BY DEF Statement, Underway
<1>t. done \in Nat /\ MigrationsTypeOK /\ PartWay
  BY DEF MigrationsInv, MigrationsTypeOK
<1> DEFINE s == Script[done + 1]
<1>1. CASE CreatingInitial
  <2>0. /\ Len(Script) = 13
        /\ \A i \in 1..13 : Script[i].do = "CREATE" /\ Script[i].on = Initial[i]
    BY <1>1, <1>t, ScriptIs
  <2>1. s.do = "CREATE" /\ s.on = Initial[done + 1] /\ done + 1 <= 13
    BY <1>t, <1>u, <2>0
  <2>2. /\ tables' = tables \cup {Initial[done + 1]}
        /\ types' = types \cup Database[Initial[done + 1]].types
        /\ columns' = columns
    BY <1>u, <2>1 DEF Execute
  <2>3. tables' = {Initial[i] : i \in 1..(done + 1)}
    BY <1>1, <1>t, <2>2 DEF CreatingInitial
  <2>4. types' = TypesOf(tables')
    BY <1>1, <2>2 DEF CreatingInitial, TypesOf
  <2> QED
    BY <1>1, <1>u, <2>1, <2>2, <2>3, <2>4 DEF CreatingInitial, PartWay
<1>2. CASE AddingToken
  <2>0. Len(Script) = 1 /\ Script[1].do = "ADD_COLUMN" /\ Script[1].on = "token_hash"
    BY <1>2, <1>t, ScriptIs
  <2>1. s.do = "ADD_COLUMN" /\ s.on = "token_hash" /\ done = 0
    BY <1>t, <1>u, <2>0
  <2>2. tables' = tables /\ types' = types /\ columns' = columns \cup {"token_hash"}
    BY <1>u, <2>1 DEF Execute
  <2> QED
    BY <1>2, <1>u, <2>1, <2>2 DEF AddingToken, PartWay
<1>3. CASE CreatingSegments
  <2>0. Len(Script) = 1 /\ Script[1].do = "CREATE" /\ Script[1].on = "video_segments"
    BY <1>3, <1>t, ScriptIs
  <2>1. s.do = "CREATE" /\ s.on = "video_segments" /\ done = 0
    BY <1>t, <1>u, <2>0
  <2>2. tables' = tables \cup {"video_segments"} /\ types' = types /\ columns' = columns
    BY <1>u, <2>1, LastTable DEF Execute
  <2> QED
    BY <1>3, <1>u, <2>1, <2>2 DEF CreatingSegments, PartWay
<1>4. CASE DroppingSegments
  <2>0. Len(Script) = 1 /\ Script[1].do = "DROP" /\ Script[1].on = "video_segments"
    BY <1>4, <1>t, ScriptIs
  <2>1. s.do = "DROP" /\ s.on = "video_segments" /\ done = 0
    BY <1>t, <1>u, <2>0
  <2>2. /\ tables' = tables \ {"video_segments"} /\ types' = types
        /\ columns' = {c \in columns : AddedTo[c] # "video_segments"}
    BY <1>u, <2>1 DEF Execute
  <2>3. columns' = {"token_hash"}
    BY <1>4, <2>2 DEF DroppingSegments, AddedTo
  <2>4. tables' = BaseTables
    BY <1>4, <2>1, <2>2, LastTable DEF DroppingSegments
  <2> QED
    BY <1>4, <1>u, <2>1, <2>2, <2>3, <2>4 DEF DroppingSegments, PartWay
<1>5. CASE DroppingToken
  <2>0. Len(Script) = 1 /\ Script[1].do = "DROP_COLUMN" /\ Script[1].on = "token_hash"
    BY <1>5, <1>t, ScriptIs
  <2>1. s.do = "DROP_COLUMN" /\ s.on = "token_hash" /\ done = 0
    BY <1>t, <1>u, <2>0
  <2>2. tables' = tables /\ types' = types /\ columns' = columns \ {"token_hash"}
    BY <1>u, <2>1 DEF Execute
  <2> QED
    BY <1>5, <1>u, <2>1, <2>2 DEF DroppingToken, PartWay
<1>6. CASE DroppingInitial
  <2>0. /\ Len(Script) = 22
        /\ \A i \in 1..13 : Script[i].do = "DROP" /\ Script[i].on = DropOrder[i]
        /\ \A i \in 14..22 : Script[i].do = "DROP_TYPE" /\ Script[i].on = TypeNames[i - 13]
    BY <1>6, <1>t, ScriptIs
  <2>i. /\ tables = {DropOrder[i] : i \in (done + 1)..13} /\ columns = {}
        /\ types = TypesOf(BaseTables) \ {TypeNames[i] : i \in 1..(done - 13)}
        /\ revision = 1 /\ goal = 0
    BY <1>6 DEF DroppingInitial
  <2>d. done \in Nat /\ done' = done + 1 /\ revision' = 1 /\ goal' = 0
    BY <1>t, <1>u, <2>i
  <2>1. CASE done < 13
    <3>1. s.do = "DROP" /\ s.on = DropOrder[done + 1] /\ done + 1 \in 1..13
      BY <1>t, <2>0, <2>1
    <3>2. tables' = tables \ {DropOrder[done + 1]} /\ types' = types /\ columns' = {}
      BY <1>u, <2>i, <3>1 DEF Execute
    <3>3. \A i \in (done + 1 + 1)..13 : i \in 1..13 /\ DropOrder[i] # DropOrder[done + 1]
      <4> SUFFICES ASSUME NEW i \in (done + 1 + 1)..13
                   PROVE  i \in 1..13 /\ DropOrder[i] # DropOrder[done + 1]
        OBVIOUS
      <4>1. i \in 1..13 /\ done + 1 < i
        BY <1>t
      <4> QED
        BY <3>1, <4>1, DropOrderIs
    <3>4. tables' = {DropOrder[i] : i \in (done + 1 + 1)..13}
      BY <1>t, <2>1, <2>i, <3>2, <3>3
    <3>5. 1..(done - 13) = {}
      BY <1>t, <2>1
    <3>6. tables' = {DropOrder[i] : i \in (done' + 1)..13}
      BY <2>d, <3>4
    <3>7. types' = TypesOf(BaseTables) \ {TypeNames[i] : i \in 1..(done' - 13)}
      <4>1. 1..(done' - 13) = {}
        BY <2>d, <2>1
      <4> QED
        BY <2>i, <3>2, <3>5, <4>1
    <3>8. done' <= 22
      BY <2>d, <2>1
    <3>9. DroppingInitial'
      BY <2>d, <3>2, <3>6, <3>7, <3>8 DEF DroppingInitial
    <3> QED
      BY <1>u, <3>9 DEF PartWay
  <2>2. CASE done >= 13
    <3>1. s.do = "DROP_TYPE" /\ s.on = TypeNames[done + 1 - 13] /\ done + 1 \in 14..22
      BY <1>t, <1>u, <2>0, <2>2
    <3>2. tables' = tables /\ types' = types \ {TypeNames[done + 1 - 13]} /\ columns' = {}
      BY <1>u, <2>i, <3>1 DEF Execute
    <3>3. tables' = {DropOrder[i] : i \in (done' + 1)..13}
      <4>1. (done + 1)..13 = {} /\ (done' + 1)..13 = {}
        BY <2>d, <2>2
      <4> QED
        BY <2>i, <3>2, <4>1
    <3>4. types' = TypesOf(BaseTables) \ {TypeNames[i] : i \in 1..(done' - 13)}
      <4>1. 1..(done' - 13) = (1..(done - 13)) \cup {done + 1 - 13}
        BY <2>d, <2>2
      <4> QED
        BY <2>i, <3>2, <4>1
    <3>5. done' <= 22
      BY <2>d, <3>1
    <3>6. DroppingInitial'
      BY <2>d, <3>2, <3>3, <3>4, <3>5 DEF DroppingInitial
    <3> QED
      BY <1>u, <3>6 DEF PartWay
  <2> QED
    BY <1>t, <2>1, <2>2
<1> QED
  BY <1>1, <1>2, <1>3, <1>4, <1>5, <1>6, <1>t, <1>u DEF PartWay

\* After the last one it is that of the revision the migration leads to.
LEMMA PartWayStamp ==
  ASSUME MigrationsInv, Stamp
  PROVE  Whole' /\ revision' \in 0..Newest
<1>u. /\ Underway /\ done = Len(Script) /\ done' = 0
      /\ revision' = IF revision < goal THEN revision + 1 ELSE revision - 1
      /\ UNCHANGED <<tables, types, columns>>
  BY DEF Stamp
<1>t. done \in Nat /\ MigrationsTypeOK /\ PartWay /\ goal \in -1..3
  BY DEF MigrationsInv, MigrationsTypeOK, Newest, NoGoal
<1>d. 0 \in 0..Newest /\ 1 \in 0..Newest /\ 2 \in 0..Newest /\ 3 \in 0..Newest
  BY DEF Newest
<1>1. CASE CreatingInitial
  <2>0. Len(Script) = 13 /\ done = 13
    BY <1>1, <1>t, <1>u, ScriptIs
  <2>1. done = 13 /\ revision' = 1
    BY <1>1, <1>u, <2>0 DEF CreatingInitial
  <2>2. tables = BaseTables /\ types = TypesOf(BaseTables) /\ columns = {}
    BY <1>1, <2>1 DEF CreatingInitial, BaseTables
  <2> QED
    BY <1>d, <1>u, <2>1, <2>2 DEF Whole, TablesAt, TypesAt, ColumnsAt
<1>2. CASE AddingToken
  <2>1. done = 1 /\ revision' = 2
    BY <1>2, <1>t, <1>u, ScriptIs DEF AddingToken
  <2>2. tables = BaseTables /\ types = TypesOf(BaseTables) /\ columns = {"token_hash"}
    BY <1>2, <2>1 DEF AddingToken
  <2> QED
    BY <1>d, <1>u, <2>1, <2>2 DEF Whole, TablesAt, TypesAt, ColumnsAt
<1>3. CASE CreatingSegments
  <2>1. done = 1 /\ revision' = 3
    BY <1>3, <1>t, <1>u, ScriptIs DEF CreatingSegments
  <2>2. /\ tables = BaseTables \cup {"video_segments"} /\ types = TypesOf(BaseTables)
        /\ columns = {"token_hash"}
    BY <1>3, <2>1 DEF CreatingSegments
  <2> QED
    BY <1>d, <1>u, <2>1, <2>2 DEF Whole, TablesAt, TypesAt, ColumnsAt
<1>4. CASE DroppingSegments
  <2>1. done = 1 /\ revision' = 2
    BY <1>4, <1>t, <1>u, ScriptIs DEF DroppingSegments
  <2>2. tables = BaseTables /\ types = TypesOf(BaseTables) /\ columns = {"token_hash"}
    BY <1>4, <2>1 DEF DroppingSegments
  <2> QED
    BY <1>d, <1>u, <2>1, <2>2 DEF Whole, TablesAt, TypesAt, ColumnsAt
<1>5. CASE DroppingToken
  <2>1. done = 1 /\ revision' = 1
    BY <1>5, <1>t, <1>u, ScriptIs DEF DroppingToken
  <2>2. tables = BaseTables /\ types = TypesOf(BaseTables) /\ columns = {}
    BY <1>5, <2>1 DEF DroppingToken
  <2> QED
    BY <1>d, <1>u, <2>1, <2>2 DEF Whole, TablesAt, TypesAt, ColumnsAt
<1>6. CASE DroppingInitial
  <2>0. Len(Script) = 22 /\ done = 22
    BY <1>6, <1>t, <1>u, ScriptIs
  <2>1. done = 22 /\ revision' = 0
    BY <1>6, <1>u, <2>0 DEF DroppingInitial
  <2>2. (22 + 1)..13 = {} /\ 22 - 13 = 9
    OBVIOUS
  <2>3. tables = {} /\ types = {} /\ columns = {}
    BY <1>6, <2>1, <2>2, DropOrderIs DEF DroppingInitial
  <2> QED
    BY <1>d, <1>u, <2>1, <2>3 DEF Whole, TablesAt, TypesAt, ColumnsAt
<1> QED
  BY <1>1, <1>2, <1>3, <1>4, <1>5, <1>6, <1>t, <1>u DEF PartWay

LEMMA MigrationsInitially == MigrationsInit => MigrationsInv
BY DEF MigrationsInit, MigrationsInv, MigrationsTypeOK, SavedIsWhole, PartWay, Whole, Underway,
       NoGoal, Newest, Schema, TablesAt, TypesAt, ColumnsAt

LEMMA MigrationsStep ==
  ASSUME MigrationsInv, [MigrationsNext]_migrationVars
  PROVE  MigrationsInv'
<1>t. MigrationsTypeOK /\ SavedIsWhole /\ PartWay
  BY DEF MigrationsInv
<1>1. CASE Migrate
  <2>1. /\ goal' \in (0..Newest) \ {revision} /\ saved' = Schema /\ ~Underway
        /\ UNCHANGED <<tables, types, columns, revision, done>>
    BY <1>1 DEF Migrate, AtRest, Underway
  <2>2. MigrationsTypeOK' /\ Underway' /\ Whole
    BY <1>t, <2>1 DEF MigrationsTypeOK, Underway, NoGoal, Newest, PartWay
  <2>3. Whole'
    BY <2>1, <2>2 DEF Whole
  <2>4. PartWay'
    BY <2>2, <2>3, PartWayAtFirst, PTL
  <2>5. SavedIsWhole'
    BY <1>t, <2>1, <2>2 DEF SavedIsWhole, Schema, Whole, MigrationsTypeOK
  <2> QED
    BY <2>2, <2>4, <2>5 DEF MigrationsInv
<1>2. CASE Statement
  <2>1. PartWay'
    BY <1>2, PartWayStatement
  <2>2. MigrationsTypeOK' /\ SavedIsWhole'
    BY <1>2, <1>t DEF Statement, MigrationsTypeOK, SavedIsWhole
  <2> QED
    BY <2>1, <2>2 DEF MigrationsInv
<1>3. CASE Stamp
  <2>1. Whole' /\ revision' \in 0..Newest
    BY <1>3, PartWayStamp
  <2>2. MigrationsTypeOK' /\ SavedIsWhole'
    BY <1>3, <1>t, <2>1 DEF Stamp, MigrationsTypeOK, SavedIsWhole
  <2>3. Underway' => PartWay'
    BY <2>1, <2>2, PartWayAtFirst, PTL
  <2>4. PartWay'
    BY <2>1, <2>3 DEF PartWay
  <2> QED
    BY <2>2, <2>4 DEF MigrationsInv
<1>4. CASE Commit
  <2>1. ~Underway /\ ~Underway' /\ UNCHANGED <<tables, types, columns, revision, done, saved>>
    BY <1>4 DEF Commit, Underway
  <2>2. Whole'
    BY <1>t, <2>1 DEF PartWay, Whole
  <2> QED
    BY <1>4, <1>t, <2>1, <2>2 DEF Commit, MigrationsInv, MigrationsTypeOK, SavedIsWhole, PartWay
<1>5. CASE Interrupt
  <2>1. /\ revision' = saved.revision /\ goal' = NoGoal /\ done' = 0 /\ saved' = saved
        /\ tables' = saved.tables /\ types' = saved.types /\ columns' = saved.columns
    BY <1>5 DEF Interrupt
  <2>2. Whole' /\ ~Underway'
    BY <1>t, <2>1 DEF SavedIsWhole, Whole, Underway
  <2>3. MigrationsTypeOK' /\ SavedIsWhole'
    BY <1>t, <2>1 DEF MigrationsTypeOK, SavedIsWhole
  <2> QED
    BY <2>2, <2>3 DEF MigrationsInv, PartWay
<1>6. CASE UNCHANGED migrationVars
  <2>1. MigrationsTypeOK' /\ SavedIsWhole' /\ (Underway <=> Underway')
    BY <1>6, <1>t DEF migrationVars, MigrationsTypeOK, SavedIsWhole, Underway
  <2>2. PartWay'
    BY <1>6, <1>t, <2>1 DEF migrationVars, PartWay, Whole, CreatingInitial, AddingToken,
       CreatingSegments, DroppingSegments, DroppingToken, DroppingInitial
  <2> QED
    BY <2>1, <2>2 DEF MigrationsInv
<1> QED
  BY <1>1, <1>2, <1>3, <1>4, <1>5, <1>6 DEF MigrationsNext

\* Whatever was applied, reversed and interrupted before, no statement of a
\* migration is refused (ci.yml:82).
THEOREM MigrationsApplyAlways == MigrationsSpec => []MigrationsApply
<1>1. MigrationsInv /\ [MigrationsNext]_migrationVars => MigrationsInv'
  BY MigrationsStep
<1> QED
  BY <1>1, MigrationsInitially, PartWayApplies, PTL DEF MigrationsSpec

\* ... and the newest schema is the one the classes declare, the base is empty
\* (ci.yml:91).
THEOREM SchemaIsTheModelsAlways == MigrationsSpec => []SchemaIsTheModels
<1>1. MigrationsInv /\ [MigrationsNext]_migrationVars => MigrationsInv'
  BY MigrationsStep
<1>2. MigrationsInv => SchemaIsTheModels
  <2> SUFFICES ASSUME MigrationsInv, AtRest PROVE SchemaIsTheModels
    BY DEF SchemaIsTheModels
  <2>1. Whole
    BY DEF MigrationsInv, PartWay, AtRest, Underway
  <2>2. CASE revision = 0
    BY <2>1, <2>2 DEF Whole, TablesAt, TypesAt, ColumnsAt, SchemaIsTheModels, Newest
  <2>3. CASE revision = Newest
    <3>1. /\ tables = BaseTables \cup {"video_segments"} /\ types = TypesOf(BaseTables)
          /\ columns = {"token_hash"}
      BY <2>1, <2>3 DEF Whole, TablesAt, TypesAt, ColumnsAt, Newest
    <3>2. tables = DOMAIN Models /\ \A t \in tables : Database[t] = Models[t].table
      BY <3>1, SchemaModels
    <3>3. types = UNION {Models[t].table.types : t \in tables}
      <4>1. UNION {Models[t].table.types : t \in tables} = TypesOf(tables)
        BY <3>2 DEF TypesOf
      <4>2. TypesOf(tables) = TypesOf(BaseTables)
        BY <3>1, LastTable DEF TypesOf
      <4> QED
        BY <3>1, <4>1, <4>2
    <3>4. columns = DOMAIN AddedTo
      BY <3>1 DEF AddedTo
    <3> QED
      BY <2>3, <3>2, <3>3, <3>4 DEF SchemaIsTheModels, Newest
  <2> QED
    BY <2>2, <2>3 DEF SchemaIsTheModels
<1> QED
  BY <1>1, <1>2, MigrationsInitially, PTL DEF MigrationsSpec

=============================================================================
