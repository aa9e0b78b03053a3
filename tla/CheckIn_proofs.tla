--------------------------- MODULE CheckIn_proofs ---------------------------
(***************************************************************************)
(* Proofs about CheckIn, for any number of requests, users, teams and      *)
(* numbers: the types, one place on the roster for each player, and, as    *)
(* long as no player is edited from two screens at once, no duplicate      *)
(* number that staff did not choose.                                       *)
(***************************************************************************)
EXTENDS CheckIn, TLAPS

\* A request is answered once, after it stops being pending; a row is on the
\* roster only after its insert was answered, and an edit or a deletion aims at such a row.
Answered ==
  /\ \A r \in Requests : request[r] # Idle => reply[r] = None
  /\ \A id \in Roster : reply[id] # None
  /\ \A r \in Requests : request[r].op \in {"edit", "delete"} => reply[request[r].id] # None

\* What match_players_jersey_key keeps: two rows outside of the override differ
\* in team or number.
IndexHolds ==
  \A a, b \in Roster :
    /\ players[a].team = players[b].team /\ players[a].number = players[b].number
    /\ ~players[a].override /\ ~players[b].override
    => a = b

RosterInv == TypeOK /\ Answered /\ OnePlaceEach /\ IndexHolds

\* No player is being edited from two screens.
EditedByOne ==
  \A r, s \in Requests :
    request[r].op = "edit" /\ request[s].op = "edit" /\ request[r].id = request[s].id
      => r = s

\* The row an edit writes over is the one it loaded.
EditsAreCurrent ==
  \A r \in Requests : request[r].op = "edit" =>
    /\ players[request[r].id] \in {request[r].loaded, NoRow}
    /\ request[r].row.user = request[r].loaded.user
    /\ request[r].row.consent = request[r].loaded.consent

OverridesWereAllowed ==
  \A id \in Roster :
    players[id].override => <<id, players[id].team, players[id].number>> \in allowed

OverrideInv == RosterInv /\ EditsAreCurrent /\ OverridesWereAllowed

-----------------------------------------------------------------------------
\* The initial state has an empty roster and nothing pending.
LEMMA InitRoster == Init => RosterInv
  BY DEF Init, RosterInv, TypeOK, Answered, OnePlaceEach, IndexHolds, Roster, Idle

\* A refusal changes the answer of a request that had none.
LEMMA RefusedRoster ==
  ASSUME RosterInv, NEW r \in Requests, New(r), NEW answer \in Replies, Refused(r, answer)
  PROVE  RosterInv'
<1>1. TypeOK'
  BY DEF RosterInv, TypeOK, Refused
<1>2. Answered'
  BY DEF RosterInv, TypeOK, Answered, Refused, New, Roster, Pending, Idle, Row, NoRow
<1>3. (OnePlaceEach /\ IndexHolds)'
  BY DEF RosterInv, Refused, OnePlaceEach, IndexHolds, Roster
<1> QED BY <1>1, <1>2, <1>3 DEF RosterInv

\* A request that passed its checks waits to write; an edit or a deletion aims at
\* a row.
LEMMA LoadsRoster ==
  ASSUME RosterInv, NEW r \in Requests, New(r), NEW p \in Pending,
         p.op \in {"edit", "delete"} => p.id \in Roster, Loads(r, p)
  PROVE  RosterInv'
<1>1. TypeOK'
  BY DEF RosterInv, TypeOK, Loads
<1>2. Answered'
  BY DEF RosterInv, TypeOK, Answered, Loads, New, Roster
<1>3. (OnePlaceEach /\ IndexHolds)'
  BY DEF RosterInv, Loads, OnePlaceEach, IndexHolds, Roster
<1> QED BY <1>1, <1>2, <1>3 DEF RosterInv

\* A request that rolls back is answered and nothing else changes.
LEMMA RollsBackRoster ==
  ASSUME RosterInv, NEW r \in Requests, request[r] # Idle,
         NEW answer \in Replies, RollsBack(r, answer)
  PROVE  RosterInv'
<1>1. TypeOK'
  BY DEF RosterInv, TypeOK, RollsBack, Answers
<1>2. Answered'
  BY DEF RosterInv, TypeOK, Answered, RollsBack, Answers, Roster, Replies, Idle
<1>3. (OnePlaceEach /\ IndexHolds)'
  BY DEF RosterInv, RollsBack, Answers, OnePlaceEach, IndexHolds, Roster
<1> QED BY <1>1, <1>2, <1>3 DEF RosterInv

\* A commit puts a row in its place or takes it away: the roster stays in order
\* when the row passed the indexes and its place is the inserter's own, or one
\* that was answered.
LEMMA CommitsRoster ==
  ASSUME RosterInv, NEW r \in Requests, request[r] # Idle, NEW id \in Requests,
         NEW row \in Row \cup {NoRow}, request[r].row \in Row \cup {NoRow},
         id = r \/ reply[id] # None,
         row # NoRow => ~UserClash(id, row) /\ ~JerseyClash(id, row),
         Commits(r, id, row), accounts' \in SUBSET Users
  PROVE  RosterInv'
<1>1. TypeOK'
  <2>1. reply' \in [Requests -> Replies \cup {None}] /\ request' \in [Requests -> Pending \cup {Idle}]
    BY DEF RosterInv, TypeOK, Commits, Answers, Replies
  <2>2. players' \in [Requests -> Row \cup {NoRow}] /\ match' \in {"SCHEDULED", "RECORDING"}
    BY DEF RosterInv, TypeOK, Commits, Answers
  <2>3. allowed' \in SUBSET (Requests \X Teams \X Numbers)
    <3>1. request[r].row.override => request[r].row \in Row
      BY DEF NoRow
    <3>2. request[r].row.override =>
            <<id, request[r].row.team, request[r].row.number>> \in Requests \X Teams \X Numbers
      BY <3>1 DEF Row
    <3> QED BY <3>2 DEF RosterInv, TypeOK, Commits
  <2> QED BY <2>1, <2>2, <2>3 DEF TypeOK
<1>2. Answered'
  BY CheckInAssumption DEF RosterInv, TypeOK, Answered, Commits, Answers, Roster, Replies, Idle
<1>3. players' = [players EXCEPT ![id] = row] /\ players \in [Requests -> Row \cup {NoRow}]
  BY DEF RosterInv, TypeOK, Commits
<1>4. OnePlaceEach'
  BY <1>3 DEF RosterInv, OnePlaceEach, Roster, UserClash
<1>5. IndexHolds'
  <2> SUFFICES ASSUME NEW a \in Roster', NEW b \in Roster', a # b,
                      players'[a].team = players'[b].team,
                      players'[a].number = players'[b].number,
                      ~players'[a].override, ~players'[b].override
               PROVE  FALSE
    BY DEF IndexHolds
  <2>1. a \in Requests /\ b \in Requests
    BY DEF Roster
  <2>2. CASE a # id /\ b # id
    BY <1>3, <2>1, <2>2 DEF RosterInv, IndexHolds, Roster
  <2>3. CASE a = id
    <3>1. players'[a] = row /\ players'[b] = players[b] /\ row # NoRow /\ b \in Roster \ {id}
      BY <1>3, <2>1, <2>3 DEF Roster
    <3> QED BY <3>1 DEF JerseyClash, Wears
  <2>4. CASE b = id
    <3>1. players'[b] = row /\ players'[a] = players[a] /\ row # NoRow /\ a \in Roster \ {id}
      BY <1>3, <2>1, <2>4 DEF Roster
    <3> QED BY <3>1 DEF JerseyClash, Wears
  <2> QED BY <2>2, <2>3, <2>4
<1> QED BY <1>1, <1>2, <1>4, <1>5 DEF RosterInv

\* What an edit writes keeps the player, and is a row.
LEMMA MergedRow ==
  ASSUME RosterInv, NEW r \in Requests, request[r].op = "edit",
         request[r].id \in Roster
  PROVE  /\ Merged(request[r]) \in Row
         /\ Merged(request[r]).user = players[request[r].id].user
<1>1. request[r] \in [op : {"edit"}, id : Requests, loaded : Row, row : Row]
  BY DEF RosterInv, TypeOK, Pending, Idle
<1>2. players[request[r].id] \in Row
  BY <1>1 DEF RosterInv, TypeOK, Roster
<1> DEFINE now == players[request[r].id]
<1>3. Merged(request[r]).user = now.user /\ Merged(request[r]).consent = now.consent
  BY <1>2 DEF Merged, Row
<1> QED BY <1>1, <1>2, <1>3 DEF Merged, Row

\* The verdict on a row that passes.
LEMMA VerdictOK ==
  ASSUME NEW id, NEW row, Verdict(id, row) = "OK"
  PROVE  ~UserClash(id, row) /\ ~JerseyClash(id, row)
  BY DEF Verdict

\* The verdict is an answer.
LEMMA VerdictType == \A id, row : Verdict(id, row) \in Replies
  BY DEF Verdict, Replies

-----------------------------------------------------------------------------
\* The first step of a request keeps the roster in order.
LEMMA BeginRoster ==
  ASSUME RosterInv, NEW r \in Requests, Begin(r)
  PROVE  RosterInv'
<1>1. ASSUME NEW u \in Users, NEW t \in Teams, NEW n \in Numbers, NEW consent \in BOOLEAN,
             Join(r, u, t, n, consent)
      PROVE  RosterInv'
  <2> DEFINE row == [user |-> u, team |-> t, number |-> n, override |-> FALSE, consent |-> TRUE]
             p   == [op |-> "insert", id |-> r, loaded |-> NoRow, row |-> row]
  <2>1. New(r)
    BY <1>1 DEF Join
  <2>2. (\E answer \in Replies : Refused(r, answer)) \/ Loads(r, p)
    BY <1>1 DEF Join, Inserts, Replies
  <2>3. p \in Pending /\ p.op \notin {"edit", "delete"}
    BY DEF Pending, Row
  <2> QED BY <2>1, <2>2, <2>3, RefusedRoster, LoadsRoster
<1>2. ASSUME NEW u \in Users, NEW t \in Teams, NEW n \in Numbers, NEW consent \in BOOLEAN,
             NEW allow \in BOOLEAN, Add(r, u, t, n, consent, allow)
      PROVE  RosterInv'
  <2> DEFINE row == [user |-> u, team |-> t, number |-> n, override |-> allow,
                     consent |-> consent]
             p(op) == [op |-> op, id |-> r, loaded |-> NoRow, row |-> row]
  <2>1. New(r)
    BY <1>2 DEF Add
  <2>2. \/ \E answer \in Replies : Refused(r, answer)
        \/ Loads(r, p("insert")) \/ Loads(r, p("register"))
    BY <1>2 DEF Add, Inserts, Replies
  <2>3. p("insert") \in Pending /\ p("register") \in Pending
    BY DEF Pending, Row
  <2>4. /\ p("insert").op \notin {"edit", "delete"}
        /\ p("register").op \notin {"edit", "delete"}
    OBVIOUS
  <2> QED BY <2>1, <2>2, <2>3, <2>4, RefusedRoster, LoadsRoster
<1>3. ASSUME NEW id \in Roster, Deletes(r, id), New(r)
      PROVE  RosterInv'
  <2> DEFINE p == [op |-> "delete", id |-> id, loaded |-> NoRow, row |-> NoRow]
  <2>1. p \in Pending /\ p.id \in Roster /\ Loads(r, p)
    BY <1>3 DEF Pending, Deletes, Roster
  <2> QED BY <1>3, <2>1, LoadsRoster
<1>4. ASSUME NEW u \in Users, Leave(r, u)
      PROVE  RosterInv'
  <2>1. New(r) /\ ((\E answer \in Replies : Refused(r, answer))
                   \/ \E id \in Roster : Deletes(r, id))
    BY <1>4 DEF Leave, Replies
  <2> QED BY <2>1, <1>3, RefusedRoster
<1>5. ASSUME NEW id \in Requests, Remove(r, id)
      PROVE  RosterInv'
  BY <1>3, <1>5 DEF Remove
<1>6. ASSUME NEW id \in Requests, NEW t \in Teams, NEW n \in Numbers, NEW allow \in BOOLEAN,
             Edit(r, id, t, n, allow)
      PROVE  RosterInv'
  <2> DEFINE row == [players[id] EXCEPT !.team = t, !.number = n, !.override = allow]
             p   == [op |-> "edit", id |-> id, loaded |-> players[id], row |-> row]
  <2>1. New(r) /\ id \in Roster /\ ((\E answer \in Replies : Refused(r, answer)) \/ Loads(r, p))
    BY <1>6 DEF Edit, Replies
  <2>2. players[id] \in Row
    BY <2>1 DEF RosterInv, TypeOK, Roster
  <2>3. row \in Row
    BY <2>2 DEF Row
  <2>4. p \in Pending
    BY <2>2, <2>3 DEF Pending
  <2> QED BY <2>1, <2>4, RefusedRoster, LoadsRoster
<1> QED BY <1>1, <1>2, <1>4, <1>5, <1>6 DEF Begin

\* The second step does: whatever was committed since the first one, the row is
\* held against the indexes as they are now.
LEMMA WriteRoster ==
  ASSUME RosterInv, NEW r \in Requests, Write(r)
  PROVE  RosterInv'
<1> DEFINE p == request[r]
<1>0. p \in Pending \cup {Idle}
  BY DEF RosterInv, TypeOK
<1>1. CASE WriteInsert(r)
  <2>1. p \in [op : {"insert", "register"}, id : Requests, loaded : {NoRow}, row : Row]
    BY <1>0, <1>1 DEF WriteInsert, Pending, Idle
  <2>2. p # Idle /\ p.row \in Row
    BY <2>1 DEF Idle
  <2>3. ASSUME NEW answer \in Replies, RollsBack(r, answer)
        PROVE  RosterInv'
    BY <2>2, <2>3, RollsBackRoster
  <2>4. ASSUME Verdict(r, p.row) = "OK", Commits(r, r, p.row),
               accounts' = accounts \cup {p.row.user}
        PROVE  RosterInv'
    <3>1. p.row.user \in Users
      BY <2>2 DEF Row
    <3>2. accounts' \in SUBSET Users
      BY <2>4, <3>1 DEF RosterInv, TypeOK
    <3> QED BY <2>2, <2>4, <3>2, VerdictOK, CommitsRoster
  <2> QED BY <1>1, <2>3, <2>4, VerdictType DEF WriteInsert, Replies
<1>2. CASE WriteEdit(r)
  <2>1. p \in [op : {"edit"}, id : Requests, loaded : Row, row : Row]
    BY <1>0, <1>2 DEF WriteEdit, Pending, Idle
  <2>2. p # Idle /\ p.row \in Row /\ p.id \in Requests
    BY <2>1 DEF Idle
  <2>3. ASSUME NEW answer \in Replies, RollsBack(r, answer)
        PROVE  RosterInv'
    BY <2>2, <2>3, RollsBackRoster
  <2>4. ASSUME p.id \in Roster, ~JerseyClash(p.id, Merged(p)),
               Commits(r, p.id, Merged(p)), UNCHANGED accounts
        PROVE  RosterInv'
    <3>1. Merged(p) \in Row /\ Merged(p).user = players[p.id].user
      BY <2>1, <2>4, MergedRow
    <3>2. ~UserClash(p.id, Merged(p))
      BY <2>4, <3>1 DEF RosterInv, OnePlaceEach, UserClash
    <3>3. reply[p.id] # None
      BY <2>4 DEF RosterInv, Answered
    <3>4. accounts' \in SUBSET Users
      BY <2>4 DEF RosterInv, TypeOK
    <3> QED BY <2>2, <2>4, <3>1, <3>2, <3>3, <3>4, CommitsRoster
  <2> QED BY <1>2, <2>3, <2>4 DEF WriteEdit, Replies
<1>3. CASE WriteDelete(r)
  <2>1. p \in [op : {"delete"}, id : Requests, loaded : {NoRow}, row : {NoRow}]
    BY <1>0, <1>3 DEF WriteDelete, Pending, Idle
  <2>2. p # Idle /\ p.row = NoRow /\ p.id \in Requests
    BY <2>1 DEF Idle
  <2>3. reply[p.id] # None
    BY <1>3 DEF WriteDelete, RosterInv, Answered
  <2>4. Commits(r, p.id, NoRow) /\ UNCHANGED accounts
    BY <1>3 DEF WriteDelete
  <2>5. accounts' \in SUBSET Users
    BY <2>4 DEF RosterInv, TypeOK
  <2> QED BY <2>2, <2>3, <2>4, <2>5, CommitsRoster
<1> QED BY <1>1, <1>2, <1>3 DEF Write

\* Every step keeps the roster in order.
LEMMA NextRoster ==
  ASSUME RosterInv, [Next]_vars
  PROVE  RosterInv'
<1>1. ASSUME NEW u \in Users, SignUp(u) PROVE RosterInv'
  BY <1>1 DEF SignUp, RosterInv, TypeOK, Answered, OnePlaceEach, IndexHolds, Roster
<1>2. CASE StartMatch
  BY <1>2 DEF StartMatch, RosterInv, TypeOK, Answered, OnePlaceEach, IndexHolds, Roster
<1>3. CASE UNCHANGED vars
  BY <1>3 DEF vars, RosterInv, TypeOK, Answered, OnePlaceEach, IndexHolds, Roster
<1> QED BY <1>1, <1>2, <1>3, BeginRoster, WriteRoster DEF Next

\* The roster is in order at every moment, however requests interleave.
LEMMA RosterAlways == Spec => []RosterInv
  BY InitRoster, NextRoster, PTL DEF Spec

\* The variables of the roster have their types.
THEOREM RosterTyping == Spec => []TypeOK
<1>1. RosterInv => TypeOK
  BY DEF RosterInv
<1> QED BY <1>1, RosterAlways, PTL

\* Nobody is on the roster twice, for any number of concurrent joins, staff
\* additions, departures and edits (join_match, add_player_as_operator).
THEOREM OnePlaceAlways == Spec => []OnePlaceEach
<1>1. RosterInv => OnePlaceEach
  BY DEF RosterInv
<1> QED BY <1>1, RosterAlways, PTL

\* The partial unique index keeps its rule through every edit, racing or not.
THEOREM IndexAlways == Spec => []IndexHolds
<1>1. RosterInv => IndexHolds
  BY DEF RosterInv
<1> QED BY <1>1, RosterAlways, PTL

\* The first step of a request writes no row.
LEMMA BeginWritesNothing ==
  ASSUME NEW r \in Requests, Begin(r)
  PROVE  players' = players
<1>1. \A answer : Refused(r, answer) => players' = players
  BY DEF Refused
<1>2. \A pending : Loads(r, pending) => players' = players
  BY DEF Loads
<1>3. \A u, t, n, consent : Join(r, u, t, n, consent) => players' = players
  BY <1>1, <1>2 DEF Join, Inserts
<1>4. \A u, t, n, consent, allow : Add(r, u, t, n, consent, allow) => players' = players
  BY <1>1, <1>2 DEF Add, Inserts
<1>5. \A id, t, n, allow : Edit(r, id, t, n, allow) => players' = players
  BY <1>1, <1>2 DEF Edit
<1>6. \A u, id : Leave(r, u) \/ Remove(r, id) => players' = players
  BY <1>1, <1>2 DEF Leave, Remove, Deletes
<1> QED BY <1>3, <1>4, <1>5, <1>6 DEF Begin

\* It refuses or waits to write.
LEMMA BeginAnswersOrLoads ==
  ASSUME NEW r \in Requests, Begin(r)
  PROVE  (\E answer : Refused(r, answer)) \/ (\E pending : Loads(r, pending))
<1>1. ASSUME NEW u, NEW t, NEW n, NEW consent, Join(r, u, t, n, consent)
      PROVE  (\E answer : Refused(r, answer)) \/ (\E pending : Loads(r, pending))
  BY <1>1 DEF Join, Inserts
<1>2. ASSUME NEW u, NEW t, NEW n, NEW consent, NEW allow, Add(r, u, t, n, consent, allow)
      PROVE  (\E answer : Refused(r, answer)) \/ (\E pending : Loads(r, pending))
  BY <1>2 DEF Add, Inserts
<1>3. ASSUME NEW id, NEW t, NEW n, NEW allow, Edit(r, id, t, n, allow)
      PROVE  (\E answer : Refused(r, answer)) \/ (\E pending : Loads(r, pending))
  BY <1>3 DEF Edit
<1>4. ASSUME NEW u, NEW id, Leave(r, u) \/ Remove(r, id)
      PROVE  (\E answer : Refused(r, answer)) \/ (\E pending : Loads(r, pending))
  BY <1>4 DEF Leave, Remove, Deletes
<1> QED BY <1>1, <1>2, <1>3, <1>4 DEF Begin

\* Only a request that is new takes its first step.
LEMMA BeginIsNew ==
  ASSUME NEW r \in Requests, Begin(r)
  PROVE  New(r)
  BY DEF Begin, Join, Add, Edit, Leave, Remove

\* A player who left stays out until he joins again, whatever edits were under
\* way (update_player).
THEOREM LeaversStayOut == Spec => LeftStaysOut
<1>1. ASSUME RosterInv, [Next]_vars
      PROVE  [\A id \in Requests \ Roster : players'[id] # NoRow => reply[id] = None]_vars
  <2> SUFFICES ASSUME NEW id \in Requests \ Roster, players'[id] # NoRow
               PROVE  reply[id] = None
    OBVIOUS
  <2>0. players[id] = NoRow /\ players # players'
    BY DEF Roster
  <2>1. PICK r \in Requests : Write(r)
    <3>1. ~UNCHANGED vars /\ ~StartMatch /\ \A u \in Users : ~SignUp(u)
      BY <2>0 DEF vars, StartMatch, SignUp
    <3>2. ASSUME NEW r \in Requests, Begin(r)
          PROVE  FALSE
      BY <2>0, <3>2, BeginWritesNothing
    <3> QED BY <1>1, <3>1, <3>2 DEF Next
  <2>2. request[r] # Idle
    BY <2>1 DEF Write, WriteInsert, WriteEdit, WriteDelete, Idle
  <2>3. players \in [Requests -> Row \cup {NoRow}]
    BY <1>1 DEF RosterInv, TypeOK
  <2>4. ~WriteDelete(r)
    BY <2>0, <2>3 DEF WriteDelete, Commits
  <2>5. ~WriteEdit(r)
    BY <2>0, <2>3 DEF WriteEdit, Commits, RollsBack, Roster
  <2>6. id = r
    BY <2>0, <2>1, <2>3, <2>4, <2>5 DEF Write, WriteInsert, Commits, RollsBack
  <2> QED BY <1>1, <2>2, <2>6 DEF RosterInv, Answered
<1> QED BY <1>1, RosterAlways, PTL DEF Spec, LeftStaysOut

\* A player is told JERSEY_TAKEN at the insert only when the number is worn by
\* somebody else, never because of another request of his own (join_match).
THEOREM TakenAlways == Spec => TakenBySomebodyElse
<1>1. ASSUME RosterInv, [Next]_vars
      PROVE  [\A r \in Requests :
                LET row == request[r].row IN
                request[r].op \in {"insert", "register"} /\ reply'[r] = "JERSEY_TAKEN"
                  => \E id \in Roster : /\ Wears(id, row.team, row.number)
                                        /\ players[id].user # row.user]_vars
  <2> SUFFICES ASSUME NEW r \in Requests, request[r].op \in {"insert", "register"},
                      reply'[r] = "JERSEY_TAKEN"
               PROVE  \E id \in Roster : /\ Wears(id, request[r].row.team, request[r].row.number)
                                         /\ players[id].user # request[r].row.user
    OBVIOUS
  <2>1. request[r] # Idle /\ reply[r] = None /\ reply \in [Requests -> Replies \cup {None}]
    BY <1>1 DEF RosterInv, Answered, TypeOK, Idle
  <2>2. reply'[r] # reply[r]
    BY <2>1, CheckInAssumption DEF Replies
  <2>3. \A answer, s : s # r => ~(Refused(s, answer) \/ Answers(s, answer))
    BY <2>1, <2>2 DEF Refused, Answers
  <2>4. \A pending, s : ~Loads(s, pending)
    BY <2>2 DEF Loads
  <2>5. \A s \in Requests : ~Begin(s)
    <3> SUFFICES ASSUME NEW s \in Requests, Begin(s) PROVE FALSE
      OBVIOUS
    <3>1. s # r
      BY <2>1, BeginIsNew DEF New
    <3> QED BY <3>1, <2>3, <2>4, BeginAnswersOrLoads
  <2>6. WriteInsert(r)
    <3>1. \A s \in Requests : Write(s) => \E answer : Answers(s, answer)
      BY DEF Write, WriteInsert, WriteEdit, WriteDelete, Commits, RollsBack
    <3>2. Write(r)
      BY <1>1, <2>2, <2>3, <2>5, <3>1 DEF Next, vars, SignUp, StartMatch
    <3> QED BY <3>2 DEF Write, WriteEdit, WriteDelete
  <2>7. Verdict(r, request[r].row) = "JERSEY_TAKEN"
    BY <2>1, <2>6 DEF WriteInsert, RollsBack, Commits, Answers
  <2> QED BY <2>7 DEF Verdict, JerseyClash, UserClash
<1> QED BY <1>1, RosterAlways, PTL DEF Spec, TakenBySomebodyElse

-----------------------------------------------------------------------------
\* A first step keeps the rows edits aim at and the overrides that were allowed.
LEMMA BeginOverride ==
  ASSUME OverrideInv, NEW r \in Requests, Begin(r)
  PROVE  (EditsAreCurrent /\ OverridesWereAllowed)'
<1>0. players' = players /\ allowed' = allowed /\ New(r)
  BY BeginWritesNothing, BeginAnswersOrLoads, BeginIsNew DEF Refused, Loads
<1>1. OverridesWereAllowed'
  BY <1>0 DEF OverrideInv, OverridesWereAllowed, Roster
<1>2. ASSUME request' = request
      PROVE  EditsAreCurrent'
  BY <1>0, <1>2 DEF OverrideInv, EditsAreCurrent
<1>3. ASSUME NEW p, p.op # "edit", Loads(r, p)
      PROVE  EditsAreCurrent'
  BY <1>0, <1>3 DEF OverrideInv, EditsAreCurrent, Loads, RosterInv, TypeOK
<1>4. ASSUME NEW id \in Requests, NEW t \in Teams, NEW n \in Numbers, NEW allow \in BOOLEAN,
             Edit(r, id, t, n, allow)
      PROVE  EditsAreCurrent'
  <2> DEFINE row == [players[id] EXCEPT !.team = t, !.number = n, !.override = allow]
             p   == [op |-> "edit", id |-> id, loaded |-> players[id], row |-> row]
  <2>1. id \in Roster /\ (request' = request \/ Loads(r, p))
    BY <1>4 DEF Edit, Refused
  <2>2. CASE request' = request
    BY <1>2, <2>2
  <2>3. CASE Loads(r, p)
    <3>1. players[id] \in Row
      BY <2>1 DEF OverrideInv, RosterInv, TypeOK, Roster
    <3>2. row.user = players[id].user /\ row.consent = players[id].consent
      BY <3>1 DEF Row
    <3>3. request' = [request EXCEPT ![r] = p] /\ request \in [Requests -> Pending \cup {Idle}]
      BY <2>3 DEF Loads, OverrideInv, RosterInv, TypeOK
    <3>4. p.id = id /\ p.loaded = players[id] /\ p.row = row
      OBVIOUS
    <3> HIDE DEF p, row
    <3>5. \A s \in Requests : s # r => request'[s] = request[s]
      BY <3>3
    <3>6. request'[r] = p
      BY <3>3
    <3> QED BY <1>0, <3>2, <3>4, <3>5, <3>6 DEF OverrideInv, EditsAreCurrent
  <2> QED BY <2>1, <2>2, <2>3
<1> QED
  <2>1. \A s, answer : Refused(s, answer) => request' = request
    BY DEF Refused
  <2>2. ASSUME NEW u \in Users, NEW t \in Teams, NEW n \in Numbers, NEW consent \in BOOLEAN,
               \/ Join(r, u, t, n, consent)
               \/ \E allow \in BOOLEAN : Add(r, u, t, n, consent, allow)
        PROVE  EditsAreCurrent'
    BY <1>2, <1>3, <2>1, <2>2 DEF Join, Add, Inserts
  <2>3. ASSUME NEW u, NEW id, Leave(r, u) \/ Remove(r, id)
        PROVE  EditsAreCurrent'
    BY <1>2, <1>3, <2>1, <2>3 DEF Leave, Remove, Deletes
  <2> QED BY <1>1, <1>4, <2>2, <2>3 DEF Begin

\* What an edit writes is what it checked.
LEMMA MergedIsChosen ==
  ASSUME OverrideInv, NEW r \in Requests, request[r].op = "edit", request[r].id \in Roster
  PROVE  Merged(request[r]) = request[r].row
<1> DEFINE p == request[r]
<1>1. p \in [op : {"edit"}, id : Requests, loaded : Row, row : Row]
  BY DEF OverrideInv, RosterInv, TypeOK, Pending, Idle
<1>2. players[p.id] = p.loaded /\ p.row.user = p.loaded.user /\ p.row.consent = p.loaded.consent
  BY DEF OverrideInv, EditsAreCurrent, Roster
<1>3. Merged(p) \in Row
  BY MergedRow DEF OverrideInv
<1>4. /\ Merged(p).user = p.row.user /\ Merged(p).team = p.row.team
      /\ Merged(p).number = p.row.number /\ Merged(p).override = p.row.override
      /\ Merged(p).consent = p.row.consent
  BY <1>1, <1>2 DEF Merged, Row
<1> QED BY <1>1, <1>3, <1>4 DEF Row

\* A commit of the row the request chose keeps the overrides that were allowed,
\* and the rows of the other edits.
LEMMA CommitsOverride ==
  ASSUME OverrideInv, NEW r \in Requests, request[r] # Idle, NEW id \in Requests,
         NEW row, row = NoRow \/ row = request[r].row, Commits(r, id, row),
         row # NoRow => \A s \in Requests :
                          request[s].op = "edit" /\ request[s].id = id => s = r
  PROVE  (EditsAreCurrent /\ OverridesWereAllowed)'
<1>1. /\ players' = [players EXCEPT ![id] = row] /\ players \in [Requests -> Row \cup {NoRow}]
      /\ request' = [request EXCEPT ![r] = Idle] /\ request \in [Requests -> Pending \cup {Idle}]
      /\ allowed \subseteq allowed'
  BY DEF OverrideInv, RosterInv, TypeOK, Commits, Answers
<1>2. EditsAreCurrent'
  <2>1. \A s \in Requests : request'[s].op = "edit" => s # r /\ request'[s] = request[s]
    BY <1>1 DEF Idle
  <2>2. \A s \in Requests : request'[s].op = "edit" => request'[s].id \in Requests
    BY <1>1, <2>1 DEF Pending, Idle
  <2> QED BY <1>1, <2>1, <2>2 DEF OverrideInv, EditsAreCurrent
<1>3. OverridesWereAllowed'
  <2> SUFFICES ASSUME NEW x \in Roster', players'[x].override
               PROVE  <<x, players'[x].team, players'[x].number>> \in allowed'
    BY DEF OverridesWereAllowed
  <2>1. CASE x # id
    BY <1>1, <2>1 DEF OverrideInv, OverridesWereAllowed, Roster
  <2>2. CASE x = id
    <3>1. row # NoRow /\ row = request[r].row /\ players'[x] = row
      BY <1>1, <2>2 DEF Roster
    <3> QED BY <2>2, <3>1 DEF Commits
  <2> QED BY <2>1, <2>2
<1> QED BY <1>2, <1>3

\* A second step keeps both when nobody else edits the same player.
LEMMA WriteOverride ==
  ASSUME OverrideInv, EditedByOne, NEW r \in Requests, Write(r)
  PROVE  (EditsAreCurrent /\ OverridesWereAllowed)'
<1> DEFINE p == request[r]
<1>0. p \in Pending \cup {Idle} /\ p # Idle
  BY DEF OverrideInv, RosterInv, TypeOK, Write, WriteInsert, WriteEdit, WriteDelete, Idle
<1>1. ASSUME NEW answer, RollsBack(r, answer)
      PROVE  (EditsAreCurrent /\ OverridesWereAllowed)'
  <2>1. request' = [request EXCEPT ![r] = Idle] /\ request \in [Requests -> Pending \cup {Idle}]
    BY <1>1 DEF RollsBack, Answers, OverrideInv, RosterInv, TypeOK
  <2>2. \A s \in Requests : request'[s].op = "edit" => request'[s] = request[s]
    BY <2>1 DEF Idle
  <2>3. players' = players /\ allowed' = allowed
    BY <1>1 DEF RollsBack
  <2> QED BY <2>2, <2>3 DEF OverrideInv, EditsAreCurrent, OverridesWereAllowed, Roster
<1>2. CASE WriteInsert(r)
  <2>1. ASSUME Commits(r, r, p.row)
        PROVE  (EditsAreCurrent /\ OverridesWereAllowed)'
    <3>1. reply[r] = None
      BY <1>0 DEF OverrideInv, RosterInv, Answered
    <3>2. \A s \in Requests : request[s].op = "edit" => request[s].id # r
      BY <3>1 DEF OverrideInv, RosterInv, Answered
    <3> QED BY <1>0, <2>1, <3>2, CommitsOverride
  <2> QED BY <1>1, <1>2, <2>1 DEF WriteInsert
<1>3. CASE WriteEdit(r)
  <2>1. p \in [op : {"edit"}, id : Requests, loaded : Row, row : Row]
    BY <1>0, <1>3 DEF WriteEdit, Pending
  <2>2. ASSUME p.id \in Roster, Commits(r, p.id, Merged(p))
        PROVE  (EditsAreCurrent /\ OverridesWereAllowed)'
    <3>1. Merged(p) = p.row
      BY <2>1, <2>2, MergedIsChosen
    <3>2. \A s \in Requests : request[s].op = "edit" /\ request[s].id = p.id => s = r
      BY <2>1 DEF EditedByOne
    <3> QED BY <1>0, <2>1, <2>2, <3>1, <3>2, CommitsOverride
  <2> QED BY <1>1, <1>3, <2>2 DEF WriteEdit
<1>4. CASE WriteDelete(r)
  <2>1. p.id \in Requests
    BY <1>0, <1>4 DEF WriteDelete, Pending
  <2> QED BY <1>0, <1>4, <2>1, CommitsOverride DEF WriteDelete
<1> QED BY <1>2, <1>3, <1>4 DEF Write

\* Two players wear one number on a team only because staff chose it with the
\* override, or because a player was edited from two screens at once: nothing
\* else that races makes a duplicate (the index, update_player,
\* add_player_as_operator).
THEOREM OnlyRacingEditsDuplicate ==
  Spec /\ []EditedByOne => []DuplicatesWereAllowed
<1>1. Init => OverrideInv
  BY InitRoster DEF Init, OverrideInv, EditsAreCurrent, OverridesWereAllowed, Roster, Idle
<1>2. OverrideInv /\ EditedByOne /\ [Next]_vars => OverrideInv'
  <2> SUFFICES ASSUME OverrideInv, EditedByOne, [Next]_vars PROVE OverrideInv'
    OBVIOUS
  <2>1. RosterInv'
    BY NextRoster DEF OverrideInv
  <2>2. CASE UNCHANGED <<players, request, allowed>>
    BY <2>1, <2>2 DEF OverrideInv, EditsAreCurrent, OverridesWereAllowed, Roster
  <2>3. ASSUME NEW r \in Requests, Begin(r) \/ Write(r)
        PROVE  (EditsAreCurrent /\ OverridesWereAllowed)'
    BY <2>3, BeginOverride, WriteOverride
  <2>4. (EditsAreCurrent /\ OverridesWereAllowed)'
    BY <2>2, <2>3 DEF Next, vars, SignUp, StartMatch, OverrideInv
  <2> QED BY <2>1, <2>4 DEF OverrideInv
<1>3. OverrideInv => DuplicatesWereAllowed
  BY DEF OverrideInv, RosterInv, IndexHolds, OverridesWereAllowed, DuplicatesWereAllowed
<1> QED BY <1>1, <1>2, <1>3, PTL DEF Spec

=============================================================================
