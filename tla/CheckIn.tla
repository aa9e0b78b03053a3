------------------------------- MODULE CheckIn -------------------------------
(***************************************************************************)
(* The roster of one match under concurrent requests: players who join and *)
(* leave, staff who add, edit and remove them, and kick-off.               *)
(*                                                                         *)
(* A request is one READ COMMITTED transaction in two steps: it loads the  *)
(* match with its players and checks them, and it writes and commits.      *)
(* Others commit in between; what the write meets is decided by the two    *)
(* unique indexes of match_players and by the row as it is by then.        *)
(***************************************************************************)
EXTENDS FiniteSets, Domain

CONSTANTS
  Requests,     \* each makes one call; a row's id is the request that inserted it
  Users,
  Teams,
  Numbers,
  None,         \* no row
  Ops,          \* the calls made
  RacingEdits   \* whether staff edit one player from two screens at once

Replies == {"OK", "ERROR", "NOT_FOUND", "MATCH_NOT_JOINABLE", "MATCH_ALREADY_STARTED",
            "CONSENT_REQUIRED", "ALREADY_JOINED", "JERSEY_TAKEN"}

ASSUME CheckInAssumption ==
  /\ None \notin Replies
  /\ Ops \subseteq {"join", "add", "edit", "leave", "remove"}
  /\ RacingEdits \in BOOLEAN

VARIABLES
  match,     \* Match.status: SCHEDULED or RECORDING
  accounts,  \* the users that have one
  players,   \* id |-> the MatchPlayer row
  request,   \* what each request is about to write
  reply,     \* what each was answered
  allowed    \* history: <<id, team, number>> staff have chosen to override

vars == <<match, accounts, players, request, reply, allowed>>

Row == [user : Users, team : Teams, number : Numbers,
        override : BOOLEAN, consent : BOOLEAN]
NoRow == [user |-> None, team |-> None, number |-> None,
          override |-> FALSE, consent |-> FALSE]

Pending == [op : {"insert", "register"}, id : Requests, loaded : {NoRow}, row : Row]
     \cup [op : {"edit"}, id : Requests, loaded : Row, row : Row]
     \cup [op : {"delete"}, id : Requests, loaded : {NoRow}, row : {NoRow}]
Idle == [op |-> "none", id |-> None, loaded |-> NoRow, row |-> NoRow]

TypeOK ==
  /\ match \in {"SCHEDULED", "RECORDING"}
  /\ accounts \in SUBSET Users
  /\ players \in [Requests -> Row \cup {NoRow}]
  /\ request \in [Requests -> Pending \cup {Idle}]
  /\ reply \in [Requests -> Replies \cup {None}]
  /\ allowed \in SUBSET (Requests \X Teams \X Numbers)

Roster      == {id \in Requests : players[id] # NoRow}
Joined(u)   == \E id \in Roster : players[id].user = u
Wears(id, t, n) == players[id].team = t /\ players[id].number = n
Taken(t, n) == \E id \in Roster : Wears(id, t, n)
Accepting   == match \in AcceptsPlayers

-----------------------------------------------------------------------------
\* The two ways the first step of a request ends.
New(r) == request[r] = Idle /\ reply[r] = None

Loads(r, pending) ==
  /\ request' = [request EXCEPT ![r] = pending]
  /\ UNCHANGED <<match, accounts, players, reply, allowed>>

Refused(r, answer) ==
  /\ reply' = [reply EXCEPT ![r] = answer]
  /\ UNCHANGED <<match, accounts, players, request, allowed>>

Inserts(r, op, row) == Loads(r, [op |-> op, id |-> r, loaded |-> NoRow, row |-> row])

\* join_match, up to the insert.
Join(r, u, t, n, consent) ==
  LET row == [user |-> u, team |-> t, number |-> n, override |-> FALSE, consent |-> TRUE]
  IN  /\ "join" \in Ops /\ New(r) /\ u \in accounts
      /\ \/ ~Accepting /\ Refused(r, "MATCH_NOT_JOINABLE")
         \/ Accepting /\ ~consent /\ Refused(r, "CONSENT_REQUIRED")
         \/ Accepting /\ consent /\ Joined(u) /\ Refused(r, "ALREADY_JOINED")
         \/ /\ Accepting /\ consent /\ ~Joined(u)
            /\ IF Taken(t, n) THEN Refused(r, "JERSEY_TAKEN") ELSE Inserts(r, "insert", row)

\* add_player_as_operator, up to the insert; "register" when the account of
\* this phone number is created first.
Add(r, u, t, n, consent, allow) ==
  LET row == [user |-> u, team |-> t, number |-> n, override |-> allow, consent |-> consent]
  IN  /\ "add" \in Ops /\ New(r)
      /\ \/ ~Accepting /\ Refused(r, "MATCH_NOT_JOINABLE")
         \/ Accepting /\ Joined(u) /\ Refused(r, "ALREADY_JOINED")
         \/ /\ Accepting /\ ~Joined(u)
            /\ IF ~allow /\ Taken(t, n) THEN Refused(r, "JERSEY_TAKEN")
               ELSE Inserts(r, IF u \in accounts THEN "insert" ELSE "register", row)

Editing(id) == \E r \in Requests : request[r].op = "edit" /\ request[r].id = id

\* update_player, up to the flush: at any match status.
Edit(r, id, t, n, allow) ==
  LET row == [players[id] EXCEPT !.team = t, !.number = n, !.override = allow]
  IN  /\ "edit" \in Ops /\ New(r) /\ id \in Roster
      /\ RacingEdits \/ ~Editing(id)
      /\ IF ~allow /\ \E other \in Roster \ {id} : Wears(other, t, n)
         THEN Refused(r, "JERSEY_TAKEN")
         ELSE Loads(r, [op |-> "edit", id |-> id, loaded |-> players[id], row |-> row])

Deletes(r, id) == Loads(r, [op |-> "delete", id |-> id, loaded |-> NoRow, row |-> NoRow])

Leave(r, u) ==
  /\ "leave" \in Ops /\ New(r) /\ u \in accounts
  /\ \/ ~Joined(u) /\ Refused(r, "NOT_FOUND")
     \/ Joined(u) /\ ~Accepting /\ Refused(r, "MATCH_ALREADY_STARTED")
     \/ Accepting /\ \E id \in Roster : players[id].user = u /\ Deletes(r, id)

\* remove_player: at any match status.
Remove(r, id) == "remove" \in Ops /\ New(r) /\ id \in Roster /\ Deletes(r, id)

-----------------------------------------------------------------------------
\* Faulty variant: an index that is not there.
NoClash(id, row) == FALSE

\* match_players_user_unique and match_players_jersey_key, which leaves
\* overridden rows out.
UserClash(id, row) == \E other \in Roster \ {id} : players[other].user = row.user
JerseyClash(id, row) ==
  /\ ~row.override
  /\ \E other \in Roster \ {id} :
       ~players[other].override /\ Wears(other, row.team, row.number)

\* Faulty variant: the indexes the other way round.
JerseyFirst(id, row) ==
  CASE JerseyClash(id, row) -> "JERSEY_TAKEN"
    [] ~JerseyClash(id, row) /\ UserClash(id, row) -> "ALREADY_JOINED"
    [] OTHER -> "OK"

\* What PostgreSQL makes of the row, and _integrity_kind of that: the index on
\* users is the older one and is checked first.
Verdict(id, row) ==
  CASE UserClash(id, row) -> "ALREADY_JOINED"
    [] ~UserClash(id, row) /\ JerseyClash(id, row) -> "JERSEY_TAKEN"
    [] OTHER -> "OK"

Answers(r, answer) ==
  /\ reply' = [reply EXCEPT ![r] = answer]
  /\ request' = [request EXCEPT ![r] = Idle]
  /\ UNCHANGED match

\* The row is written and the request commits; or nothing is.
Commits(r, id, row) ==
  /\ Answers(r, "OK")
  /\ players' = [players EXCEPT ![id] = row]
  /\ allowed' = IF row # NoRow /\ request[r].row.override
                THEN allowed \cup {<<id, request[r].row.team, request[r].row.number>>}
                ELSE allowed
RollsBack(r, answer) ==
  Answers(r, answer) /\ UNCHANGED <<accounts, players, allowed>>

\* _insert_player.  A user created in the meantime under the same phone is an
\* IntegrityError outside of the savepoint.
WriteInsert(r) ==
  LET p == request[r] IN
  /\ p.op \in {"insert", "register"}
  /\ \/ p.op = "register" /\ p.row.user \in accounts /\ RollsBack(r, "ERROR")
     \/ /\ p.op = "register" => p.row.user \notin accounts
        /\ IF Verdict(r, p.row) = "OK"
           THEN Commits(r, r, p.row) /\ accounts' = accounts \cup {p.row.user}
           ELSE RollsBack(r, Verdict(r, p.row))

\* Faulty variant: a team that is not part of the call is not left as it was.
Unstated(p) ==
  [p.row EXCEPT !.team = IF p.row.team # p.loaded.team THEN p.row.team ELSE None]

\* The UPDATE sets the columns in which the request's copy differs from what
\* it loaded.
Merged(p) ==
  LET now == players[p.id]
  IN [now EXCEPT !.team     = IF p.row.team # p.loaded.team THEN p.row.team ELSE @,
                 !.number   = IF p.row.number # p.loaded.number THEN p.row.number ELSE @,
                 !.override = IF p.row.override # p.loaded.override THEN p.row.override ELSE @]

\* Faulty variant: an edit that writes back a player who left.
WriteUpsert(r) ==
  LET p == request[r] IN
  p.op = "edit" /\ Commits(r, p.id, p.row) /\ UNCHANGED accounts

\* The flush of update_player.  No column changed: no statement.  The row is
\* gone: StaleDataError.
WriteEdit(r) ==
  LET p == request[r] IN
  /\ p.op = "edit"
  /\ \/ p.row = p.loaded /\ RollsBack(r, "OK")
     \/ p.row # p.loaded /\ p.id \notin Roster /\ RollsBack(r, "ERROR")
     \/ /\ p.row # p.loaded /\ p.id \in Roster
        /\ IF JerseyClash(p.id, Merged(p)) THEN RollsBack(r, "JERSEY_TAKEN")
           ELSE Commits(r, p.id, Merged(p)) /\ UNCHANGED accounts

\* Deleting a row that is already gone is not an error.
WriteDelete(r) ==
  /\ request[r].op = "delete"
  /\ Commits(r, request[r].id, NoRow)
  /\ UNCHANGED accounts

-----------------------------------------------------------------------------
\* verify_otp creates the account of a phone number at its first log-in.
SignUp(u) ==
  /\ u \notin accounts /\ accounts' = accounts \cup {u}
  /\ UNCHANGED <<match, players, request, reply, allowed>>

StartMatch ==
  /\ Accepting /\ match' = "RECORDING"
  /\ UNCHANGED <<accounts, players, request, reply, allowed>>

Init ==
  /\ match = "SCHEDULED" /\ accounts = {}
  /\ players = [r \in Requests |-> NoRow]
  /\ request = [r \in Requests |-> Idle]
  /\ reply = [r \in Requests |-> None]
  /\ allowed = {}

Begin(r) ==
  \/ \E u \in Users, t \in Teams, n \in Numbers, consent \in BOOLEAN :
       \/ Join(r, u, t, n, consent)
       \/ \E allow \in BOOLEAN : Add(r, u, t, n, consent, allow)
  \/ \E u \in Users : Leave(r, u)
  \/ \E id \in Requests : Remove(r, id)
  \/ \E id \in Requests, t \in Teams, n \in Numbers, allow \in BOOLEAN :
       Edit(r, id, t, n, allow)

Write(r) == WriteInsert(r) \/ WriteEdit(r) \/ WriteDelete(r)

Next ==
  \/ \E u \in Users : SignUp(u)
  \/ StartMatch
  \/ \E r \in Requests : Begin(r) \/ Write(r)

Spec == Init /\ [][Next]_vars

-----------------------------------------------------------------------------
(***************************************************************************)
(* Properties                                                              *)
(***************************************************************************)

\* However joins, staff additions and re-joins after leaving race, nobody is on
\* the roster twice (AlreadyJoined).
OnePlaceEach ==
  \A a, b \in Roster : players[a].user = players[b].user => a = b

\* "Duplicate numbers are blocked per team unless explicitly overridden"
\* (MatchPlayer): of two players with one number on a team, staff chose that
\* number for one of them with the override.
DuplicatesWereAllowed ==
  \A a, b \in Roster :
    /\ a # b
    /\ players[a].team = players[b].team /\ players[a].number = players[b].number
    => \E id \in {a, b} : <<id, players[id].team, players[id].number>> \in allowed

\* A player who is refused for his number is refused because somebody else wears
\* it, not because of his own first tap (join_match's two refusals).
TakenBySomebodyElse ==
  [][\A r \in Requests :
       LET row == request[r].row IN
       request[r].op \in {"insert", "register"} /\ reply'[r] = "JERSEY_TAKEN"
         => \E id \in Roster : /\ Wears(id, row.team, row.number)
                               /\ players[id].user # row.user]_vars

\* A row enters the roster by its own insert only: an edit or a deletion that
\* was under way when a player left does not bring him back.
LeftStaysOut ==
  [][\A id \in Requests \ Roster : players'[id] # NoRow => reply[id] = None]_vars

=============================================================================
