------------------------------ MODULE Deletion ------------------------------
(***************************************************************************)
(* Deleting rows while others add them.  Staff delete a match or remove a  *)
(* player; the session first loads the rows the ORM's relationships reach, *)
(* and then flushes, for which the database follows its ON DELETE rules.   *)
(* Between the two the desk, the capture agent and a processing run commit *)
(* rows of the same match.  A run names players by the ids it read when it *)
(* began.                                                                  *)
(*                                                                         *)
(* A commit is one step: a row that refers to one being deleted waits for  *)
(* its lock and is then refused.  Ids are never used twice (uuid4).        *)
(***************************************************************************)
EXTENDS Tables

CONSTANTS
  Pool,    \* the ids a table may come to have, by the name of the table
  MaxRows, \* bound: the ids given to a row in a behaviour
  NULL     \* a reference to nothing

\* The tables whose rows the actions add or refer to.
InPlay == {"users", "venues", "fields", "matches", "match_players", "videos",
           "video_segments", "processing_jobs", "player_tracks", "highlights"}

ASSUME DeletionAssumption ==
  /\ DOMAIN Pool = InPlay
  /\ Pool["users"] # {} /\ Pool["venues"] # {}
  /\ \A s, t \in InPlay : s # t => Pool[s] \cap Pool[t] = {}
  /\ \A t \in InPlay : NULL \notin Pool[t]
  /\ MaxRows \in Nat

VARIABLES
  db,      \* the rows there are: from id to the references of the row
  used,    \* the ids that have been given to a row
  staff,   \* the deletion in progress, if any, and how the last one ended
  run      \* the video a run works on and the players it knows

deletionVars == <<db, used, staff, run>>

Ids == UNION {Pool[t] : t \in DOMAIN Pool}
TableOf == [id \in Ids |-> CHOOSE t \in DOMAIN Pool : id \in Pool[t]]

RowsOf(t) == Pool[t] \cap DOMAIN db
Having(t, column, id) == {r \in RowsOf(t) : db[r][column] = id}

-----------------------------------------------------------------------------
(***************************************************************************)
(* The database: what a row must refer to, and what goes with a row.       *)
(***************************************************************************)
References(id) == Database[TableOf[id]].refs

\* The keys of a table that consist of references alone.
KeyTaken(t, row) ==
  \E key \in Database[t].keys :
    /\ key \subseteq DOMAIN row
    /\ \E r \in RowsOf(t) : \A c \in key : db[r][c] = row[c]

Accepted(t, row) ==
  /\ \A c \in DOMAIN row : row[c] # NULL => row[c] \in DOMAIN db
  /\ ~KeyTaken(t, row)

Added(id, row) == [r \in DOMAIN db \cup {id} |-> IF r = id THEN row ELSE db[r]]

Naming(gone, rule) ==
  {r \in DOMAIN db : \E c \in DOMAIN db[r] :
                       db[r][c] \in gone /\ References(r)[c].onDelete = rule}

\* A match, its video, the rows of the video: three levels, none deeper.
WithCascades(gone) ==
  LET Next(s) == s \cup Naming(s, "CASCADE")
  IN  Next(Next(Next(gone)))

Refused(gone) ==
  (Naming(gone, "RESTRICT") \cup Naming(gone, "NO ACTION")) \ gone # {}

\* The rows that are left, with NULL for what they named, and for "freed".
Without(gone, freed) ==
  [r \in DOMAIN db \ gone |->
     [c \in DOMAIN db[r] |->
        IF db[r][c] \in gone \/ <<r, c>> \in freed THEN NULL ELSE db[r][c]]]

-----------------------------------------------------------------------------
(***************************************************************************)
(* The ORM: what session.delete loads.                                     *)
(***************************************************************************)
Related(id, side) ==
  UNION {{<<r, pair[2]>> : r \in Having(pair[1], pair[2], id)} :
           pair \in {p \in side : p[1] \in DOMAIN Pool}}

Owned(s) ==
  s \cup UNION {{p[1] : p \in Related(id, Models[TableOf[id]].owns)} : id \in s}

\* The rows a deletion of "id" loads to delete, and to set to NULL.
Deletes(id) == Owned(Owned(Owned({id})))
Frees(id) ==
  {p \in UNION {Related(i, Models[TableOf[i]].frees) : i \in Deletes(id)} :
     p[1] \notin Deletes(id)}

-----------------------------------------------------------------------------
NoDeletion == [goal |-> NULL, deletes |-> {}, frees |-> {}, answer |-> "none"]
Resting == [video |-> NULL, known |-> {}, named |-> {}]

\* Accounts and a pitch: the program never deletes one.
DeletionInit ==
  /\ db = [id \in Pool["users"] \cup Pool["venues"] \cup Pool["fields"] |->
             IF id \in Pool["fields"]
             THEN [venue_id |-> CHOOSE v \in Pool["venues"] : TRUE]
             ELSE NoReferences]
  /\ used = DOMAIN db
  /\ staff = NoDeletion
  /\ run = Resting

\* The ids a new row of a table may get.
Fresh(t) == IF Cardinality(used) < MaxRows THEN Pool[t] \ used ELSE {}

Insert(t, row) ==
  \E id \in Fresh(t) :
    /\ Accepted(t, row)
    /\ db' = Added(id, row)
    /\ used' = used \cup {id}

-----------------------------------------------------------------------------
(***************************************************************************)
(* Requests that add rows.                                                 *)
(***************************************************************************)
\* Which of the accounts is the operator's makes no difference.
Operator == CHOOSE u \in Pool["users"] : TRUE

Schedule ==
  /\ \E f \in RowsOf("fields") :
       Insert("matches", [field_id |-> f, created_by |-> Operator])
  /\ UNCHANGED <<staff, run>>

Join ==
  /\ \E m \in RowsOf("matches"), u \in RowsOf("users") :
       Insert("match_players", [match_id |-> m, user_id |-> u])
  /\ UNCHANGED <<staff, run>>

StartVideo ==
  /\ \E m \in RowsOf("matches") : Insert("videos", [match_id |-> m])
  /\ UNCHANGED <<staff, run>>

StoreSegment ==
  /\ \E v \in RowsOf("videos") : Insert("video_segments", [video_id |-> v])
  /\ UNCHANGED <<staff, run>>

-----------------------------------------------------------------------------
(***************************************************************************)
(* A processing run.  Its session keeps what it loaded; a write the        *)
(* database refuses rolls the session back and ends this attempt.          *)
(***************************************************************************)
\* The roster query without its condition on the match.
BeginRunUnfiltered ==
  /\ run = Resting
  /\ \E v \in RowsOf("videos") :
       run' = [video |-> v,
               known |-> RowsOf("match_players"),
               named |-> {db[t].player_id :
                            t \in Having("player_tracks", "video_id", v)} \ {NULL}]
  /\ UNCHANGED <<db, used, staff>>

BeginRun ==
  /\ run = Resting
  /\ \E v \in RowsOf("videos") :
       run' = [video |-> v,
               known |-> Having("match_players", "match_id", db[v].match_id),
               named |-> {db[t].player_id :
                            t \in Having("player_tracks", "video_id", v)} \ {NULL}]
  /\ UNCHANGED <<db, used, staff>>

Fail == run' = Resting /\ UNCHANGED <<db, used>>

RunWrites(t, row) == IF Accepted(t, row) THEN Insert(t, row) /\ UNCHANGED run
                                         ELSE Fail

WriteJob ==
  /\ run # Resting
  /\ RunWrites("processing_jobs", [video_id |-> run.video])
  /\ UNCHANGED staff

\* TRACK and SCORE_EVENTS replace the rows of an earlier run.
Replace(t, row) ==
  LET old == Having(t, "video_id", run.video)
  IN  \E id \in Fresh(t) :
        /\ Accepted(t, row)
        /\ db' = [r \in (DOMAIN db \ old) \cup {id} |->
                    IF r = id THEN row ELSE db[r]]
        /\ used' = used \cup {id}

WriteTracks ==
  LET row == [video_id |-> run.video, player_id |-> NULL]
  IN  /\ run # Resting
      /\ IF Accepted("player_tracks", row)
         THEN Replace("player_tracks", row) /\ run' = [run EXCEPT !.named = {}]
         ELSE Fail
      /\ UNCHANGED staff

\* JERSEY_OCR names the player of a track, by the roster it has read.
Attribute ==
  /\ run # Resting
  /\ \E t \in Having("player_tracks", "video_id", run.video), p \in run.known :
       IF p \in DOMAIN db
       THEN /\ db' = [db EXCEPT ![t].player_id = p]
            /\ run' = [run EXCEPT !.named = @ \cup {p}]
            /\ UNCHANGED used
       ELSE Fail
  /\ UNCHANGED staff

\* A highlight takes its player from the tracks as the session has them.
Select ==
  /\ run # Resting
  /\ \E p \in run.named \cup {NULL} :
       LET m   == IF run.video \in DOMAIN db THEN db[run.video].match_id ELSE NULL
           row == [match_id |-> m, video_id |-> run.video, player_id |-> p]
       IN  IF Accepted("highlights", row)
           THEN Replace("highlights", row) /\ UNCHANGED run
           ELSE Fail
  /\ UNCHANGED staff

EndRun ==
  /\ run # Resting
  /\ run' = Resting
  /\ UNCHANGED <<db, used, staff>>

-----------------------------------------------------------------------------
(***************************************************************************)
(* Deleting a match and removing a player.                                 *)
(***************************************************************************)
Load ==
  /\ staff.answer # "pending"
  /\ \E id \in RowsOf("matches") \cup RowsOf("match_players") :
       staff' = [goal |-> id, deletes |-> Deletes(id), frees |-> Frees(id),
                 answer |-> "pending"]
  /\ UNCHANGED <<db, used, run>>

\* An UPDATE that finds no row is an error of the session, a DELETE is not.
Stale == \E p \in staff.frees : p[1] \notin DOMAIN db

Flush ==
  LET gone == WithCascades(staff.deletes \cap DOMAIN db)
  IN  /\ staff.answer = "pending"
      /\ IF Stale \/ Refused(gone)
         THEN staff' = [staff EXCEPT !.answer = "error"] /\ UNCHANGED db
         ELSE /\ staff' = [staff EXCEPT !.answer = "done"]
              /\ db' = Without(gone, staff.frees)
      /\ UNCHANGED <<used, run>>

DeletionNext ==
  \/ Schedule \/ Join \/ StartVideo \/ StoreSegment
  \/ BeginRun \/ WriteJob \/ WriteTracks \/ Attribute \/ Select \/ EndRun
  \/ Load \/ Flush

DeletionSpec == DeletionInit /\ [][DeletionNext]_deletionVars

-----------------------------------------------------------------------------
(***************************************************************************)
(* Properties.                                                             *)
(***************************************************************************)
Reference(r, column) == IF column \in DOMAIN db[r] THEN db[r][column] ELSE NULL

OfMatch(m) ==
  {m} \cup {r \in DOMAIN db :
              \/ Reference(r, "match_id") = m
              \/ Reference(r, "video_id") \in Having("videos", "match_id", m)}

\* When a deletion is answered, a match is never refused, whatever a run and
\* the capture agent write between the load and the flush, and has taken all its
\* rows, those that were committed after the session had loaded it included, and
\* nothing of any other match; a removed player has taken no track and no moment,
\* and every one that named him, whenever it was written, now names nobody.  A
\* track that was his at the load loses its name even if the run has given it
\* to somebody else since: the flush is an UPDATE by the id of the row.
\* (Removing a player can fail: a run that replaces his highlights or tracks
\* meanwhile leaves the session rows to update that are gone.)
\* (match_service.py:201, :421 with the ON DELETE rules of the schema.)
DeletionTakesExactly ==
  [][staff.answer = "pending" /\ staff' # staff =>
       LET gone == IF staff.goal \in Pool["matches"]
                   THEN OfMatch(staff.goal) ELSE {staff.goal}
       IN  \/ staff'.answer = "error" /\ staff.goal \in Pool["match_players"]
           \/ /\ staff'.answer = "done"
              /\ DOMAIN db' = DOMAIN db \ gone
              /\ \A r \in DOMAIN db' : \A c \in DOMAIN db[r] :
                   db'[r][c] = IF db[r][c] = staff.goal \/ <<r, c>> \in staff.frees
                               THEN NULL ELSE db[r][c]
    ]_deletionVars

\* A highlight, its video and its player are of one match, as are a track, its
\* video and its player: a run that outlives the match it began with, and the
\* roster it has read, never gives a moment to somebody of another match
\* (player_tracks.py, highlights.py with the ids of a deleted match).
OneMatch ==
  /\ \A r \in DOMAIN db :
       "player_id" \in DOMAIN db[r] /\ db[r].player_id # NULL =>
         db[db[r].player_id].match_id = db[db[r].video_id].match_id
  /\ \A h \in RowsOf("highlights") : db[h].match_id = db[db[h].video_id].match_id
=============================================================================
