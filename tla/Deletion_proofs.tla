-------------------------- MODULE Deletion_proofs --------------------------
(***************************************************************************)
(* Proofs about Deletion, for any number of matches, players, videos and   *)
(* rows of a video, and any bound on the rows.                             *)
(***************************************************************************)
EXTENDS Deletion, TLAPS

\* Referential integrity: a row has the columns its table has, and each of them
\* names a row of the table it refers to, or nothing where ON DELETE allows it.
ReferencesHold ==
  /\ DOMAIN db \subseteq used /\ used \subseteq Ids
  /\ \A r \in DOMAIN db :
       /\ DOMAIN db[r] = DOMAIN References(r)
       /\ \A c \in DOMAIN db[r] :
            \/ db[r][c] \in RowsOf(References(r)[c].to)
            \/ db[r][c] = NULL /\ References(r)[c].onDelete = "SET NULL"

\* The players a run knows are, as long as they are there, of the match of the
\* video it works on.
RunKnows ==
  /\ run \in [video : (used \cap Pool["videos"]) \cup {NULL},
             known : SUBSET (used \cap Pool["match_players"]),
             named : SUBSET (used \cap Pool["match_players"])]
  /\ run.video = NULL => run = Resting
  /\ run.video \in DOMAIN db =>
       \A p \in (run.known \cup run.named) \cap DOMAIN db :
         db[p].match_id = db[run.video].match_id

\* What a deletion has loaded: of a match, nothing that is not part of it and
\* nothing to set to NULL; of a player, the player and references to him.
StaffHolds ==
  /\ staff \in [goal : Ids \cup {NULL}, deletes : SUBSET used,
                frees : SUBSET (Ids \X {"player_id"}),
                answer : {"none", "pending", "done", "error"}]
  /\ staff.answer = "pending" =>
       /\ staff.goal \in RowsOf("matches") \cup RowsOf("match_players")
       /\ staff.goal \in staff.deletes
       /\ staff.goal \in Pool["matches"] =>
            staff.frees = {} /\ staff.deletes \cap DOMAIN db \subseteq OfMatch(staff.goal)
       /\ staff.goal \in Pool["match_players"] => staff.deletes = {staff.goal}

\* Only removing a player can have failed.
MatchDeletionSucceeds ==
  staff.answer = "error" => staff.goal \in Pool["match_players"]

DeletionInv ==
  ReferencesHold /\ OneMatch /\ RunKnows /\ StaffHolds /\ MatchDeletionSucceeds

-----------------------------------------------------------------------------
(***************************************************************************)
(* The schema: which tables have a column, what it refers to and what goes *)
(* with a row that is deleted.                                             *)
(***************************************************************************)
LEMMA TableOfIs ==
  ASSUME NEW t \in InPlay, NEW id \in Pool[t]
  PROVE  id \in Ids /\ TableOf[id] = t /\ id # NULL
<1>1. id \in Ids
  BY DeletionAssumption DEF Ids
<1>2. \A s \in DOMAIN Pool : id \in Pool[s] <=> s = t
  BY DeletionAssumption
<1>3. (CHOOSE s \in DOMAIN Pool : id \in Pool[s]) = t
  BY <1>2, DeletionAssumption
<1> QED BY <1>1, <1>3, DeletionAssumption DEF TableOf

LEMMA IdsAre ==
  ASSUME NEW id \in Ids
  PROVE  TableOf[id] \in InPlay /\ id \in Pool[TableOf[id]] /\ id # NULL
<1>1. PICK t \in InPlay : id \in Pool[t]
  BY DeletionAssumption DEF Ids
<1> QED BY <1>1, TableOfIs

ColumnNames ==
  {"match_id", "video_id", "player_id", "user_id", "created_by", "field_id", "venue_id"}

\* By the name of a column alone, in the tables that are in play.
Target(c) ==
  CASE c = "match_id"  -> "matches"
    [] c = "video_id"  -> "videos"
    [] c = "player_id" -> "match_players"
    [] c = "field_id"  -> "fields"
    [] c = "venue_id"  -> "venues"
    [] OTHER           -> "users"
Rule(c) ==
  CASE c \in {"player_id", "created_by"} -> "SET NULL"
    [] c = "field_id" -> "RESTRICT"
    [] OTHER -> "CASCADE"

Columns(t) ==
  {c \in ColumnNames :
     \/ c = "match_id" /\ t \in {"match_players", "videos", "highlights"}
     \/ c = "video_id" /\ t \in {"highlights", "player_tracks", "processing_jobs",
                                "video_segments"}
     \/ c = "player_id" /\ t \in {"highlights", "player_tracks"}
     \/ c = "user_id" /\ t = "match_players"
     \/ c \in {"created_by", "field_id"} /\ t = "matches"
     \/ c = "venue_id" /\ t = "fields"}

LEMMA SchemaIs ==
  ASSUME NEW t \in InPlay
  PROVE  /\ DOMAIN Database[t].refs = Columns(t)
         /\ \A c \in Columns(t) : /\ Database[t].refs[c].to = Target(c)
                                  /\ Database[t].refs[c].onDelete = Rule(c)
<1>0. \A table : /\ Cascade(table).to = table /\ Cascade(table).onDelete = "CASCADE"
                 /\ SetNull(table).to = table /\ SetNull(table).onDelete = "SET NULL"
                 /\ Restricted(table).to = table
                 /\ Restricted(table).onDelete = "RESTRICT"
  BY DEF Cascade, SetNull, Restricted
<1>1. /\ Target("match_id") = "matches" /\ Rule("match_id") = "CASCADE"
      /\ Target("video_id") = "videos" /\ Rule("video_id") = "CASCADE"
      /\ Target("player_id") = "match_players" /\ Rule("player_id") = "SET NULL"
      /\ Target("user_id") = "users" /\ Rule("user_id") = "CASCADE"
      /\ Target("created_by") = "users" /\ Rule("created_by") = "SET NULL"
      /\ Target("field_id") = "fields" /\ Rule("field_id") = "RESTRICT"
      /\ Target("venue_id") = "venues" /\ Rule("venue_id") = "CASCADE"
  BY DEF Target, Rule
<1>2. CASE t = "users"
  <2>1. Database[t].refs = <<>>
    BY <1>2 DEF Database, UsersTable, Table, NoReferences
  <2>2. Columns(t) = {}
    BY <1>2 DEF Columns, ColumnNames
  <2> QED BY <2>1, <2>2
<1>3. CASE t = "venues"
  <2>1. Database[t].refs = <<>>
    BY <1>3 DEF Database, VenuesTable, Table, NoReferences
  <2>2. Columns(t) = {}
    BY <1>3 DEF Columns, ColumnNames
  <2> QED BY <2>1, <2>2
<1>4. CASE t = "fields"
  <2>1. Database[t].refs = [venue_id |-> Cascade("venues")]
    BY <1>4 DEF Database, FieldsTable, Table
  <2>2. Columns(t) = {"venue_id"}
    BY <1>4 DEF Columns, ColumnNames
  <2>3. DOMAIN Database[t].refs = {"venue_id"}
    BY <2>1
  <2>4. /\ Database[t].refs["venue_id"].to = "venues" /\ Database[t].refs["venue_id"].onDelete = "CASCADE"
    <3>1. /\ Database[t].refs["venue_id"] = Cascade("venues")
      BY <2>1
    <3> QED BY <1>0, <3>1
  <2> QED BY <1>1, <2>2, <2>3, <2>4
<1>5. CASE t = "matches"
  <2>1. Database[t].refs = [field_id |-> Restricted("fields"),
                            created_by |-> SetNull("users")]
    BY <1>5 DEF Database, MatchesTable, Table
  <2>2. Columns(t) = {"field_id", "created_by"}
    BY <1>5 DEF Columns, ColumnNames
  <2>3. DOMAIN Database[t].refs = {"field_id", "created_by"}
    BY <2>1
  <2>4. /\ Database[t].refs["field_id"].to = "fields" /\ Database[t].refs["field_id"].onDelete = "RESTRICT"
        /\ Database[t].refs["created_by"].to = "users" /\ Database[t].refs["created_by"].onDelete = "SET NULL"
    <3>1. /\ Database[t].refs["field_id"] = Restricted("fields")
          /\ Database[t].refs["created_by"] = SetNull("users")
      BY <2>1
    <3> QED BY <1>0, <3>1
  <2> QED BY <1>1, <2>2, <2>3, <2>4
<1>6. CASE t = "match_players"
  <2>1. Database[t].refs = [match_id |-> Cascade("matches"),
                            user_id |-> Cascade("users")]
    BY <1>6 DEF Database, MatchPlayersTable, Table
  <2>2. Columns(t) = {"match_id", "user_id"}
    BY <1>6 DEF Columns, ColumnNames
  <2>3. DOMAIN Database[t].refs = {"match_id", "user_id"}
    BY <2>1
  <2>4. /\ Database[t].refs["match_id"].to = "matches" /\ Database[t].refs["match_id"].onDelete = "CASCADE"
        /\ Database[t].refs["user_id"].to = "users" /\ Database[t].refs["user_id"].onDelete = "CASCADE"
    <3>1. /\ Database[t].refs["match_id"] = Cascade("matches")
          /\ Database[t].refs["user_id"] = Cascade("users")
      BY <2>1
    <3> QED BY <1>0, <3>1
  <2> QED BY <1>1, <2>2, <2>3, <2>4
<1>7. CASE t = "videos"
  <2>1. Database[t].refs = [match_id |-> Cascade("matches")]
    BY <1>7 DEF Database, VideosTable, Table
  <2>2. Columns(t) = {"match_id"}
    BY <1>7 DEF Columns, ColumnNames
  <2>3. DOMAIN Database[t].refs = {"match_id"}
    BY <2>1
  <2>4. /\ Database[t].refs["match_id"].to = "matches" /\ Database[t].refs["match_id"].onDelete = "CASCADE"
    <3>1. /\ Database[t].refs["match_id"] = Cascade("matches")
      BY <2>1
    <3> QED BY <1>0, <3>1
  <2> QED BY <1>1, <2>2, <2>3, <2>4
<1>8. CASE t = "highlights"
  <2>1. Database[t].refs = [match_id |-> Cascade("matches"),
                            video_id |-> Cascade("videos"),
                            player_id |-> SetNull("match_players")]
    BY <1>8 DEF Database, HighlightsTable, Table
  <2>2. Columns(t) = {"match_id", "video_id", "player_id"}
    BY <1>8 DEF Columns, ColumnNames
  <2>3. DOMAIN Database[t].refs = {"match_id", "video_id", "player_id"}
    BY <2>1
  <2>4. /\ Database[t].refs["match_id"].to = "matches" /\ Database[t].refs["match_id"].onDelete = "CASCADE"
        /\ Database[t].refs["video_id"].to = "videos" /\ Database[t].refs["video_id"].onDelete = "CASCADE"
        /\ Database[t].refs["player_id"].to = "match_players" /\ Database[t].refs["player_id"].onDelete = "SET NULL"
    <3>1. /\ Database[t].refs["match_id"] = Cascade("matches")
          /\ Database[t].refs["video_id"] = Cascade("videos")
          /\ Database[t].refs["player_id"] = SetNull("match_players")
      BY <2>1
    <3> QED BY <1>0, <3>1
  <2> QED BY <1>1, <2>2, <2>3, <2>4
<1>9. CASE t = "player_tracks"
  <2>1. Database[t].refs = [video_id |-> Cascade("videos"),
                            player_id |-> SetNull("match_players")]
    BY <1>9 DEF Database, PlayerTracksTable, Table
  <2>2. Columns(t) = {"video_id", "player_id"}
    BY <1>9 DEF Columns, ColumnNames
  <2>3. DOMAIN Database[t].refs = {"video_id", "player_id"}
    BY <2>1
  <2>4. /\ Database[t].refs["video_id"].to = "videos" /\ Database[t].refs["video_id"].onDelete = "CASCADE"
        /\ Database[t].refs["player_id"].to = "match_players" /\ Database[t].refs["player_id"].onDelete = "SET NULL"
    <3>1. /\ Database[t].refs["video_id"] = Cascade("videos")
          /\ Database[t].refs["player_id"] = SetNull("match_players")
      BY <2>1
    <3> QED BY <1>0, <3>1
  <2> QED BY <1>1, <2>2, <2>3, <2>4
<1>10. CASE t = "processing_jobs"
  <2>1. Database[t].refs = [video_id |-> Cascade("videos")]
    BY <1>10 DEF Database, ProcessingJobsTable, Table
  <2>2. Columns(t) = {"video_id"}
    BY <1>10 DEF Columns, ColumnNames
  <2>3. DOMAIN Database[t].refs = {"video_id"}
    BY <2>1
  <2>4. /\ Database[t].refs["video_id"].to = "videos" /\ Database[t].refs["video_id"].onDelete = "CASCADE"
    <3>1. /\ Database[t].refs["video_id"] = Cascade("videos")
      BY <2>1
    <3> QED BY <1>0, <3>1
  <2> QED BY <1>1, <2>2, <2>3, <2>4
<1>11. CASE t = "video_segments"
  <2>1. Database[t].refs = [video_id |-> Cascade("videos")]
    BY <1>11 DEF Database, VideoSegmentsTable, Table
  <2>2. Columns(t) = {"video_id"}
    BY <1>11 DEF Columns, ColumnNames
  <2>3. DOMAIN Database[t].refs = {"video_id"}
    BY <2>1
  <2>4. /\ Database[t].refs["video_id"].to = "videos" /\ Database[t].refs["video_id"].onDelete = "CASCADE"
    <3>1. /\ Database[t].refs["video_id"] = Cascade("videos")
      BY <2>1
    <3> QED BY <1>0, <3>1
  <2> QED BY <1>1, <2>2, <2>3, <2>4
<1> QED BY <1>2, <1>3, <1>4, <1>5, <1>6, <1>7, <1>8, <1>9, <1>10, <1>11 DEF InPlay

-----------------------------------------------------------------------------
(***************************************************************************)
(* What the rows name, column by column.                                   *)
(***************************************************************************)
Has(r, c) == c \in DOMAIN db[r]

RowTypes ==
  /\ DOMAIN db \subseteq Ids /\ NULL \notin Ids
  /\ \A r \in DOMAIN db :
       /\ DOMAIN db[r] \subseteq ColumnNames
       /\ Has(r, "match_id") <=> r \in RowsOf("match_players") \cup RowsOf("videos")
                                                           \cup RowsOf("highlights")
       /\ Has(r, "video_id") <=> r \in RowsOf("highlights") \cup RowsOf("player_tracks")
                                    \cup RowsOf("processing_jobs") \cup RowsOf("video_segments")
       /\ Has(r, "player_id") <=> r \in RowsOf("highlights") \cup RowsOf("player_tracks")
       /\ Has(r, "match_id") => db[r].match_id \in RowsOf("matches")
       /\ Has(r, "video_id") => db[r].video_id \in RowsOf("videos")
       /\ Has(r, "player_id") => db[r].player_id \in RowsOf("match_players") \cup {NULL}
       /\ Has(r, "user_id") => db[r].user_id \in RowsOf("users")
       /\ Has(r, "created_by") => db[r].created_by \in RowsOf("users") \cup {NULL}
       /\ Has(r, "field_id") => db[r].field_id \in RowsOf("fields")
       /\ Has(r, "venue_id") => db[r].venue_id \in RowsOf("venues")
       /\ \A c \in DOMAIN db[r] : References(r)[c].onDelete = Rule(c)

LEMMA ColumnsAre ==
  ASSUME NEW id \in Ids
  PROVE  /\ DOMAIN References(id) = Columns(TableOf[id])
         /\ \A c \in DOMAIN References(id) : /\ References(id)[c].to = Target(c)
                                             /\ References(id)[c].onDelete = Rule(c)
  BY IdsAre, SchemaIs DEF References

LEMMA TypesOfRows ==
  ASSUME ReferencesHold
  PROVE  RowTypes
<1>1. DOMAIN db \subseteq Ids
  BY DEF ReferencesHold
<1>2. NULL \notin Ids
  BY IdsAre
<1> SUFFICES ASSUME NEW r \in DOMAIN db PROVE
       /\ DOMAIN db[r] \subseteq ColumnNames
       /\ Has(r, "match_id") <=> r \in RowsOf("match_players") \cup RowsOf("videos")
                                                           \cup RowsOf("highlights")
       /\ Has(r, "video_id") <=> r \in RowsOf("highlights") \cup RowsOf("player_tracks")
                                    \cup RowsOf("processing_jobs") \cup RowsOf("video_segments")
       /\ Has(r, "player_id") <=> r \in RowsOf("highlights") \cup RowsOf("player_tracks")
       /\ Has(r, "match_id") => db[r].match_id \in RowsOf("matches")
       /\ Has(r, "video_id") => db[r].video_id \in RowsOf("videos")
       /\ Has(r, "player_id") => db[r].player_id \in RowsOf("match_players") \cup {NULL}
       /\ Has(r, "user_id") => db[r].user_id \in RowsOf("users")
       /\ Has(r, "created_by") => db[r].created_by \in RowsOf("users") \cup {NULL}
       /\ Has(r, "field_id") => db[r].field_id \in RowsOf("fields")
       /\ Has(r, "venue_id") => db[r].venue_id \in RowsOf("venues")
       /\ \A c \in DOMAIN db[r] : References(r)[c].onDelete = Rule(c)
  BY <1>1, <1>2 DEF RowTypes
<1> DEFINE t == TableOf[r]
<1>3. t \in InPlay /\ r \in Pool[t] /\ r \in Ids
  BY <1>1, IdsAre
<1>4. \A s \in InPlay : r \in RowsOf(s) <=> s = t
  BY <1>3, DeletionAssumption DEF RowsOf
<1>5. /\ DOMAIN db[r] = Columns(t)
      /\ \A c \in DOMAIN db[r] :
           /\ References(r)[c].onDelete = Rule(c)
           /\ db[r][c] \in RowsOf(Target(c)) \/ (db[r][c] = NULL /\ Rule(c) = "SET NULL")
  BY <1>3, ColumnsAre DEF ReferencesHold
<1> HIDE DEF t
<1>6. /\ DOMAIN db[r] \subseteq ColumnNames
      /\ Has(r, "match_id") <=> t \in {"match_players", "videos", "highlights"}
      /\ Has(r, "video_id") <=>
           t \in {"highlights", "player_tracks", "processing_jobs", "video_segments"}
      /\ Has(r, "player_id") <=> t \in {"highlights", "player_tracks"}
  BY <1>3, <1>5 DEF Columns, ColumnNames, Has, InPlay
<1>7. {"match_players", "videos", "highlights", "player_tracks", "processing_jobs",
       "video_segments"} \subseteq InPlay
  BY DEF InPlay
<1>8. /\ Target("match_id") = "matches" /\ Rule("match_id") # "SET NULL"
      /\ Target("video_id") = "videos" /\ Rule("video_id") # "SET NULL"
      /\ Target("player_id") = "match_players"
      /\ Target("user_id") = "users" /\ Rule("user_id") # "SET NULL"
      /\ Target("created_by") = "users"
      /\ Target("field_id") = "fields" /\ Rule("field_id") # "SET NULL"
      /\ Target("venue_id") = "venues" /\ Rule("venue_id") # "SET NULL"
  BY DEF Target, Rule
<1>9. /\ Has(r, "match_id") => db[r].match_id \in RowsOf("matches")
      /\ Has(r, "video_id") => db[r].video_id \in RowsOf("videos")
      /\ Has(r, "player_id") => db[r].player_id \in RowsOf("match_players") \cup {NULL}
      /\ Has(r, "user_id") => db[r].user_id \in RowsOf("users")
      /\ Has(r, "created_by") => db[r].created_by \in RowsOf("users") \cup {NULL}
      /\ Has(r, "field_id") => db[r].field_id \in RowsOf("fields")
      /\ Has(r, "venue_id") => db[r].venue_id \in RowsOf("venues")
  BY <1>5, <1>8 DEF Has
<1> QED BY <1>4, <1>5, <1>6, <1>7, <1>9

\* The rows of a match, by the columns that name it.
InMatch(r, m) ==
  \/ r = m
  \/ Has(r, "match_id") /\ db[r].match_id = m
  \/ Has(r, "video_id") /\ db[db[r].video_id].match_id = m

LEMMA OfMatchIs ==
  ASSUME RowTypes, NEW m \in RowsOf("matches")
  PROVE  OfMatch(m) = {r \in DOMAIN db : InMatch(r, m)}
<1>1. m # NULL /\ m \in DOMAIN db
  BY DEF RowsOf, RowTypes
<1>2. \A r \in DOMAIN db : Reference(r, "match_id") = m <=>
                             Has(r, "match_id") /\ db[r].match_id = m
  BY <1>1 DEF Reference, Has
<1>3. \A r \in DOMAIN db : Reference(r, "video_id") \in Having("videos", "match_id", m) <=>
                             Has(r, "video_id") /\ db[db[r].video_id].match_id = m
  BY DEF Reference, Has, Having, RowTypes, RowsOf
<1> QED BY <1>1, <1>2, <1>3 DEF OfMatch, InMatch

-----------------------------------------------------------------------------
(***************************************************************************)
(* What the database takes along.                                          *)
(***************************************************************************)
LEMMA NamingIs ==
  ASSUME RowTypes, NEW gone, NEW rule
  PROVE  \A r : r \in Naming(gone, rule) <=>
                 /\ r \in DOMAIN db
                 /\ \E c \in DOMAIN db[r] : db[r][c] \in gone /\ Rule(c) = rule
  BY DEF Naming, RowTypes

LEMMA RuleIs ==
  ASSUME NEW c \in ColumnNames
  PROVE  /\ Rule(c) = "CASCADE" => c \in {"match_id", "video_id", "user_id", "venue_id"}
         /\ Rule(c) = "RESTRICT" => c = "field_id"
         /\ Rule(c) # "NO ACTION"
         /\ c \in {"match_id", "video_id", "user_id", "venue_id"} => Rule(c) = "CASCADE"
  BY DEF Rule, ColumnNames

LEMMA Apart ==
  ASSUME NEW s \in InPlay, NEW t \in InPlay, s # t, NEW r
  PROVE  ~(r \in RowsOf(s) /\ r \in RowsOf(t))
  BY DeletionAssumption DEF RowsOf

\* Of which tables the rows of a match are.
LEMMA KindsOfMatch ==
  ASSUME RowTypes, NEW m \in RowsOf("matches"), NEW x \in OfMatch(m)
  PROVE  /\ x \in RowsOf("matches") => x = m
         /\ x \in RowsOf("videos") => db[x].match_id = m
         /\ x \notin RowsOf("users") /\ x \notin RowsOf("fields") /\ x \notin RowsOf("venues")
<1>0. x \in DOMAIN db /\ InMatch(x, m)
  BY OfMatchIs
<1>1. /\ Has(x, "match_id") <=> x \in RowsOf("match_players") \cup RowsOf("videos")
                                                           \cup RowsOf("highlights")
      /\ Has(x, "video_id") <=> x \in RowsOf("highlights") \cup RowsOf("player_tracks")
                                   \cup RowsOf("processing_jobs") \cup RowsOf("video_segments")
  BY <1>0 DEF RowTypes
<1>2. ASSUME NEW t \in {"matches", "users", "fields", "venues"}, x \in RowsOf(t)
      PROVE  ~Has(x, "match_id") /\ ~Has(x, "video_id")
  <2>1. t \in InPlay
    BY DEF InPlay
  <2>2. \A s \in {"match_players", "videos", "highlights", "player_tracks",
                  "processing_jobs", "video_segments"} : x \notin RowsOf(s)
    BY <1>2, <2>1, Apart DEF InPlay
  <2> QED BY <1>1, <2>2
<1>3. ASSUME x \in RowsOf("videos") PROVE ~Has(x, "video_id") /\ x # m
  <2>1. \A s \in {"matches", "highlights", "player_tracks", "processing_jobs",
                  "video_segments"} : x \notin RowsOf(s)
    BY <1>3, Apart DEF InPlay
  <2> QED BY <1>1, <2>1
<1>4. ASSUME NEW t \in {"users", "fields", "venues"}, x \in RowsOf(t) PROVE x # m
  BY <1>4, Apart DEF InPlay
<1> QED BY <1>0, <1>2, <1>3, <1>4 DEF InMatch

\* A column that is not NULL for nothing names a row that is there.
LEMMA MatchStays ==
  ASSUME RowTypes, NEW m \in RowsOf("matches"), NEW r \in DOMAIN db,
         NEW c \in DOMAIN db[r], db[r][c] \in OfMatch(m), Rule(c) # "SET NULL"
  PROVE  Rule(c) = "CASCADE" /\ r \in OfMatch(m)
<1> DEFINE x == db[r][c]
<1>1. x \in DOMAIN db /\ InMatch(x, m)
  BY OfMatchIs
<1>2. c \in ColumnNames
  BY DEF RowTypes
<1>3. /\ x \in RowsOf("matches") => x = m
      /\ x \in RowsOf("videos") => db[x].match_id = m
      /\ x \notin RowsOf("users") /\ x \notin RowsOf("fields") /\ x \notin RowsOf("venues")
  BY KindsOfMatch
<1> HIDE DEF x
<1>4. c \in {"match_id", "video_id"}
  <2>1. c = "user_id" => x \in RowsOf("users")
    BY DEF RowTypes, Has, x
  <2>2. c = "venue_id" => x \in RowsOf("venues")
    BY DEF RowTypes, Has, x
  <2>3. c = "field_id" => x \in RowsOf("fields")
    BY DEF RowTypes, Has, x
  <2>4. c \notin {"player_id", "created_by"}
    BY DEF Rule
  <2> QED BY <1>2, <1>3, <2>1, <2>2, <2>3, <2>4 DEF ColumnNames
<1>5. CASE c = "match_id"
  <2>1. db[r].match_id = m
    BY <1>3, <1>5 DEF RowTypes, Has, x
  <2> QED BY <1>2, <1>5, <2>1, OfMatchIs, RuleIs DEF InMatch, Has
<1>6. CASE c = "video_id"
  <2>1. db[db[r].video_id].match_id = m
    BY <1>3, <1>6 DEF RowTypes, Has, x
  <2> QED BY <1>2, <1>6, <2>1, OfMatchIs, RuleIs DEF InMatch, Has
<1> QED BY <1>4, <1>5, <1>6

\* A match takes all its rows, and only those.
LEMMA MatchGoesWhole ==
  ASSUME RowTypes, NEW m \in RowsOf("matches"), NEW s, m \in s, s \subseteq OfMatch(m)
  PROVE  WithCascades(s) = OfMatch(m) /\ ~Refused(OfMatch(m))
<1> DEFINE N(x) == x \cup Naming(x, "CASCADE")
<1>0. Rule("match_id") = "CASCADE" /\ Rule("video_id") = "CASCADE"
  BY DEF Rule
<1>1. WithCascades(s) = N(N(N(s)))
  BY DEF WithCascades
<1>2. ASSUME NEW x, x \subseteq OfMatch(m) PROVE N(x) \subseteq OfMatch(m)
  <2> SUFFICES ASSUME NEW r \in DOMAIN db, NEW c \in DOMAIN db[r], db[r][c] \in x,
                      Rule(c) = "CASCADE"
               PROVE  r \in OfMatch(m)
    BY <1>2, NamingIs
  <2> QED BY <1>2, MatchStays
<1>3. ASSUME NEW r \in DOMAIN db, InMatch(r, m) PROVE r \in N(N(s))
  <2>1. ASSUME NEW q \in DOMAIN db, Has(q, "match_id"), db[q].match_id = m PROVE q \in N(s)
    <3>1. db[q]["match_id"] \in s /\ "match_id" \in DOMAIN db[q]
      BY <2>1 DEF Has
    <3>2. q \in Naming(s, "CASCADE")
      BY <1>0, <3>1, NamingIs
    <3> QED BY <3>2
  <2>2. CASE Has(r, "video_id") /\ db[db[r].video_id].match_id = m
    <3>1. db[r].video_id \in DOMAIN db /\ Has(db[r].video_id, "match_id")
      BY <2>2 DEF RowTypes, RowsOf
    <3>2. db[r].video_id \in N(s)
      BY <2>1, <2>2, <3>1
    <3> HIDE DEF N
    <3>3. db[r]["video_id"] \in N(s) /\ "video_id" \in DOMAIN db[r]
      BY <2>2, <3>2 DEF Has
    <3>4. r \in Naming(N(s), "CASCADE")
      BY <1>0, <3>3, NamingIs
    <3> QED BY <3>4 DEF N
  <2> QED BY <1>3, <2>1, <2>2 DEF InMatch
<1>4. N(N(N(s))) \subseteq OfMatch(m)
  <2> HIDE DEF N
  <2> QED BY <1>2
<1>5. OfMatch(m) \subseteq N(N(N(s)))
  BY <1>3, OfMatchIs
<1>6. ~Refused(OfMatch(m))
  <2> SUFFICES ASSUME NEW r \in Naming(OfMatch(m), "RESTRICT")
                                  \cup Naming(OfMatch(m), "NO ACTION")
               PROVE  FALSE
    BY DEF Refused
  <2>1. PICK c \in DOMAIN db[r] :
          r \in DOMAIN db /\ db[r][c] \in OfMatch(m) /\ Rule(c) \in {"RESTRICT", "NO ACTION"}
    <3>1. ASSUME NEW rule, r \in Naming(OfMatch(m), rule)
          PROVE  r \in DOMAIN db /\ \E c \in DOMAIN db[r] : db[r][c] \in OfMatch(m) /\ Rule(c) = rule
      BY <3>1, NamingIs, Zenon
    <3> QED BY <3>1
  <2> QED BY <2>1, MatchStays
<1> QED BY <1>1, <1>4, <1>5, <1>6

LEMMA PlayerGoesAlone ==
  ASSUME RowTypes, NEW p \in RowsOf("match_players")
  PROVE  WithCascades({p}) = {p} /\ ~Refused({p})
<1>1. ASSUME NEW r \in DOMAIN db, NEW c \in DOMAIN db[r], db[r][c] = p
      PROVE  Rule(c) = "SET NULL"
  <2>1. {"match_players", "matches", "videos", "users", "fields", "venues"} \subseteq InPlay
    BY DEF InPlay
  <2>2. p \notin RowsOf("matches") /\ p \notin RowsOf("videos") /\ p \notin RowsOf("users")
          /\ p \notin RowsOf("fields") /\ p \notin RowsOf("venues")
    BY <2>1, Apart
  <2>3. c \in ColumnNames
    BY DEF RowTypes
  <2>4. c \notin {"match_id", "video_id", "user_id", "field_id", "venue_id"}
    BY <1>1, <2>2 DEF RowTypes, Has
  <2>5. c \in {"player_id", "created_by"}
    BY <2>3, <2>4 DEF ColumnNames
  <2> QED BY <2>5 DEF Rule
<1>2. ASSUME NEW rule, rule # "SET NULL" PROVE Naming({p}, rule) = {}
  <2> SUFFICES ASSUME NEW r \in Naming({p}, rule) PROVE FALSE
    OBVIOUS
  <2>1. r \in DOMAIN db /\ \E c \in DOMAIN db[r] : db[r][c] \in {p} /\ Rule(c) = rule
    BY NamingIs, Zenon
  <2> QED BY <1>1, <1>2, <2>1
<1>3. Naming({p}, "CASCADE") = {} /\ Naming({p}, "RESTRICT") = {}
        /\ Naming({p}, "NO ACTION") = {}
  BY <1>2
<1>4. WithCascades({p}) = {p}
  <2> DEFINE N(x) == x \cup Naming(x, "CASCADE")
  <2>1. WithCascades({p}) = N(N(N({p})))
    BY DEF WithCascades
  <2>2. N({p}) = {p}
    BY <1>3
  <2> HIDE DEF N
  <2> QED BY <2>1, <2>2
<1> QED BY <1>3, <1>4 DEF Refused

-----------------------------------------------------------------------------
(***************************************************************************)
(* What the session takes along.                                           *)
(***************************************************************************)
LEMMA RelatedIs ==
  ASSUME NEW id, NEW side, NEW x
  PROVE  x \in Related(id, side) <=>
           \E p \in side : /\ p[1] \in InPlay
                           /\ \E r \in Having(p[1], p[2], id) : x = <<r, p[2]>>
<1> DEFINE shown == {p \in side : p[1] \in DOMAIN Pool}
           named(p) == {<<r, p[2]>> : r \in Having(p[1], p[2], id)}
<1>1. \A p : p \in shown <=> p \in side /\ p[1] \in InPlay
  BY DeletionAssumption
<1>2. Related(id, side) = UNION {named(p) : p \in shown}
  BY DEF Related
<1>3. \A p : x \in named(p) <=> \E r \in Having(p[1], p[2], id) : x = <<r, p[2]>>
  OBVIOUS
<1> HIDE DEF shown, named
<1>4. x \in UNION {named(p) : p \in shown} <=> \E p \in shown : x \in named(p)
  OBVIOUS
<1> QED BY <1>1, <1>2, <1>3, <1>4

LEMMA OwnedIs ==
  ASSUME NEW s, NEW r
  PROVE  r \in Owned(s) <=>
           \/ r \in s
           \/ \E id \in s : \E p \in Models[TableOf[id]].owns :
                p[1] \in InPlay /\ r \in Having(p[1], p[2], id)
<1>1. r \in Owned(s) <=>
        \/ r \in s
        \/ \E id \in s : \E x \in Related(id, Models[TableOf[id]].owns) : r = x[1]
  <2> DEFINE rows(id) == {p[1] : p \in Related(id, Models[TableOf[id]].owns)}
  <2>1. Owned(s) = s \cup UNION {rows(id) : id \in s}
    BY DEF Owned
  <2>2. \A id : r \in rows(id) <=> \E x \in Related(id, Models[TableOf[id]].owns) : r = x[1]
    OBVIOUS
  <2> HIDE DEF rows
  <2> QED BY <2>1, <2>2
<1>2. ASSUME NEW id \in s
      PROVE  (\E x \in Related(id, Models[TableOf[id]].owns) : r = x[1]) <=>
               \E p \in Models[TableOf[id]].owns :
                 p[1] \in InPlay /\ r \in Having(p[1], p[2], id)
  <2> DEFINE side == Models[TableOf[id]].owns
  <2> HIDE DEF side
  <2>1. ASSUME NEW x \in Related(id, side), r = x[1]
        PROVE  \E p \in side : p[1] \in InPlay /\ r \in Having(p[1], p[2], id)
    <3>1. PICK p \in side : /\ p[1] \in InPlay
                            /\ \E q \in Having(p[1], p[2], id) : x = <<q, p[2]>>
      BY <2>1, RelatedIs
    <3> QED BY <2>1, <3>1
  <2>2. ASSUME NEW p \in side, p[1] \in InPlay, r \in Having(p[1], p[2], id)
        PROVE  \E x \in Related(id, side) : r = x[1]
    <3>1. <<r, p[2]>> \in Related(id, side)
      BY <2>2, RelatedIs
    <3> QED BY <3>1
  <2> QED BY <2>1, <2>2 DEF side
<1> QED BY <1>1, <1>2, Zenon

LEMMA ModelsAre ==
  /\ Models["matches"].owns = {<<"match_players", "match_id">>, <<"videos", "match_id">>,
                               <<"highlights", "match_id">>}
  /\ Models["matches"].frees = {}
  /\ Models["match_players"].owns = {}
  /\ Models["match_players"].frees = {<<"highlights", "player_id">>,
                                      <<"player_tracks", "player_id">>}
  /\ Models["videos"].owns = {<<"processing_jobs", "video_id">>,
                              <<"video_segments", "video_id">>,
                              <<"player_tracks", "video_id">>}
  /\ Models["videos"].frees = {<<"highlights", "video_id">>}
  /\ \A t \in {"highlights", "player_tracks", "processing_jobs", "video_segments"} :
       Models[t].owns = {} /\ Models[t].frees = {}
<1>1. /\ Models["matches"] = Match /\ Models["match_players"] = MatchPlayer
      /\ Models["videos"] = Video /\ Models["highlights"] = Highlight
      /\ Models["player_tracks"] = PlayerTrack
      /\ Models["processing_jobs"] = ProcessingJob
      /\ Models["video_segments"] = VideoSegment
  BY DEF Models
<1>2. \A table, owns, frees : /\ Class(table, owns, frees).owns = owns
                              /\ Class(table, owns, frees).frees = frees
  BY DEF Class
<1> QED BY <1>1, <1>2 DEF Match, MatchPlayer, Video, Highlight, PlayerTrack,
                          ProcessingJob, VideoSegment

LEMMA OwnedStays ==
  ASSUME RowTypes, NEW m \in RowsOf("matches"), NEW s, s \subseteq OfMatch(m)
  PROVE  Owned(s) \subseteq OfMatch(m)
<1> SUFFICES ASSUME NEW r, NEW id \in s, NEW p \in Models[TableOf[id]].owns,
                    r \in Having(p[1], p[2], id)
             PROVE  r \in OfMatch(m)
  BY OwnedIs
<1> DEFINE t == TableOf[id]
<1>1. id \in OfMatch(m) /\ id \in DOMAIN db /\ id \in Ids
  BY OfMatchIs DEF RowTypes
<1>2. t \in InPlay /\ id \in RowsOf(t)
  BY <1>1, IdsAre DEF RowsOf
<1>3. t \notin {"users", "fields", "venues"} /\ (t = "matches" => id = m)
        /\ (t = "videos" => db[id].match_id = m)
  BY <1>1, <1>2, KindsOfMatch
<1>4. r \in DOMAIN db /\ r \in RowsOf(p[1]) /\ db[r][p[2]] = id
  BY DEF Having, RowsOf
<1> HIDE DEF t
<1>5. CASE t = "matches"
  <2>1. p[1] \in {"match_players", "videos", "highlights"} /\ p[2] = "match_id"
    BY <1>5, ModelsAre DEF t
  <2>2. Has(r, "match_id") /\ db[r].match_id = m
    BY <1>3, <1>4, <1>5, <2>1 DEF RowTypes
  <2> QED BY <1>4, <2>2, OfMatchIs DEF InMatch
<1>6. CASE t = "videos"
  <2>1. p[1] \in {"processing_jobs", "video_segments", "player_tracks"} /\ p[2] = "video_id"
    BY <1>6, ModelsAre DEF t
  <2>2. Has(r, "video_id") /\ db[db[r].video_id].match_id = m
    BY <1>3, <1>4, <1>6, <2>1 DEF RowTypes
  <2> QED BY <1>4, <2>2, OfMatchIs DEF InMatch
<1>7. CASE t \in {"match_players", "highlights", "player_tracks", "processing_jobs",
                  "video_segments"}
  BY <1>7, ModelsAre DEF t
<1> QED BY <1>2, <1>3, <1>5, <1>6, <1>7 DEF InPlay

\* What a session loads of a match: rows of the match, and none that it would
\* leave behind without their name.
LEMMA MatchLoads ==
  ASSUME RowTypes, OneMatch, NEW m \in RowsOf("matches")
  PROVE  m \in Deletes(m) /\ Deletes(m) \subseteq OfMatch(m) /\ Frees(m) = {}
<1> DEFINE s1 == Owned({m})
           s2 == Owned(s1)
<1>1. Deletes(m) = Owned(s2)
  BY DEF Deletes
<1>2. \A s : s \subseteq Owned(s)
  BY OwnedIs
<1>3. m \in OfMatch(m)
  BY OfMatchIs DEF InMatch, RowsOf
<1>4. m \in Ids /\ TableOf[m] = "matches"
  BY TableOfIs DEF RowsOf, InPlay
<1>5. ASSUME NEW r \in RowsOf("videos") \cup RowsOf("highlights"), db[r].match_id = m
      PROVE  r \in s1
  <2>1. PICK t \in {"videos", "highlights"} : r \in Having(t, "match_id", m)
    BY <1>5 DEF Having
  <2>2. <<t, "match_id">> \in Models[TableOf[m]].owns /\ t \in InPlay
    BY <1>4, ModelsAre DEF InPlay
  <2>3. \E p \in Models[TableOf[m]].owns : p[1] \in InPlay /\ r \in Having(p[1], p[2], m)
    BY <2>1, <2>2
  <2> QED BY <2>3, OwnedIs
<1>6. ASSUME NEW r \in RowsOf("player_tracks"), NEW v \in RowsOf("videos"), v \in s1,
             db[r].video_id = v
      PROVE  r \in s2
  <2>1. TableOf[v] = "videos"
    BY TableOfIs DEF RowsOf, InPlay
  <2>2. r \in Having("player_tracks", "video_id", v)
    BY <1>6 DEF Having
  <2>3. <<"player_tracks", "video_id">> \in Models[TableOf[v]].owns
          /\ "player_tracks" \in InPlay
    BY <2>1, ModelsAre DEF InPlay
  <2>4. \E p \in Models[TableOf[v]].owns : p[1] \in InPlay /\ r \in Having(p[1], p[2], v)
    BY <2>2, <2>3
  <2> HIDE DEF s1
  <2> QED BY <1>6, <2>4, OwnedIs
<1> HIDE DEF s1, s2
<1>7. s1 \subseteq Deletes(m) /\ s2 \subseteq Deletes(m) /\ m \in Deletes(m)
  BY <1>1, <1>2 DEF s1, s2
<1>8. Deletes(m) \subseteq OfMatch(m)
  BY <1>1, <1>3, OwnedStays DEF s1, s2
<1>9. Frees(m) = {}
  <2> SUFFICES ASSUME NEW x, NEW i \in Deletes(m), x \in Related(i, Models[TableOf[i]].frees),
                      x[1] \notin Deletes(m)
               PROVE  FALSE
    BY Zenon DEF Frees
  <2> DEFINE t == TableOf[i]
  <2>1. PICK p \in Models[t].frees : \E r \in Having(p[1], p[2], i) : x = <<r, p[2]>>
    BY RelatedIs
  <2>2. PICK r \in Having(p[1], p[2], i) : x = <<r, p[2]>>
    BY <2>1
  <2>3. r \in DOMAIN db /\ r \in RowsOf(p[1]) /\ db[r][p[2]] = i /\ r \notin Deletes(m)
    BY <2>2 DEF Having, RowsOf
  <2>4. i \in OfMatch(m) /\ i \in DOMAIN db /\ i \in Ids /\ i # NULL
    BY <1>8, OfMatchIs DEF RowTypes
  <2>5. t \in InPlay /\ i \in RowsOf(t)
    BY <2>4, IdsAre DEF RowsOf
  <2>6. t \notin {"users", "fields", "venues"}
    BY <2>4, <2>5, KindsOfMatch
  <2> HIDE DEF t
  <2>7. CASE t = "match_players"
    <3>1. p[1] \in {"highlights", "player_tracks"} /\ p[2] = "player_id"
      BY <2>7, ModelsAre
    <3>2. db[i].match_id = m
      <4>1. i \notin RowsOf("highlights") /\ i \notin RowsOf("player_tracks")
              /\ i \notin RowsOf("processing_jobs") /\ i \notin RowsOf("video_segments")
              /\ i \notin RowsOf("matches")
        BY <2>5, <2>7, Apart DEF InPlay
      <4> QED BY <2>4, <4>1, OfMatchIs DEF InMatch, RowTypes
    <3>3. db[r].player_id = i /\ Has(r, "player_id") /\ Has(r, "video_id")
      BY <2>3, <3>1 DEF RowTypes
    <3>4. db[db[r].video_id].match_id = m
      BY <2>3, <2>4, <3>2, <3>3 DEF OneMatch, Has
    <3>5. db[r].video_id \in RowsOf("videos")
      BY <2>3, <3>3 DEF RowTypes
    <3>6. CASE p[1] = "highlights"
      BY <1>5, <1>7, <2>3, <3>4, <3>6 DEF OneMatch
    <3>7. CASE p[1] = "player_tracks"
      BY <1>5, <1>6, <1>7, <2>3, <3>4, <3>5, <3>7
    <3> QED BY <3>1, <3>6, <3>7
  <2>8. CASE t = "videos"
    <3>1. p[1] = "highlights" /\ p[2] = "video_id"
      BY <2>8, ModelsAre
    <3>2. db[i].match_id = m
      BY <2>4, <2>5, <2>8, KindsOfMatch
    <3> QED BY <1>5, <1>7, <2>3, <3>1, <3>2 DEF OneMatch
  <2>9. CASE t \in {"matches", "highlights", "player_tracks", "processing_jobs",
                    "video_segments"}
    BY <2>9, ModelsAre
  <2> QED BY <2>5, <2>6, <2>7, <2>8, <2>9 DEF InPlay
<1> QED BY <1>7, <1>8, <1>9

LEMMA PlayerLoads ==
  ASSUME RowTypes, NEW p \in RowsOf("match_players")
  PROVE  Deletes(p) = {p} /\ Frees(p) \subseteq Ids \X {"player_id"}
<1>1. TableOf[p] = "match_players"
  BY TableOfIs DEF RowsOf, InPlay
<1>2. Owned({p}) = {p}
  <2>1. \A r : r \in Owned({p}) <=> r \in {p}
    BY <1>1, ModelsAre, OwnedIs
  <2> QED BY <2>1
<1>3. Deletes(p) = {p}
  BY <1>2 DEF Deletes
<1>4. ASSUME NEW x \in Frees(p) PROVE x \in Ids \X {"player_id"}
  <2>1. x \in Related(p, Models[TableOf[p]].frees)
    BY <1>3 DEF Frees
  <2>2. PICK q \in Models[TableOf[p]].frees : \E r \in Having(q[1], q[2], p) : x = <<r, q[2]>>
    BY <2>1, RelatedIs
  <2>3. q[2] = "player_id"
    BY <1>1, <2>2, ModelsAre
  <2> QED BY <2>2, <2>3 DEF Having, RowsOf, RowTypes
<1> QED BY <1>3, <1>4

-----------------------------------------------------------------------------
(***************************************************************************)
(* What a step leaves as it was.                                           *)
(***************************************************************************)
LEMMA TypesAfter ==
  ASSUME ReferencesHold'
  PROVE  RowTypes'
  BY TypesOfRows, PTL

LEMMA OfMatchAfter ==
  RowTypes' =>
    \A m \in RowsOf("matches")' : OfMatch(m)' = {r \in DOMAIN db' : InMatch(r, m)'}
<1>1. RowTypes => \A m \in RowsOf("matches") : OfMatch(m) = {r \in DOMAIN db : InMatch(r, m)}
  BY OfMatchIs
<1>2. (RowTypes => \A m \in RowsOf("matches") : OfMatch(m) = {r \in DOMAIN db : InMatch(r, m)})'
  BY <1>1, PTL
<1> QED BY <1>2

\* A row that there is keeps its columns, and the match and the video it names.
Keeps ==
  /\ used \subseteq used'
  /\ DOMAIN db' \cap used \subseteq DOMAIN db
  /\ \A r \in DOMAIN db \cap DOMAIN db' :
       /\ DOMAIN db'[r] = DOMAIN db[r]
       /\ Has(r, "match_id") => db'[r].match_id = db[r].match_id
       /\ Has(r, "video_id") => db'[r].video_id = db[r].video_id

\* The run works on the same video and has learnt of no player.
SameRun ==
  \/ run' = run
  \/ /\ run # Resting
     /\ \E names \in SUBSET (run.known \cup run.named) : run' = [run EXCEPT !.named = names]

LEMMA RunKept ==
  ASSUME ReferencesHold, ReferencesHold', RunKnows, Keeps, SameRun
  PROVE  RunKnows'
<1>1. RowTypes /\ RowTypes'
  BY TypesOfRows, TypesAfter
<1>2. /\ run'.video = run.video
      /\ run'.known \cup run'.named \subseteq run.known \cup run.named
      /\ run' \in [video : (used' \cap Pool["videos"]) \cup {NULL},
                   known : SUBSET (used' \cap Pool["match_players"]),
                   named : SUBSET (used' \cap Pool["match_players"])]
      /\ run.video = NULL => run' = run
  <2>1. CASE run' = run
    BY <2>1 DEF RunKnows, Keeps
  <2>2. ASSUME NEW names \in SUBSET (run.known \cup run.named), run # Resting,
               run' = [run EXCEPT !.named = names]
        PROVE  /\ run'.video = run.video /\ run'.known = run.known /\ run'.named = names
               /\ run.video # NULL
               /\ run' \in [video : (used \cap Pool["videos"]) \cup {NULL},
                            known : SUBSET (used \cap Pool["match_players"]),
                            named : SUBSET (used \cap Pool["match_players"])]
    BY <2>2 DEF RunKnows
  <2> QED BY <2>1, <2>2 DEF SameRun, Keeps
<1>3. ASSUME run'.video \in DOMAIN db', NEW p \in (run'.known \cup run'.named) \cap DOMAIN db'
      PROVE  db'[p].match_id = db'[run'.video].match_id
  <2>1. run.video \in RowsOf("videos") /\ p \in RowsOf("match_players")
    BY <1>1, <1>2, <1>3 DEF RunKnows, Keeps, RowsOf, RowTypes
  <2>2. db[p].match_id = db[run.video].match_id
    BY <1>2, <1>3, <2>1 DEF RunKnows, RowsOf
  <2>3. Has(run.video, "match_id") /\ Has(p, "match_id")
    BY <1>1, <2>1 DEF RowTypes, RowsOf
  <2>4. db'[p].match_id = db[p].match_id /\ db'[run.video].match_id = db[run.video].match_id
    BY <1>2, <1>3, <2>1, <2>3 DEF Keeps, RowsOf
  <2> QED BY <1>2, <2>2, <2>4
<1> QED BY <1>2, <1>3 DEF RunKnows

LEMMA StaffKept ==
  ASSUME ReferencesHold, ReferencesHold', StaffHolds, MatchDeletionSucceeds, Keeps,
         UNCHANGED staff,
         RowsOf("matches") \cup RowsOf("match_players") \subseteq DOMAIN db'
  PROVE  StaffHolds' /\ MatchDeletionSucceeds'
<1>1. RowTypes /\ RowTypes'
  BY TypesOfRows, TypesAfter
<1>2. staff' \in [goal : Ids \cup {NULL}, deletes : SUBSET used',
                  frees : SUBSET (Ids \X {"player_id"}),
                  answer : {"none", "pending", "done", "error"}]
  BY DEF StaffHolds, Keeps
<1>3. ASSUME NEW m \in RowsOf("matches"), NEW r \in DOMAIN db', r \in used, r \in OfMatch(m)
      PROVE  r \in OfMatch(m)'
  <2>1. m \in RowsOf("matches")'
    BY <1>3 DEF RowsOf
  <2>2. InMatch(r, m) /\ r \in DOMAIN db
    BY <1>1, <1>3, OfMatchIs
  <2>3. ASSUME Has(r, "match_id"), db[r].match_id = m PROVE InMatch(r, m)'
    BY <1>3, <2>2, <2>3 DEF InMatch, Has, Keeps
  <2>4. ASSUME Has(r, "video_id"), db[db[r].video_id].match_id = m PROVE InMatch(r, m)'
    <3> DEFINE v == db[r].video_id
    <3>1. Has(r, "video_id")' /\ db'[r].video_id = v
      BY <1>3, <2>2, <2>4 DEF Has, Keeps
    <3>2. v \in DOMAIN db /\ v \in RowsOf("videos") /\ v \in DOMAIN db'
      BY <1>1, <1>3, <2>2, <2>4, <3>1 DEF RowTypes, RowsOf
    <3>3. Has(v, "match_id")
      BY <1>1, <3>2 DEF RowTypes
    <3>4. db'[v].match_id = m
      BY <2>4, <3>2, <3>3 DEF Keeps
    <3> HIDE DEF v
    <3> QED BY <3>1, <3>4 DEF InMatch
  <2>5. InMatch(r, m)'
    BY <2>2, <2>3, <2>4 DEF InMatch
  <2> QED BY <1>1, <1>3, <2>1, <2>5, OfMatchAfter
<1>4. ASSUME staff.answer = "pending"
      PROVE  (/\ staff.goal \in RowsOf("matches") \cup RowsOf("match_players")
              /\ staff.goal \in staff.deletes
              /\ staff.goal \in Pool["matches"] =>
                   /\ staff.frees = {}
                   /\ staff.deletes \cap DOMAIN db \subseteq OfMatch(staff.goal)
              /\ staff.goal \in Pool["match_players"] => staff.deletes = {staff.goal})'
  <2>1. /\ staff.goal \in RowsOf("matches") \cup RowsOf("match_players")
        /\ staff.goal \in staff.deletes /\ staff.deletes \subseteq used
        /\ staff.goal \in Pool["matches"] =>
             staff.frees = {} /\ staff.deletes \cap DOMAIN db \subseteq OfMatch(staff.goal)
        /\ staff.goal \in Pool["match_players"] => staff.deletes = {staff.goal}
    BY <1>4 DEF StaffHolds
  <2>2. (staff.goal \in RowsOf("matches") \cup RowsOf("match_players"))'
    BY <2>1 DEF RowsOf
  <2>3. ASSUME staff.goal \in Pool["matches"], NEW r \in staff.deletes, r \in DOMAIN db'
        PROVE  (r \in OfMatch(staff.goal))'
    <3>1. staff.goal \in RowsOf("matches")
      BY <2>1, <2>3 DEF RowsOf
    <3>2. r \in DOMAIN db /\ r \in used
      BY <2>1, <2>3 DEF Keeps
    <3>3. \A m \in RowsOf("matches") : r \in OfMatch(m) => r \in OfMatch(m)'
      BY <1>3, <2>3, <3>2
    <3>4. \A m : m = staff.goal => (r \in OfMatch(m)' <=> (r \in OfMatch(staff.goal))')
      OBVIOUS
    <3> QED BY <2>1, <2>3, <3>1, <3>2, <3>3, <3>4
  <2> QED BY <2>1, <2>2, <2>3
<1> QED BY <1>2, <1>4 DEF StaffHolds, MatchDeletionSucceeds

-----------------------------------------------------------------------------
(***************************************************************************)
(* A row that is added, in the place of tracks or moments if any.          *)
(***************************************************************************)
Put(id, row, old) ==
  /\ db' = [r \in (DOMAIN db \ old) \cup {id} |-> IF r = id THEN row ELSE db[r]]
  /\ used' = used \cup {id}

Fits(t, row) ==
  /\ DOMAIN row = Columns(t)
  /\ \A c \in Columns(t) :
       row[c] \in RowsOf(Target(c)) \/ (row[c] = NULL /\ Rule(c) = "SET NULL")
  /\ "player_id" \in Columns(t) /\ row.player_id # NULL =>
       db[row.player_id].match_id = db[row.video_id].match_id
  /\ t = "highlights" => row.match_id = db[row.video_id].match_id

LEMMA Targets ==
  \A c : Target(c) \in {"matches", "videos", "match_players", "users", "fields", "venues"}
  BY DEF Target

LEMMA PutKeeps ==
  ASSUME ReferencesHold, OneMatch,
         NEW t \in InPlay, NEW id \in Pool[t], id \notin used, NEW row, Fits(t, row),
         NEW old, old \subseteq RowsOf("player_tracks") \cup RowsOf("highlights"),
         Put(id, row, old)
  PROVE  /\ ReferencesHold' /\ OneMatch' /\ Keeps
         /\ RowsOf("matches") \cup RowsOf("match_players") \subseteq DOMAIN db'
<1>1. RowTypes
  BY TypesOfRows
<1>2. id \in Ids /\ id # NULL /\ TableOf[id] = t /\ id \notin DOMAIN db
  BY TableOfIs DEF ReferencesHold
<1>3. /\ DOMAIN db' = (DOMAIN db \ old) \cup {id}
      /\ db'[id] = row
      /\ \A r \in DOMAIN db \ old : db'[r] = db[r]
      /\ used' = used \cup {id}
  BY <1>2 DEF Put
<1>4. ASSUME NEW s \in {"matches", "videos", "match_players", "users", "fields", "venues"},
             NEW r \in RowsOf(s)
      PROVE  r \notin old /\ r \in RowsOf(s)' /\ r # id /\ r \in DOMAIN db \ old
  <2>1. r \notin RowsOf("player_tracks") /\ r \notin RowsOf("highlights")
    BY <1>4, Apart DEF InPlay
  <2> QED BY <1>2, <1>3, <2>1 DEF RowsOf
<1>5. Keeps
  BY <1>2, <1>3 DEF Keeps, ReferencesHold
<1>6. ReferencesHold'
  <2>1. DOMAIN db' \subseteq used' /\ used' \subseteq Ids
    BY <1>2, <1>3 DEF ReferencesHold
  <2>2. \A r \in Ids : References(r)' = References(r)
    BY DEF References
  <2>3. ASSUME NEW r \in DOMAIN db', NEW c \in DOMAIN db'[r]
        PROVE  \/ db'[r][c] \in RowsOf(References(r)[c].to)'
               \/ db'[r][c] = NULL /\ References(r)[c].onDelete = "SET NULL"
    <3>1. CASE r = id
      <4>1. c \in Columns(t) /\ c \in DOMAIN References(id)
              /\ References(id)[c].to = Target(c) /\ References(id)[c].onDelete = Rule(c)
        BY <1>2, <1>3, <2>3, <3>1, ColumnsAre DEF Fits
      <4>2. row[c] \in RowsOf(Target(c)) \/ (row[c] = NULL /\ Rule(c) = "SET NULL")
        BY <4>1 DEF Fits
      <4>3. row[c] \in RowsOf(Target(c)) => row[c] \in RowsOf(Target(c))'
        BY <1>4, Targets
      <4> QED BY <1>3, <3>1, <4>1, <4>2, <4>3
    <3>2. CASE r # id
      <4>1. r \in DOMAIN db /\ db'[r] = db[r] /\ r \in Ids
        BY <1>1, <1>3, <3>2 DEF RowTypes
      <4>2. c \in DOMAIN References(r) /\ References(r)[c].to = Target(c)
        BY <2>3, <4>1, ColumnsAre DEF ReferencesHold
      <4>3. \/ db[r][c] \in RowsOf(Target(c))
            \/ db[r][c] = NULL /\ References(r)[c].onDelete = "SET NULL"
        BY <2>3, <4>1, <4>2 DEF ReferencesHold
      <4>4. db[r][c] \in RowsOf(Target(c)) => db[r][c] \in RowsOf(Target(c))'
        BY <1>4, Targets
      <4> QED BY <4>1, <4>2, <4>3, <4>4
    <3> QED BY <3>1, <3>2
  <2>4. ASSUME NEW r \in DOMAIN db' PROVE DOMAIN db'[r] = DOMAIN References(r)
    BY <1>2, <1>3, ColumnsAre DEF Fits, ReferencesHold
  <2> QED BY <2>1, <2>2, <2>3, <2>4 DEF ReferencesHold
<1>7. OneMatch'
  <2>1. ASSUME NEW r \in DOMAIN db', "player_id" \in DOMAIN db'[r], db'[r].player_id # NULL
        PROVE  db'[db'[r].player_id].match_id = db'[db'[r].video_id].match_id
    <3>1. CASE r = id
      <4>1. "player_id" \in Columns(t) /\ "video_id" \in Columns(t)
            <5>1. "player_id" \in Columns(t)
          BY <1>3, <2>1, <3>1 DEF Fits
        <5>2. t \in {"highlights", "player_tracks"}
          BY <5>1 DEF Columns
        <5>3. "video_id" \in Columns(t)
          BY <5>2 DEF Columns, ColumnNames
        <5> QED BY <5>1, <5>3
      <4>2. row["player_id"] \in RowsOf("match_players") /\ row["video_id"] \in RowsOf("videos")
        BY <1>3, <2>1, <3>1, <4>1 DEF Fits, Target, Rule
      <4>3. db'[row.player_id] = db[row.player_id] /\ db'[row.video_id] = db[row.video_id]
        BY <1>3, <1>4, <4>2
      <4> QED BY <1>3, <2>1, <3>1, <4>1, <4>3 DEF Fits
    <3>2. CASE r # id
      <4>1. r \in DOMAIN db /\ db'[r] = db[r]
        BY <1>3, <3>2
      <4>2. db[r].player_id \in RowsOf("match_players") /\ db[r].video_id \in RowsOf("videos")
        BY <1>1, <2>1, <4>1 DEF RowTypes, Has
      <4>3. db'[db[r].player_id] = db[db[r].player_id] /\ db'[db[r].video_id] = db[db[r].video_id]
        BY <1>3, <1>4, <4>2
      <4> QED BY <2>1, <4>1, <4>3 DEF OneMatch
    <3> QED BY <3>1, <3>2
  <2>2. ASSUME NEW h \in RowsOf("highlights")'
        PROVE  db'[h].match_id = db'[db'[h].video_id].match_id
    <3>1. CASE h = id
      <4>1. t = "highlights" /\ "video_id" \in Columns(t)
        BY <1>2, <2>2, <3>1, TableOfIs DEF RowsOf, InPlay, Columns, ColumnNames
      <4>2. row["video_id"] \in RowsOf("videos")
        BY <4>1 DEF Fits, Target, Rule
      <4> QED BY <1>3, <1>4, <3>1, <4>1, <4>2 DEF Fits
    <3>2. CASE h # id
      <4>1. h \in RowsOf("highlights") /\ db'[h] = db[h]
        BY <1>3, <2>2, <3>2 DEF RowsOf
      <4>2. db[h].video_id \in RowsOf("videos")
        BY <1>1, <4>1 DEF RowTypes, RowsOf
      <4> QED BY <1>3, <1>4, <4>1, <4>2 DEF OneMatch
    <3> QED BY <3>1, <3>2
  <2> QED BY <2>1, <2>2 DEF OneMatch
<1>8. RowsOf("matches") \cup RowsOf("match_players") \subseteq DOMAIN db'
  BY <1>3, <1>4
<1> QED BY <1>5, <1>6, <1>7, <1>8

LEMMA PutPreserves ==
  ASSUME DeletionInv, UNCHANGED staff, SameRun,
         NEW t \in InPlay, NEW id \in Pool[t], id \notin used, NEW row, Fits(t, row),
         NEW old, old \subseteq RowsOf("player_tracks") \cup RowsOf("highlights"),
         Put(id, row, old)
  PROVE  DeletionInv'
<1>1. /\ ReferencesHold' /\ OneMatch' /\ Keeps
      /\ RowsOf("matches") \cup RowsOf("match_players") \subseteq DOMAIN db'
  BY PutKeeps DEF DeletionInv
<1>2. RunKnows'
  BY <1>1, RunKept DEF DeletionInv
<1>3. StaffHolds' /\ MatchDeletionSucceeds'
  BY <1>1, StaffKept DEF DeletionInv
<1> QED BY <1>1, <1>2, <1>3 DEF DeletionInv

LEMMA InsertPreserves ==
  ASSUME DeletionInv, UNCHANGED staff, SameRun,
         NEW t \in InPlay, NEW row, Accepted(t, row) => Fits(t, row), Insert(t, row)
  PROVE  DeletionInv'
<1>1. PICK id \in Fresh(t) : /\ Accepted(t, row)
                             /\ db' = Added(id, row)
                             /\ used' = used \cup {id}
  BY DEF Insert
<1>2. id \in Pool[t] /\ id \notin used
  BY DEF Fresh
<1>3. Put(id, row, {})
  <2>1. db' = [r \in DOMAIN db \cup {id} |-> IF r = id THEN row ELSE db[r]]
    BY <1>1 DEF Added
  <2>2. (DOMAIN db \ {}) \cup {id} = DOMAIN db \cup {id}
    OBVIOUS
  <2> QED BY <1>1, <2>1, <2>2 DEF Put
<1> QED BY <1>1, <1>2, <1>3, PutPreserves

LEMMA ReplacePreserves ==
  ASSUME DeletionInv, UNCHANGED staff, SameRun,
         NEW t \in {"player_tracks", "highlights"}, NEW row,
         Accepted(t, row) => Fits(t, row), Replace(t, row)
  PROVE  DeletionInv'
<1> DEFINE old == Having(t, "video_id", run.video)
<1>1. PICK id \in Fresh(t) :
        /\ Accepted(t, row)
        /\ db' = [r \in (DOMAIN db \ old) \cup {id} |-> IF r = id THEN row ELSE db[r]]
        /\ used' = used \cup {id}
  BY DEF Replace
<1>2. id \in Pool[t] /\ id \notin used /\ t \in InPlay
  BY DEF Fresh, InPlay
<1>3. old \subseteq RowsOf("player_tracks") \cup RowsOf("highlights")
  BY DEF Having
<1> HIDE DEF old
<1>4. Put(id, row, old)
  BY <1>1 DEF Put
<1> QED BY <1>1, <1>2, <1>3, <1>4, PutPreserves

-----------------------------------------------------------------------------
(***************************************************************************)
(* Requests and runs.                                                      *)
(***************************************************************************)
LEMMA SchedulePreserves ==
  ASSUME DeletionInv, Schedule
  PROVE  DeletionInv'
<1>1. PICK f \in RowsOf("fields") :
        Insert("matches", [field_id |-> f, created_by |-> Operator])
  BY DEF Schedule
<1> DEFINE row == [field_id |-> f, created_by |-> Operator]
<1>2. Operator \in Pool["users"] /\ Operator # NULL
  BY DeletionAssumption DEF Operator, InPlay
<1>3. DOMAIN row = {"field_id", "created_by"} /\ row["field_id"] = f
        /\ row["created_by"] = Operator
  OBVIOUS
<1> HIDE DEF row
<1>4. Columns("matches") = {"field_id", "created_by"}
  BY DEF Columns, ColumnNames
<1>5. ASSUME Accepted("matches", row) PROVE Fits("matches", row)
  <2>1. Operator \in RowsOf("users")
    BY <1>2, <1>3, <1>5 DEF Accepted, RowsOf
  <2> QED BY <1>1, <1>3, <1>4, <2>1 DEF Fits, Target
<1>6. Insert("matches", row) /\ UNCHANGED staff /\ SameRun /\ "matches" \in InPlay
  BY <1>1 DEF row, Schedule, SameRun, InPlay
<1> QED BY <1>5, <1>6, InsertPreserves

LEMMA JoinPreserves ==
  ASSUME DeletionInv, Join
  PROVE  DeletionInv'
<1>1. PICK m \in RowsOf("matches"), u \in RowsOf("users") :
        Insert("match_players", [match_id |-> m, user_id |-> u])
  BY DEF Join
<1> DEFINE row == [match_id |-> m, user_id |-> u]
<1>2. DOMAIN row = {"match_id", "user_id"} /\ row["match_id"] = m /\ row["user_id"] = u
  OBVIOUS
<1> HIDE DEF row
<1>3. Columns("match_players") = {"match_id", "user_id"}
  BY DEF Columns, ColumnNames
<1>4. Fits("match_players", row)
  BY <1>1, <1>2, <1>3 DEF Fits, Target
<1>5. Insert("match_players", row) /\ UNCHANGED staff /\ SameRun
        /\ "match_players" \in InPlay
  BY <1>1 DEF row, Join, SameRun, InPlay
<1> QED BY <1>4, <1>5, InsertPreserves

LEMMA StartVideoPreserves ==
  ASSUME DeletionInv, StartVideo
  PROVE  DeletionInv'
<1>1. PICK m \in RowsOf("matches") : Insert("videos", [match_id |-> m])
  BY DEF StartVideo
<1> DEFINE row == [match_id |-> m]
<1>2. DOMAIN row = {"match_id"} /\ row["match_id"] = m
  OBVIOUS
<1> HIDE DEF row
<1>3. Columns("videos") = {"match_id"}
  BY DEF Columns, ColumnNames
<1>4. Fits("videos", row)
  BY <1>1, <1>2, <1>3 DEF Fits, Target
<1>5. Insert("videos", row) /\ UNCHANGED staff /\ SameRun /\ "videos" \in InPlay
  BY <1>1 DEF row, StartVideo, SameRun, InPlay
<1> QED BY <1>4, <1>5, InsertPreserves

\* A segment or a job: a row of a video and of nothing else.
LEMMA OfVideoFits ==
  ASSUME NEW t \in {"video_segments", "processing_jobs"}, NEW v \in Pool["videos"],
         v # NULL, Accepted(t, [video_id |-> v])
  PROVE  Fits(t, [video_id |-> v])
<1> DEFINE row == [video_id |-> v]
<1>1. DOMAIN row = {"video_id"} /\ row["video_id"] = v
  OBVIOUS
<1> HIDE DEF row
<1>2. Columns(t) = {"video_id"}
  BY DEF Columns, ColumnNames
<1>3. v \in RowsOf("videos")
  BY <1>1 DEF Accepted, RowsOf, row
<1>4. Fits(t, row)
  BY <1>1, <1>2, <1>3 DEF Fits, Target
<1> QED BY <1>4 DEF row

LEMMA StoreSegmentPreserves ==
  ASSUME DeletionInv, StoreSegment
  PROVE  DeletionInv'
<1>1. PICK v \in RowsOf("videos") : Insert("video_segments", [video_id |-> v])
  BY DEF StoreSegment
<1>2. v \in Pool["videos"] /\ v # NULL
  BY TableOfIs DEF RowsOf, InPlay
<1>3. UNCHANGED staff /\ SameRun /\ "video_segments" \in InPlay
  BY DEF StoreSegment, SameRun, InPlay
<1> QED BY <1>1, <1>2, <1>3, OfVideoFits, InsertPreserves

\* What leaves the rows and the deletion as they are need only leave a run that
\* knows the right players.
LEMMA RunAlone ==
  ASSUME DeletionInv, UNCHANGED <<db, used, staff>>, RunKnows'
  PROVE  DeletionInv'
<1>1. ReferencesHold' /\ OneMatch'
  BY DEF DeletionInv, ReferencesHold, OneMatch, RowsOf, References
<1>2. Keeps /\ RowsOf("matches") \cup RowsOf("match_players") \subseteq DOMAIN db'
  BY DEF Keeps, RowsOf
<1>3. StaffHolds' /\ MatchDeletionSucceeds'
  BY <1>1, <1>2, StaffKept DEF DeletionInv
<1> QED BY <1>1, <1>3 DEF DeletionInv

LEMMA RestingKnows ==
  ASSUME run' = Resting
  PROVE  RunKnows'
<1>1. /\ run'.video = NULL /\ run'.known = {} /\ run'.named = {}
      /\ run' \in [video : {NULL}, known : {{}}, named : {{}}]
  BY DEF Resting
<1> QED BY <1>1 DEF RunKnows

LEMMA FailPreserves ==
  ASSUME DeletionInv, UNCHANGED staff, Fail
  PROVE  DeletionInv'
  BY RunAlone, RestingKnows DEF Fail

LEMMA EndRunPreserves ==
  ASSUME DeletionInv, EndRun
  PROVE  DeletionInv'
  BY RunAlone, RestingKnows DEF EndRun

\* A track of a video names players of the match of the video only.
LEMMA BeginRunPreserves ==
  ASSUME DeletionInv, BeginRun
  PROVE  DeletionInv'
<1> USE DEF DeletionInv
<1>1. PICK v \in RowsOf("videos") :
        run' = [video |-> v,
                known |-> Having("match_players", "match_id", db[v].match_id),
                named |-> {db[t].player_id :
                             t \in Having("player_tracks", "video_id", v)} \ {NULL}]
  BY DEF BeginRun
<1> DEFINE names == {db[t].player_id : t \in Having("player_tracks", "video_id", v)} \ {NULL}
           roster == Having("match_players", "match_id", db[v].match_id)
<1>2. /\ run'.video = v /\ run'.known = roster /\ run'.named = names
      /\ run' \in [video : {v}, known : {roster}, named : {names}]
  BY <1>1
<1>3. RowTypes /\ UNCHANGED <<db, used, staff>>
  BY TypesOfRows DEF BeginRun
<1>4. ASSUME NEW p \in roster
      PROVE  p \in used \cap Pool["match_players"] /\ db[p].match_id = db[v].match_id
  BY DEF Having, RowsOf, ReferencesHold
<1>5. ASSUME NEW p \in names
      PROVE  p \in used \cap Pool["match_players"] /\ db[p].match_id = db[v].match_id
  <2>1. PICK t \in Having("player_tracks", "video_id", v) : p = db[t].player_id
    OBVIOUS
  <2>2. t \in RowsOf("player_tracks") /\ t \in DOMAIN db /\ db[t].video_id = v
    BY DEF Having, RowsOf
  <2>3. "player_id" \in DOMAIN db[t] /\ p # NULL /\ p \in RowsOf("match_players")
    BY <1>3, <2>1, <2>2 DEF RowTypes, Has
  <2>4. db[p].match_id = db[v].match_id
    BY <2>1, <2>2, <2>3 DEF OneMatch
  <2> QED BY <2>3, <2>4 DEF RowsOf, ReferencesHold
<1> HIDE DEF names, roster
<1>6. v \in used \cap Pool["videos"] /\ v # NULL
  BY TableOfIs DEF RowsOf, ReferencesHold, InPlay
<1>7. RunKnows'
  BY <1>2, <1>3, <1>4, <1>5, <1>6 DEF RunKnows
<1> QED BY <1>3, <1>7, RunAlone

LEMMA RunVideo ==
  ASSUME DeletionInv, run # Resting
  PROVE  run.video \in Pool["videos"] /\ run.video # NULL
  BY DEF DeletionInv, RunKnows

LEMMA WriteJobPreserves ==
  ASSUME DeletionInv, WriteJob
  PROVE  DeletionInv'
<1> DEFINE row == [video_id |-> run.video]
<1>1. run # Resting /\ UNCHANGED staff /\ RunWrites("processing_jobs", row)
  BY DEF WriteJob
<1>2. Accepted("processing_jobs", row) => Fits("processing_jobs", row)
  BY <1>1, RunVideo, OfVideoFits
<1>3. "processing_jobs" \in InPlay
  BY DEF InPlay
<1> HIDE DEF row
<1>4. CASE Accepted("processing_jobs", row)
  <2>1. Insert("processing_jobs", row) /\ SameRun
    BY <1>1, <1>4 DEF RunWrites, SameRun
  <2> QED BY <1>1, <1>2, <1>3, <2>1, InsertPreserves
<1>5. CASE ~Accepted("processing_jobs", row)
  BY <1>1, <1>5, FailPreserves DEF RunWrites
<1> QED BY <1>4, <1>5

LEMMA WriteTracksPreserves ==
  ASSUME DeletionInv, WriteTracks
  PROVE  DeletionInv'
<1> DEFINE row == [video_id |-> run.video, player_id |-> NULL]
<1>1. /\ run # Resting /\ UNCHANGED staff
      /\ IF Accepted("player_tracks", row)
         THEN Replace("player_tracks", row) /\ run' = [run EXCEPT !.named = {}]
         ELSE Fail
  BY DEF WriteTracks
<1>2. DOMAIN row = {"video_id", "player_id"} /\ row["video_id"] = run.video
        /\ row["player_id"] = NULL
  OBVIOUS
<1> HIDE DEF row
<1>3. Columns("player_tracks") = {"video_id", "player_id"}
  BY DEF Columns, ColumnNames
<1>4. CASE Accepted("player_tracks", row)
  <2>1. run.video \in RowsOf("videos")
    BY <1>1, <1>2, <1>4, RunVideo DEF Accepted, RowsOf
  <2>2. Fits("player_tracks", row)
    BY <1>2, <1>3, <2>1 DEF Fits, Target, Rule
  <2>3. Replace("player_tracks", row) /\ SameRun
    BY <1>1, <1>4 DEF SameRun
  <2> QED BY <1>1, <2>2, <2>3, ReplacePreserves
<1>5. CASE ~Accepted("player_tracks", row)
  BY <1>1, <1>5, FailPreserves
<1> QED BY <1>4, <1>5

LEMMA SelectPreserves ==
  ASSUME DeletionInv, Select
  PROVE  DeletionInv'
<1> DEFINE m == IF run.video \in DOMAIN db THEN db[run.video].match_id ELSE NULL
           moment(p) == [match_id |-> m, video_id |-> run.video, player_id |-> p]
<1>1. PICK p \in run.named \cup {NULL} :
        IF Accepted("highlights", moment(p))
        THEN Replace("highlights", moment(p)) /\ UNCHANGED run
        ELSE Fail
  BY DEF Select
<1> DEFINE row == moment(p)
<1>2. run # Resting /\ UNCHANGED staff
  BY DEF Select
<1>3. DOMAIN row = {"match_id", "video_id", "player_id"} /\ row["match_id"] = m
        /\ row["video_id"] = run.video /\ row["player_id"] = p
  OBVIOUS
<1> HIDE DEF row, moment
<1>4. Columns("highlights") = {"match_id", "video_id", "player_id"}
  BY DEF Columns, ColumnNames
<1>5. CASE Accepted("highlights", row)
  <2>1. run.video \in RowsOf("videos")
    BY <1>2, <1>3, <1>5, RunVideo DEF Accepted, RowsOf
  <2>2. m = db[run.video].match_id /\ m \in RowsOf("matches")
    BY <2>1, TypesOfRows DEF DeletionInv, RowTypes, RowsOf
  <2>3. p # NULL => /\ p \in RowsOf("match_players")
                    /\ db[p].match_id = db[run.video].match_id
    <3>1. p # NULL => p \in DOMAIN db /\ p \in run.named /\ p \in Pool["match_players"]
      BY <1>1, <1>3, <1>5 DEF Accepted, DeletionInv, RunKnows
    <3> QED BY <2>1, <3>1 DEF DeletionInv, RunKnows, RowsOf
  <2> HIDE DEF m
  <2>4. Fits("highlights", row)
    BY <1>3, <1>4, <2>1, <2>2, <2>3 DEF Fits, Target, Rule
  <2>5. Replace("highlights", row) /\ SameRun
    BY <1>1, <1>5 DEF SameRun, row
  <2> QED BY <1>2, <2>4, <2>5, ReplacePreserves
<1>6. CASE ~Accepted("highlights", row)
  BY <1>1, <1>2, <1>6, FailPreserves DEF row
<1> QED BY <1>5, <1>6

\* A track takes the name of a player of the match of its video.
LEMMA AttributePreserves ==
  ASSUME DeletionInv, Attribute
  PROVE  DeletionInv'
<1> USE DEF DeletionInv
<1>1. PICK t \in Having("player_tracks", "video_id", run.video), p \in run.known :
        IF p \in DOMAIN db
        THEN /\ db' = [db EXCEPT ![t].player_id = p]
             /\ run' = [run EXCEPT !.named = @ \cup {p}]
             /\ UNCHANGED used
        ELSE Fail
  BY DEF Attribute
<1>2. RowTypes /\ UNCHANGED staff /\ run # Resting
  BY TypesOfRows DEF Attribute
<1>3. CASE p \in DOMAIN db
  <2>1. t \in RowsOf("player_tracks") /\ t \in DOMAIN db /\ db[t].video_id = run.video
    BY DEF Having, RowsOf
  <2>2. Has(t, "player_id") /\ Has(t, "video_id") /\ ~Has(t, "match_id")
    BY <1>2, <2>1, Apart DEF RowTypes, InPlay
  <2>3. run.video \in DOMAIN db
    BY <1>2, <2>1, <2>2 DEF RowTypes, RowsOf
  <2>4. p \in RowsOf("match_players") /\ db[p].match_id = db[run.video].match_id /\ p # NULL
    BY <1>2, <1>3, <2>3 DEF RunKnows, RowsOf, RowTypes
  <2>5. /\ DOMAIN db' = DOMAIN db /\ used' = used
        /\ \A r \in DOMAIN db : DOMAIN db'[r] = DOMAIN db[r]
        /\ \A r \in DOMAIN db : r # t => db'[r] = db[r]
        /\ \A c \in DOMAIN db[t] : db'[t][c] = IF c = "player_id" THEN p ELSE db[t][c]
    BY <1>1, <1>3, <2>1
  <2>6. \A s : RowsOf(s)' = RowsOf(s)
    BY <2>5 DEF RowsOf
  <2>7. \A s \in {"videos", "match_players"} : t \notin RowsOf(s)
    BY <2>1, Apart DEF InPlay
  <2>8. Keeps
    BY <2>2, <2>5 DEF Keeps, Has
  <2>9. SameRun
    BY <1>1, <1>2, <1>3 DEF SameRun, RunKnows
  <2>10. ReferencesHold'
    <3>1. \A r \in Ids : References(r)' = References(r)
      BY DEF References
    <3>2. ASSUME NEW r \in DOMAIN db, NEW c \in DOMAIN db[r]
          PROVE  \/ db'[r][c] \in RowsOf(References(r)[c].to)
                 \/ db'[r][c] = NULL /\ References(r)[c].onDelete = "SET NULL"
      <4>1. CASE r = t /\ c = "player_id"
        <5>1. References(t)[c].to = "match_players"
          <6>1. t \in Ids /\ "player_id" \in DOMAIN References(t)
            BY <1>2, <2>1, <2>2 DEF RowTypes, ReferencesHold, Has
          <6>2. References(t)["player_id"].to = Target("player_id")
            BY <6>1, ColumnsAre
          <6> QED BY <4>1, <6>2 DEF Target
        <5> QED BY <2>1, <2>2, <2>4, <2>5, <4>1, <5>1 DEF Has
      <4>2. CASE ~(r = t /\ c = "player_id")
        BY <2>5, <3>2, <4>2 DEF ReferencesHold
      <4> QED BY <4>1, <4>2
    <3> QED BY <2>5, <2>6, <3>1, <3>2 DEF ReferencesHold
  <2>11. OneMatch'
    <3>1. ASSUME NEW r \in DOMAIN db, "player_id" \in DOMAIN db[r], db'[r].player_id # NULL
          PROVE  db'[db'[r].player_id].match_id = db'[db'[r].video_id].match_id
      <4>1. CASE r = t
        <5>1. db'[t].player_id = p /\ db'[t].video_id = run.video
          BY <2>1, <2>2, <2>5 DEF Has
        <5>2. db'[p] = db[p] /\ db'[run.video] = db[run.video]
          <6>1. p # t
            BY <2>4, <2>7
          <6>2. run.video # t
            BY <1>2, <2>1, <2>2, <2>7 DEF RowTypes
          <6> QED BY <1>3, <2>3, <2>5, <6>1, <6>2
        <5> QED BY <2>4, <4>1, <5>1, <5>2
      <4>2. CASE r # t
        <5>1. db'[r] = db[r]
          BY <2>5, <4>2
        <5>2. db[r].player_id \in RowsOf("match_players") /\ db[r].video_id \in RowsOf("videos")
          BY <1>2, <3>1, <5>1 DEF RowTypes, Has
        <5>3. db'[db[r].player_id] = db[db[r].player_id] /\ db'[db[r].video_id] = db[db[r].video_id]
          BY <2>5, <2>7, <5>2 DEF RowsOf
        <5> QED BY <3>1, <5>1, <5>3 DEF OneMatch
      <4> QED BY <4>1, <4>2
    <3>2. ASSUME NEW h \in RowsOf("highlights")
          PROVE  db'[h].match_id = db'[db'[h].video_id].match_id
      <4>1. h # t /\ h \in DOMAIN db
        BY <2>1, <3>2, Apart DEF InPlay, RowsOf
      <4>2. db'[h] = db[h]
        BY <2>5, <4>1
      <4>3. db[h].video_id \in RowsOf("videos")
        BY <1>2, <3>2, <4>1 DEF RowTypes
      <4>4. db'[db[h].video_id] = db[db[h].video_id]
        BY <2>5, <2>7, <4>3 DEF RowsOf
      <4> QED BY <3>2, <4>2, <4>4 DEF OneMatch
    <3> QED BY <2>5, <2>6, <3>1, <3>2 DEF OneMatch
  <2>12. RunKnows'
    BY <2>8, <2>9, <2>10, RunKept
  <2>13. StaffHolds' /\ MatchDeletionSucceeds'
    BY <1>2, <2>5, <2>8, <2>10, StaffKept DEF RowsOf
  <2> QED BY <2>10, <2>11, <2>12, <2>13
<1>4. CASE p \notin DOMAIN db
  BY <1>1, <1>2, <1>4, FailPreserves
<1> QED BY <1>3, <1>4

-----------------------------------------------------------------------------
(***************************************************************************)
(* The deletion.                                                           *)
(***************************************************************************)
LEMMA LoadPreserves ==
  ASSUME DeletionInv, Load
  PROVE  DeletionInv'
<1> USE DEF DeletionInv
<1>1. PICK id \in RowsOf("matches") \cup RowsOf("match_players") :
        staff' = [goal |-> id, deletes |-> Deletes(id), frees |-> Frees(id),
                  answer |-> "pending"]
  BY DEF Load
<1>2. RowTypes /\ UNCHANGED <<db, used, run>>
  BY TypesOfRows DEF Load
<1>3. /\ staff'.goal = id /\ staff'.deletes = Deletes(id) /\ staff'.frees = Frees(id)
      /\ staff'.answer = "pending"
      /\ staff' \in [goal : {id}, deletes : {Deletes(id)}, frees : {Frees(id)},
                     answer : {"pending"}]
  BY <1>1
<1>4. /\ id \in Ids /\ id \in Deletes(id)
      /\ id \in Pool["matches"] => Frees(id) = {} /\ Deletes(id) \subseteq OfMatch(id)
      /\ id \in Pool["match_players"] => Deletes(id) = {id}
      /\ Frees(id) \subseteq Ids \X {"player_id"}
      /\ Deletes(id) \subseteq used
  <2>1. CASE id \in RowsOf("matches")
    <3>1. id \in Deletes(id) /\ Deletes(id) \subseteq OfMatch(id) /\ Frees(id) = {}
      BY <1>2, <2>1, MatchLoads
    <3>2. OfMatch(id) \subseteq used
      BY <1>2, <2>1, OfMatchIs DEF ReferencesHold
    <3>3. id \notin Pool["match_players"] /\ id \in Ids
      BY <1>2, <2>1, DeletionAssumption DEF RowsOf, InPlay, RowTypes
    <3> QED BY <3>1, <3>2, <3>3
  <2>2. CASE id \in RowsOf("match_players")
    <3>1. Deletes(id) = {id} /\ Frees(id) \subseteq Ids \X {"player_id"}
      BY <1>2, <2>2, PlayerLoads
    <3>2. id \notin Pool["matches"] /\ id \in Ids /\ id \in used
      BY <1>2, <2>2, DeletionAssumption DEF RowsOf, InPlay, RowTypes, ReferencesHold
    <3> QED BY <3>1, <3>2
  <2> QED BY <2>1, <2>2
<1>5. \A m : m = id => (OfMatch(m)' = OfMatch(id))
  BY <1>2 DEF OfMatch, Reference, Having, RowsOf
<1>6. StaffHolds'
  <2>1. staff' \in [goal : Ids \cup {NULL}, deletes : SUBSET used',
                    frees : SUBSET (Ids \X {"player_id"}),
                    answer : {"none", "pending", "done", "error"}]
    BY <1>2, <1>3, <1>4
  <2>2. (staff.goal \in RowsOf("matches") \cup RowsOf("match_players"))'
    BY <1>2, <1>3 DEF RowsOf
  <2>3. (staff.deletes \cap DOMAIN db \subseteq OfMatch(staff.goal))' <=>
          Deletes(id) \cap DOMAIN db \subseteq OfMatch(id)
    BY <1>2, <1>3, <1>5 DEF OfMatch, Reference, Having, RowsOf
  <2> QED BY <1>3, <1>4, <2>1, <2>2, <2>3 DEF StaffHolds
<1>7. MatchDeletionSucceeds'
  BY <1>3 DEF MatchDeletionSucceeds
<1>8. ReferencesHold' /\ OneMatch' /\ RunKnows'
  <2>1. ReferencesHold'
    BY <1>2 DEF ReferencesHold, RowsOf, References
  <2>2. OneMatch'
    BY <1>2 DEF OneMatch, RowsOf
  <2>3. RunKnows'
    BY <1>2 DEF RunKnows, Resting
  <2> QED BY <2>1, <2>2, <2>3
<1> QED BY <1>6, <1>7, <1>8

\* A row that is left names none that goes with a match.
LEMMA MatchGoesUnnamed ==
  ASSUME RowTypes, OneMatch, NEW m \in RowsOf("matches"),
         NEW r \in DOMAIN db, r \notin OfMatch(m), NEW c \in DOMAIN db[r]
  PROVE  db[r][c] \notin OfMatch(m)
<1> SUFFICES ASSUME db[r][c] \in OfMatch(m) PROVE FALSE
  OBVIOUS
<1>1. Rule(c) = "SET NULL"
  BY MatchStays
<1>2. c \in ColumnNames
  BY DEF RowTypes
<1>3. c \in {"player_id", "created_by"}
  BY <1>1, <1>2 DEF Rule, ColumnNames
<1>4. db[r][c] \in DOMAIN db /\ InMatch(db[r][c], m) /\ db[r][c] \notin RowsOf("users")
  BY OfMatchIs, KindsOfMatch
<1>5. db[r][c] # NULL
  BY <1>4 DEF RowTypes
<1>6. CASE c = "created_by"
  BY <1>4, <1>5, <1>6 DEF RowTypes, Has
<1>7. CASE c = "player_id"
  <2> DEFINE p == db[r].player_id
  <2>1. p \in RowsOf("match_players") /\ Has(r, "player_id") /\ Has(r, "video_id")
    BY <1>5, <1>7 DEF RowTypes, Has
  <2>2. ~Has(p, "video_id") /\ p \notin RowsOf("matches")
    <3>1. \A s \in {"matches", "highlights", "player_tracks", "processing_jobs",
                    "video_segments"} : p \notin RowsOf(s)
      BY <2>1, Apart DEF InPlay
    <3> QED BY <1>4, <1>7, <3>1 DEF RowTypes
  <2>3. db[p].match_id = m
    BY <1>4, <1>7, <2>2 DEF InMatch
  <2>4. db[db[r].video_id].match_id = m
    BY <1>5, <1>7, <2>1, <2>3 DEF OneMatch, Has
  <2> QED BY <2>1, <2>4, OfMatchIs DEF InMatch
<1> QED BY <1>3, <1>6, <1>7

\* What goes with a match or a player.
Takes(goal) == IF goal \in Pool["matches"] THEN OfMatch(goal) ELSE {goal}

\* Only the removal of a player can fail, and then nothing is changed.  A row
\* that is left keeps what it names, or loses the player it named.
LEMMA FlushIs ==
  ASSUME DeletionInv, Flush
  PROVE  /\ staff.answer = "pending" /\ UNCHANGED <<used, run>>
         /\ \/ /\ staff.goal \in Pool["match_players"]
               /\ staff' = [staff EXCEPT !.answer = "error"] /\ UNCHANGED db
            \/ /\ staff' = [staff EXCEPT !.answer = "done"]
               /\ DOMAIN db' = DOMAIN db \ Takes(staff.goal)
               /\ \A r \in DOMAIN db' :
                    /\ DOMAIN db'[r] = DOMAIN db[r]
                    /\ \A c \in DOMAIN db[r] :
                         /\ db'[r][c] = IF db[r][c] = staff.goal \/ <<r, c>> \in staff.frees
                                        THEN NULL ELSE db[r][c]
                         /\ \/ db'[r][c] = db[r][c] /\ db[r][c] \in DOMAIN db' \cup {NULL}
                            \/ db'[r][c] = NULL /\ c = "player_id"
<1> USE DEF DeletionInv
<1> DEFINE g == staff.goal
           gone == WithCascades(staff.deletes \cap DOMAIN db)
<1>1. /\ staff.answer = "pending" /\ UNCHANGED <<used, run>>
      /\ IF Stale \/ Refused(gone)
         THEN staff' = [staff EXCEPT !.answer = "error"] /\ UNCHANGED db
         ELSE /\ staff' = [staff EXCEPT !.answer = "done"]
              /\ db' = Without(gone, staff.frees)
  BY DEF Flush
<1>2. RowTypes
  BY TypesOfRows
<1>3. /\ g \in RowsOf("matches") \cup RowsOf("match_players") /\ g \in staff.deletes
      /\ g \in Pool["matches"] =>
           staff.frees = {} /\ staff.deletes \cap DOMAIN db \subseteq OfMatch(g)
      /\ g \in Pool["match_players"] => staff.deletes = {g}
      /\ staff.frees \subseteq Ids \X {"player_id"}
  BY <1>1 DEF StaffHolds
<1>4. gone = Takes(g) /\ ~Refused(gone) /\ (g \in Pool["matches"] => ~Stale)
  <2>1. CASE g \in RowsOf("matches")
    <3>1. g \in staff.deletes \cap DOMAIN db
            /\ staff.deletes \cap DOMAIN db \subseteq OfMatch(g)
      BY <1>3, <2>1 DEF RowsOf
    <3>2. WithCascades(staff.deletes \cap DOMAIN db) = OfMatch(g) /\ ~Refused(OfMatch(g))
      BY <1>2, <2>1, <3>1, MatchGoesWhole
    <3>3. ~Stale
      BY <1>3, <2>1 DEF Stale, RowsOf
    <3> QED BY <2>1, <3>2, <3>3 DEF Takes, RowsOf
  <2>2. CASE g \in RowsOf("match_players")
    <3>1. staff.deletes \cap DOMAIN db = {g} /\ g \notin Pool["matches"]
      BY <1>3, <2>2, DeletionAssumption DEF RowsOf, InPlay
    <3>2. WithCascades({g}) = {g} /\ ~Refused({g})
      BY <1>2, <2>2, PlayerGoesAlone
    <3> QED BY <3>1, <3>2 DEF Takes
  <2> QED BY <1>3, <2>1, <2>2
<1> HIDE DEF gone
<1>5. CASE Stale
  BY <1>1, <1>3, <1>4, <1>5 DEF RowsOf
<1>6. CASE ~Stale
  <2>1. staff' = [staff EXCEPT !.answer = "done"] /\ db' = Without(gone, staff.frees)
    BY <1>1, <1>4, <1>6
  <2>2. /\ DOMAIN db' = DOMAIN db \ gone
        /\ \A r \in DOMAIN db \ gone :
             /\ DOMAIN db'[r] = DOMAIN db[r]
             /\ \A c \in DOMAIN db[r] :
                  db'[r][c] = IF db[r][c] \in gone \/ <<r, c>> \in staff.frees
                              THEN NULL ELSE db[r][c]
    BY <2>1 DEF Without
  <2>3. ASSUME NEW r \in DOMAIN db \ gone, NEW c \in DOMAIN db[r]
        PROVE  /\ db[r][c] \in gone <=> db[r][c] = g
               /\ db[r][c] \in gone \/ <<r, c>> \in staff.frees => c = "player_id"
    <3>1. CASE g \in RowsOf("matches")
      <4>1. r \notin OfMatch(g) /\ gone = OfMatch(g) /\ staff.frees = {} /\ g \in OfMatch(g)
        BY <1>3, <1>4, <2>3, <3>1 DEF Takes, RowsOf, OfMatch
      <4>2. db[r][c] \notin gone
        BY <1>2, <2>3, <3>1, <4>1, MatchGoesUnnamed
      <4> QED BY <4>1, <4>2
    <3>2. CASE g \in RowsOf("match_players")
      <4>1. gone = {g}
        BY <1>4, <3>2, DeletionAssumption DEF Takes, RowsOf, InPlay
      <4>2. \A s \in {"matches", "videos", "users", "fields", "venues"} : g \notin RowsOf(s)
        BY <3>2, Apart DEF InPlay
      <4>3. c \in ColumnNames /\ g # NULL
        BY <1>2, <2>3, <3>2 DEF RowTypes, RowsOf
      <4>4. db[r][c] = g => c = "player_id"
        BY <1>2, <2>3, <4>2, <4>3 DEF RowTypes, Has, ColumnNames
      <4> QED BY <1>3, <4>1, <4>4
    <3> QED BY <1>3, <3>1, <3>2
  <2>4. ASSUME NEW r \in DOMAIN db, NEW c \in DOMAIN db[r]
        PROVE  db[r][c] \in DOMAIN db \cup {NULL}
    BY DEF ReferencesHold, RowsOf
  <2> QED BY <1>1, <1>4, <2>1, <2>2, <2>3, <2>4
<1> QED BY <1>5, <1>6

LEMMA FlushPreserves ==
  ASSUME DeletionInv, Flush
  PROVE  DeletionInv'
<1> USE DEF DeletionInv
<1>1. RowTypes /\ UNCHANGED <<used, run>>
  BY TypesOfRows, FlushIs
<1>2. /\ staff' \in [goal : Ids \cup {NULL}, deletes : SUBSET used',
                    frees : SUBSET (Ids \X {"player_id"}),
                    answer : {"none", "pending", "done", "error"}]
      /\ staff'.answer # "pending"
      /\ staff'.answer = "error" => staff'.goal \in Pool["match_players"]
  BY <1>1, FlushIs DEF StaffHolds
<1>3. StaffHolds' /\ MatchDeletionSucceeds'
  BY <1>2 DEF StaffHolds, MatchDeletionSucceeds
<1>4. CASE UNCHANGED db
  <2>1. ReferencesHold' /\ OneMatch'
    BY <1>1, <1>4 DEF ReferencesHold, OneMatch, RowsOf, References
  <2>2. RunKnows'
    BY <1>1, <1>4 DEF RunKnows, Resting
  <2> QED BY <1>3, <2>1, <2>2
<1>5. CASE db' # db
  <2>1. /\ DOMAIN db' \subseteq DOMAIN db
        /\ \A r \in DOMAIN db' :
             /\ DOMAIN db'[r] = DOMAIN db[r]
             /\ \A c \in DOMAIN db[r] :
                  \/ db'[r][c] = db[r][c] /\ db[r][c] \in DOMAIN db' \cup {NULL}
                  \/ db'[r][c] = NULL /\ c = "player_id"
    BY <1>5, FlushIs
  <2>2. \A s : RowsOf(s)' = RowsOf(s) \cap DOMAIN db'
    BY <2>1 DEF RowsOf
  <2>3. ReferencesHold'
    <3>1. \A r \in Ids : References(r)' = References(r)
      BY DEF References
    <3>2. ASSUME NEW r \in DOMAIN db', NEW c \in DOMAIN db[r]
          PROVE  \/ db'[r][c] \in RowsOf(References(r)[c].to)'
                 \/ db'[r][c] = NULL /\ References(r)[c].onDelete = "SET NULL"
      <4>1. CASE db'[r][c] = NULL /\ c = "player_id"
        BY <1>1, <2>1, <3>2, <4>1 DEF RowTypes, Rule
      <4>2. CASE db'[r][c] = db[r][c] /\ db[r][c] \in DOMAIN db' \cup {NULL}
        <5>1. \/ db[r][c] \in RowsOf(References(r)[c].to)
              \/ db[r][c] = NULL /\ References(r)[c].onDelete = "SET NULL"
          BY <2>1, <3>2 DEF ReferencesHold
        <5>2. db[r][c] \in RowsOf(References(r)[c].to) => db[r][c] # NULL
          BY <1>1 DEF RowsOf, RowTypes
        <5> QED BY <2>2, <4>2, <5>1, <5>2
      <4> QED BY <2>1, <3>2, <4>1, <4>2
    <3>3. DOMAIN db' \subseteq used' /\ used' \subseteq Ids
      BY <1>1, <2>1 DEF ReferencesHold
    <3>4. \A r \in DOMAIN db' : DOMAIN db'[r] = DOMAIN References(r) /\ r \in Ids
      BY <2>1, <3>3 DEF ReferencesHold
    <3> QED BY <2>1, <3>1, <3>2, <3>3, <3>4 DEF ReferencesHold
  <2>4. Keeps
    BY <1>1, <2>1 DEF Keeps, Has
  <2>5. RunKnows'
    BY <1>1, <2>3, <2>4, RunKept DEF SameRun
  <2>6. RowTypes'
    BY <2>3, TypesAfter
  <2>7. ASSUME NEW r \in DOMAIN db', Has(r, "video_id")
        PROVE  /\ db'[r].video_id = db[r].video_id
               /\ db'[db[r].video_id].match_id = db[db[r].video_id].match_id
    <3>1. db'[r].video_id = db[r].video_id /\ Has(r, "video_id")'
      BY <2>1, <2>7 DEF Has
    <3>2. db[r].video_id \in RowsOf("videos")' /\ db[r].video_id \in RowsOf("videos")
      BY <2>2, <2>6, <3>1 DEF RowTypes
    <3> QED BY <1>1, <2>4, <3>1, <3>2 DEF RowTypes, Keeps, RowsOf
  <2>8. OneMatch'
    <3>1. ASSUME NEW r \in DOMAIN db', "player_id" \in DOMAIN db'[r], db'[r].player_id # NULL
          PROVE  db'[db'[r].player_id].match_id = db'[db'[r].video_id].match_id
      <4> DEFINE p == db[r].player_id
      <4>1. r \in DOMAIN db /\ Has(r, "player_id") /\ Has(r, "video_id")
        BY <1>1, <2>1, <3>1 DEF RowTypes, Has
      <4>2. db'[r].player_id = p /\ p # NULL /\ p \in DOMAIN db'
        BY <2>1, <3>1, <4>1 DEF Has
      <4>3. p \in RowsOf("match_players")
        BY <1>1, <4>1, <4>2 DEF RowTypes
      <4>4. db'[p].match_id = db[p].match_id
        BY <1>1, <2>4, <4>2, <4>3 DEF RowTypes, Keeps, RowsOf
      <4>5. db[p].match_id = db[db[r].video_id].match_id
        BY <4>1, <4>2 DEF OneMatch, Has
      <4> HIDE DEF p
      <4> QED BY <2>7, <4>1, <4>2, <4>4, <4>5
    <3>2. ASSUME NEW h \in RowsOf("highlights")'
          PROVE  db'[h].match_id = db'[db'[h].video_id].match_id
      <4>1. h \in RowsOf("highlights") /\ h \in DOMAIN db'
        BY <2>2, <3>2 DEF RowsOf
      <4>2. Has(h, "video_id") /\ Has(h, "match_id")
        BY <1>1, <4>1 DEF RowTypes, RowsOf
      <4>3. db'[h].match_id = db[h].match_id
        BY <2>4, <4>1, <4>2 DEF Keeps, RowsOf
      <4> QED BY <2>7, <4>1, <4>2, <4>3 DEF OneMatch
    <3> QED BY <3>1, <3>2 DEF OneMatch
  <2> QED BY <1>3, <2>3, <2>5, <2>8
<1> QED BY <1>4, <1>5

-----------------------------------------------------------------------------
LEMMA DeletionInitially == DeletionInit => DeletionInv
<1> SUFFICES ASSUME DeletionInit PROVE DeletionInv
  OBVIOUS
<1> DEFINE there == Pool["users"] \cup Pool["venues"] \cup Pool["fields"]
           v == CHOOSE x \in Pool["venues"] : TRUE
           row(id) == IF id \in Pool["fields"] THEN [venue_id |-> v] ELSE NoReferences
<1>1. /\ db = [id \in there |-> row(id)] /\ used = DOMAIN db
      /\ staff = NoDeletion /\ run = Resting
  BY DEF DeletionInit
<1>2. v \in Pool["venues"]
  BY DeletionAssumption
<1>3. \A id : id \in Pool["fields"] => DOMAIN row(id) = {"venue_id"} /\ row(id)["venue_id"] = v
  OBVIOUS
<1>4. \A id : id \notin Pool["fields"] => DOMAIN row(id) = {}
  BY DEF NoReferences
<1> HIDE DEF v, row
<1>5. DOMAIN db = there /\ \A id \in there : db[id] = row(id)
  BY <1>1
<1>6. ASSUME NEW id \in there
      PROVE  /\ id \in Ids /\ TableOf[id] \in {"users", "venues", "fields"}
             /\ id \in Pool["fields"] <=> TableOf[id] = "fields"
  <2>1. ASSUME NEW t \in {"users", "venues", "fields"}, id \in Pool[t]
        PROVE  id \in Ids /\ TableOf[id] = t
    BY <2>1, TableOfIs DEF InPlay
  <2> QED BY <2>1
<1>7. /\ Columns("fields") = {"venue_id"} /\ Columns("users") = {}
      /\ Columns("venues") = {} /\ Target("venue_id") = "venues"
  BY DEF Columns, ColumnNames, Target
<1>8. ReferencesHold
  <2>1. ASSUME NEW r \in there
        PROVE  /\ DOMAIN db[r] = DOMAIN References(r)
               /\ \A c \in DOMAIN db[r] : db[r][c] \in RowsOf(References(r)[c].to)
    <3>1. DOMAIN db[r] = Columns(TableOf[r])
      BY <1>3, <1>4, <1>5, <1>6, <1>7
    <3>2. DOMAIN References(r) = Columns(TableOf[r])
      BY <1>6, ColumnsAre
    <3>3. ASSUME NEW c \in DOMAIN db[r] PROVE db[r][c] \in RowsOf(References(r)[c].to)
      <4>1. c = "venue_id" /\ db[r][c] = v
        BY <1>3, <1>4, <1>5, <3>3
      <4>2. References(r)[c].to = "venues"
        BY <1>6, <1>7, <3>1, <3>2, <3>3, <4>1, ColumnsAre
      <4> QED BY <1>2, <1>5, <4>1, <4>2 DEF RowsOf
    <3> QED BY <3>1, <3>2, <3>3
  <2>2. there \subseteq Ids
    BY <1>6
  <2> QED BY <1>1, <1>5, <2>1, <2>2 DEF ReferencesHold
<1>9. OneMatch
  <2>1. \A r \in there : DOMAIN db[r] \subseteq {"venue_id"}
    BY <1>3, <1>4, <1>5
  <2>2. \A h \in RowsOf("highlights") : h \notin there
    BY DeletionAssumption DEF RowsOf, InPlay
  <2> QED BY <1>5, <2>1, <2>2 DEF OneMatch, RowsOf
<1>10. RunKnows
  <2>1. /\ run.video = NULL /\ run.known = {} /\ run.named = {}
        /\ run \in [video : {NULL}, known : {{}}, named : {{}}]
    BY <1>1 DEF Resting
  <2> QED BY <1>1, <2>1 DEF RunKnows
<1>11. StaffHolds /\ MatchDeletionSucceeds
  <2>1. staff.answer = "none" /\ staff \in [goal : {NULL}, deletes : {{}}, frees : {{}},
                                            answer : {"none"}]
    BY <1>1 DEF NoDeletion
  <2> QED BY <2>1 DEF StaffHolds, MatchDeletionSucceeds
<1> QED BY <1>8, <1>9, <1>10, <1>11 DEF DeletionInv

LEMMA DeletionPreserved ==
  ASSUME DeletionInv, [DeletionNext]_deletionVars
  PROVE  DeletionInv'
<1>1. CASE Schedule
  BY <1>1, SchedulePreserves
<1>2. CASE Join
  BY <1>2, JoinPreserves
<1>3. CASE StartVideo
  BY <1>3, StartVideoPreserves
<1>4. CASE StoreSegment
  BY <1>4, StoreSegmentPreserves
<1>5. CASE BeginRun
  BY <1>5, BeginRunPreserves
<1>6. CASE WriteJob
  BY <1>6, WriteJobPreserves
<1>7. CASE WriteTracks
  BY <1>7, WriteTracksPreserves
<1>8. CASE Attribute
  BY <1>8, AttributePreserves
<1>9. CASE Select
  BY <1>9, SelectPreserves
<1>10. CASE EndRun
  BY <1>10, EndRunPreserves
<1>11. CASE Load
  BY <1>11, LoadPreserves
<1>12. CASE Flush
  BY <1>12, FlushPreserves
<1>13. CASE UNCHANGED deletionVars
  <2>1. UNCHANGED <<db, used, staff>> /\ RunKnows'
    BY <1>13 DEF deletionVars, DeletionInv, RunKnows, Resting
  <2> QED BY <2>1, RunAlone
<1> QED BY <1>1, <1>2, <1>3, <1>4, <1>5, <1>6, <1>7, <1>8, <1>9, <1>10, <1>11, <1>12, <1>13
        DEF DeletionNext

\* The inductive invariant.
THEOREM DeletionInvariant == DeletionSpec => []DeletionInv
<1>1. DeletionInit => DeletionInv
  BY DeletionInitially
<1>2. DeletionInv /\ [DeletionNext]_deletionVars => DeletionInv'
  BY DeletionPreserved
<1> QED BY <1>1, <1>2, PTL DEF DeletionSpec

\* Whatever requests and runs write between the load and the flush of a
\* deletion, no row ever names one that is not there, and no highlight or track
\* a player of another match than its video's (MatchRepository.get_for_deletion
\* and the ON DELETE rules; the roster JERSEY_OCR reads).
THEOREM RowsAreOfOneMatch == DeletionSpec => [](ReferencesHold /\ OneMatch)
<1>1. DeletionInv => ReferencesHold /\ OneMatch
  BY DEF DeletionInv
<1> QED BY <1>1, DeletionInvariant, PTL

\* A match can always be deleted, and takes all its rows and no other, with
\* those committed after the session loaded it; a removed player takes no row
\* along, and those that named him name nobody (delete_match and remove_player
\* against the runs and the capture agent).
THEOREM DeletionTakesExactlyAlways == DeletionSpec => DeletionTakesExactly
<1> DEFINE gone == IF staff.goal \in Pool["matches"]
                   THEN OfMatch(staff.goal) ELSE {staff.goal}
           Exactly ==
             staff.answer = "pending" /\ staff' # staff =>
               \/ staff'.answer = "error" /\ staff.goal \in Pool["match_players"]
               \/ /\ staff'.answer = "done"
                  /\ DOMAIN db' = DOMAIN db \ gone
                  /\ \A r \in DOMAIN db' : \A c \in DOMAIN db[r] :
                       db'[r][c] = IF db[r][c] = staff.goal \/ <<r, c>> \in staff.frees
                                   THEN NULL ELSE db[r][c]
<1>1. DeletionInv /\ [DeletionNext]_deletionVars => [Exactly]_deletionVars
  <2> SUFFICES ASSUME DeletionInv, DeletionNext, staff.answer = "pending", staff' # staff
               PROVE  Exactly
    OBVIOUS
  <2>1. Flush
    <3>1. ~Load
      BY DEF Load
    <3> QED BY <3>1 DEF DeletionNext, Schedule, Join, StartVideo, StoreSegment,
              BeginRun, WriteJob, WriteTracks, Attribute, Select, EndRun
  <2>2. /\ staff' = [staff EXCEPT !.answer = "error"] => staff'.answer = "error"
        /\ staff' = [staff EXCEPT !.answer = "done"] => staff'.answer = "done"
    <3>1. "answer" \in DOMAIN staff
      BY DEF DeletionInv, StaffHolds
    <3> QED BY <3>1
  <2>3. \/ staff.goal \in Pool["match_players"] /\ staff'.answer = "error"
        \/ /\ staff'.answer = "done"
           /\ DOMAIN db' = DOMAIN db \ gone
           /\ \A r \in DOMAIN db' : \A c \in DOMAIN db[r] :
                db'[r][c] = IF db[r][c] = staff.goal \/ <<r, c>> \in staff.frees
                            THEN NULL ELSE db[r][c]
    BY <2>1, <2>2, FlushIs DEF Takes
  <2> QED BY <2>3
<1> HIDE DEF Exactly
<1>2. DeletionSpec => [][Exactly]_deletionVars
  BY <1>1, DeletionInvariant, PTL DEF DeletionSpec
<1> QED BY <1>2 DEF Exactly, DeletionTakesExactly
=============================================================================
