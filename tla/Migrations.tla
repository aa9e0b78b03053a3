----------------------------- MODULE Migrations -----------------------------
(***************************************************************************)
(* The Alembic migrations.  A command moves the database to another        *)
(* revision in one transaction: migration after migration, each runs its   *)
(* statements in order and then stamps the database with where it leads.   *)
(* A command that is interrupted leaves what it found.  Continuous         *)
(* integration runs upgrade, downgrade to nothing and upgrade again.       *)
(***************************************************************************)
EXTENDS Tables

VARIABLES
  tables,    \* the names of the tables there are
  types,     \* the enumeration types there are
  columns,   \* the columns added to a table after its creation
  revision,  \* the revision the database is stamped with; 0 is the base
  goal,      \* the revision the running command goes to
  done,      \* the statements of its present migration that have run
  saved      \* what a rollback restores

migrationVars == <<tables, types, columns, revision, goal, done, saved>>

-----------------------------------------------------------------------------
(***************************************************************************)
(* The statements of a migration.                                          *)
(***************************************************************************)
Each(what, names) == [i \in DOMAIN names |-> [do |-> what, on |-> names[i]]]

Create(names)     == Each("CREATE", names)
Drop(names)       == Each("DROP", names)
DropTypes(names)  == Each("DROP_TYPE", names)
AddColumns(cols)  == Each("ADD_COLUMN", cols)
DropColumns(cols) == Each("DROP_COLUMN", cols)

\* The table a column is added to.
AddedTo == [token_hash |-> "cameras"]

Initial ==
  <<"otp_challenges", "users", "venues", "fields", "refresh_tokens",
    "venue_members", "cameras", "matches", "match_players", "videos",
    "highlights", "player_tracks", "processing_jobs">>

\* The videos go while the highlights still refer to them.
VideosFirst ==
  <<"processing_jobs", "player_tracks", "videos", "highlights", "match_players",
    "matches", "cameras", "venue_members", "refresh_tokens", "fields", "venues",
    "users", "otp_challenges">>

DropOrder ==
  <<"processing_jobs", "player_tracks", "highlights", "videos", "match_players",
    "matches", "cameras", "venue_members", "refresh_tokens", "fields", "venues",
    "users", "otp_challenges">>

TypeNames ==
  <<"highlight_type", "job_status", "job_step", "video_status", "team",
    "match_status", "camera_status", "venue_role", "user_role">>

\* What autogeneration writes: the tables go, the types stay.
TypesStay == Drop(DropOrder)

DropInitial == Drop(DropOrder) \o DropTypes(TypeNames)

Newest == 3

\* upgrade() and downgrade() of the migration that leads to revision r.
Upgrade(r) ==
  CASE r = 1 -> Create(Initial)
    [] r = 2 -> AddColumns(<<"token_hash">>)
    [] r = 3 -> Create(<<"video_segments">>)

Downgrade(r) ==
  CASE r = 1 -> DropInitial
    [] r = 2 -> DropColumns(<<"token_hash">>)
    [] r = 3 -> Drop(<<"video_segments">>)

NoGoal   == -1
AtRest   == goal = NoGoal
Underway == goal \notin {NoGoal, revision}

\* The statements of the migration a command is at.
Script == IF revision < goal THEN Upgrade(revision + 1) ELSE Downgrade(revision)

-----------------------------------------------------------------------------
(***************************************************************************)
(* What PostgreSQL makes of a statement.  A table needs the tables it      *)
(* refers to and creates its types, which must not exist yet; a table that *)
(* is referred to and a type that is used cannot be dropped.               *)
(***************************************************************************)
RefersTo(t) == {Database[t].refs[c].to : c \in DOMAIN Database[t].refs}

Applies(s) ==
  \/ /\ s.do = "CREATE"
     /\ s.on \notin tables
     /\ RefersTo(s.on) \subseteq tables
     /\ Database[s.on].types \cap types = {}
  \/ /\ s.do = "DROP"
     /\ s.on \in tables
     /\ \A t \in tables \ {s.on} : s.on \notin RefersTo(t)
  \/ /\ s.do = "DROP_TYPE"
     /\ \A t \in tables : s.on \notin Database[t].types
  \/ s.do = "ADD_COLUMN" /\ AddedTo[s.on] \in tables /\ s.on \notin columns
  \/ s.do = "DROP_COLUMN" /\ s.on \in columns

Execute(s) ==
  /\ tables' = CASE s.do = "CREATE" -> tables \cup {s.on}
                 [] s.do = "DROP"   -> tables \ {s.on}
                 [] OTHER           -> tables
  /\ types' = CASE s.do = "CREATE"    -> types \cup Database[s.on].types
                [] s.do = "DROP_TYPE" -> types \ {s.on}
                [] OTHER              -> types
  /\ columns' = CASE s.do = "ADD_COLUMN"  -> columns \cup {s.on}
                  [] s.do = "DROP_COLUMN" -> columns \ {s.on}
                  [] s.do = "DROP"        -> {c \in columns : AddedTo[c] # s.on}
                  [] OTHER                -> columns

-----------------------------------------------------------------------------
Schema == [tables |-> tables, types |-> types, columns |-> columns, revision |-> revision]

MigrationsInit ==
  /\ tables = {} /\ types = {} /\ columns = {} /\ revision = 0
  /\ goal = NoGoal /\ done = 0
  /\ saved = Schema

\* alembic upgrade or downgrade to some revision: the transaction begins.
Migrate ==
  /\ AtRest
  /\ goal' \in (0..Newest) \ {revision}
  /\ saved' = Schema
  /\ UNCHANGED <<tables, types, columns, revision, done>>

Statement ==
  /\ Underway /\ done < Len(Script)
  /\ Applies(Script[done + 1])
  /\ Execute(Script[done + 1])
  /\ done' = done + 1
  /\ UNCHANGED <<revision, goal, saved>>

\* The migration is over: alembic_version names where it leads.
Stamp ==
  /\ Underway /\ done = Len(Script)
  /\ revision' = IF revision < goal THEN revision + 1 ELSE revision - 1
  /\ done' = 0
  /\ UNCHANGED <<tables, types, columns, goal, saved>>

Commit ==
  /\ goal = revision
  /\ goal' = NoGoal
  /\ UNCHANGED <<tables, types, columns, revision, done, saved>>

\* The command is killed: PostgreSQL takes its statements back.
Interrupt ==
  /\ ~AtRest
  /\ tables' = saved.tables /\ types' = saved.types /\ columns' = saved.columns
  /\ revision' = saved.revision
  /\ goal' = NoGoal /\ done' = 0
  /\ UNCHANGED saved

MigrationsNext == Migrate \/ Statement \/ Stamp \/ Commit \/ Interrupt

MigrationsSpec == MigrationsInit /\ [][MigrationsNext]_migrationVars

-----------------------------------------------------------------------------
(***************************************************************************)
(* Properties.                                                             *)
(***************************************************************************)
\* From any revision to any other, after any history of upgrades, downgrades
\* and interrupted commands, no statement of a migration is refused: nothing
\* is dropped while it is referred to, and no type left behind by a downgrade
\* stops the next upgrade (ci.yml:82 "Migrations apply, reverse and re-apply"
\* does it once; 0001_initial_schema.py:457 says why the types are dropped).
MigrationsApply == Underway /\ done < Len(Script) => Applies(Script[done + 1])

\* A database at the newest revision has the tables, references, keys, types
\* and added columns that the ORM classes declare; the base has nothing, the
\* types included (ci.yml:91 "Models and migrations agree", after any history
\* and not only a first upgrade).
SchemaIsTheModels ==
  /\ AtRest /\ revision = Newest =>
       /\ tables = DOMAIN Models
       /\ \A t \in tables : Database[t] = Models[t].table
       /\ types = UNION {Models[t].table.types : t \in tables}
       /\ columns = DOMAIN AddedTo
  /\ AtRest /\ revision = 0 => tables = {} /\ types = {} /\ columns = {}
=============================================================================
