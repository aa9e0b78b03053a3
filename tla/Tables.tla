------------------------------- MODULE Tables -------------------------------
(***************************************************************************)
(* The tables of the database, twice: as the migrations create them, which *)
(* is what PostgreSQL enforces, and as the ORM classes declare them, which *)
(* is what a session acts on.  A table keeps its references to others, its *)
(* unique keys and the enumeration types it needs; plain columns, lengths, *)
(* defaults, checks and indexes for speed are left out.                    *)
(***************************************************************************)
EXTENDS Integers, Sequences, FiniteSets

Cascade(table)  == [to |-> table, onDelete |-> "CASCADE"]
SetNull(table)  == [to |-> table, onDelete |-> "SET NULL"]
Restricted(table) == [to |-> table, onDelete |-> "RESTRICT"]
\* A foreign key without an ON DELETE clause.
NoAction(table) == [to |-> table, onDelete |-> "NO ACTION"]

NoReferences == <<>>

Table(refs, keys, types) == [refs |-> refs, keys |-> keys, types |-> types]

-----------------------------------------------------------------------------
(***************************************************************************)
(* As the migrations create them.                                          *)
(***************************************************************************)
OtpChallengesTable == Table(NoReferences, {}, {})

UsersTable == Table(NoReferences, {{"phone"}}, {"user_role"})

VenuesTable == Table(NoReferences, {}, {})

FieldsTable == Table([venue_id |-> Cascade("venues")], {{"venue_id", "name"}}, {})

RefreshTokensTable ==
  Table([user_id |-> Cascade("users")], {{"token_hash"}}, {})

VenueMembersTable ==
  Table([venue_id |-> Cascade("venues"), user_id |-> Cascade("users")],
        {{"venue_id", "user_id"}}, {"venue_role"})

CamerasTable ==
  Table([field_id |-> Cascade("fields")], {{"field_id"}}, {"camera_status"})

MatchesTable ==
  Table([field_id |-> Restricted("fields"), created_by |-> SetNull("users")],
        {{"join_code"}}, {"match_status"})

MatchPlayersTable ==
  Table([match_id |-> Cascade("matches"), user_id |-> Cascade("users")],
        {{"match_id", "user_id"}, {"match_id", "team", "jersey_number"}},
        {"team"})

VideosTable ==
  Table([match_id |-> Cascade("matches")], {{"match_id"}}, {"video_status"})

\* The feed loses the moments of a removed player.
PlayersTakeTheirMoments ==
  Table([match_id  |-> Cascade("matches"),
         video_id  |-> Cascade("videos"),
         player_id |-> Cascade("match_players")],
        {}, {"highlight_type"})

HighlightsTable ==
  Table([match_id  |-> Cascade("matches"),
         video_id  |-> Cascade("videos"),
         player_id |-> SetNull("match_players")],
        {}, {"highlight_type"})

PlayerTracksTable ==
  Table([video_id  |-> Cascade("videos"),
         player_id |-> SetNull("match_players")],
        {{"video_id", "track_ref"}}, {})

ProcessingJobsTable ==
  Table([video_id |-> Cascade("videos")],
        {{"video_id", "step"}}, {"job_step", "job_status"})

VideoSegmentsTable ==
  Table([video_id |-> Cascade("videos")], {{"video_id", "segment_index"}}, {})

\* The tables at the newest revision.
Database ==
  [otp_challenges |-> OtpChallengesTable, users |-> UsersTable, venues |-> VenuesTable,
   fields |-> FieldsTable, refresh_tokens |-> RefreshTokensTable,
   venue_members |-> VenueMembersTable, cameras |-> CamerasTable, matches |-> MatchesTable,
   match_players |-> MatchPlayersTable, videos |-> VideosTable,
   highlights |-> HighlightsTable, player_tracks |-> PlayerTracksTable,
   processing_jobs |-> ProcessingJobsTable, video_segments |-> VideoSegmentsTable]

-----------------------------------------------------------------------------
(***************************************************************************)
(* As the ORM classes declare them: the same table, and what a session     *)
(* does to the rows that name a row it deletes.  "owns" are the            *)
(* relationships with cascade="all, delete-orphan", whose rows go with it; *)
(* "frees" those without, whose rows get NULL for it.  A pair names the    *)
(* table and the column on the other side.                                 *)
(***************************************************************************)
Class(table, owns, frees) == [table |-> table, owns |-> owns, frees |-> frees]

User == Class(Table(NoReferences, {{"phone"}}, {"user_role"}),
              {<<"match_players", "user_id">>, <<"venue_members", "user_id">>,
               <<"refresh_tokens", "user_id">>}, {})

OtpChallenge == Class(Table(NoReferences, {}, {}), {}, {})

RefreshToken ==
  Class(Table([user_id |-> Cascade("users")], {{"token_hash"}}, {}), {}, {})

Venue == Class(Table(NoReferences, {}, {}),
               {<<"fields", "venue_id">>, <<"venue_members", "venue_id">>}, {})

VenueMember ==
  Class(Table([venue_id |-> Cascade("venues"), user_id |-> Cascade("users")],
              {{"venue_id", "user_id"}}, {"venue_role"}), {}, {})

Field ==
  Class(Table([venue_id |-> Cascade("venues")], {{"venue_id", "name"}}, {}),
        {<<"cameras", "field_id">>}, {<<"matches", "field_id">>})

Camera ==
  Class(Table([field_id |-> Cascade("fields")],
              {{"field_id"}}, {"camera_status"}), {}, {})

Match ==
  Class(Table([field_id |-> Restricted("fields"), created_by |-> SetNull("users")],
              {{"join_code"}}, {"match_status"}),
        {<<"match_players", "match_id">>, <<"videos", "match_id">>,
         <<"highlights", "match_id">>}, {})

MatchPlayer ==
  Class(Table([match_id |-> Cascade("matches"), user_id |-> Cascade("users")],
              {{"match_id", "user_id"}, {"match_id", "team", "jersey_number"}},
              {"team"}),
        {}, {<<"highlights", "player_id">>, <<"player_tracks", "player_id">>})

Video ==
  Class(Table([match_id |-> Cascade("matches")], {{"match_id"}}, {"video_status"}),
        {<<"processing_jobs", "video_id">>, <<"video_segments", "video_id">>,
         <<"player_tracks", "video_id">>}, {<<"highlights", "video_id">>})

VideoSegment ==
  Class(Table([video_id |-> Cascade("videos")],
              {{"video_id", "segment_index"}}, {}), {}, {})

ProcessingJob ==
  Class(Table([video_id |-> Cascade("videos")],
              {{"video_id", "step"}}, {"job_step", "job_status"}), {}, {})

PlayerTrack ==
  Class(Table([video_id  |-> Cascade("videos"),
               player_id |-> SetNull("match_players")],
              {{"video_id", "track_ref"}}, {}), {}, {})

Highlight ==
  Class(Table([match_id  |-> Cascade("matches"),
               video_id  |-> Cascade("videos"),
               player_id |-> SetNull("match_players")],
              {}, {"highlight_type"}), {}, {})

Models ==
  [otp_challenges |-> OtpChallenge, users |-> User, venues |-> Venue,
   fields |-> Field, refresh_tokens |-> RefreshToken,
   venue_members |-> VenueMember, cameras |-> Camera, matches |-> Match,
   match_players |-> MatchPlayer, videos |-> Video, highlights |-> Highlight,
   player_tracks |-> PlayerTrack, processing_jobs |-> ProcessingJob,
   video_segments |-> VideoSegment]
=============================================================================
