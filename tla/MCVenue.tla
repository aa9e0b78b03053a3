------------------------------ MODULE MCVenue -------------------------------
(***************************************************************************)
(* Instances for TLC of Bookings, Cameras, Migrations and Deletion.  They  *)
(* keep their state apart: a behaviour of the model is one of one of them. *)
(***************************************************************************)
EXTENDS Bookings, Deletion, Migrations, TLC

CONSTANTS m1, m2, m3, d1, d2, a1, a2, MaxTokens, MaxFaults, MaxTurns

ASSUME CameraBounds == {MaxTokens, MaxFaults, MaxTurns} \subseteq Nat

TwoMatches   == {m1, m2}
ThreeMatches == {m1, m2, m3}
OneDesk  == {d1}
TwoDesks == {d1, d2}
Symmetric == Permutations(ThreeMatches) \cup Permutations(TwoDesks)

\* Two matches of one pitch, of which one has a video at a time.
CONSTANTS u1, u2, f1, n1, g1, g2, p1, p2, v1, s1, j1, t1, h1, h2

RowPool ==
  [users |-> {u1, u2}, venues |-> {n1}, fields |-> {f1}, matches |-> {g1, g2},
   match_players |-> {p1, p2}, videos |-> {v1}, video_segments |-> {s1},
   processing_jobs |-> {j1}, player_tracks |-> {t1},
   highlights |-> {h1, h2}]

VARIABLES part, camera, issued, attach, agent, beat, sweep, faults, turns

cameraVars == <<camera, issued, attach, agent, beat, sweep, faults, turns>>

C == INSTANCE Cameras WITH Agents <- {a1, a2}

VenueInit ==
  /\ Init /\ C!Init /\ MigrationsInit /\ DeletionInit
  /\ part \in {"bookings", "camera", "migrations", "deletion"}

VenueNext ==
  /\ UNCHANGED part
  /\ \/ part = "bookings" /\ Next /\ UNCHANGED <<cameraVars, migrationVars, deletionVars>>
     \/ part = "camera" /\ C!Next /\ UNCHANGED <<vars, migrationVars, deletionVars>>
     \/ part = "migrations" /\ MigrationsNext /\ UNCHANGED <<vars, cameraVars, deletionVars>>
     \/ part = "deletion" /\ DeletionNext /\ UNCHANGED <<vars, cameraVars, migrationVars>>

VenueSpec ==
  /\ VenueInit
  /\ [][VenueNext]_<<part, vars, cameraVars, migrationVars, deletionVars>>
  /\ C!Fairness

\* Cameras.CameraSettles, of the behaviours that are about the camera.
CameraSettles == part = "camera" => C!CameraSettles
=============================================================================
