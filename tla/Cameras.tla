------------------------------ MODULE Cameras -------------------------------
(***************************************************************************)
(* The camera of one field: attached, replaced and detached by staff,      *)
(* reported by the capture agents that hold its token, and swept once its  *)
(* heartbeat goes quiet.                                                   *)
(*                                                                         *)
(* A row is named by the token it was created with.  As in Pipeline, an    *)
(* UPDATE names the columns that differ from the copy that was loaded.     *)
(***************************************************************************)
EXTENDS Integers

CONSTANTS
  Agents,      \* capture agents, outside of this repository
  MaxTokens,   \* bounds the tokens issued
  MaxFaults,   \* bounds the agents that stop and the heartbeats that come late
  MaxTurns     \* bounds the changes of what an agent reports

VARIABLES
  camera,   \* the row of the field; id 0: there is none
  issued,   \* tokens issued so far
  attach,   \* attach_camera, between its load and its flush
  agent,    \* the token an agent holds, whether it runs and what it reports
  beat,     \* its heartbeat request: the row it was authenticated with
  sweep,    \* the row a sweep is about to mark
  faults, turns

vars == <<camera, issued, attach, agent, beat, sweep, faults, turns>>

Tokens  == 1 .. MaxTokens
Reports == {"ONLINE", "RECORDING"}
Row     == [id : 0 .. MaxTokens, token : 0 .. MaxTokens, status : Reports \cup {"OFFLINE"},
            seen : {"null", "fresh", "old"}]
NoRow   == [id |-> 0, token |-> 0, status |-> "OFFLINE", seen |-> "null"]
NoBeat  == [id |-> 0, status |-> "OFFLINE"]
NoLoad  == [pc |-> "idle", row |-> NoRow]

CamerasTypeOK ==
  /\ camera \in Row
  /\ issued \in 0 .. MaxTokens
  /\ attach \in [pc : {"idle", "loaded"}, row : Row]
  /\ agent \in [Agents -> [token : 0 .. MaxTokens, runs : BOOLEAN, says : Reports]]
  /\ beat \in [Agents -> [id : 0 .. MaxTokens, status : Reports \cup {"OFFLINE"}]]
  /\ sweep \in 0 .. MaxTokens
  /\ faults \in 0 .. MaxFaults /\ turns \in 0 .. MaxTurns

Init ==
  /\ camera = NoRow /\ issued = 0 /\ attach = NoLoad
  /\ agent = [a \in Agents |-> [token |-> 0, runs |-> FALSE, says |-> "ONLINE"]]
  /\ beat = [a \in Agents |-> NoBeat]
  /\ sweep = 0 /\ faults = 0 /\ turns = 0

Holds(a) == agent[a].runs /\ camera.id # 0 /\ agent[a].token = camera.token
Quiet    == \A a \in Agents : ~Holds(a)

-----------------------------------------------------------------------------
\* Staff.  One of them sets cameras up at a time.
AttachLoads ==
  /\ attach = NoLoad /\ issued < MaxTokens
  /\ attach' = [pc |-> "loaded", row |-> camera]
  /\ UNCHANGED <<camera, issued, agent, beat, sweep, faults, turns>>

\* The columns an UPDATE of the loaded row sets; the token is always new.
Replaced(token) ==
  [camera EXCEPT !.token = token,
                 !.status = IF attach.row.status # "OFFLINE" THEN "OFFLINE" ELSE @,
                 !.seen = IF attach.row.seen # "null" THEN "null" ELSE @]

\* A row that was detached meanwhile fails the request; only a request that
\* succeeds returns its token.
AttachWrites ==
  /\ attach.pc = "loaded"
  /\ LET token == issued + 1 IN
       CASE attach.row.id = 0 ->
              /\ camera' = [NoRow EXCEPT !.id = token, !.token = token]
              /\ issued' = token
         [] attach.row.id # 0 /\ camera.id = attach.row.id ->
              /\ camera' = Replaced(token)
              /\ issued' = token
         [] OTHER -> UNCHANGED <<camera, issued>>
  /\ attach' = NoLoad
  /\ UNCHANGED <<agent, beat, sweep, faults, turns>>

DetachCamera ==
  /\ camera.id # 0
  /\ camera' = NoRow
  /\ UNCHANGED <<issued, attach, agent, beat, sweep, faults, turns>>

\* The newest token is typed into one agent, which starts.
InstallToken(a) ==
  /\ issued # 0 /\ beat[a] = NoBeat
  /\ \A b \in Agents : agent[b].token # issued
  /\ agent' = [agent EXCEPT ![a].token = issued, ![a].runs = TRUE]
  /\ UNCHANGED <<camera, issued, attach, beat, sweep, faults, turns>>

-----------------------------------------------------------------------------
\* The agent.
AgentTurns(a) ==
  /\ agent[a].runs /\ turns < MaxTurns
  /\ \E says \in Reports \ {agent[a].says} : agent' = [agent EXCEPT ![a].says = says]
  /\ turns' = turns + 1
  /\ UNCHANGED <<camera, issued, attach, beat, sweep, faults>>

AgentStops(a) ==
  /\ agent[a].runs /\ faults < MaxFaults
  /\ agent' = [agent EXCEPT ![a].runs = FALSE]
  /\ faults' = faults + 1
  /\ UNCHANGED <<camera, issued, attach, beat, sweep, turns>>

\* authenticate_camera; a wrong token is refused and changes nothing.
HeartbeatLoads(a) ==
  /\ beat[a] = NoBeat /\ Holds(a)
  /\ beat' = [beat EXCEPT ![a] = [id |-> camera.id, status |-> camera.status]]
  /\ UNCHANGED <<camera, issued, attach, agent, sweep, faults, turns>>

\* Faulty variant: last_seen is set, the status only by attach and the sweep.
SeenOnly(a) == [camera EXCEPT !.seen = "fresh"]
\* record_heartbeat, as an UPDATE.
Reported(a) ==
  [camera EXCEPT !.status = IF agent[a].says # beat[a].status THEN agent[a].says ELSE @,
                 !.seen = "fresh"]

HeartbeatWrites(a) ==
  /\ beat[a] # NoBeat
  /\ camera' = IF camera.id = beat[a].id THEN Reported(a) ELSE camera
  /\ beat' = [beat EXCEPT ![a] = NoBeat]
  /\ UNCHANGED <<issued, attach, agent, sweep, faults, turns>>

-----------------------------------------------------------------------------
\* camera_offline_after_seconds pass; an agent that runs reports more often
\* than that, unless it is late.
HeartbeatAges ==
  /\ camera.seen = "fresh"
  /\ \/ Quiet /\ UNCHANGED faults
     \/ ~Quiet /\ faults < MaxFaults /\ faults' = faults + 1
  /\ camera' = [camera EXCEPT !.seen = "old"]
  /\ UNCHANGED <<issued, attach, agent, beat, sweep, turns>>

\* Camera.is_online
IsOnline == camera.seen = "fresh"

\* sweep_stale_cameras, every minute: select, then write.
SweepSelects ==
  /\ sweep = 0
  /\ camera.id # 0 /\ camera.status # "OFFLINE" /\ ~IsOnline
  /\ sweep' = camera.id
  /\ UNCHANGED <<camera, issued, attach, agent, beat, faults, turns>>

SweepWrites ==
  /\ sweep # 0
  /\ camera' = IF camera.id = sweep THEN [camera EXCEPT !.status = "OFFLINE"] ELSE camera
  /\ sweep' = 0
  /\ UNCHANGED <<issued, attach, agent, beat, faults, turns>>

Next ==
  \/ AttachLoads \/ AttachWrites \/ DetachCamera
  \/ \E a \in Agents :
       \/ InstallToken(a) \/ AgentTurns(a) \/ AgentStops(a)
       \/ HeartbeatLoads(a) \/ HeartbeatWrites(a)
  \/ HeartbeatAges \/ SweepSelects \/ SweepWrites

Fairness ==
  /\ WF_vars(AttachWrites) /\ WF_vars(SweepSelects) /\ WF_vars(SweepWrites)
  /\ WF_vars(Quiet /\ HeartbeatAges)
  /\ \A a \in Agents : WF_vars(HeartbeatLoads(a)) /\ WF_vars(HeartbeatWrites(a))

Spec == Init /\ [][Next]_vars /\ Fairness

-----------------------------------------------------------------------------
\* In the end the row shows what is the case: the report of the agent that
\* holds the token, and OFFLINE when there is none.  Late heartbeats of a
\* replaced agent, a sweep that marks a camera that has just reported, and
\* UPDATEs that leave a column out are put right.
Settled ==
  IF Quiet THEN camera.status = "OFFLINE" /\ ~IsOnline
           ELSE IsOnline /\ \E a \in Agents : Holds(a) /\ camera.status = agent[a].says

CameraSettles == <>[]Settled
=============================================================================
