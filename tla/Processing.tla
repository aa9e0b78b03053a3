----------------------------- MODULE Processing -----------------------------
(***************************************************************************)
(* What the processing of one recording promises to those who watch it     *)
(* from the API, with workers, messages, job rows and session copies left   *)
(* out: a status, whether somebody still owes the match an answer, and for   *)
(* each required step the upload its standing result was made from.        *)
(*                                                                         *)
(* Pipeline implements it; see Pipeline!Implements.                        *)
(***************************************************************************)

CONSTANTS Required,  \* the steps a match needs
          Uploads,   \* identities of an upload
          NoResult   \* a step without a result that stands

VARIABLES status,    \* of the video, as the API shows it
          owed,      \* somebody has promised to settle it
          lost,      \* a promise was broken: a broker outage, no retry left
          upload,    \* what is uploaded now
          result     \* required step |-> the upload its result is from

pvars == <<status, owed, lost, upload, result>>

PInit ==
  /\ status = "UPLOADED"
  /\ owed = FALSE /\ lost = FALSE
  /\ upload \in Uploads
  /\ result = [s \in Required |-> NoResult]

\* Somebody asks, or a message that is still owed an answer is taken up again.
Request ==
  /\ status' = "PROCESSING" /\ owed' = TRUE
  /\ UNCHANGED <<lost, upload, result>>

\* A required step is begun, which withdraws its result, or ends well.
\* Results are only touched while the match says it is being processed.
Work ==
  /\ status = "PROCESSING" /\ owed
  /\ \E s \in Required, r \in {upload, NoResult} : result' = [result EXCEPT ![s] = r]
  /\ UNCHANGED <<status, owed, lost, upload>>

\* The match becomes READY with every required result made from this upload,
\* the last of them perhaps in the same transaction.
Publish ==
  /\ status = "PROCESSING" /\ owed
  /\ result' = [s \in Required |-> upload]
  /\ status' = "READY" /\ owed' \in BOOLEAN
  /\ UNCHANGED <<lost, upload>>

\* The match fails, which takes a required step without a result.
Fail ==
  /\ status = "PROCESSING" /\ owed
  /\ \E s \in Required : result[s] # upload
  /\ status' = "FAILED" /\ owed' \in BOOLEAN
  /\ UNCHANGED <<lost, upload, result>>

\* The last one to owe an answer leaves: it gave one, or was not the last.
Leave ==
  /\ owed /\ (status # "PROCESSING" \/ lost)
  /\ owed' = FALSE
  /\ UNCHANGED <<status, lost, upload, result>>

\* A message whose run was over comes back because nobody acknowledged it.
Redeliver ==
  /\ owed' = TRUE
  /\ UNCHANGED <<status, lost, upload, result>>

\* A request is dropped for good, and it is known to be.
Lose ==
  /\ owed /\ owed' \in BOOLEAN
  /\ lost' = TRUE
  /\ UNCHANGED <<status, upload, result>>

\* A recording or a segment is confirmed; a segment leaves the status alone.
Replace ==
  /\ upload' \in Uploads
  /\ status' \in {status, "UPLOADED"}
  /\ UNCHANGED <<owed, lost, result>>

PNext == Request \/ Work \/ Publish \/ Fail \/ Leave \/ Redeliver \/ Lose \/ Replace

PSpec == PInit /\ [][PNext]_pvars
=============================================================================
