--------------------------- MODULE DispatchJournal ---------------------------
(***************************************************************************)
(* The function event_paper_stage_dispatch on one row of the journal: the  *)
(* row each action leaves behind and the outcome it reports.  A call is    *)
(* atomic: the insert or the select for update locks the row.              *)
(* A payload stands for the JSON value and its hash; the destination topic *)
(* is determined by the stage.                                             *)
(***************************************************************************)
EXTENDS Integers

CONSTANTS
  Payloads,   \* business payloads
  NoRow,      \* the absence of a row
  NoMessage   \* a NULL pubsub_message_id

NoAttempt == 0   \* a NULL attempt_id; uuid4 values are positive numbers

JournalRow(Messages) ==
  [ input : Payloads, output : Payloads,
    status : {"prepared", "attempting", "confirmed", "ambiguous"},
    attempt : Nat, message : Messages \cup {NoMessage} ]

(* The table's CHECK constraint.                                           *)
WellFormed(row) ==
  /\ row.status = "prepared" <=> row.attempt = NoAttempt
  /\ row.status = "confirmed" <=> row.message # NoMessage

Replay_FailsClosed(row) ==
  IF row.status # "confirmed" THEN "ambiguous" ELSE row.status

(* The outcome of 'read', and of 'prepare' with the payloads of the row.   *)
Replay(row) ==
  IF row.status \in {"attempting", "ambiguous"} THEN "ambiguous" ELSE row.status

PrepareRow_Swapped(row, input, output) ==
  IF row # NoRow THEN row
  ELSE [ input |-> output, output |-> input, status |-> "prepared",
         attempt |-> NoAttempt, message |-> NoMessage ]

PrepareRow(row, input, output) ==
  IF row # NoRow THEN row
  ELSE [ input |-> input, output |-> output, status |-> "prepared",
         attempt |-> NoAttempt, message |-> NoMessage ]

(* The outcome of 'prepare', of the row it leaves.                         *)
PrepareOutcome_NoCompare(row, input, output) == Replay(row)

PrepareOutcome(row, input, output) ==
  IF row.input # input \/ row.output # output THEN "payload_mismatch" ELSE Replay(row)

(* 'begin'.                                                                *)
BeginRow(row, attempt) ==
  IF row.status = "prepared"
  THEN [row EXCEPT !.status = "attempting", !.attempt = attempt] ELSE row

BeginOutcome(row, attempt) ==
  IF row.status = "prepared" \/ (row.status = "attempting" /\ row.attempt = attempt)
  THEN "attempt_started" ELSE Replay(row)

(* 'confirm'.                                                              *)
ConfirmRow(row, attempt, message) ==
  IF row.status = "attempting" /\ row.attempt = attempt
  THEN [row EXCEPT !.status = "confirmed", !.message = message] ELSE row

ConfirmOutcome(row, attempt, message) ==
  IF \/ row.status = "attempting" /\ row.attempt = attempt
     \/ row.status = "confirmed" /\ row.attempt = attempt /\ row.message = message
  THEN "confirmed"
  ELSE IF row.status \in {"attempting", "ambiguous"} THEN "ambiguous"
  ELSE "attempt_mismatch"

(* 'ambiguous'.                                                            *)
MarkRow_Always(row, attempt) == [row EXCEPT !.status = "ambiguous"]

MarkRow(row, attempt) ==
  IF row.status = "attempting" /\ row.attempt = attempt
  THEN [row EXCEPT !.status = "ambiguous"] ELSE row
=============================================================================
