-------------------------- MODULE EventPaperClaim ---------------------------
(***************************************************************************)
(* The one-shot publisher of an event-paper candidate, run as often as the *)
(* operator likes, also concurrently.  The claim is the candidate's row of *)
(* strategy_logs: a quote inserted once, on which an attempt and then a    *)
(* publication are recorded by compare and swap (SQL 019).  A run ends     *)
(* with a receipt, confirmed or ambiguous, or with an error.               *)
(*                                                                         *)
(* Time is left out: a run may find itself outside the entry window, the   *)
(* account not ready, or its quote stale, whenever it looks.  A book is    *)
(* the quote it makes; the targeted seek brings back what was acknowledged. *)
(***************************************************************************)
EXTENDS Integers, Sequences

CONSTANTS
  Runs,          \* invocations of the publisher; a run is its attempt id
  Quotes,        \* books that may be claimed
  TimeOf,        \* received_at of a book, the created_at of the claim's row
  None           \* no quote, no attempt

ASSUME ClaimAssumption == None \notin Runs /\ None \notin Quotes

VARIABLES
  claim,         \* the row: quote, attempt and whether it was checkpointed
  published,     \* strategy messages on the topic, in order: quote and run
  run,           \* where each run stands, its quote and the claim it read
  receipt,       \* what each run reported
  calls          \* writes given up that may be executed yet

claimVars == <<claim, published, run, receipt, calls>>

NoClaim == [quote |-> None, attempt |-> None, done |-> FALSE]

(* event_paper_cas_strategy_reasoning; the insert that ignores duplicates  *)
(* is a swap with no claim.                                                *)
Swapped(expected, updated) == IF claim = expected THEN updated ELSE claim

Goto(r, pc) == run' = [run EXCEPT ![r].pc = pc]
Report(r, status) == Goto(r, "ended") /\ receipt' = [receipt EXCEPT ![r] = status]

(* A claim with progress ends the run with the receipt it supports.        *)
Progressed(c) == c.attempt # None
ReceiptFor_Confirmed(c) == "confirmed"
ReceiptFor(c) == IF c.done THEN "confirmed" ELSE "ambiguous"

----------------------------------------------------------------------------
(* run: the durable state first, then the entry window and the preflight.  *)
ReadClaim(r) ==
  /\ run[r].pc = "start"
  /\ IF Progressed(claim) THEN Report(r, ReceiptFor(claim))
     ELSE /\ run' = [run EXCEPT ![r].base = claim,
                       ![r].pc = IF claim = NoClaim THEN "pull" ELSE "begin"]
          /\ UNCHANGED receipt
  /\ UNCHANGED <<claim, published, calls>>

(* A pulled book that is not rejected is the one to claim.                 *)
PullBook(r, q) ==
  /\ run[r].pc = "pull"
  /\ run' = [run EXCEPT ![r].pc = "insert", ![r].quote = q]
  /\ UNCHANGED <<claim, published, receipt, calls>>

(* claim_signal inserts unless there is a row, then reads the row back.    *)
Selected(r) == [NoClaim EXCEPT !.quote = run[r].quote]

InsertClaim(r) ==
  /\ run[r].pc = "insert"
  /\ claim' = Swapped(NoClaim, Selected(r))
  /\ Goto(r, "verify")
  /\ UNCHANGED <<published, receipt, calls>>

VerifyClaim(r) ==
  /\ run[r].pc = "verify"
  /\ IF TimeOf[claim.quote] # TimeOf[run[r].quote] THEN Report(r, "error")
     ELSE IF Progressed(claim) THEN Report(r, ReceiptFor(claim))
     ELSE run' = [run EXCEPT ![r].base = claim, ![r].pc = "begin"] /\ UNCHANGED receipt
  /\ UNCHANGED <<claim, published, calls>>

----------------------------------------------------------------------------
(* _publish_claimed_signal: an attempt is recorded before the only call.   *)
Attempted(r) == [run[r].base EXCEPT !.attempt = r]

BeginAttempt_AnyOwner(r) ==
  LET found == Swapped(run[r].base, Attempted(r))
  IN  /\ run[r].pc = "begin"
      /\ claim' = found
      /\ IF found.attempt # None /\ ~found.done
         THEN run' = [run EXCEPT ![r].base = found, ![r].pc = "send"] /\ UNCHANGED receipt
         ELSE Report(r, IF found.done THEN "confirmed" ELSE "error")
      /\ UNCHANGED <<published, calls>>

BeginAttempt(r) ==
  LET found == Swapped(run[r].base, Attempted(r))
  IN  /\ run[r].pc = "begin"
      /\ claim' = found
      /\ IF found.attempt = r
         THEN run' = [run EXCEPT ![r].base = found, ![r].pc = "send"] /\ UNCHANGED receipt
         ELSE Report(r, IF found.done THEN "confirmed" ELSE "error")
      /\ UNCHANGED <<published, calls>>

MessageOf(r) == [quote |-> run[r].base.quote, run |-> r]

SendSignal(r) ==
  /\ run[r].pc = "send"
  /\ published' = Append(published, MessageOf(r))
  /\ Goto(r, "checkpoint")
  /\ UNCHANGED <<claim, receipt, calls>>

Checkpointed(r) == [run[r].base EXCEPT !.done = TRUE]

Checkpoint(r) ==
  LET found == Swapped(run[r].base, Checkpointed(r))
  IN  /\ run[r].pc = "checkpoint"
      /\ claim' = found
      /\ Report(r, IF found.done THEN "confirmed" ELSE "error")
      /\ UNCHANGED <<published, calls>>

----------------------------------------------------------------------------
(* An error, a rejection, a crash: nothing is tried again within the run.  *)
RunFails(r) ==
  /\ run[r].pc # "ended" /\ Report(r, "error")
  /\ UNCHANGED <<claim, published, calls>>

(* A call whose reply is lost may have been executed, or be executed yet;  *)
(* a publication is not sent again.                                        *)
ReplyLost(r) ==
  /\ \/ /\ run[r].pc = "insert"
        /\ calls' = calls \cup {[from |-> NoClaim, to |-> Selected(r)]}
        /\ UNCHANGED published
     \/ /\ run[r].pc = "begin"
        /\ calls' = calls \cup {[from |-> run[r].base, to |-> Attempted(r)]}
        /\ UNCHANGED published
     \/ /\ run[r].pc = "send"
        /\ published' = Append(published, MessageOf(r))
        /\ UNCHANGED calls
     \/ /\ run[r].pc = "checkpoint"
        /\ calls' = calls \cup {[from |-> run[r].base, to |-> Checkpointed(r)]}
        /\ UNCHANGED published
  /\ Report(r, "error")
  /\ UNCHANGED claim

CallLate(s) ==
  /\ s \in calls
  /\ claim' = Swapped(s.from, s.to)
  /\ calls' = calls \ {s}
  /\ UNCHANGED <<published, run, receipt>>

----------------------------------------------------------------------------
ClaimInit ==
  /\ claim = NoClaim /\ published = <<>> /\ calls = {}
  /\ run = [r \in Runs |-> [pc |-> "start", quote |-> None, base |-> NoClaim]]
  /\ receipt = [r \in Runs |-> "none"]

RunStep(r) ==
  \/ ReadClaim(r) \/ \E q \in Quotes : PullBook(r, q)
  \/ InsertClaim(r) \/ VerifyClaim(r)
  \/ BeginAttempt(r) \/ SendSignal(r) \/ Checkpoint(r)
  \/ RunFails(r) \/ ReplyLost(r)

ClaimNext ==
  \/ \E r \in Runs : RunStep(r)
  \/ \E s \in calls : CallLate(s)

ClaimSpec == ClaimInit /\ [][ClaimNext]_claimVars

----------------------------------------------------------------------------
Claims == [quote : Quotes \cup {None}, attempt : Runs \cup {None}, done : BOOLEAN]
Steps == {"start", "pull", "insert", "verify", "begin", "send", "checkpoint", "ended"}
Receipts == {"none", "confirmed", "ambiguous", "error"}

(* The row, the runs' copies of it and the calls on their way are claims.  *)
ClaimTypeOK ==
  /\ claim \in Claims
  /\ published \in Seq([quote : Quotes, run : Runs])
  /\ run \in [Runs -> [pc : Steps, quote : Quotes \cup {None}, base : Claims]]
  /\ receipt \in [Runs -> Receipts]
  /\ calls \subseteq [from : Claims, to : Claims]

(* At most one message is ever published for the candidate, by the run     *)
(* that owns the attempt on record and with the quote on record, however   *)
(* many runs overlap, fail and start again.                                *)
OneMessagePerCandidate ==
  /\ Len(published) <= 1
  /\ published # <<>> =>
       published[1] = [quote |-> claim.quote, run |-> claim.attempt]

(* A receipt tells the truth: a confirmed one of a checkpointed message    *)
(* that is on the topic, an ambiguous one of an attempt on record.         *)
ReceiptsAreTrue ==
  \A r \in Runs :
    /\ receipt[r] = "confirmed" => claim.done /\ published # <<>>
    /\ receipt[r] = "ambiguous" => claim.attempt # None
=============================================================================
