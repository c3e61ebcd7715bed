------------------------- MODULE EventPaperDispatch -------------------------
(***************************************************************************)
(* The event-paper path through the aggregator and the gateway.  Each      *)
(* stage takes a message from the topic of the stage before it, freezes    *)
(* the command it is to publish in the journal, marks the attempt,         *)
(* publishes, confirms, and acknowledges what it took.  A worker's action  *)
(* is the code between two awaits; a call whose reply is lost is repeated  *)
(* by the client, and the abandoned one may still be executed much later.  *)
(* A call has an effect once at most, so equal abandoned calls are one.    *)
(*                                                                         *)
(* Left out: the pairing of signals (these have a bucket of their own),    *)
(* the gateway's gates but for the fact that they may refuse, the risk     *)
(* reservation, and the checks that a payload read back is the event's.    *)
(***************************************************************************)
EXTENDS DispatchJournal, FiniteSets

CONSTANTS
  Signals,
  Merges,      \* payloads the aggregator may compute for a signal
  Orders,      \* payloads the gateway may compute for a signal
  NoPayload,   \* no payload is computed yet
  Workers,
  StageOf,     \* the stage of a worker
  Tries,       \* attempts of a client at one call (three in the code)
  Faults,      \* bound on the faults of a behaviour
  FaultKinds   \* the kinds of faults that may happen

Stages == {"aggregator", "gateway"}
Keys == Stages \X Signals

ASSUME DispatchAssumption ==
  /\ Merges \subseteq Payloads /\ Orders \subseteq Payloads
  /\ NoPayload \notin Payloads
  /\ StageOf \in [Workers -> Stages]
  /\ Tries \in Nat \ {0} /\ Faults \in Nat
  /\ FaultKinds \subseteq {"timeout", "error", "crash", "redelivery"}

(* A message of a topic, named by the stage that publishes there: what it  *)
(* carries, and what its message id is drawn for.                          *)
Message == [ stage : Stages \cup {"source"}, signal : Signals,
             payload : Payloads \cup {NoPayload}, attempt : Nat, try : Nat ]

ASSUME MessageAssumption ==
  NoMessage \notin Message /\ NoRow \notin JournalRow(Message)

SourceMessages ==
  [ stage : {"source"}, signal : Signals, payload : {NoPayload},
    attempt : {NoAttempt}, try : {0} ]

Upstream(stage) == IF stage = "aggregator" THEN "source" ELSE "aggregator"

VARIABLES
  journal,    \* the table event_paper_stage_dispatches
  published,  \* messages on the topics
  acked,      \* messages acknowledged to Pub/Sub
  job,        \* what each worker is doing
  late,       \* calls whose caller does not wait any more
  uuid,       \* the last attempt id drawn
  faults,     \* faults left
  refused,    \* history: messages refused by a gate of the gateway
  failed      \* history: messages that met the hard failure of the journal

databaseVars == <<journal, published>>
historyVars == <<refused, failed>>
dispatchVars == <<databaseVars, acked, job, late, uuid, faults, historyVars>>

(* The program point, the message taken, the messages decided and not yet  *)
(* acknowledged, and the arguments of the calls.                           *)
Idle == [ pc |-> "idle", from |-> NoMessage, decided |-> {}, input |-> NoPayload,
          output |-> NoPayload, attempt |-> NoAttempt, message |-> NoMessage, try |-> 1 ]

Calls == {"prepare", "begin", "publish", "confirm", "mark"}

KeyOf(w) == <<StageOf[w], job[w].from.signal>>
RowOf(w) == journal[KeyOf(w)]

(* The call a worker waits for.                                            *)
Request(w) ==
  [ call |-> job[w].pc, key |-> KeyOf(w), input |-> job[w].input,
    output |-> job[w].output, attempt |-> job[w].attempt,
    message |-> job[w].message, try |-> job[w].try ]

MessageOf(r) ==
  [ stage |-> r.key[1], signal |-> r.key[2], payload |-> r.output,
    attempt |-> r.attempt, try |-> r.try ]

----------------------------------------------------------------------------
(* What Postgres and Pub/Sub do with a call.                               *)

RowAfter(row, r) ==
  IF r.call = "prepare" THEN PrepareRow(row, r.input, r.output)
  ELSE IF r.call = "begin" THEN BeginRow(row, r.attempt)
  ELSE IF r.call = "confirm" THEN ConfirmRow(row, r.attempt, r.message)
  ELSE IF r.call = "mark" THEN MarkRow(row, r.attempt)
  ELSE row

Executed(r) ==
  /\ journal' = [journal EXCEPT ![r.key] = RowAfter(@, r)]
  /\ published' = IF r.call = "publish" THEN published \cup {MessageOf(r)} ELSE published

ExecuteLate(r) ==
  /\ Executed(r)
  /\ late' = late \ {r}
  /\ UNCHANGED <<acked, job, uuid, faults, historyVars>>

----------------------------------------------------------------------------
(* Where a worker goes next.                                               *)

Goes(w, pc) == job' = [job EXCEPT ![w].pc = pc, ![w].try = 1]

Decided(w) ==
  job' = [job EXCEPT ![w] = [Idle EXCEPT !.decided = job[w].decided \cup {job[w].from}]]

(* An exception that nothing catches ends the process; what it decided and *)
(* did not acknowledge comes again to the one started in its place.        *)
Dies(w) == job' = [job EXCEPT ![w] = Idle]

(* attempt_id = uuid4().hex, for a command with the given output.          *)
NewAttempt(w, output) ==
  /\ uuid' = uuid + 1
  /\ job' = [job EXCEPT ![w].pc = "begin", ![w].output = output,
                        ![w].attempt = uuid + 1, ![w].try = 1]

----------------------------------------------------------------------------
(* A stage takes a message.  The aggregator computes its payload at once,  *)
(* the gateway consults its gates and then the journal.                    *)

StartsWith(w, m) ==
  /\ job[w].pc = "idle" /\ m \in published /\ m.stage = Upstream(StageOf[w])
  /\ \/ /\ StageOf[w] = "aggregator"
        /\ \E p \in Merges :
             job' = [job EXCEPT ![w].pc = "prepare", ![w].from = m,
                                ![w].input = p, ![w].output = p]
     \/ /\ StageOf[w] = "gateway"
        /\ job' = [job EXCEPT ![w].pc = "read", ![w].from = m, ![w].input = m.payload]
  /\ UNCHANGED <<databaseVars, acked, late, uuid, historyVars>>

Take(w, m) ==
  /\ m \notin acked \cup job[w].decided
  /\ StartsWith(w, m)
  /\ UNCHANGED faults

Fault(kind) == kind \in FaultKinds /\ faults > 0 /\ faults' = faults - 1

(* Pub/Sub delivers at least once.                                         *)
Redeliver(w, m) == Fault("redelivery") /\ m \in acked /\ StartsWith(w, m)

(* A gate of the gateway refuses: the signal is stale, the market closed.  *)
Refuse(w) ==
  /\ job[w].pc \in {"read", "order"}
  /\ Decided(w)
  /\ refused' = refused \cup {job[w].from}
  /\ UNCHANGED <<databaseVars, acked, late, uuid, faults, failed>>

HardFailure(w) == Dies(w) /\ failed' = failed \cup {job[w].from} /\ UNCHANGED uuid

(* _resume_event_paper_dispatch.                                           *)
Resume(w) ==
  /\ job[w].pc = "read"
  /\ \/ RowOf(w) = NoRow /\ Goes(w, "order") /\ UNCHANGED <<uuid, failed>>
     \/ /\ RowOf(w) # NoRow
        /\ \/ RowOf(w).input # job[w].input /\ HardFailure(w)
           \/ /\ RowOf(w).input = job[w].input
              /\ \/ Replay(RowOf(w)) # "prepared" /\ Decided(w) /\ UNCHANGED uuid
                 \/ Replay(RowOf(w)) = "prepared" /\ NewAttempt(w, RowOf(w).output)
              /\ UNCHANGED failed
  /\ UNCHANGED <<databaseVars, acked, late, faults, refused>>

(* The gates are passed and the order is built.                            *)
BuildOrder(w) ==
  /\ job[w].pc = "order"
  /\ \E p \in Orders :
       job' = [job EXCEPT ![w].pc = "prepare", ![w].output = p, ![w].try = 1]
  /\ UNCHANGED <<databaseVars, acked, late, uuid, faults, historyVars>>

Prepare_LeavesDuplicates(w) ==
  LET r == Request(w)
      row == RowAfter(RowOf(w), r)
      outcome == PrepareOutcome(row, r.input, r.output)
  IN  /\ job[w].pc = "prepare"
      /\ Executed(r)
      /\ \/ outcome = "payload_mismatch" /\ HardFailure(w)
         \/ outcome \in {"confirmed", "ambiguous"} /\ Dies(w) /\ UNCHANGED <<uuid, failed>>
         \/ /\ outcome = "prepared"
            /\ \/ StageOf[w] = "aggregator" /\ Goes(w, "log") /\ UNCHANGED uuid
               \/ StageOf[w] = "gateway" /\ NewAttempt(w, row.output)
            /\ UNCHANGED failed
      /\ UNCHANGED <<acked, late, faults, refused>>

(* The aggregator goes on with its log, the gateway with the attempt.      *)
Prepare(w) ==
  LET r == Request(w)
      row == RowAfter(RowOf(w), r)
      outcome == PrepareOutcome(row, r.input, r.output)
  IN  /\ job[w].pc = "prepare"
      /\ Executed(r)
      /\ \/ outcome = "payload_mismatch" /\ HardFailure(w)
         \/ outcome \in {"confirmed", "ambiguous"} /\ Decided(w) /\ UNCHANGED <<uuid, failed>>
         \/ /\ outcome = "prepared"
            /\ \/ StageOf[w] = "aggregator" /\ Goes(w, "log") /\ UNCHANGED uuid
               \/ StageOf[w] = "gateway" /\ NewAttempt(w, row.output)
            /\ UNCHANGED failed
      /\ UNCHANGED <<acked, late, faults, refused>>

(* insert_aggregator_logs.                                                 *)
Log(w) ==
  /\ job[w].pc = "log"
  /\ NewAttempt(w, job[w].output)
  /\ UNCHANGED <<databaseVars, acked, late, faults, historyVars>>

Begin_Unchecked(w) ==
  /\ job[w].pc = "begin"
  /\ Executed(Request(w))
  /\ Goes(w, "publish")
  /\ UNCHANGED <<acked, late, uuid, faults, historyVars>>

Begin(w) ==
  /\ job[w].pc = "begin"
  /\ Executed(Request(w))
  /\ IF BeginOutcome(RowOf(w), job[w].attempt) = "attempt_started"
     THEN Goes(w, "publish") ELSE Decided(w)
  /\ UNCHANGED <<acked, late, uuid, faults, historyVars>>

Publish(w) ==
  /\ job[w].pc = "publish"
  /\ Executed(Request(w))
  /\ job' = [job EXCEPT ![w].pc = "confirm", ![w].message = MessageOf(Request(w)),
                        ![w].try = 1]
  /\ UNCHANGED <<acked, late, uuid, faults, historyVars>>

Confirm(w) ==
  /\ job[w].pc = "confirm"
  /\ Executed(Request(w))
  /\ IF ConfirmOutcome(RowOf(w), job[w].attempt, job[w].message) = "attempt_mismatch"
     THEN Dies(w) ELSE Decided(w)
  /\ UNCHANGED <<acked, late, uuid, faults, historyVars>>

(* Whatever this answers, the worker reports and goes on.                  *)
Mark(w) ==
  /\ job[w].pc = "mark"
  /\ Executed(Request(w))
  /\ Decided(w)
  /\ UNCHANGED <<acked, late, uuid, faults, historyVars>>

Acknowledge(w) ==
  /\ job[w].pc = "idle" /\ job[w].decided # {}
  /\ acked' = acked \cup job[w].decided
  /\ Dies(w)
  /\ UNCHANGED <<databaseVars, late, uuid, faults, historyVars>>

----------------------------------------------------------------------------
(* Failures.                                                               *)

Abandoned(w) == IF job[w].pc \in Calls THEN {Request(w)} ELSE {}

(* No reply: the client sends the call again.                              *)
Retry(w) ==
  /\ Fault("timeout")
  /\ job[w].pc \in Calls /\ job[w].try < Tries
  /\ late' = late \cup Abandoned(w)
  /\ job' = [job EXCEPT ![w].try = @ + 1]
  /\ UNCHANGED <<databaseVars, acked, uuid, historyVars>>

(* The last attempt fails as well, or a publication times out: before the  *)
(* publication nothing catches it, after it the dispatch is ambiguous.     *)
GiveUp(w) ==
  /\ Fault("error")
  /\ job[w].pc \in Calls => job[w].try = Tries \/ job[w].pc = "publish"
  /\ late' = late \cup Abandoned(w)
  /\ \/ job[w].pc \in {"read", "order", "prepare", "log", "begin"} /\ Dies(w)
     \/ job[w].pc \in {"publish", "confirm"} /\ Goes(w, "mark")
     \/ job[w].pc = "mark" /\ Decided(w)
  /\ UNCHANGED <<databaseVars, acked, uuid, historyVars>>

Crash(w) ==
  /\ Fault("crash")
  /\ job[w] # Idle
  /\ late' = late \cup Abandoned(w)
  /\ Dies(w)
  /\ UNCHANGED <<databaseVars, acked, uuid, historyVars>>

----------------------------------------------------------------------------
(* Any of the source messages may be there.                                *)
Init ==
  /\ journal = [k \in Keys |-> NoRow]
  /\ published \in SUBSET SourceMessages
  /\ acked = {} /\ late = {} /\ uuid = NoAttempt /\ faults = Faults
  /\ job = [w \in Workers |-> Idle]
  /\ refused = {} /\ failed = {}

Work(w) ==
  \/ \E m \in published : Take(w, m)
  \/ Refuse(w) \/ Resume(w) \/ BuildOrder(w)
  \/ Prepare(w) \/ Log(w) \/ Begin(w) \/ Publish(w) \/ Confirm(w) \/ Mark(w)
  \/ Acknowledge(w)

Next ==
  \/ \E w \in Workers :
       \/ Work(w)
       \/ \E m \in published : Redeliver(w, m)
       \/ Retry(w) \/ GiveUp(w) \/ Crash(w)
  \/ \E r \in late : ExecuteLate(r)

Spec == Init /\ [][Next]_dispatchVars

(* A worker that is ready runs, and a call is answered in the end.         *)
FairSpec == Spec /\ \A w \in Workers : WF_dispatchVars(Work(w))

----------------------------------------------------------------------------
RequestType ==
  [ call : Calls, key : Keys, input : Payloads, output : Payloads, attempt : Nat,
    message : Message \cup {NoMessage}, try : Nat ]

JobType ==
  [ pc : Calls \cup {"idle", "read", "order", "log"}, from : Message \cup {NoMessage},
    decided : SUBSET Message, input : Payloads \cup {NoPayload},
    output : Payloads \cup {NoPayload}, attempt : Nat,
    message : Message \cup {NoMessage}, try : Nat ]

(* Rows satisfy the table's CHECK constraint, and no call is made with     *)
(* arguments the function would reject.                                    *)
DispatchTypeOK ==
  /\ journal \in [Keys -> JournalRow(Message) \cup {NoRow}]
  /\ \A k \in Keys : journal[k] # NoRow => WellFormed(journal[k])
  /\ published \subseteq Message
  /\ acked \subseteq Message
  /\ job \in [Workers -> JobType]
  /\ late \subseteq RequestType
  /\ uuid \in Nat /\ faults \in Nat
  /\ refused \subseteq Message /\ failed \subseteq Message

(* A confirmed dispatch names a message that is on the topic and carries   *)
(* exactly the frozen output (the durable receipt of the runbook).         *)
ConfirmedWasPublished ==
  \A k \in Keys :
    journal[k] # NoRow /\ journal[k].status = "confirmed" =>
      /\ journal[k].message \in published
      /\ journal[k].message.stage = k[1] /\ journal[k].message.signal = k[2]
      /\ journal[k].message.payload = journal[k].output

(* A message that no gate refused is acknowledged only once an attempt is  *)
(* on record for its signal: neither a crash nor a failed call may let a   *)
(* prepared command, or none, be acknowledged and forgotten.               *)
AcknowledgedWasAttempted ==
  \A k \in Keys : \A m \in acked \ refused :
    m.stage = Upstream(k[1]) /\ m.signal = k[2] =>
      journal[k] # NoRow /\ journal[k].status # "prepared"

(* Every copy of a signal that the aggregator publishes carries the input  *)
(* the gateway has on record: a replay at the gateway never meets the hard *)
(* failure for a changed input.                                            *)
ReplayAgrees ==
  \A m \in published :
    m.stage = "aggregator" /\ journal[<<"gateway", m.signal>>] # NoRow =>
      journal[<<"gateway", m.signal>>].input = m.payload

(* One command is chosen per stage and signal, one attempt is made, and    *)
(* only that attempt delivers it (header of the journal's migration).      *)
Promise == INSTANCE DispatchPromise WITH
  Commands <- Payloads, NoCommand <- NoPayload, Attempts <- Nat \ {NoAttempt},
  command <- [k \in Keys |-> IF journal[k] = NoRow THEN NoPayload ELSE journal[k].output],
  tried <- [k \in Keys |-> IF journal[k] = NoRow THEN NoAttempt ELSE journal[k].attempt],
  delivered <- {<< <<m.stage, m.signal>>, m.payload, m.attempt >> :
                  m \in {x \in published : x.stage # "source"}}

KeepsPromise == Promise!PromiseSpec

(* Every message is acknowledged in the end, unless the aggregator met the *)
(* hard failure for a changed payload; the gateway recovers from its own.  *)
EventuallyAcknowledged ==
  \A s \in Signals, stage \in Stages :
    (\E m \in published : m.signal = s /\ m.stage = Upstream(stage)) ~>
      \/ \A m \in published : m.signal = s /\ m.stage = Upstream(stage) => m \in acked
      \/ \E m \in failed : m.stage = "source"

(* A command is published once: an attempt whose outcome is not known is   *)
(* never automatically published again.                                    *)
PublishedOnce ==
  \A m, n \in published : m.stage = n.stage /\ m.signal = n.signal => m = n
=============================================================================
