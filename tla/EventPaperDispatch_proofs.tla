---------------------- MODULE EventPaperDispatch_proofs ----------------------
(***************************************************************************)
(* The safety of EventPaperDispatch for any signals, payloads and workers. *)
(* The argument rests on growth: a row of the journal, once there, keeps   *)
(* its payloads, and once attempted keeps its attempt.  What a worker, an  *)
(* abandoned call or a message relies on therefore stays true, whatever    *)
(* the others do, and each step has only its own new claims to justify.    *)
(***************************************************************************)
EXTENDS EventPaperDispatch, TLAPS

Rows == JournalRow(Message) \cup {NoRow}

(* A step of the journal from j to k.                                      *)
Grows(j, k) ==
  \A x \in Keys : j[x] # NoRow =>
    /\ k[x] # NoRow
    /\ k[x].input = j[x].input /\ k[x].output = j[x].output
    /\ j[x].status # "prepared" =>
         k[x].status # "prepared" /\ k[x].attempt = j[x].attempt

Backed(x, output, j) == j[x] # NoRow /\ j[x].output = output
Tried(x, attempt, j) == j[x].status # "prepared" /\ j[x].attempt = attempt

(* What the gateway takes as input is what the aggregator froze.           *)
SafeInput(x, input, j) ==
  x[1] = "gateway" => Backed(<<"aggregator", x[2]>>, input, j)

SafeRequest(r, j, p) ==
  /\ SafeInput(r.key, r.input, j)
  /\ r.call # "prepare" => Backed(r.key, r.output, j) /\ r.attempt # NoAttempt
  /\ r.call \in {"publish", "confirm", "mark"} => Tried(r.key, r.attempt, j)
  /\ r.call = "confirm" =>
       /\ r.message \in p
       /\ r.message.stage = r.key[1] /\ r.message.signal = r.key[2]
       /\ r.message.payload = r.output

SafeMessage(m, j) ==
  m.stage # "source" =>
    /\ Backed(<<m.stage, m.signal>>, m.payload, j)
    /\ Tried(<<m.stage, m.signal>>, m.attempt, j)

Attempted(m, j) ==
  \A k \in Keys : m.stage = Upstream(k[1]) /\ m.signal = k[2] =>
                    j[k] # NoRow /\ j[k].status # "prepared"

RequestOf(w, b) ==
  [ call |-> b.pc, key |-> <<StageOf[w], b.from.signal>>, input |-> b.input,
    output |-> b.output, attempt |-> b.attempt, message |-> b.message, try |-> b.try ]

SafeJob(w, b, j, p, ref) ==
  /\ b.pc # "idle" => /\ b.from \in p /\ b.from.stage = Upstream(StageOf[w])
                      /\ b.input \in Payloads
                      /\ StageOf[w] = "gateway" => b.input = b.from.payload
  /\ b.pc \in Calls => /\ b.output \in Payloads
                       /\ SafeRequest(RequestOf(w, b), j, p)
  /\ b.pc = "log" => b.output \in Payloads /\ Backed(<<StageOf[w], b.from.signal>>, b.output, j)
  /\ \A m \in b.decided \ ref : Attempted(m, j)

SafeRow(x, j, p) ==
  j[x] # NoRow =>
    /\ WellFormed(j[x])
    /\ SafeInput(x, j[x].input, j)
    /\ j[x].status = "confirmed" =>
         /\ j[x].message \in p
         /\ j[x].message.stage = x[1] /\ j[x].message.signal = x[2]
         /\ j[x].message.payload = j[x].output

(* The inductive invariant.                                                *)
DispatchInv ==
  /\ DispatchTypeOK
  /\ \A x \in Keys : SafeRow(x, journal, published)
  /\ \A m \in published : SafeMessage(m, journal)
  /\ \A r \in late : SafeRequest(r, journal, published)
  /\ \A w \in Workers : SafeJob(w, job[w], journal, published, refused)
  /\ \A m \in acked \ refused : Attempted(m, journal)

----------------------------------------------------------------------------
(* Growth.                                                                 *)

(* Growth is reflexive.                                                    *)
LEMMA GrowsReflexive == \A j : Grows(j, j)
BY DEF Grows

(* A safe call stays safe while the journal grows and messages are added.  *)
LEMMA RequestStaysSafe ==
  ASSUME NEW r \in RequestType, NEW j, NEW k, NEW p, NEW q,
         Grows(j, k), p \subseteq q, SafeRequest(r, j, p)
  PROVE  SafeRequest(r, k, q)
<1>1. r.key \in Keys /\ (r.key[1] = "gateway" => <<"aggregator", r.key[2]>> \in Keys)
  BY DEF RequestType, Keys, Stages
<1>2. QED
  BY <1>1 DEF SafeRequest, SafeInput, Backed, Tried, Grows

(* So does a message of a topic.                                           *)
LEMMA MessageStaysSafe ==
  ASSUME NEW m \in Message, NEW j, NEW k, Grows(j, k), SafeMessage(m, j)
  PROVE  SafeMessage(m, k)
<1>1. m.stage # "source" => <<m.stage, m.signal>> \in Keys
  BY DEF Message, Keys, Stages
<1>2. QED
  BY <1>1 DEF SafeMessage, Backed, Tried, Grows

(* So does a decision.                                                     *)
LEMMA StaysAttempted ==
  ASSUME NEW m, NEW j, NEW k, Grows(j, k), Attempted(m, j)
  PROVE  Attempted(m, k)
BY DEF Attempted, Grows

(* So does what a worker is doing.                                         *)
LEMMA JobStaysSafe ==
  ASSUME NEW w \in Workers, NEW b \in JobType, NEW j, NEW k, NEW p, NEW q,
         NEW ref, NEW ref2, p \subseteq Message,
         Grows(j, k), p \subseteq q, ref \subseteq ref2, SafeJob(w, b, j, p, ref)
  PROVE  SafeJob(w, b, k, q, ref2)
<1> DEFINE x == <<StageOf[w], b.from.signal>>
<1>1. b.pc # "idle" => x \in Keys
  BY DispatchAssumption DEF SafeJob, Message, Keys
<1>2. b.pc # "idle" => b.from \in q /\ b.from.stage = Upstream(StageOf[w])
                       /\ b.input \in Payloads
                       /\ (StageOf[w] = "gateway" => b.input = b.from.payload)
  BY DEF SafeJob
<1>3. b.pc \in Calls => b.output \in Payloads /\ SafeRequest(RequestOf(w, b), k, q)
  <2>1. SUFFICES ASSUME b.pc \in Calls
                 PROVE  b.output \in Payloads /\ SafeRequest(RequestOf(w, b), k, q)
    OBVIOUS
  <2>2. RequestOf(w, b) \in RequestType
    BY <2>1, <1>1, <1>2 DEF RequestOf, RequestType, JobType, SafeJob, Calls
  <2>3. QED
    BY <2>1, <2>2, RequestStaysSafe DEF SafeJob
<1>4. b.pc = "log" => b.output \in Payloads /\ Backed(x, b.output, k)
  BY <1>1 DEF SafeJob, Backed, Grows
<1>5. \A m \in b.decided \ ref2 : Attempted(m, k)
  BY StaysAttempted DEF SafeJob
<1>6. QED
  BY <1>2, <1>3, <1>4, <1>5 DEF SafeJob

----------------------------------------------------------------------------
(* What a call does to a row.                                              *)

(* A call leaves a typed row that satisfies the CHECK constraint.          *)
LEMMA RowAfterTypes ==
  ASSUME NEW row \in Rows, row # NoRow => WellFormed(row),
         NEW r \in RequestType,
         r.call # "prepare" => row # NoRow /\ r.attempt # NoAttempt,
         r.call = "confirm" => r.message \in Message
  PROVE  /\ RowAfter(row, r) \in JournalRow(Message)
         /\ WellFormed(RowAfter(row, r))
<1>1. CASE r.call = "prepare"
  BY <1>1, MessageAssumption
  DEF RowAfter, PrepareRow, Rows, JournalRow, WellFormed, RequestType, NoAttempt
<1>2. CASE r.call = "begin"
  BY <1>2 DEF RowAfter, BeginRow, Rows, JournalRow, WellFormed, RequestType, NoAttempt
<1>3. CASE r.call = "publish"
  BY <1>3 DEF RowAfter, Rows
<1>4. CASE r.call = "confirm"
  BY <1>4, MessageAssumption
  DEF RowAfter, ConfirmRow, Rows, JournalRow, WellFormed, RequestType, NoAttempt
<1>5. CASE r.call = "mark"
  BY <1>5 DEF RowAfter, MarkRow, Rows, JournalRow, WellFormed, RequestType, NoAttempt
<1>6. QED
  BY <1>1, <1>2, <1>3, <1>4, <1>5 DEF RequestType, Calls

(* It keeps the payloads of a row and an attempt on record, and only a     *)
(* confirmation confirms.                                                  *)
LEMMA RowAfterKeeps ==
  ASSUME NEW row \in JournalRow(Message), NEW r \in RequestType
  PROVE  LET new == RowAfter(row, r)
         IN  /\ new.input = row.input /\ new.output = row.output
             /\ row.status # "prepared" =>
                  new.status # "prepared" /\ new.attempt = row.attempt
             /\ new.status = "confirmed" =>
                  \/ row.status = "confirmed" /\ new.message = row.message
                  \/ r.call = "confirm" /\ new.message = r.message
<1>1. row # NoRow
  BY MessageAssumption
<1>2. r.call \in Calls
  BY DEF RequestType
<1>3. QED
  BY <1>1, <1>2
  DEF RowAfter, PrepareRow, BeginRow, ConfirmRow, MarkRow, JournalRow, Calls

(* The first call on a key without a row prepares it.                      *)
LEMMA RowAfterPrepares ==
  ASSUME NEW r \in RequestType, r.call = "prepare"
  PROVE  RowAfter(NoRow, r) =
           [ input |-> r.input, output |-> r.output, status |-> "prepared",
             attempt |-> NoAttempt, message |-> NoMessage ]
BY DEF RowAfter, PrepareRow

----------------------------------------------------------------------------
(* What an executed call does to the database.                             *)

DatabaseTypeOK ==
  /\ journal \in [Keys -> Rows]
  /\ published \subseteq Message

DatabaseInv ==
  /\ DatabaseTypeOK
  /\ \A x \in Keys : SafeRow(x, journal, published)
  /\ \A m \in published : SafeMessage(m, journal)

(* The database is still sound, and has grown.                             *)
LEMMA ExecutedIsSound ==
  ASSUME DatabaseInv, NEW r \in RequestType,
         SafeRequest(r, journal, published), Executed(r)
  PROVE  DatabaseInv' /\ Grows(journal, journal') /\ published \subseteq published'
<1> DEFINE row == journal[r.key]
<1> DEFINE new == RowAfter(row, r)
<1>1. r.key \in Keys /\ row \in Rows /\ (row # NoRow => WellFormed(row))
  BY DEF RequestType, DatabaseInv, DatabaseTypeOK, SafeRow
<1>2. journal' = [journal EXCEPT ![r.key] = new]
  BY DEF Executed
<1>3. r.call # "prepare" => row # NoRow /\ r.attempt # NoAttempt
  BY DEF SafeRequest, Backed
<1>4. r.call = "confirm" => r.message \in Message
  BY DEF SafeRequest, DatabaseInv, DatabaseTypeOK
<1>5. new \in JournalRow(Message) /\ WellFormed(new) /\ new # NoRow
  BY <1>1, <1>3, <1>4, RowAfterTypes, MessageAssumption
<1>6. journal' \in [Keys -> Rows]
  BY <1>2, <1>5 DEF DatabaseInv, DatabaseTypeOK, Rows
<1>7. Grows(journal, journal')
  <2>1. SUFFICES ASSUME NEW x \in Keys, journal[x] # NoRow
                 PROVE  /\ journal'[x] # NoRow
                        /\ journal'[x].input = journal[x].input
                        /\ journal'[x].output = journal[x].output
                        /\ journal[x].status # "prepared" =>
                             /\ journal'[x].status # "prepared"
                             /\ journal'[x].attempt = journal[x].attempt
    BY DEF Grows
  <2>2. CASE x # r.key
    BY <2>1, <2>2, <1>2 DEF DatabaseInv, DatabaseTypeOK
  <2>3. CASE x = r.key
    <3>1. journal'[x] = new /\ row = journal[x] /\ row \in JournalRow(Message)
      BY <2>1, <2>3, <1>1, <1>2 DEF DatabaseInv, DatabaseTypeOK, Rows
    <3>2. QED
      BY <3>1, <1>5, RowAfterKeeps
  <2>4. QED
    BY <2>2, <2>3
<1>8. published \subseteq published' /\ published' \subseteq published \cup {MessageOf(r)}
  BY DEF Executed
<1>9. MessageOf(r) \in Message
  BY DEF MessageOf, RequestType, Message, Keys
<1>10. \A m \in published' : SafeMessage(m, journal')
  <2>1. SUFFICES ASSUME NEW m \in published'
                 PROVE  SafeMessage(m, journal')
    OBVIOUS
  <2>2. CASE m \in published
    BY <2>2, <1>7, MessageStaysSafe DEF DatabaseInv, DatabaseTypeOK
  <2>3. CASE m \notin published
    <3>1. r.call = "publish" /\ m = MessageOf(r)
      BY <2>3 DEF Executed
    <3>2. SafeRequest(r, journal', published')
      BY <1>7, <1>8, RequestStaysSafe
    <3>3. <<m.stage, m.signal>> = r.key /\ m.payload = r.output /\ m.attempt = r.attempt
      BY <3>1 DEF MessageOf, RequestType, Keys
    <3>4. QED
      BY <3>1, <3>2, <3>3 DEF SafeMessage, SafeRequest
  <2>4. QED
    BY <2>2, <2>3
<1>11. \A x \in Keys : SafeRow(x, journal', published')
  <2>1. SUFFICES ASSUME NEW x \in Keys, journal'[x] # NoRow
                 PROVE  /\ WellFormed(journal'[x])
                        /\ SafeInput(x, journal'[x].input, journal')
                        /\ journal'[x].status = "confirmed" =>
                             /\ journal'[x].message \in published'
                             /\ journal'[x].message.stage = x[1]
                             /\ journal'[x].message.signal = x[2]
                             /\ journal'[x].message.payload = journal'[x].output
    BY DEF SafeRow
  <2>2. <<"aggregator", x[2]>> \in Keys
    BY DEF Keys, Stages
  <2>3. ASSUME NEW in, SafeInput(x, in, journal)
        PROVE  SafeInput(x, in, journal')
    BY <2>2, <2>3, <1>7 DEF SafeInput, Backed, Grows
  <2>4. CASE x # r.key
    <3>1. journal'[x] = journal[x]
      BY <2>4, <1>2 DEF DatabaseInv, DatabaseTypeOK
    <3>2. SafeRow(x, journal, published) /\ journal[x] # NoRow
      BY <2>1, <3>1 DEF DatabaseInv
    <3>3. QED
      BY <3>1, <3>2, <2>3, <1>8 DEF SafeRow
  <2>5. CASE x = r.key /\ journal[x] # NoRow
    <3>1. journal'[x] = new /\ row = journal[x] /\ row \in JournalRow(Message)
      BY <2>5, <1>1, <1>2 DEF DatabaseInv, DatabaseTypeOK, Rows
    <3>2. SafeRow(x, journal, published)
      BY DEF DatabaseInv
    <3>3. SafeInput(x, journal'[x].input, journal')
      BY <3>1, <3>2, <2>3, <2>5, RowAfterKeeps DEF SafeRow
    <3>4. /\ new.output = row.output
          /\ new.status = "confirmed" =>
               \/ row.status = "confirmed" /\ new.message = row.message
               \/ r.call = "confirm" /\ new.message = r.message
      BY <3>1, RowAfterKeeps
    <3>5. r.call = "confirm" => /\ r.message \in published' /\ r.message.stage = x[1]
                                /\ r.message.signal = x[2] /\ r.message.payload = row.output
      BY <2>5, <1>8 DEF SafeRequest, Backed
    <3>6. QED
      BY <3>1, <3>2, <3>3, <3>4, <3>5, <2>5, <1>5, <1>8 DEF SafeRow
  <2>6. CASE x = r.key /\ journal[x] = NoRow
    <3>1. r.call = "prepare" /\ journal'[x] = new /\ row = NoRow
      BY <2>6, <1>1, <1>2, <1>3 DEF DatabaseInv, DatabaseTypeOK
    <3>2. new.status = "prepared" /\ new.input = r.input
      BY <3>1, RowAfterPrepares
    <3>3. QED
      BY <3>1, <3>2, <2>3, <2>6, <1>5 DEF SafeRequest
  <2>7. QED
    BY <2>4, <2>5, <2>6
<1>12. QED
  BY <1>6, <1>7, <1>8, <1>9, <1>10, <1>11 DEF DatabaseInv, DatabaseTypeOK

----------------------------------------------------------------------------
(* A worker's step.                                                        *)

(* What a step of w does besides giving it a new job.                      *)
Around(w) ==
  /\ DatabaseInv' /\ Grows(journal, journal') /\ published \subseteq published'
  /\ late' \subseteq late \cup Abandoned(w)
  /\ acked' \subseteq acked \cup job[w].decided
  /\ refused \subseteq refused' /\ refused' \subseteq Message /\ failed' \subseteq Message
  /\ uuid' \in Nat /\ faults' \in Nat

(* The calls and decisions of a worker that stopped waiting are as safe as *)
(* they were, so a step has to justify only the worker's new job.          *)
LEMMA StepIsSafe ==
  ASSUME DispatchInv, NEW w \in Workers, NEW b \in JobType,
         job' = [job EXCEPT ![w] = b], Around(w),
         SafeJob(w, b, journal', published', refused')
  PROVE  DispatchInv'
<1> USE DEF Around
<1>1. job \in [Workers -> JobType] /\ published \subseteq Message /\ late \subseteq RequestType
      /\ acked \subseteq Message
  BY DEF DispatchInv, DispatchTypeOK
<1>2. ASSUME NEW r \in late'
      PROVE  r \in RequestType /\ SafeRequest(r, journal, published)
  <2>1. CASE r \in late
    BY <2>1, <1>1 DEF DispatchInv
  <2>2. CASE r \notin late
    <3>1. r = Request(w) /\ job[w].pc \in Calls /\ SafeJob(w, job[w], journal, published, refused)
      BY <1>2, <2>2 DEF Abandoned, DispatchInv
    <3>2. Request(w) = RequestOf(w, job[w])
      BY DEF Request, RequestOf, KeyOf
    <3>3. <<StageOf[w], job[w].from.signal>> \in Keys
      BY <3>1, <1>1, DispatchAssumption DEF SafeJob, Calls, Message, Keys
    <3>4. RequestOf(w, job[w]) \in RequestType
      BY <3>1, <3>3, <1>1 DEF RequestOf, RequestType, SafeJob, JobType, Calls
    <3>5. QED
      BY <3>1, <3>2, <3>4 DEF SafeJob
  <2>3. QED
    BY <2>1, <2>2
<1>3. \A r \in late' : r \in RequestType /\ SafeRequest(r, journal', published')
  BY <1>2, RequestStaysSafe
<1>4. \A v \in Workers : SafeJob(v, job'[v], journal', published', refused')
  <2>1. SUFFICES ASSUME NEW v \in Workers, v # w
                 PROVE  SafeJob(v, job'[v], journal', published', refused')
    BY <1>1
  <2>2. job'[v] = job[v] /\ job[v] \in JobType
    BY <2>1, <1>1
  <2>3. SafeJob(v, job[v], journal, published, refused)
    BY DEF DispatchInv
  <2>4. QED
    BY <2>2, <2>3, <1>1, JobStaysSafe
<1>5. ASSUME NEW m \in acked' \ refused'
      PROVE  Attempted(m, journal') /\ m \in Message
  <2>1. Attempted(m, journal)
    BY DEF DispatchInv, SafeJob
  <2>2. m \in Message
    BY <1>1 DEF JobType
  <2>3. QED
    BY <2>1, <2>2, StaysAttempted
<1>6. acked' \subseteq Message
  BY <1>1 DEF JobType
<1>7. DispatchTypeOK'
  <2>1. journal' \in [Keys -> JournalRow(Message) \cup {NoRow}]
        /\ (\A k \in Keys : journal'[k] # NoRow => WellFormed(journal'[k]))
        /\ published' \subseteq Message
    BY DEF DatabaseInv, DatabaseTypeOK, SafeRow, Rows
  <2>2. job' \in [Workers -> JobType]
    BY <1>1
  <2>3. QED
    BY <2>1, <2>2, <1>3, <1>6 DEF DispatchTypeOK
<1>8. QED
  BY <1>3, <1>4, <1>5, <1>7 DEF DispatchInv, DatabaseInv

(* The database's part of the invariant.                                   *)
LEMMA DatabaseIsSound == DispatchInv => DatabaseInv
BY DEF DispatchInv, DatabaseInv, DispatchTypeOK, DatabaseTypeOK, Rows

(* A step that leaves the database alone.                                  *)
LEMMA DatabaseStays ==
  ASSUME DispatchInv, UNCHANGED databaseVars
  PROVE  DatabaseInv' /\ Grows(journal, journal') /\ published \subseteq published'
<1>1. DatabaseInv /\ journal' = journal /\ published' = published
  BY DatabaseIsSound DEF databaseVars
<1>2. QED
  BY <1>1, GrowsReflexive DEF DatabaseInv, DatabaseTypeOK

(* What is known of a worker that is busy.                                 *)
LEMMA Busy ==
  ASSUME DispatchInv, NEW w \in Workers, job[w].pc # "idle"
  PROVE  /\ job[w] \in JobType /\ KeyOf(w) \in Keys
         /\ job[w].from \in published /\ job[w].from \in Message
         /\ job[w].from.stage = Upstream(StageOf[w]) /\ job[w].input \in Payloads
         /\ SafeInput(KeyOf(w), job[w].input, journal)
         /\ SafeJob(w, job[w], journal, published, refused)
<1>1. /\ job[w] \in JobType /\ published \subseteq Message
      /\ SafeJob(w, job[w], journal, published, refused)
  BY DEF DispatchInv, DispatchTypeOK
<1>2. /\ job[w].from \in published /\ job[w].from \in Message
      /\ job[w].from.stage = Upstream(StageOf[w]) /\ job[w].input \in Payloads
      /\ (StageOf[w] = "gateway" => job[w].input = job[w].from.payload)
  BY <1>1 DEF SafeJob
<1>3. KeyOf(w) \in Keys
  BY <1>2, DispatchAssumption DEF KeyOf, Keys, Message
<1>4. SafeInput(KeyOf(w), job[w].input, journal)
  <2>1. SafeMessage(job[w].from, journal)
    BY <1>2 DEF DispatchInv
  <2>2. QED
    BY <2>1, <1>2 DEF SafeInput, SafeMessage, KeyOf, Upstream
<1>5. QED
  BY <1>1, <1>2, <1>3, <1>4

(* The call of a worker is a call the database can take.                   *)
LEMMA Calling ==
  ASSUME DispatchInv, NEW w \in Workers, job[w].pc \in Calls
  PROVE  /\ Request(w) \in RequestType
         /\ SafeRequest(Request(w), journal, published)
         /\ job[w].output \in Payloads
<1>1. job[w].pc # "idle"
  BY DEF Calls
<1>2. Request(w) = RequestOf(w, job[w])
  BY DEF Request, RequestOf, KeyOf
<1>3. job[w] \in JobType /\ KeyOf(w) \in Keys /\ job[w].input \in Payloads
      /\ SafeJob(w, job[w], journal, published, refused)
  BY <1>1, Busy
<1>4. job[w].output \in Payloads /\ SafeRequest(Request(w), journal, published)
  BY <1>2, <1>3 DEF SafeJob
<1>5. QED
  BY <1>3, <1>4 DEF Request, RequestType, JobType

(* Idle is a safe job.                                                     *)
LEMMA IdleIsSafe ==
  ASSUME NEW w \in Workers, NEW j, NEW p, NEW ref
  PROVE  Idle \in JobType /\ SafeJob(w, Idle, j, p, ref)
BY DEF Idle, JobType, SafeJob, Calls, NoAttempt

(* A step that leaves the database alone and abandons no more than the     *)
(* call of w.                                                              *)
LEMMA AroundNothing ==
  ASSUME DispatchInv, NEW w \in Workers, UNCHANGED databaseVars,
         late' \subseteq late \cup Abandoned(w), acked' \subseteq acked \cup job[w].decided,
         refused' \subseteq refused \cup {job[w].from}, refused \subseteq refused',
         failed' \subseteq failed \cup {job[w].from},
         job[w].pc # "idle" \/ (refused' = refused /\ failed' = failed),
         uuid' \in {uuid, uuid + 1}, faults' = faults \/ (faults > 0 /\ faults' = faults - 1)
  PROVE  Around(w)
<1>1. DatabaseInv' /\ Grows(journal, journal') /\ published \subseteq published'
  BY DatabaseStays
<1>2. refused \subseteq Message /\ failed \subseteq Message /\ uuid \in Nat /\ faults \in Nat
  BY DEF DispatchInv, DispatchTypeOK
<1>3. job[w].pc # "idle" => job[w].from \in Message
  BY Busy
<1>4. QED
  BY <1>1, <1>2, <1>3 DEF Around

(* A step in which the database executes the call of w.                    *)
LEMMA AroundCall ==
  ASSUME DispatchInv, NEW w \in Workers, job[w].pc \in Calls, Executed(Request(w)),
         late' = late, acked' = acked, refused' = refused,
         failed' \subseteq failed \cup {job[w].from},
         uuid' \in {uuid, uuid + 1}, faults' = faults
  PROVE  Around(w)
<1>1. DatabaseInv' /\ Grows(journal, journal') /\ published \subseteq published'
  BY DatabaseIsSound, Calling, ExecutedIsSound
<1>2. refused \subseteq Message /\ failed \subseteq Message /\ uuid \in Nat /\ faults \in Nat
  BY DEF DispatchInv, DispatchTypeOK
<1>3. job[w].from \in Message
  BY Busy DEF Calls
<1>4. QED
  BY <1>1, <1>2, <1>3 DEF Around

(* The row a call leaves.                                                  *)
LEMMA CalledRow ==
  ASSUME DispatchInv, NEW w \in Workers, job[w].pc \in Calls, Executed(Request(w))
  PROVE  journal'[KeyOf(w)] = RowAfter(RowOf(w), Request(w))
<1>1. KeyOf(w) \in Keys /\ journal \in [Keys -> Rows]
  BY Busy DEF Calls, DispatchInv, DispatchTypeOK, Rows
<1>2. QED
  BY <1>1 DEF Executed, Request, RowOf

(* A process that dies, or goes to pull again, has nothing to justify.     *)
LEMMA DiesIsSafe ==
  ASSUME DispatchInv, NEW w \in Workers, Dies(w), Around(w)
  PROVE  DispatchInv'
BY IdleIsSafe, StepIsSafe DEF Dies

(* A decision needs an attempt on record, or a gate that refused.          *)
LEMMA DecidedIsSafe ==
  ASSUME DispatchInv, NEW w \in Workers, job[w].pc # "idle", Decided(w), Around(w),
         \/ job[w].from \in refused'
         \/ journal'[KeyOf(w)] # NoRow /\ journal'[KeyOf(w)].status # "prepared"
  PROVE  DispatchInv'
<1> DEFINE b == [Idle EXCEPT !.decided = job[w].decided \cup {job[w].from}]
<1>1. /\ job[w] \in JobType /\ job[w].from \in Message
      /\ job[w].from.stage = Upstream(StageOf[w])
      /\ SafeJob(w, job[w], journal, published, refused)
  BY Busy
<1>2. b \in JobType /\ b.pc = "idle" /\ b.decided = job[w].decided \cup {job[w].from}
  BY <1>1 DEF Idle, JobType, NoAttempt
<1>3. job[w].from \in refused' \/ Attempted(job[w].from, journal')
  <2>1. ASSUME NEW k \in Keys, job[w].from.stage = Upstream(k[1]), job[w].from.signal = k[2]
        PROVE  k = KeyOf(w)
    BY <2>1, <1>1, DispatchAssumption DEF KeyOf, Keys, Stages, Upstream
  <2>2. QED
    BY <2>1 DEF Attempted
<1>4. \A m \in b.decided \ refused' : Attempted(m, journal')
  BY <1>1, <1>2, <1>3, StaysAttempted DEF SafeJob, Around
<1>5. SafeJob(w, b, journal', published', refused')
  BY <1>2, <1>4 DEF SafeJob, Calls
<1>6. QED
  BY <1>2, <1>5, StepIsSafe DEF Decided

(* A worker that goes on with the same message has to justify the call it  *)
(* makes next.                                                             *)
LEMMA GoesOnIsSafe ==
  ASSUME DispatchInv, NEW w \in Workers, job[w].pc # "idle", NEW b \in JobType,
         job' = [job EXCEPT ![w] = b], Around(w),
         b.from = job[w].from, b.input = job[w].input, b.decided = job[w].decided,
         b.pc \in Calls \cup {"log"} => b.output \in Payloads,
         b.pc \in (Calls \ {"prepare"}) \cup {"log"} => Backed(KeyOf(w), b.output, journal'),
         b.pc \in Calls \ {"prepare"} => b.attempt # NoAttempt,
         b.pc \in {"publish", "confirm", "mark"} => Tried(KeyOf(w), b.attempt, journal'),
         b.pc = "confirm" => /\ b.message \in published'
                             /\ b.message.stage = StageOf[w]
                             /\ b.message.signal = job[w].from.signal
                             /\ b.message.payload = b.output
  PROVE  DispatchInv'
<1>1. /\ job[w] \in JobType /\ KeyOf(w) \in Keys
      /\ SafeJob(w, job[w], journal, published, refused)
      /\ SafeInput(KeyOf(w), job[w].input, journal)
  BY Busy
<1>2. SafeJob(w, job[w], journal', published', refused')
  BY <1>1, JobStaysSafe DEF Around, DispatchInv, DispatchTypeOK
<1>3. SafeInput(KeyOf(w), b.input, journal')
  <2>1. <<"aggregator", KeyOf(w)[2]>> \in Keys
    BY <1>1 DEF Keys, Stages
  <2>2. QED
    BY <1>1, <2>1 DEF SafeInput, Backed, Grows, Around
<1>4. b.pc \in Calls => SafeRequest(RequestOf(w, b), journal', published')
  BY <1>3 DEF SafeRequest, RequestOf, KeyOf, Calls
<1>5. SafeJob(w, b, journal', published', refused')
  BY <1>2, <1>4 DEF SafeJob, KeyOf
<1>6. QED
  BY <1>5, StepIsSafe

(* An attempt is drawn for a command on record.                            *)
LEMMA NewAttemptIsSafe ==
  ASSUME DispatchInv, NEW w \in Workers, job[w].pc # "idle", NEW output \in Payloads,
         NewAttempt(w, output), Around(w), Backed(KeyOf(w), output, journal')
  PROVE  DispatchInv'
<1> DEFINE b == [job[w] EXCEPT !.pc = "begin", !.output = output,
                               !.attempt = uuid + 1, !.try = 1]
<1>1. job \in [Workers -> JobType] /\ job[w] \in JobType /\ uuid \in Nat
  BY DEF DispatchInv, DispatchTypeOK
<1>2. uuid + 1 \in Nat /\ uuid + 1 # NoAttempt
  BY <1>1 DEF NoAttempt
<1>3. b \in JobType
  BY <1>1, <1>2 DEF JobType, Calls
<1>4. /\ b.pc = "begin" /\ b.output = output /\ b.attempt = uuid + 1
      /\ b.from = job[w].from /\ b.input = job[w].input /\ b.decided = job[w].decided
  BY <1>1 DEF JobType
<1>5. job' = [job EXCEPT ![w] = b]
  BY <1>1 DEF NewAttempt
<1>6. QED
  BY <1>2, <1>3, <1>4, <1>5, GoesOnIsSafe DEF Calls

----------------------------------------------------------------------------
(* The actions, one by one.                                                *)

(* Taking a message, first or again.                                       *)
LEMMA StartsIsSafe ==
  ASSUME DispatchInv, NEW w \in Workers, NEW m, StartsWith(w, m),
         faults' = faults \/ (faults > 0 /\ faults' = faults - 1)
  PROVE  DispatchInv'
<1>1. /\ job[w].pc = "idle" /\ m \in published /\ m.stage = Upstream(StageOf[w])
      /\ UNCHANGED <<databaseVars, acked, late, uuid, historyVars>>
  BY DEF StartsWith
<1>2. Around(w)
  BY <1>1, AroundNothing DEF historyVars
<1>3. /\ job \in [Workers -> JobType] /\ job[w] \in JobType /\ published \subseteq Message
      /\ SafeJob(w, job[w], journal, published, refused)
  BY DEF DispatchInv, DispatchTypeOK
<1>4. \A x \in job[w].decided \ refused' : Attempted(x, journal')
  BY <1>2, <1>3, StaysAttempted DEF SafeJob, Around
<1>5. m \in Message /\ m \in published'
  BY <1>2, <1>1, <1>3 DEF Around
<1>6. ASSUME StageOf[w] = "aggregator", NEW p \in Merges,
             job' = [job EXCEPT ![w].pc = "prepare", ![w].from = m,
                                ![w].input = p, ![w].output = p]
      PROVE  DispatchInv'
  <2> DEFINE b == [job[w] EXCEPT !.pc = "prepare", !.from = m, !.input = p, !.output = p]
  <2>1. p \in Payloads
    BY DispatchAssumption
  <2>2. /\ b \in JobType /\ b.pc = "prepare" /\ b.from = m /\ b.input = p /\ b.output = p
        /\ b.decided = job[w].decided
    BY <1>3, <1>5, <2>1 DEF JobType, Calls
  <2>3. job' = [job EXCEPT ![w] = b]
    BY <1>3, <1>6
  <2>4. SafeRequest(RequestOf(w, b), journal', published')
    BY <1>6, <2>2 DEF SafeRequest, RequestOf, SafeInput
  <2>5. SafeJob(w, b, journal', published', refused')
    BY <1>1, <1>4, <1>5, <1>6, <2>1, <2>2, <2>4 DEF SafeJob, Calls
  <2>6. QED
    BY <1>2, <2>2, <2>3, <2>5, StepIsSafe
<1>7. ASSUME StageOf[w] = "gateway",
             job' = [job EXCEPT ![w].pc = "read", ![w].from = m, ![w].input = m.payload]
      PROVE  DispatchInv'
  <2> DEFINE b == [job[w] EXCEPT !.pc = "read", !.from = m, !.input = m.payload]
  <2>1. m.payload \in Payloads
    <3>1. SafeMessage(m, journal) /\ m.stage = "aggregator"
      BY <1>1, <1>7 DEF DispatchInv, Upstream
    <3>2. <<m.stage, m.signal>> \in Keys
      BY <3>1, <1>5 DEF Message, Keys, Stages
    <3>3. QED
      BY <3>1, <3>2 DEF SafeMessage, Backed, DispatchInv, DispatchTypeOK, JournalRow
  <2>2. /\ b \in JobType /\ b.pc = "read" /\ b.from = m /\ b.input = m.payload
        /\ b.decided = job[w].decided
    BY <1>3, <1>5, <2>1 DEF JobType, Calls
  <2>3. job' = [job EXCEPT ![w] = b]
    BY <1>3, <1>7
  <2>4. SafeJob(w, b, journal', published', refused')
    BY <1>1, <1>4, <1>5, <2>1, <2>2 DEF SafeJob, Calls
  <2>5. QED
    BY <1>2, <2>2, <2>3, <2>4, StepIsSafe
<1>8. QED
  BY <1>6, <1>7 DEF StartsWith

(* A refusal.                                                              *)
LEMMA RefuseIsSafe ==
  ASSUME DispatchInv, NEW w \in Workers, Refuse(w)
  PROVE  DispatchInv'
<1>1. job[w].pc # "idle" /\ Decided(w) /\ job[w].from \in refused'
  BY DEF Refuse
<1>2. Around(w)
  BY <1>1, AroundNothing DEF Refuse
<1>3. QED
  BY <1>1, <1>2, DecidedIsSafe

(* The gateway resumes: a row that is not prepared any more was attempted, *)
(* and a prepared one holds the command of the next attempt.               *)
LEMMA ResumeIsSafe ==
  ASSUME DispatchInv, NEW w \in Workers, Resume(w)
  PROVE  DispatchInv'
<1>1. /\ job[w].pc = "read" /\ KeyOf(w) \in Keys /\ job[w] \in JobType
      /\ job \in [Workers -> JobType] /\ journal' = journal
      /\ RowOf(w) = journal[KeyOf(w)]
      /\ RowOf(w) # NoRow => RowOf(w) \in JournalRow(Message)
  BY Busy DEF Resume, DispatchInv, DispatchTypeOK, databaseVars, RowOf
<1>2. CASE RowOf(w) = NoRow /\ Goes(w, "order") /\ UNCHANGED <<uuid, failed>>
  <2> DEFINE b == [job[w] EXCEPT !.pc = "order", !.try = 1]
  <2>1. /\ b \in JobType /\ b.pc = "order" /\ b.from = job[w].from
        /\ b.input = job[w].input /\ b.decided = job[w].decided
    BY <1>1 DEF JobType, Calls
  <2>2. job' = [job EXCEPT ![w] = b]
    BY <1>1, <1>2 DEF Goes
  <2>3. Around(w)
    BY <1>1, <1>2, AroundNothing DEF Resume
  <2>4. QED
    BY <1>1, <2>1, <2>2, <2>3, GoesOnIsSafe DEF Calls
<1>3. CASE HardFailure(w)
  <2>1. Around(w)
    BY <1>1, <1>3, AroundNothing DEF Resume, HardFailure
  <2>2. QED
    BY <1>3, <2>1, DiesIsSafe DEF HardFailure
<1>4. CASE RowOf(w) # NoRow /\ Replay(RowOf(w)) # "prepared" /\ Decided(w) /\ UNCHANGED <<uuid, failed>>
  <2>1. Around(w)
    BY <1>1, <1>4, AroundNothing DEF Resume
  <2>2. QED
    BY <1>1, <1>4, <2>1, DecidedIsSafe DEF Replay
<1>5. CASE /\ RowOf(w) # NoRow /\ Replay(RowOf(w)) = "prepared"
           /\ NewAttempt(w, RowOf(w).output) /\ UNCHANGED failed
  <2>1. Around(w)
    BY <1>1, <1>5, AroundNothing DEF Resume, NewAttempt
  <2>2. RowOf(w).output \in Payloads /\ Backed(KeyOf(w), RowOf(w).output, journal')
    BY <1>1, <1>5 DEF JournalRow, Backed
  <2>3. QED
    BY <1>1, <1>5, <2>1, <2>2, NewAttemptIsSafe
<1>6. QED
  BY <1>2, <1>3, <1>4, <1>5 DEF Resume

(* The gateway builds the order.                                           *)
LEMMA BuildOrderIsSafe ==
  ASSUME DispatchInv, NEW w \in Workers, BuildOrder(w)
  PROVE  DispatchInv'
<1>1. job[w].pc = "order" /\ job[w] \in JobType /\ job \in [Workers -> JobType]
  BY DEF BuildOrder, DispatchInv, DispatchTypeOK
<1>2. PICK p \in Orders : job' = [job EXCEPT ![w].pc = "prepare", ![w].output = p, ![w].try = 1]
  BY DEF BuildOrder
<1> DEFINE b == [job[w] EXCEPT !.pc = "prepare", !.output = p, !.try = 1]
<1>3. p \in Payloads
  BY DispatchAssumption
<1>4. /\ b \in JobType /\ b.pc = "prepare" /\ b.output = p /\ b.from = job[w].from
      /\ b.input = job[w].input /\ b.decided = job[w].decided
  BY <1>1, <1>3 DEF JobType, Calls
<1>5. job' = [job EXCEPT ![w] = b]
  BY <1>1, <1>2
<1>6. Around(w)
  BY <1>1, AroundNothing DEF BuildOrder, historyVars
<1>7. QED
  BY <1>1, <1>3, <1>4, <1>5, <1>6, GoesOnIsSafe DEF Calls

(* A row that is not prepared for the payloads it was to be prepared for   *)
(* was attempted already.                                                  *)
LEMMA PrepareIsSafe ==
  ASSUME DispatchInv, NEW w \in Workers, Prepare(w)
  PROVE  DispatchInv'
<1> DEFINE r == Request(w)
<1> DEFINE row == RowAfter(RowOf(w), r)
<1> DEFINE outcome == PrepareOutcome(row, r.input, r.output)
<1>1. /\ job[w].pc = "prepare" /\ Executed(r) /\ UNCHANGED <<acked, late, faults, refused>>
      /\ r.call = "prepare" /\ r.output = job[w].output
  BY DEF Prepare, Request
<1>2. job[w].pc \in Calls /\ job[w].pc # "idle"
  BY <1>1 DEF Calls
<1>3. /\ job[w] \in JobType /\ job \in [Workers -> JobType] /\ KeyOf(w) \in Keys
      /\ job[w].output \in Payloads
  BY <1>2, Busy, Calling DEF DispatchInv, DispatchTypeOK
<1>4. journal'[KeyOf(w)] = row
  BY <1>1, <1>2, CalledRow
<1>5. row # NoRow
  <2>1. /\ RowOf(w) \in Rows /\ (RowOf(w) # NoRow => WellFormed(RowOf(w)))
        /\ r \in RequestType
    BY <1>2, <1>3, Calling DEF DispatchInv, DispatchTypeOK, RowOf, Rows
  <2>2. QED
    BY <1>1, <2>1, RowAfterTypes, MessageAssumption
<1>6. CASE outcome = "payload_mismatch" /\ HardFailure(w)
  <2>1. Around(w)
    BY <1>1, <1>2, <1>6, AroundCall DEF HardFailure
  <2>2. QED
    BY <1>6, <2>1, DiesIsSafe DEF HardFailure
<1>7. CASE outcome \in {"confirmed", "ambiguous"} /\ Decided(w) /\ UNCHANGED <<uuid, failed>>
  <2>1. Around(w)
    BY <1>1, <1>2, <1>7, AroundCall
  <2>2. row.status # "prepared"
    BY <1>7 DEF PrepareOutcome, Replay
  <2>3. QED
    BY <1>2, <1>4, <1>5, <1>7, <2>1, <2>2, DecidedIsSafe
<1>8. ASSUME outcome = "prepared", UNCHANGED failed,
             \/ StageOf[w] = "aggregator" /\ Goes(w, "log") /\ UNCHANGED uuid
             \/ StageOf[w] = "gateway" /\ NewAttempt(w, row.output)
      PROVE  DispatchInv'
  <2>1. Around(w)
    BY <1>1, <1>2, <1>8, AroundCall DEF NewAttempt
  <2>2. row.output = job[w].output /\ Backed(KeyOf(w), job[w].output, journal')
    BY <1>1, <1>4, <1>5, <1>8 DEF PrepareOutcome, Backed
  <2>3. CASE Goes(w, "log")
    <3> DEFINE b == [job[w] EXCEPT !.pc = "log", !.try = 1]
    <3>1. /\ b \in JobType /\ b.pc = "log" /\ b.output = job[w].output
          /\ b.from = job[w].from /\ b.input = job[w].input /\ b.decided = job[w].decided
      BY <1>3 DEF JobType, Calls
    <3>2. job' = [job EXCEPT ![w] = b]
      BY <1>3, <2>3 DEF Goes
    <3>3. QED
      BY <1>2, <1>3, <2>1, <2>2, <3>1, <3>2, GoesOnIsSafe DEF Calls
  <2>4. CASE NewAttempt(w, row.output)
    BY <1>2, <1>3, <2>1, <2>2, <2>4, NewAttemptIsSafe
  <2>5. QED
    BY <1>8, <2>3, <2>4
<1>9. QED
  BY <1>6, <1>7, <1>8 DEF Prepare

(* The aggregator's log is written.                                        *)
LEMMA LogIsSafe ==
  ASSUME DispatchInv, NEW w \in Workers, Log(w)
  PROVE  DispatchInv'
<1>1. job[w].pc = "log" /\ NewAttempt(w, job[w].output) /\ UNCHANGED databaseVars
  BY DEF Log
<1>2. Around(w)
  BY <1>1, AroundNothing DEF Log, NewAttempt, historyVars
<1>3. job[w].output \in Payloads /\ Backed(KeyOf(w), job[w].output, journal')
  BY <1>1, Busy DEF SafeJob, KeyOf, Backed, databaseVars
<1>4. QED
  BY <1>1, <1>2, <1>3, NewAttemptIsSafe

(* The attempt begins: it is on record now, or another one is.             *)
LEMMA BeginIsSafe ==
  ASSUME DispatchInv, NEW w \in Workers, Begin(w)
  PROVE  DispatchInv'
<1> DEFINE row == RowOf(w)
<1>1. job[w].pc = "begin" /\ Executed(Request(w)) /\ job[w].pc \in Calls /\ job[w].pc # "idle"
  BY DEF Begin, Calls
<1>2. /\ job[w] \in JobType /\ job \in [Workers -> JobType] /\ KeyOf(w) \in Keys
      /\ job[w].output \in Payloads /\ SafeRequest(Request(w), journal, published)
  BY <1>1, Busy, Calling DEF DispatchInv, DispatchTypeOK
<1>3. /\ row # NoRow /\ row.output = job[w].output /\ job[w].attempt # NoAttempt
      /\ row \in JournalRow(Message)
  BY <1>1, <1>2 DEF SafeRequest, Request, Backed, RowOf, DispatchInv, DispatchTypeOK
<1>4. journal'[KeyOf(w)] = BeginRow(row, job[w].attempt)
  BY <1>1, CalledRow DEF RowAfter, Request
<1>5. /\ journal'[KeyOf(w)] # NoRow /\ journal'[KeyOf(w)].status # "prepared"
      /\ journal'[KeyOf(w)].output = job[w].output
  <2>1. journal'[KeyOf(w)] \in JournalRow(Message)
    BY <1>3, <1>4, <1>2 DEF BeginRow, JournalRow, JobType
  <2>2. QED
    BY <1>3, <1>4, <2>1, MessageAssumption DEF BeginRow, JournalRow
<1>6. Around(w)
  BY <1>1, AroundCall DEF Begin, historyVars
<1>7. CASE BeginOutcome(row, job[w].attempt) = "attempt_started" /\ Goes(w, "publish")
  <2> DEFINE b == [job[w] EXCEPT !.pc = "publish", !.try = 1]
  <2>1. /\ b \in JobType /\ b.pc = "publish" /\ b.output = job[w].output
        /\ b.attempt = job[w].attempt
        /\ b.from = job[w].from /\ b.input = job[w].input /\ b.decided = job[w].decided
    BY <1>2 DEF JobType, Calls
  <2>2. job' = [job EXCEPT ![w] = b]
    BY <1>2, <1>7 DEF Goes
  <2>3. journal'[KeyOf(w)].attempt = job[w].attempt
    BY <1>3, <1>4, <1>7 DEF BeginOutcome, BeginRow, Replay, JournalRow
  <2>4. Backed(KeyOf(w), b.output, journal') /\ Tried(KeyOf(w), b.attempt, journal')
    BY <1>5, <2>1, <2>3 DEF Backed, Tried
  <2>5. QED
    BY <1>1, <1>2, <1>3, <1>6, <2>1, <2>2, <2>4, GoesOnIsSafe DEF Calls
<1>8. CASE Decided(w)
  BY <1>1, <1>5, <1>6, <1>8, DecidedIsSafe
<1>9. QED
  BY <1>7, <1>8 DEF Begin

(* What is on record when a worker publishes, confirms or marks.           *)
LEMMA OnRecord ==
  ASSUME DispatchInv, NEW w \in Workers, job[w].pc \in {"publish", "confirm", "mark"}
  PROVE  /\ job[w].pc \in Calls /\ job[w].pc # "idle" /\ KeyOf(w) \in Keys
         /\ job[w] \in JobType /\ job \in [Workers -> JobType]
         /\ job[w].output \in Payloads /\ job[w].attempt # NoAttempt
         /\ journal[KeyOf(w)] # NoRow /\ journal[KeyOf(w)] \in JournalRow(Message)
         /\ journal[KeyOf(w)].status # "prepared"
         /\ journal[KeyOf(w)].output = job[w].output
         /\ journal[KeyOf(w)].attempt = job[w].attempt
<1>1. job[w].pc \in Calls /\ job[w].pc # "idle"
  BY DEF Calls
<1>2. /\ job[w] \in JobType /\ job \in [Workers -> JobType] /\ KeyOf(w) \in Keys
      /\ job[w].output \in Payloads /\ SafeRequest(Request(w), journal, published)
  BY <1>1, Busy, Calling DEF DispatchInv, DispatchTypeOK
<1>3. /\ Backed(KeyOf(w), job[w].output, journal) /\ job[w].attempt # NoAttempt
      /\ Tried(KeyOf(w), job[w].attempt, journal)
  BY <1>2 DEF SafeRequest, Request
<1>4. QED
  BY <1>1, <1>2, <1>3 DEF Backed, Tried, DispatchInv, DispatchTypeOK

(* It is still there after any step.                                       *)
LEMMA StaysOnRecord ==
  ASSUME DispatchInv, NEW w \in Workers, job[w].pc \in {"publish", "confirm", "mark"},
         Around(w)
  PROVE  /\ journal'[KeyOf(w)] # NoRow /\ journal'[KeyOf(w)].status # "prepared"
         /\ Backed(KeyOf(w), job[w].output, journal')
         /\ Tried(KeyOf(w), job[w].attempt, journal')
BY OnRecord DEF Around, Grows, Backed, Tried

(* The publication.                                                        *)
LEMMA PublishIsSafe ==
  ASSUME DispatchInv, NEW w \in Workers, Publish(w)
  PROVE  DispatchInv'
<1> DEFINE b == [job[w] EXCEPT !.pc = "confirm", !.message = MessageOf(Request(w)), !.try = 1]
<1>1. job[w].pc = "publish" /\ Executed(Request(w)) /\ job[w].pc \in Calls
  BY DEF Publish, Calls
<1>2. Around(w)
  BY <1>1, AroundCall DEF Publish, historyVars
<1>3. MessageOf(Request(w)) \in Message /\ MessageOf(Request(w)) \in published'
  BY <1>1, <1>2 DEF Executed, Request, Around, DatabaseInv, DatabaseTypeOK
<1>4. /\ MessageOf(Request(w)).stage = StageOf[w]
      /\ MessageOf(Request(w)).signal = job[w].from.signal
      /\ MessageOf(Request(w)).payload = job[w].output
  BY DEF MessageOf, Request, KeyOf
<1>5. /\ b \in JobType /\ b.pc = "confirm" /\ b.message = MessageOf(Request(w))
      /\ b.output = job[w].output /\ b.attempt = job[w].attempt
      /\ b.from = job[w].from /\ b.input = job[w].input /\ b.decided = job[w].decided
  BY <1>1, <1>3, OnRecord DEF JobType, Calls
<1>6. job' = [job EXCEPT ![w] = b]
  BY <1>1, OnRecord DEF Publish
<1>7. QED
  BY <1>1, <1>2, <1>3, <1>4, <1>5, <1>6, OnRecord, StaysOnRecord, GoesOnIsSafe DEF Calls

(* The confirmation.                                                       *)
LEMMA ConfirmIsSafe ==
  ASSUME DispatchInv, NEW w \in Workers, Confirm(w)
  PROVE  DispatchInv'
<1>1. job[w].pc = "confirm" /\ Executed(Request(w)) /\ job[w].pc \in Calls
  BY DEF Confirm, Calls
<1>2. Around(w)
  BY <1>1, AroundCall DEF Confirm, historyVars
<1>3. CASE Dies(w)
  BY <1>2, <1>3, DiesIsSafe
<1>4. CASE Decided(w)
  BY <1>1, <1>2, <1>4, OnRecord, StaysOnRecord, DecidedIsSafe
<1>5. QED
  BY <1>3, <1>4 DEF Confirm

(* The mark of an ambiguous attempt.                                       *)
LEMMA MarkIsSafe ==
  ASSUME DispatchInv, NEW w \in Workers, Mark(w)
  PROVE  DispatchInv'
<1>1. job[w].pc = "mark" /\ Executed(Request(w)) /\ job[w].pc \in Calls /\ Decided(w)
  BY DEF Mark, Calls
<1>2. Around(w)
  BY <1>1, AroundCall DEF Mark, historyVars
<1>3. QED
  BY <1>1, <1>2, OnRecord, StaysOnRecord, DecidedIsSafe

(* The acknowledgement: what was decided stays attempted.                  *)
LEMMA AcknowledgeIsSafe ==
  ASSUME DispatchInv, NEW w \in Workers, Acknowledge(w)
  PROVE  DispatchInv'
<1>1. Around(w)
  BY AroundNothing DEF Acknowledge, historyVars
<1>2. QED
  BY <1>1, DiesIsSafe DEF Acknowledge

(* A call is repeated.                                                     *)
LEMMA RetryIsSafe ==
  ASSUME DispatchInv, NEW w \in Workers, Retry(w)
  PROVE  DispatchInv'
<1> DEFINE b == [job[w] EXCEPT !.try = @ + 1]
<1>1. /\ job[w].pc \in Calls /\ job[w].pc # "idle" /\ UNCHANGED databaseVars
      /\ late' = late \cup Abandoned(w)
  BY DEF Retry, Calls
<1>2. job[w] \in JobType /\ job \in [Workers -> JobType]
      /\ SafeJob(w, job[w], journal, published, refused)
  BY DEF DispatchInv, DispatchTypeOK
<1>3. Around(w)
  BY <1>1, AroundNothing DEF Retry, Fault, historyVars
<1>4. job[w].try + 1 \in Nat
  BY <1>2 DEF JobType
<1>5. /\ b \in JobType /\ b.pc = job[w].pc /\ b.output = job[w].output
      /\ b.attempt = job[w].attempt /\ b.message = job[w].message
      /\ b.from = job[w].from /\ b.input = job[w].input /\ b.decided = job[w].decided
  BY <1>2, <1>4 DEF JobType
<1>6. job' = [job EXCEPT ![w] = b]
  BY <1>2 DEF Retry
<1>7. SafeJob(w, b, journal, published, refused)
  BY <1>2, <1>5 DEF SafeJob, RequestOf, SafeRequest
<1>8. SafeJob(w, b, journal', published', refused')
  BY <1>3, <1>5, <1>7, JobStaysSafe DEF Around, DispatchInv, DispatchTypeOK
<1>9. QED
  BY <1>3, <1>5, <1>6, <1>8, StepIsSafe

(* A call fails for good.                                                  *)
LEMMA GiveUpIsSafe ==
  ASSUME DispatchInv, NEW w \in Workers, GiveUp(w)
  PROVE  DispatchInv'
<1>1. Around(w)
  BY AroundNothing DEF GiveUp, Fault, historyVars
<1>2. CASE Dies(w)
  BY <1>1, <1>2, DiesIsSafe
<1>3. CASE job[w].pc \in {"publish", "confirm"} /\ Goes(w, "mark")
  <2> DEFINE b == [job[w] EXCEPT !.pc = "mark", !.try = 1]
  <2>1. /\ b \in JobType /\ b.pc = "mark" /\ b.output = job[w].output
        /\ b.attempt = job[w].attempt
        /\ b.from = job[w].from /\ b.input = job[w].input /\ b.decided = job[w].decided
    BY <1>3, OnRecord DEF JobType, Calls
  <2>2. job' = [job EXCEPT ![w] = b]
    BY <1>3, OnRecord DEF Goes
  <2>3. QED
    BY <1>1, <1>3, <2>1, <2>2, OnRecord, StaysOnRecord, GoesOnIsSafe DEF Calls
<1>4. CASE job[w].pc = "mark" /\ Decided(w)
  BY <1>1, <1>4, OnRecord, StaysOnRecord, DecidedIsSafe
<1>5. QED
  BY <1>2, <1>3, <1>4 DEF GiveUp

(* A process ends.                                                         *)
LEMMA CrashIsSafe ==
  ASSUME DispatchInv, NEW w \in Workers, Crash(w)
  PROVE  DispatchInv'
<1>1. Around(w)
  BY AroundNothing DEF Crash, Fault, historyVars
<1>2. QED
  BY <1>1, DiesIsSafe DEF Crash

(* An abandoned call is executed after all.                                *)
LEMMA ExecuteLateIsSafe ==
  ASSUME DispatchInv, NEW r \in late, ExecuteLate(r)
  PROVE  DispatchInv'
<1>1. /\ r \in RequestType /\ SafeRequest(r, journal, published) /\ Executed(r)
      /\ late' \subseteq late /\ UNCHANGED <<acked, job, uuid, faults, historyVars>>
  BY DEF ExecuteLate, DispatchInv, DispatchTypeOK
<1>2. DatabaseInv' /\ Grows(journal, journal') /\ published \subseteq published'
  BY <1>1, DatabaseIsSound, ExecutedIsSound
<1>3. \A x \in late' : x \in RequestType /\ SafeRequest(x, journal', published')
  BY <1>1, <1>2, RequestStaysSafe DEF DispatchInv, DispatchTypeOK
<1>4. \A w \in Workers : SafeJob(w, job'[w], journal', published', refused')
  BY <1>1, <1>2, JobStaysSafe DEF DispatchInv, DispatchTypeOK, historyVars
<1>5. \A m \in acked' \ refused' : Attempted(m, journal')
  BY <1>1, <1>2, StaysAttempted DEF DispatchInv, historyVars
<1>6. DispatchTypeOK'
  BY <1>1, <1>2, <1>3
  DEF DispatchInv, DispatchTypeOK, DatabaseInv, DatabaseTypeOK, SafeRow, Rows, historyVars
<1>7. QED
  BY <1>2, <1>3, <1>4, <1>5, <1>6 DEF DispatchInv, DatabaseInv

----------------------------------------------------------------------------
(* The invariant.                                                          *)

(* It holds initially: what is published are source messages, and nothing  *)
(* is on record.                                                           *)
LEMMA InitIsSafe == Init => DispatchInv
<1>1. SUFFICES ASSUME Init PROVE DispatchInv
  OBVIOUS
<1>2. SourceMessages \subseteq Message /\ \A m \in SourceMessages : m.stage = "source"
  BY DEF SourceMessages, Message, NoAttempt
<1>3. \A w \in Workers : Idle \in JobType /\ SafeJob(w, Idle, journal, published, refused)
  BY IdleIsSafe
<1>4. DispatchTypeOK
  BY <1>1, <1>2, <1>3, DispatchAssumption DEF Init, DispatchTypeOK, NoAttempt
<1>5. QED
  BY <1>1, <1>2, <1>3, <1>4 DEF Init, DispatchInv, SafeRow, SafeMessage

(* Every step preserves it.                                                *)
LEMMA NextIsSafe == DispatchInv /\ [Next]_dispatchVars => DispatchInv'
<1>1. SUFFICES ASSUME DispatchInv, [Next]_dispatchVars PROVE DispatchInv'
  OBVIOUS
<1>2. ASSUME NEW w \in Workers, Work(w) PROVE DispatchInv'
  <2>1. ASSUME NEW m \in published, Take(w, m) PROVE DispatchInv'
    BY <1>1, <2>1, StartsIsSafe DEF Take
  <2>2. CASE Refuse(w)
    BY <1>1, <2>2, RefuseIsSafe
  <2>3. CASE Resume(w)
    BY <1>1, <2>3, ResumeIsSafe
  <2>4. CASE BuildOrder(w)
    BY <1>1, <2>4, BuildOrderIsSafe
  <2>5. CASE Prepare(w)
    BY <1>1, <2>5, PrepareIsSafe
  <2>6. CASE Log(w)
    BY <1>1, <2>6, LogIsSafe
  <2>7. CASE Begin(w)
    BY <1>1, <2>7, BeginIsSafe
  <2>8. CASE Publish(w)
    BY <1>1, <2>8, PublishIsSafe
  <2>9. CASE Confirm(w)
    BY <1>1, <2>9, ConfirmIsSafe
  <2>10. CASE Mark(w)
    BY <1>1, <2>10, MarkIsSafe
  <2>11. CASE Acknowledge(w)
    BY <1>1, <2>11, AcknowledgeIsSafe
  <2>12. QED
    BY <1>2, <2>1, <2>2, <2>3, <2>4, <2>5, <2>6, <2>7, <2>8, <2>9, <2>10, <2>11 DEF Work
<1>3. ASSUME NEW w \in Workers, NEW m \in published, Redeliver(w, m) PROVE DispatchInv'
  BY <1>1, <1>3, StartsIsSafe DEF Redeliver, Fault
<1>4. ASSUME NEW w \in Workers, Retry(w) \/ GiveUp(w) \/ Crash(w) PROVE DispatchInv'
  BY <1>1, <1>4, RetryIsSafe, GiveUpIsSafe, CrashIsSafe
<1>5. ASSUME NEW r \in late, ExecuteLate(r) PROVE DispatchInv'
  BY <1>1, <1>5, ExecuteLateIsSafe
<1>6. CASE UNCHANGED dispatchVars
  BY <1>1, <1>6
  DEF dispatchVars, databaseVars, historyVars, DispatchInv, DispatchTypeOK
<1>7. QED
  BY <1>1, <1>2, <1>3, <1>4, <1>5, <1>6 DEF Next

(* The inductive invariant holds for any signals, payloads, workers and    *)
(* number of faults.                                                       *)
THEOREM DispatchSafe == Spec => []DispatchInv
<1>1. QED
  BY InitIsSafe, NextIsSafe, PTL DEF Spec

(* The journal, the topics, the workers and the abandoned calls keep their *)
(* types, and every row satisfies the table's CHECK constraint.            *)
THEOREM DispatchTypes == Spec => []DispatchTypeOK
<1>1. DispatchInv => DispatchTypeOK
  BY DEF DispatchInv
<1>2. QED
  BY <1>1, DispatchSafe, PTL

(* The durable receipt: a confirmed row names a message that was published *)
(* with the command that was frozen.                                       *)
THEOREM DispatchConfirmed == Spec => []ConfirmedWasPublished
<1>1. DispatchInv => ConfirmedWasPublished
  BY DEF DispatchInv, SafeRow, ConfirmedWasPublished
<1>2. QED
  BY <1>1, DispatchSafe, PTL

(* No message that the gates let through is acknowledged before an attempt *)
(* at its command is on record.                                            *)
THEOREM DispatchAttempted == Spec => []AcknowledgedWasAttempted
<1>1. DispatchInv => AcknowledgedWasAttempted
  BY DEF DispatchInv, Attempted, AcknowledgedWasAttempted
<1>2. QED
  BY <1>1, DispatchSafe, PTL

(* Every copy of a signal carries the input the gateway has on record.     *)
THEOREM DispatchReplays == Spec => []ReplayAgrees
<1>1. ASSUME DispatchInv, NEW m \in published, m.stage = "aggregator",
             journal[<<"gateway", m.signal>>] # NoRow
      PROVE  journal[<<"gateway", m.signal>>].input = m.payload
  <2>1. m \in Message /\ <<"gateway", m.signal>> \in Keys
    BY <1>1 DEF DispatchInv, DispatchTypeOK, Message, Keys, Stages
  <2>2. journal[<<"aggregator", m.signal>>].output = m.payload
    BY <1>1 DEF DispatchInv, SafeMessage, Backed
  <2>3. Backed(<<"aggregator", m.signal>>, journal[<<"gateway", m.signal>>].input, journal)
    BY <1>1, <2>1 DEF DispatchInv, SafeRow, SafeInput
  <2>4. QED
    BY <2>2, <2>3 DEF Backed
<1>2. DispatchInv => ReplayAgrees
  BY <1>1 DEF ReplayAgrees
<1>3. QED
  BY <1>2, DispatchSafe, PTL

----------------------------------------------------------------------------
(* The promise.                                                            *)

(* Every step leaves the database alone or executes one safe call.         *)
LEMMA NextExecutes ==
  ASSUME DispatchInv, [Next]_dispatchVars
  PROVE  \/ UNCHANGED databaseVars
         \/ \E r \in RequestType : SafeRequest(r, journal, published) /\ Executed(r)
<1>1. ASSUME NEW w \in Workers, job[w].pc \in Calls, Executed(Request(w))
      PROVE  \E r \in RequestType : SafeRequest(r, journal, published) /\ Executed(r)
  BY <1>1, Calling
<1>2. ASSUME NEW w \in Workers, Work(w)
      PROVE  UNCHANGED databaseVars \/ (job[w].pc \in Calls /\ Executed(Request(w)))
  BY <1>2
  DEF Work, Take, StartsWith, Refuse, Resume, BuildOrder, Prepare, Log, Begin, Publish,
      Confirm, Mark, Acknowledge, Calls
<1>3. ASSUME NEW w \in Workers, NEW m \in published, Redeliver(w, m)
      PROVE  UNCHANGED databaseVars
  BY <1>3 DEF Redeliver, StartsWith
<1>4. ASSUME NEW w \in Workers, Retry(w) \/ GiveUp(w) \/ Crash(w)
      PROVE  UNCHANGED databaseVars
  BY <1>4 DEF Retry, GiveUp, Crash
<1>5. ASSUME NEW r \in late, ExecuteLate(r)
      PROVE  r \in RequestType /\ SafeRequest(r, journal, published) /\ Executed(r)
  BY <1>5 DEF DispatchInv, DispatchTypeOK, ExecuteLate
<1>6. QED
  BY <1>1, <1>2, <1>3, <1>4, <1>5 DEF Next, dispatchVars, databaseVars

(* A call on a row is a choice, an attempt, a delivery, or nothing to see. *)
LEMMA ExecutedIsPromised ==
  ASSUME DispatchInv, NEW r \in RequestType,
         SafeRequest(r, journal, published), Executed(r)
  PROVE  Promise!PromiseNext \/ UNCHANGED Promise!promiseVars
<1> DEFINE row == journal[r.key]
<1> DEFINE new == RowAfter(row, r)
<1> DEFINE commandOf(x) == IF x = NoRow THEN NoPayload ELSE x.output
<1> DEFINE attemptOf(x) == IF x = NoRow THEN NoAttempt ELSE x.attempt
<1>1. /\ r.key \in Keys /\ row \in Rows /\ (row # NoRow => WellFormed(row))
      /\ journal \in [Keys -> Rows] /\ r.call \in Calls
      /\ r.output \in Payloads /\ r.attempt \in Nat
  BY DEF RequestType, DispatchInv, DispatchTypeOK, Rows
<1>2. journal' = [journal EXCEPT ![r.key] = new]
  BY DEF Executed
<1>3. r.call # "prepare" => row # NoRow /\ row.output = r.output /\ r.attempt # NoAttempt
  BY DEF SafeRequest, Backed
<1>4. new # NoRow
  <2>1. r.call = "confirm" => r.message \in Message
    BY DEF SafeRequest, DispatchInv, DispatchTypeOK
  <2>2. new \in JournalRow(Message)
    BY <1>1, <1>3, <2>1, RowAfterTypes
  <2>3. QED
    BY <2>2, MessageAssumption
<1>5. CASE r.call = "prepare" /\ row = NoRow
  <2>1. new.output = r.output /\ new.attempt = NoAttempt /\ new # NoRow
    <3>1. new = [ input |-> r.input, output |-> r.output, status |-> "prepared",
                  attempt |-> NoAttempt, message |-> NoMessage ]
      BY <1>5, RowAfterPrepares
    <3>2. QED
      BY <1>4, <3>1
  <2>2. published' = published
    BY <1>5 DEF Executed
  <2>3. Promise!Choose(r.key, r.output)
    BY <1>1, <1>2, <1>5, <2>1, <2>2 DEF Promise!Choose
  <2>4. QED
    BY <1>1, <2>3 DEF Promise!PromiseNext
<1>6. CASE r.call = "prepare" /\ row # NoRow
  <2>1. journal' = journal /\ published' = published
    BY <1>1, <1>2, <1>6 DEF RowAfter, PrepareRow, Executed
  <2>2. QED
    BY <2>1 DEF Promise!promiseVars
<1>7. CASE r.call = "begin" /\ row.status = "prepared"
  <2>1. row \in JournalRow(Message) /\ row.attempt = NoAttempt
    BY <1>1, <1>3, <1>7 DEF WellFormed, Rows
  <2>2. new.output = row.output /\ new.attempt = r.attempt /\ new # NoRow
    <3>1. new.output = row.output /\ new.attempt = r.attempt
      BY <1>7, <2>1 DEF RowAfter, BeginRow, JournalRow
    <3>2. QED
      BY <1>4, <3>1
  <2>3. published' = published
    BY <1>7 DEF Executed
  <2>4. Promise!Attempt(r.key)
    <3> HIDE DEF new
    <3>1. commandOf(row) # NoPayload /\ attemptOf(row) = NoAttempt
      BY <1>1, <1>3, <1>7, <2>1, DispatchAssumption
    <3>2. \A k \in Keys : /\ commandOf(journal'[k]) = commandOf(journal[k])
                          /\ attemptOf(journal'[k]) =
                               IF k = r.key THEN r.attempt ELSE attemptOf(journal[k])
      BY <1>1, <1>2, <1>3, <1>7, <2>2
    <3>3. QED
      BY <1>1, <1>3, <1>7, <2>3, <3>1, <3>2 DEF Promise!Attempt
  <2>5. QED
    BY <1>1, <2>4 DEF Promise!PromiseNext
<1>8. CASE r.call \in {"confirm", "mark"} \/ (r.call = "begin" /\ row.status # "prepared")
  <2>1. row \in JournalRow(Message)
    BY <1>1, <1>3, <1>8 DEF Rows
  <2>2. new.output = row.output /\ new.attempt = row.attempt /\ new # NoRow
    <3>1. new.output = row.output /\ new.attempt = row.attempt
      BY <1>8, <2>1 DEF RowAfter, BeginRow, ConfirmRow, MarkRow, JournalRow
    <3>2. QED
      BY <1>4, <3>1
  <2>3. published' = published
    BY <1>8 DEF Executed
  <2>4. \A k \in Keys : /\ commandOf(journal'[k]) = commandOf(journal[k])
                        /\ attemptOf(journal'[k]) = attemptOf(journal[k])
    <3> HIDE DEF new
    <3>1. QED
      BY <1>1, <1>2, <1>3, <1>8, <2>2
  <2>5. QED
    BY <2>3, <2>4 DEF Promise!promiseVars
<1>9. CASE r.call = "publish"
  <2>1. journal' = journal /\ published' = published \cup {MessageOf(r)}
    BY <1>1, <1>2, <1>9 DEF RowAfter, Executed
  <2>2. row # NoRow /\ row.attempt = r.attempt /\ row.output = r.output
    BY <1>3, <1>9 DEF SafeRequest, Tried
  <2>3. /\ MessageOf(r).stage # "source"
        /\ << <<MessageOf(r).stage, MessageOf(r).signal>>, MessageOf(r).payload,
              MessageOf(r).attempt >> = <<r.key, row.output, row.attempt>>
    BY <1>1, <2>2 DEF MessageOf, Keys, Stages
  <2>4. Promise!Deliver(r.key)
    BY <1>1, <1>3, <1>9, <2>1, <2>2, <2>3 DEF Promise!Deliver
  <2>5. QED
    BY <1>1, <2>4 DEF Promise!PromiseNext
<1>10. QED
  BY <1>1, <1>5, <1>6, <1>7, <1>8, <1>9 DEF Calls

(* The journal, the two runners and their failures keep the promise: one   *)
(* command, one attempt, and nothing else delivered.                       *)
THEOREM DispatchKeepsPromise == Spec => KeepsPromise
<1>1. Init => Promise!PromiseInit
  BY DEF Init, Promise!PromiseInit, SourceMessages
<1>2. DispatchInv /\ [Next]_dispatchVars => [Promise!PromiseNext]_(Promise!promiseVars)
  <2>1. SUFFICES ASSUME DispatchInv, [Next]_dispatchVars
                 PROVE  Promise!PromiseNext \/ UNCHANGED Promise!promiseVars
    BY DEF Promise!promiseVars
  <2>2. CASE UNCHANGED databaseVars
    BY <2>2 DEF databaseVars, Promise!promiseVars
  <2>3. QED
    BY <2>1, <2>2, NextExecutes, ExecutedIsPromised
<1>3. QED
  BY <1>1, <1>2, DispatchSafe, PTL DEF Spec, KeepsPromise, Promise!PromiseSpec
=============================================================================
