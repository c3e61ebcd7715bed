--------------------------- MODULE OmsPaper_proofs ---------------------------
(***************************************************************************)
(* The paper order management service, for any orders, books, times and    *)
(* faults: nothing that a task decided on a row it once read reaches a     *)
(* later generation, and a closeout that ends complete is.                 *)
(*                                                                         *)
(* Every row a task knows, from its caches, a list, a reread or a reply,   *)
(* is that of a generation some trade has opened.  Every call carries the  *)
(* opening time of the generation it was decided on; and since only an     *)
(* order can open one, with its own creation time, no other generation of  *)
(* the symbol has that time.  What is gone from the table stays gone, as   *)
(* a call that repeats an identity of the trades changes nothing.          *)
(*                                                                         *)
(* The second part types what the tasks hold, so that each call they make  *)
(* is a request of the ledger: the service refines LedgerSpec, and what    *)
(* PaperLedger_proofs shows of any clients holds of it.                    *)
(***************************************************************************)
EXTENDS OmsPaper, PaperLedger_proofs

Fields(r, F) == DOMAIN r = F
RowFields == {"gen", "openedAt", "qty", "entry", "plan", "stop"}
TaskFields == {"pc", "pass", "at", "updated", "todo", "handled", "item", "pos", "book",
               "rows", "call", "try", "reply"}

FromOrder(order, symbol, time) ==
  \E o \in Orders : o.id = order /\ o.symbol = symbol /\ o.side = "BUY" /\ o.created = time

(* A row of a generation that was opened, and rows read from the table.    *)
Began(T, s, gen, time) == \E u \in T : Opens(u, s, gen) /\ u.executedAt = time
Known(s, row, T) == row # NoPosition => Began(T, s, row.gen, row.openedAt)
KnownRows(rows, T) ==
  rows = [s \in Symbols |-> rows[s]] /\ \A s \in Symbols : Known(s, rows[s], T)

LedgerPart(P, T) ==
  /\ KnownRows(P, T)
  /\ \A s \in Symbols : P[s] # NoPosition => Fields(P[s], RowFields)
  /\ \A t \in T : t.gen = t.trade => t.side = "BUY" /\ FromOrder(t.order, t.symbol, t.executedAt)
  /\ \A t, u \in T : t.order = u.order \/ t.trade = u.trade => t = u

GoodCall(call, T) ==
  /\ call.kind \in {"fill", "stop"} /\ call.req.symbol \in Symbols
  /\ call.kind = "fill" /\ call.req.side = "BUY" =>
       call.for = NoTime /\ FromOrder(call.req.order, call.req.symbol, call.req.executedAt)
  /\ call.for # NoTime => Began(T, call.req.symbol, call.for, call.req.expected)

Ok(reply) == reply # NoReply /\ reply.outcome \notin {"error", "exception"}

TaskForm(t, T) ==
  /\ Fields(t, TaskFields)
  /\ t.call \notin {NoCall, ReadCall} => GoodCall(t.call, T)
  /\ t.pc \in {"list", "reread"} =>
       t.call = ReadCall /\ (Ok(t.reply) => KnownRows(t.reply.row, T))
  /\ t.pc = "reread" => t.item \in Symbols
  /\ t.pc = "write" => t.item \in Symbols /\ t.call.req.symbol = t.item
  /\ t.pc = "order" => t.item \in Orders /\ t.call.req.symbol = t.item.symbol
  /\ t.pc \in {"write", "order"} =>
       GoodCall(t.call, T) /\ (Ok(t.reply) => Known(t.call.req.symbol, t.reply.row, T))

TasksForm(J, T) == J = [c \in Tasks |-> J[c]] /\ \A c \in Tasks : TaskForm(J[c], T)

(* The generation of a row is no longer in the table.                      *)
Gone(s, row, P) == P[s] # NoPosition => P[s].gen # row.gen

DayRows(rows) == {s \in Symbols : rows[s] # NoPosition /\ rows[s].plan.holding = "day"}

(* The closeout, from its list to its end.                                 *)
RunForm(t, k, P, T) ==
  /\ Fields(k, {"status", "retries", "incomplete"})
  /\ t.pc \in {"idle", "list", "eval", "write"}
  /\ t.pc # "idle" => k.status = "running"
  /\ t.pc \in {"eval", "write"} =>
       /\ KnownRows(t.rows, T)
       /\ t.todo \subseteq DayRows(t.rows)
       /\ t.pc = "write" => t.item \in DayRows(t.rows)
       /\ ~k.incomplete => \A s \in DayRows(t.rows) :
            s \in t.todo \/ (t.pc = "write" /\ s = t.item) \/ Gone(s, t.rows[s], P)
  /\ t.pc = "write" /\ Ok(t.reply) /\ t.reply.row = NoPosition =>
       Gone(t.item, t.rows[t.item], P)
  /\ k.status = "complete" /\ t.rows # NoReply =>
       KnownRows(t.rows, T) /\ \A s \in DayRows(t.rows) : Gone(s, t.rows[s], P)

OmsInv ==
  /\ LedgerPart(position, trades)
  /\ TasksForm(task, trades)
  /\ KnownRows(posCache, trades)
  /\ \A m \in wire : GoodCall(m.call, trades)
  /\ RunForm(task["closeout"], closeout, position, trades)

----------------------------------------------------------------------------
(* The ledger.                                                             *)

LEMMA KnownStays ==
  ASSUME NEW T, NEW U, T \subseteq U, NEW s, NEW row
  PROVE  /\ Known(s, row, T) => Known(s, row, U)
         /\ KnownRows(row, T) => KnownRows(row, U)
         /\ GoodCall(row, T) => GoodCall(row, U)
         /\ TaskForm(row, T) => TaskForm(row, U)
<1>1. \A r, i : Known(i, r, T) => Known(i, r, U)
  BY DEF Known, Began
<1>2. \A r : KnownRows(r, T) => KnownRows(r, U)
  BY <1>1 DEF KnownRows
<1>3. \A r : GoodCall(r, T) => GoodCall(r, U)
  BY DEF GoodCall, Began
<1> QED BY <1>1, <1>2, <1>3 DEF TaskForm

(* An opening time belongs to one generation, and is no NULL.              *)
LEMMA TimeOfGeneration ==
  ASSUME LedgerPart(position, trades), NEW s, NEW g, NEW h, NEW time,
         Began(trades, s, g, time)
  PROVE  /\ time # NoTime
         /\ Began(trades, s, h, time) => g = h
<1>1. PICK u \in trades : Opens(u, s, g) /\ u.executedAt = time
  BY DEF Began
<1>2. PICK o \in Orders : /\ o.id = u.order /\ o.symbol = s /\ o.side = "BUY"
                          /\ o.created = time
  BY <1>1 DEF LedgerPart, Opens, FromOrder
<1>3. time # NoTime
  BY <1>2, OmsAssumption, LedgerAssumption DEF Order, NoTime
<1>4. ASSUME NEW v \in trades, Opens(v, s, h), v.executedAt = time
      PROVE  g = h
  <2>1. PICK p \in Orders : /\ p.id = v.order /\ p.symbol = s /\ p.side = "BUY"
                            /\ p.created = time
    BY <1>4 DEF LedgerPart, Opens, FromOrder
  <2>2. o = p
    BY <1>2, <2>1, OmsAssumption
  <2>3. u = v
    BY <1>1, <1>2, <1>4, <2>1, <2>2 DEF LedgerPart
  <2> QED BY <1>1, <1>4, <2>3 DEF Opens
<1> QED BY <1>3, <1>4 DEF Began

(* What an execution does to the rows.                                     *)
Touches(P, T, s) ==
  /\ LedgerPart(P, T) /\ trades \subseteq T
  /\ \A r \in Symbols : r # s => P[r] = position[r]
  /\ \A r \in Symbols : \A row : row # NoPosition /\ Known(r, row, trades) /\ Gone(r, row, position)
       => Gone(r, row, P)

LEMMA RowGoesOn ==
  ASSUME LedgerPart(position, trades), NEW s \in Symbols, position[s] # NoPosition,
         NEW row, row # NoPosition => /\ Fields(row, RowFields) /\ row.gen = position[s].gen
                                      /\ row.openedAt = position[s].openedAt,
         NEW T, trades \subseteq T,
         \A t \in T : t.gen = t.trade => t.side = "BUY" /\ FromOrder(t.order, t.symbol, t.executedAt),
         \A t, u \in T : t.order = u.order \/ t.trade = u.trade => t = u
  PROVE  Touches([position EXCEPT ![s] = row], T, s)
<1> DEFINE P == [position EXCEPT ![s] = row]
<1>1. position = [r \in Symbols |-> position[r]]
  BY DEF LedgerPart, KnownRows
<1>2. /\ P = [r \in Symbols |-> P[r]] /\ P[s] = row
      /\ \A r \in Symbols : r # s => P[r] = position[r]
  BY <1>1
<1> HIDE DEF P
<1>3. \A r \in Symbols : Known(r, position[r], T)
  BY KnownStays DEF LedgerPart, KnownRows
<1>4. \A r \in Symbols : Known(r, P[r], T) /\ (P[r] # NoPosition => Fields(P[r], RowFields))
  BY <1>2, <1>3 DEF Known, LedgerPart
<1>5. \A r \in Symbols : \A q : Gone(r, q, position) => Gone(r, q, P)
  BY <1>2 DEF Gone
<1>6. LedgerPart(P, T)
  BY <1>2, <1>4 DEF LedgerPart, KnownRows
<1> QED BY <1>2, <1>5, <1>6 DEF Touches, P

LEMMA RowOpens ==
  ASSUME LedgerPart(position, trades), NEW s \in Symbols,
         NEW row, Fields(row, RowFields), NEW T, NEW t \in T, trades \subseteq T,
         Opens(t, s, row.gen), t.executedAt = row.openedAt,
         \A u \in trades : u.trade # row.gen,
         \A u \in T : u.gen = u.trade => u.side = "BUY" /\ FromOrder(u.order, u.symbol, u.executedAt),
         \A v, u \in T : v.order = u.order \/ v.trade = u.trade => v = u
  PROVE  Touches([position EXCEPT ![s] = row], T, s)
<1> DEFINE P == [position EXCEPT ![s] = row]
<1>1. position = [r \in Symbols |-> position[r]]
  BY DEF LedgerPart, KnownRows
<1>2. /\ P = [r \in Symbols |-> P[r]] /\ P[s] = row
      /\ \A r \in Symbols : r # s => P[r] = position[r]
  BY <1>1
<1> HIDE DEF P
<1>3. \A r \in Symbols : Known(r, position[r], T)
  BY KnownStays DEF LedgerPart, KnownRows
<1>4. \A r \in Symbols : Known(r, P[r], T) /\ (P[r] # NoPosition => Fields(P[r], RowFields))
  BY <1>2, <1>3 DEF Known, Began, LedgerPart
<1>5. \A r \in Symbols : \A q : q # NoPosition /\ Known(r, q, trades) /\ Gone(r, q, position)
        => Gone(r, q, P)
  BY <1>2 DEF Gone, Known, Began, Opens
<1>6. LedgerPart(P, T)
  BY <1>2, <1>4 DEF LedgerPart, KnownRows
<1> QED BY <1>2, <1>5, <1>6 DEF Touches, P

LEMMA RowKept ==
  ASSUME NEW p, Fields(p, RowFields), NEW q, NEW e, NEW stop
  PROVE  /\ Fields([p EXCEPT !.qty = q], RowFields)
         /\ [p EXCEPT !.qty = q].gen = p.gen /\ [p EXCEPT !.qty = q].openedAt = p.openedAt
         /\ Fields([p EXCEPT !.qty = q, !.entry = e], RowFields)
         /\ [p EXCEPT !.qty = q, !.entry = e].gen = p.gen
         /\ [p EXCEPT !.qty = q, !.entry = e].openedAt = p.openedAt
         /\ Fields([p EXCEPT !.stop = stop], RowFields)
         /\ [p EXCEPT !.stop = stop].gen = p.gen /\ [p EXCEPT !.stop = stop].openedAt = p.openedAt
<1>1. DOMAIN p = RowFields
  BY DEF Fields
<1> QED BY <1>1 DEF Fields, RowFields

(* A fill that is applied repeats no identity, and the trade it adds opens *)
(* a generation only if it is the BUY of an order that found no row.       *)
LEMMA TradeAdds ==
  ASSUME LedgerPart(position, trades), NEW req, req.symbol \in Symbols,
         req.side = "BUY" => FromOrder(req.order, req.symbol, req.executedAt),
         FillOutcome(req) = "applied", NEW T, T = trades \cup {TradeOf(req)}
  PROVE  /\ \A u \in trades : u.trade # req.trade /\ u.order # req.order
         /\ RejectReason(req) = "none"
         /\ \A t \in T : t.gen = t.trade =>
              t.side = "BUY" /\ FromOrder(t.order, t.symbol, t.executedAt)
         /\ \A t, u \in T : t.order = u.order \/ t.trade = u.trade => t = u
<1> DEFINE t == TradeOf(req)
<1>1. ~Repeated(req) /\ RejectReason(req) = "none"
  BY DEF FillOutcome, ReplayOutcome
<1>2. \A u \in trades : u.trade # req.trade /\ u.order # req.order
  BY <1>1 DEF Repeated, ByOrder, ByTrade
<1>3. /\ t.trade = req.trade /\ t.order = req.order /\ t.symbol = req.symbol /\ t.side = req.side
      /\ t.executedAt = req.executedAt /\ t.gen = GenerationOf(req)
  BY DEF TradeOf
<1> HIDE DEF t
<1>4. t.gen = t.trade => t.side = "BUY"
  <2> SUFFICES ASSUME t.gen = t.trade, t.side # "BUY" PROVE FALSE
    OBVIOUS
  <2>1. position[req.symbol] # NoPosition /\ t.gen = position[req.symbol].gen
    BY <1>1, <1>3 DEF RejectReason, GenerationOf
  <2>2. \E u \in trades : u.trade = position[req.symbol].gen
    BY <2>1 DEF LedgerPart, KnownRows, Known, Began, Opens
  <2> QED BY <1>2, <1>3, <2>1, <2>2
<1>5. T = trades \cup {t}
  BY DEF t
<1>6. \A u \in T : u.gen = u.trade => u.side = "BUY" /\ FromOrder(u.order, u.symbol, u.executedAt)
  BY <1>3, <1>4, <1>5 DEF LedgerPart
<1>7. \A v, u \in T : v.order = u.order \/ v.trade = u.trade => v = u
  BY <1>2, <1>3, <1>5 DEF LedgerPart
<1> QED BY <1>1, <1>2, <1>6, <1>7

LEMMA FillTouches ==
  ASSUME LedgerPart(position, trades), NEW req, req.symbol \in Symbols,
         req.side = "BUY" => FromOrder(req.order, req.symbol, req.executedAt), ApplyFill(req)
  PROVE  Touches(position', trades', req.symbol) /\ FillResult(req) = position'[req.symbol]
<1> DEFINE s == req.symbol
           row == PositionAfter(req)
<1>1. CASE FillOutcome(req) # "applied"
  BY <1>1 DEF ApplyFill, ledgerVars, Touches, FillResult
<1>2. CASE FillOutcome(req) = "applied"
  <2>1. /\ position' = [position EXCEPT ![s] = row] /\ trades' = trades \cup {TradeOf(req)}
        /\ FillResult(req) = row
    BY <1>2 DEF ApplyFill, FillResult
  <2>2. /\ \A u \in trades : u.trade # req.trade /\ u.order # req.order
        /\ RejectReason(req) = "none"
        /\ \A t \in trades' : t.gen = t.trade =>
             t.side = "BUY" /\ FromOrder(t.order, t.symbol, t.executedAt)
        /\ \A t, u \in trades' : t.order = u.order \/ t.trade = u.trade => t = u
    BY <1>2, <2>1, TradeAdds
  <2>3. position'[s] = row
    BY <2>1 DEF LedgerPart, KnownRows
  <2>4. CASE position[s] # NoPosition
    <3>1. Fields(position[s], RowFields)
      BY <2>4 DEF LedgerPart
    <3>2. row # NoPosition => /\ Fields(row, RowFields) /\ row.gen = position[s].gen
                              /\ row.openedAt = position[s].openedAt
      BY <2>4, <3>1 DEF PositionAfter, Fields, RowFields
    <3> HIDE DEF row
    <3> QED BY <2>1, <2>2, <2>3, <2>4, <3>2, RowGoesOn
  <2>5. CASE position[s] = NoPosition
    <3>1. req.side = "BUY"
      BY <2>2, <2>5 DEF RejectReason
    <3>2. row = Opened(req) /\ TradeOf(req).gen = req.trade
      BY <2>5, <3>1 DEF PositionAfter, TradeOf, GenerationOf
    <3>3. /\ Fields(row, RowFields) /\ row.gen = req.trade /\ row.openedAt = req.executedAt
      BY <3>2 DEF Opened, Fields, RowFields
    <3>4. /\ Opens(TradeOf(req), s, row.gen) /\ TradeOf(req).executedAt = row.openedAt
          /\ TradeOf(req) \in trades'
      BY <2>1, <3>1, <3>2, <3>3 DEF TradeOf, Opens
    <3>5. trades \subseteq trades' /\ \A u \in trades : u.trade # row.gen
      BY <2>1, <2>2, <3>3
    <3> HIDE DEF row, s
    <3>6. s \in Symbols
      BY DEF s
    <3>7. Touches([position EXCEPT ![s] = row], trades', s)
      BY <2>2, <3>3, <3>4, <3>5, <3>6, RowOpens
    <3> QED BY <2>1, <2>3, <3>7 DEF s
  <2> QED BY <2>4, <2>5
<1> QED BY <1>1, <1>2

LEMMA StopTouches ==
  ASSUME LedgerPart(position, trades), NEW req, req.symbol \in Symbols, UpdateStopLoss(req)
  PROVE  Touches(position', trades', req.symbol) /\ StopResult(req) = position'[req.symbol]
<1> DEFINE s == req.symbol
           row == StopResult(req)
<1>1. position' = [position EXCEPT ![s] = row] /\ trades' = trades
  BY DEF UpdateStopLoss
<1>2. position'[s] = row /\ position = [r \in Symbols |-> position[r]]
  BY <1>1 DEF LedgerPart, KnownRows
<1>3. CASE StopOutcome(req) # "applied"
  <2>1. position' = position
    BY <1>1, <1>2, <1>3 DEF StopResult
  <2> QED BY <1>1, <1>2, <2>1 DEF Touches
<1>4. CASE StopOutcome(req) = "applied"
  <2>1. position[s] # NoPosition /\ Fields(position[s], RowFields)
    BY <1>4 DEF StopOutcome, LedgerPart
  <2>2. /\ Fields(row, RowFields) /\ row.gen = position[s].gen
        /\ row.openedAt = position[s].openedAt
    BY <1>4, <2>1 DEF StopResult, Fields, RowFields
  <2>3. /\ \A t \in trades : t.gen = t.trade =>
             t.side = "BUY" /\ FromOrder(t.order, t.symbol, t.executedAt)
        /\ \A t, u \in trades : t.order = u.order \/ t.trade = u.trade => t = u
    BY DEF LedgerPart
  <2>4. s \in Symbols /\ position[s] # NoPosition
    BY <2>1
  <2> HIDE DEF row, s
  <2>5. Touches([position EXCEPT ![s] = row], trades, s)
    BY <2>2, <2>3, <2>4, RowGoesOn
  <2> QED BY <1>1, <1>2, <2>5 DEF row, s
<1> QED BY <1>3, <1>4

(* A call that carries the time of a generation changes no other.          *)
LEMMA CallsHit ==
  ASSUME LedgerPart(position, trades), NEW call, GoodCall(call, trades), call.for # NoTime,
         IF call.kind = "fill" THEN ApplyFill(call.req) ELSE UpdateStopLoss(call.req),
         position'[call.req.symbol] # position[call.req.symbol]
  PROVE  position[call.req.symbol].gen = call.for
<1> DEFINE s == call.req.symbol
           p == position[s]
<1>1. s \in Symbols /\ Began(trades, s, call.for, call.req.expected)
      /\ (call.kind = "fill" => call.req.side # "BUY")
  BY DEF GoodCall
<1>2. call.req.expected # NoTime
  BY <1>1, TimeOfGeneration
<1>3. p # NoPosition /\ p.openedAt = call.req.expected
  <2>1. CASE call.kind = "fill"
    <3>1. FillOutcome(call.req) = "applied"
      BY <2>1 DEF ApplyFill, ledgerVars
    <3>2. RejectReason(call.req) = "none"
      BY <3>1 DEF FillOutcome, ReplayOutcome
    <3> QED BY <1>1, <1>2, <2>1, <3>2 DEF RejectReason
  <2>2. CASE call.kind # "fill"
    <3>1. position' = [position EXCEPT ![s] = StopResult(call.req)]
      BY <2>2 DEF UpdateStopLoss
    <3>2. StopOutcome(call.req) = "applied"
      <4>1. StopOutcome(call.req) # "applied" => position' = position
        BY <3>1 DEF StopResult, LedgerPart, KnownRows
      <4> QED BY <4>1
    <3> QED BY <3>2 DEF StopOutcome
  <2> QED BY <2>1, <2>2
<1>4. Began(trades, s, p.gen, p.openedAt)
  BY <1>1, <1>3 DEF LedgerPart, KnownRows, Known
<1> QED BY <1>1, <1>3, <1>4, TimeOfGeneration

----------------------------------------------------------------------------
(* A task goes on, after an answer or to await one.                        *)

LEMMA Resumes ==
  ASSUME NEW t, Fields(t, TaskFields), t.pc \notin {"list", "reread", "write", "order"},
         NEW u, u = [t EXCEPT !.call = NoCall, !.try = 0, !.reply = NoReply], NEW T
  PROVE  TaskForm(u, T) /\ u.pc = t.pc /\ u.rows = t.rows /\ u.todo = t.todo
<1>1. /\ Fields(u, TaskFields) /\ u.pc = t.pc /\ u.rows = t.rows /\ u.todo = t.todo
      /\ u.call = NoCall
  BY DEF Fields, TaskFields
<1> QED BY <1>1 DEF TaskForm

LEMMA Awaits ==
  ASSUME NEW t, Fields(t, TaskFields), NEW call, NEW u, u = Awaiting(t, call), NEW T
  PROVE  /\ u.pc = t.pc /\ u.rows = t.rows /\ u.todo = t.todo /\ u.item = t.item
         /\ u.reply = NoReply
         /\ /\ call = ReadCall /\ t.pc \notin {"write", "order"}
            /\ t.pc = "reread" => t.item \in Symbols
            => TaskForm(u, T)
         /\ /\ GoodCall(call, T) /\ t.pc \in {"write", "order"}
            /\ t.pc = "write" => t.item \in Symbols /\ call.req.symbol = t.item
            /\ t.pc = "order" => t.item \in Orders /\ call.req.symbol = t.item.symbol
            => TaskForm(u, T)
<1>1. /\ Fields(u, TaskFields) /\ u.pc = t.pc /\ u.rows = t.rows /\ u.todo = t.todo
      /\ u.item = t.item /\ u.call = call /\ u.reply = NoReply
  BY DEF Fields, TaskFields, Awaiting
<1> QED BY <1>1 DEF TaskForm, Ok

LEMMA IdleForm ==
  /\ Fields(Idle, TaskFields) /\ Idle.pc = "idle" /\ Idle.rows = NoReply /\ Idle.call = NoCall
  /\ \A T : TaskForm(Idle, T)
  /\ DOMAIN Idle = TaskFields
<1>1. Fields(Idle, TaskFields) /\ Idle.pc = "idle" /\ Idle.rows = NoReply /\ Idle.call = NoCall
  BY DEF Idle, Fields, TaskFields
<1> QED BY <1>1 DEF TaskForm, Fields

(* An answer to a call that is awaited.                                    *)
LEMMA Answers ==
  ASSUME NEW T, NEW t, TaskForm(t, T), NEW r,
         t.pc \in {"list", "reread"} /\ Ok(r) => KnownRows(r.row, T),
         t.pc \in {"write", "order"} /\ Ok(r) => Known(t.call.req.symbol, r.row, T),
         NEW u, Fields(u, TaskFields), u.reply = r, u.pc = t.pc, u.call = t.call, u.item = t.item
  PROVE  TaskForm(u, T)
BY DEF TaskForm

(* Everything but a write that executes leaves the ledger alone and moves  *)
(* at most one task.                                                       *)
LEMMA TaskMoves ==
  ASSUME OmsInv, UNCHANGED ledgerVars, NEW c \in Tasks, NEW t,
         task' = [task EXCEPT ![c] = t], TaskForm(t, trades), KnownRows(posCache', trades),
         \A m \in wire' : m \in wire \/ GoodCall(m.call, trades),
         RunForm(IF c = "closeout" THEN t ELSE task["closeout"], closeout', position, trades)
  PROVE  OmsInv'
<1>1. task = [d \in Tasks |-> task[d]] /\ \A d \in Tasks : TaskForm(task[d], trades)
  BY DEF OmsInv, TasksForm
<1>2. /\ task' = [d \in Tasks |-> task'[d]] /\ task'[c] = t
      /\ \A d \in Tasks : d # c => task'[d] = task[d]
  BY <1>1
<1>3. position' = position /\ trades' = trades
  BY DEF ledgerVars
<1>4. TasksForm(task', trades)
  BY <1>1, <1>2 DEF TasksForm
<1>5. task'["closeout"] = IF c = "closeout" THEN t ELSE task["closeout"]
  BY <1>2 DEF Tasks
<1> QED BY <1>3, <1>4, <1>5 DEF OmsInv

LEMMA OtherMoves ==
  ASSUME OmsInv, UNCHANGED <<ledgerVars, closeout>>, NEW c \in {"stream", "opening"}, NEW t,
         task' = [task EXCEPT ![c] = t], TaskForm(t, trades), KnownRows(posCache', trades),
         \A m \in wire' : m \in wire \/ GoodCall(m.call, trades)
  PROVE  OmsInv'
<1>1. RunForm(task["closeout"], closeout', position, trades)
  BY DEF OmsInv
<1>2. c \in Tasks /\ c # "closeout"
  BY DEF Tasks
<1> QED BY <1>1, <1>2, TaskMoves

LEMMA CacheSyncs ==
  ASSUME KnownRows(posCache, trades), NEW s, NEW row, Known(s, row, trades), Sync(s, row)
  PROVE  KnownRows(posCache', trades)
BY DEF Sync, KnownRows

LEMMA TaskOf ==
  ASSUME OmsInv, NEW c \in Tasks
  PROVE  TaskForm(task[c], trades) /\ Fields(task[c], TaskFields)
BY DEF OmsInv, TasksForm, TaskForm

LEMMA ReplyOf ==
  ASSUME OmsInv, NEW c \in Tasks, Answered(c), ~Failed(c)
  PROVE  /\ Ok(task[c].reply)
         /\ task[c].pc \in {"list", "reread"} => KnownRows(task[c].reply.row, trades)
         /\ task[c].pc \in {"write", "order"} =>
              Known(task[c].call.req.symbol, task[c].reply.row, trades)
         /\ task[c].pc = "write" => Known(task[c].item, task[c].reply.row, trades)
<1>1. Ok(task[c].reply)
  BY DEF Answered, Failed, Ok
<1> QED BY <1>1, TaskOf DEF TaskForm

----------------------------------------------------------------------------
(* The stream loop.                                                        *)

LEMMA StreamResumes ==
  ASSUME OmsInv, UNCHANGED <<ledgerVars, closeout>>, NEW c \in {"stream", "opening"},
         NEW t, Fields(t, TaskFields), t.pc \notin {"list", "reread", "write", "order"},
         Resume(c, t), KnownRows(posCache', trades)
  PROVE  OmsInv'
<1> DEFINE u == [t EXCEPT !.call = NoCall, !.try = 0, !.reply = NoReply]
<1>1. task' = [task EXCEPT ![c] = u] /\ wire' = wire
  BY DEF Resume
<1>2. TaskForm(u, trades)
  BY Resumes
<1> HIDE DEF u
<1> QED BY <1>1, <1>2, OtherMoves

LEMMA StreamReads ==
  ASSUME OmsInv, UNCHANGED <<ledgerVars, closeout>>, NEW c \in {"stream", "opening"},
         NEW t, Fields(t, TaskFields), t.pc \notin {"write", "order"},
         t.pc = "reread" => t.item \in Symbols,
         Read(c, t), KnownRows(posCache', trades)
  PROVE  OmsInv'
<1> DEFINE u == Awaiting(t, ReadCall)
<1>1. task' = [task EXCEPT ![c] = u] /\ wire' = wire
  BY DEF Read
<1>2. TaskForm(u, trades)
  BY Awaits
<1> HIDE DEF u
<1> QED BY <1>1, <1>2, OtherMoves

LEMMA StreamWrites ==
  ASSUME OmsInv, UNCHANGED <<ledgerVars, closeout>>, NEW c \in {"stream", "opening"},
         NEW t, Fields(t, TaskFields), NEW call, GoodCall(call, trades), t.pc \in {"write", "order"},
         t.pc = "write" => t.item \in Symbols /\ call.req.symbol = t.item,
         t.pc = "order" => t.item \in Orders /\ call.req.symbol = t.item.symbol,
         Write(c, t, call), KnownRows(posCache', trades)
  PROVE  OmsInv'
<1> DEFINE u == Awaiting(t, call)
<1>1. task' = [task EXCEPT ![c] = u] /\ wire' = wire \cup {Message(c, call, 1)}
  BY DEF Write
<1>2. TaskForm(u, trades)
  BY Awaits
<1>3. \A m \in wire' : m \in wire \/ GoodCall(m.call, trades)
  BY <1>1 DEF Message
<1> HIDE DEF u
<1> QED BY <1>1, <1>2, <1>3, OtherMoves

LEMMA ConsumeBookKeeps ==
  ASSUME OmsInv, NEW b \in Books, ConsumeBook(b)
  PROVE  OmsInv'
<1> DEFINE t == task["stream"]
           u == [t EXCEPT !.updated = t.updated \cup {b.symbol}]
<1>1. TaskForm(t, trades) /\ Fields(t, TaskFields)
  BY TaskOf DEF Tasks
<1>2. task' = [task EXCEPT !["stream"] = u]
  BY DEF ConsumeBook
<1>3. Fields(u, TaskFields) /\ u.reply = t.reply /\ u.pc = t.pc /\ u.call = t.call /\ u.item = t.item
  BY <1>1 DEF Fields, TaskFields
<1>4. TaskForm(u, trades)
  BY <1>1, <1>3 DEF TaskForm
<1>5. UNCHANGED <<ledgerVars, closeout, posCache, wire>>
  BY DEF ConsumeBook
<1> HIDE DEF u
<1> QED BY <1>2, <1>4, <1>5, OtherMoves DEF OmsInv

LEMMA EnterPassKeeps ==
  ASSUME OmsInv, NEW pass, EnterPass(pass), UNCHANGED <<ledgerVars, closeout, posCache>>
  PROVE  OmsInv'
<1> DEFINE t == [task["stream"] EXCEPT !.pass = pass]
<1>1. Fields(t, TaskFields)
  BY TaskOf DEF Tasks, Fields
<1> HIDE DEF t
<1>2. KnownRows(posCache', trades)
  BY DEF OmsInv
<1>3. CASE Resume("stream", [t EXCEPT !.pc = "eval", !.at = now, !.todo = t.updated])
  <2> DEFINE u == [t EXCEPT !.pc = "eval", !.at = now, !.todo = t.updated]
  <2>1. Fields(u, TaskFields) /\ u.pc = "eval"
    BY <1>1 DEF Fields, TaskFields
  <2>2. Resume("stream", u)
    BY <1>3
  <2> HIDE DEF u
  <2> QED BY <1>2, <2>1, <2>2, StreamResumes
<1>4. CASE Read("stream", [t EXCEPT !.pc = "list"])
  <2> DEFINE u == [t EXCEPT !.pc = "list"]
  <2>1. Fields(u, TaskFields) /\ u.pc = "list"
    BY <1>1 DEF Fields, TaskFields
  <2>2. Read("stream", u)
    BY <1>4
  <2> HIDE DEF u
  <2> QED BY <1>2, <2>1, <2>2, StreamReads
<1> QED BY <1>3, <1>4 DEF EnterPass, t

LEMMA LeavePassKeeps ==
  ASSUME OmsInv, LeavePass, UNCHANGED <<ledgerVars, closeout, posCache>>
  PROVE  OmsInv'
<1>1. CASE EnterPass("day")
  BY <1>1, EnterPassKeeps
<1>2. CASE Resume("stream", [Idle EXCEPT !.pc = "pull"])
  <2> DEFINE u == [Idle EXCEPT !.pc = "pull"]
  <2>1. Fields(u, TaskFields) /\ u.pc = "pull"
    BY IdleForm DEF Fields, TaskFields
  <2>2. Resume("stream", u) /\ KnownRows(posCache', trades)
    BY <1>2 DEF OmsInv
  <2> HIDE DEF u
  <2> QED BY <2>1, <2>2, StreamResumes
<1> QED BY <1>1, <1>2 DEF LeavePass

LEMMA CacheLoadedKeeps ==
  ASSUME OmsInv, CacheLoaded
  PROVE  OmsInv'
<1>1. UNCHANGED <<ledgerVars, closeout>>
  BY DEF CacheLoaded
<1>2. CASE Failed("stream")
  BY <1>1, <1>2, LeavePassKeeps DEF CacheLoaded
<1>3. CASE ~Failed("stream")
  <2> DEFINE t == task["stream"]
             u == [t EXCEPT !.pc = "eval", !.at = now, !.todo = t.updated]
  <2>1. Fields(u, TaskFields) /\ u.pc = "eval"
    BY TaskOf DEF Tasks, Fields, TaskFields
  <2>2. KnownRows(posCache', trades)
    BY <1>3, ReplyOf DEF CacheLoaded, Tasks
  <2>3. Resume("stream", u)
    BY <1>3 DEF CacheLoaded
  <2> HIDE DEF u
  <2> QED BY <1>1, <2>1, <2>2, <2>3, StreamResumes
<1> QED BY <1>2, <1>3

(* A call that a row was decided on.                                       *)
LEMMA ExitCallGood ==
  ASSUME NEW p, NEW s \in Symbols, NEW b, NEW t, NEW T, p # NoPosition, Known(s, p, T)
  PROVE  /\ GoodCall(ExitCall(p, s, b, t), T) /\ ExitCall(p, s, b, t).req.symbol = s
         /\ GoodCall(StopCall(p, s, b), T) /\ StopCall(p, s, b).req.symbol = s
BY DEF GoodCall, ExitCall, StopCall, FillCall, Known

LEMMA MonitorKeeps ==
  ASSUME OmsInv, NEW s \in Symbols, NEW skipped \in SUBSET Symbols, Monitor(s, skipped)
  PROVE  OmsInv'
<1> DEFINE t == task["stream"]
           u == [t EXCEPT !.todo = t.todo \ ({s} \cup skipped), !.item = s]
<1>1. UNCHANGED <<ledgerVars, closeout, posCache>> /\ KnownRows(posCache', trades)
  BY DEF Monitor, processVars, OmsInv
<1>2. Fields(u, TaskFields) /\ u.item = s
  BY TaskOf DEF Tasks, Fields, TaskFields
<1> HIDE DEF u
<1>3. CASE Read("stream", [u EXCEPT !.pc = "reread", !.pos = posCache[s], !.book = bookCache[s]])
  <2> DEFINE v == [u EXCEPT !.pc = "reread", !.pos = posCache[s], !.book = bookCache[s]]
  <2>1. Fields(v, TaskFields) /\ v.pc = "reread" /\ v.item = s
    BY <1>2 DEF Fields, TaskFields
  <2>2. Read("stream", v)
    BY <1>3
  <2> HIDE DEF v
  <2> QED BY <1>1, <2>1, <2>2, StreamReads
<1>4. CASE Write("stream", [u EXCEPT !.pc = "write"], StopCall(posCache[s], s, bookCache[s]))
  <2> DEFINE v == [u EXCEPT !.pc = "write"]
             call == StopCall(posCache[s], s, bookCache[s])
  <2>1. Fields(v, TaskFields) /\ v.pc = "write" /\ v.item = s
    BY <1>2 DEF Fields, TaskFields
  <2>2. Write("stream", v, call)
    BY <1>4
  <2>3. posCache[s] # NoPosition /\ Known(s, posCache[s], trades)
    BY DEF Monitor, Acting, OmsInv, KnownRows
  <2>4. GoodCall(call, trades) /\ call.req.symbol = s
    <3> DEFINE p == posCache[s]
    <3>1. p # NoPosition /\ Known(s, p, trades)
      BY <2>3
    <3> HIDE DEF p
    <3>2. /\ GoodCall(StopCall(p, s, bookCache[s]), trades)
          /\ StopCall(p, s, bookCache[s]).req.symbol = s
      BY <3>1, ExitCallGood
    <3> QED BY <3>2 DEF p
  <2> HIDE DEF v, call
  <2> QED BY <1>1, <2>1, <2>2, <2>4, StreamWrites
<1> QED BY <1>3, <1>4 DEF Monitor, u

LEMMA RereadKeeps ==
  ASSUME OmsInv, NEW c \in {"stream", "opening"}, Reread(c)
  PROVE  OmsInv'
<1> DEFINE t == task[c]
           current == t.reply.row[t.item]
           stale == current = NoPosition \/ current.openedAt # t.pos.openedAt
           back == [t EXCEPT !.pc = "eval", !.item = NoItem, !.pos = NoPosition, !.book = NoBook]
           v == [t EXCEPT !.pc = "write", !.pos = NoPosition, !.book = NoBook]
           call == ExitCall(current, t.item, t.book, t.at)
<1>1. UNCHANGED <<ledgerVars, closeout>> /\ t.pc = "reread" /\ Answered(c)
  BY DEF Reread
<1>2. c \in Tasks /\ Fields(t, TaskFields) /\ t.item \in Symbols
  BY <1>1, TaskOf DEF Tasks, TaskForm
<1>3. ~Failed(c) => Known(t.item, current, trades)
  BY <1>1, <1>2, ReplyOf DEF KnownRows
<1>4. KnownRows(posCache', trades)
  <2>1. CASE c = "stream" /\ ~Failed(c) /\ stale
    <3>1. Sync(t.item, current)
      BY <2>1 DEF Reread
    <3> QED BY <2>1, <1>3, <3>1, CacheSyncs DEF OmsInv
  <2>2. CASE ~(c = "stream" /\ ~Failed(c) /\ stale)
    <3>1. UNCHANGED posCache
      BY <2>2 DEF Reread
    <3> QED BY <3>1 DEF OmsInv
  <2> QED BY <2>1, <2>2
<1>5. Fields(back, TaskFields) /\ back.pc = "eval"
  BY <1>2 DEF Fields, TaskFields
<1>6. Fields(v, TaskFields) /\ v.pc = "write" /\ v.item = t.item
  BY <1>2 DEF Fields, TaskFields
<1>7. CASE Failed(c) \/ stale
  <2>1. Resume(c, back)
    BY <1>7 DEF Reread
  <2> HIDE DEF back
  <2> QED BY <1>1, <1>4, <1>5, <2>1, StreamResumes
<1>8. CASE ~(Failed(c) \/ stale)
  <2>1. Write(c, v, call)
    BY <1>8 DEF Reread
  <2>2. GoodCall(call, trades) /\ call.req.symbol = t.item
    BY <1>2, <1>3, <1>8, ExitCallGood
  <2> HIDE DEF v, call
  <2> QED BY <1>1, <1>2, <1>4, <1>6, <2>1, <2>2, StreamWrites
<1> QED BY <1>7, <1>8

LEMMA WrittenKeeps ==
  ASSUME OmsInv, NEW c \in {"stream", "opening"}, Written(c)
  PROVE  OmsInv'
<1> DEFINE t == task[c]
           u == [t EXCEPT !.pc = "eval", !.item = NoItem]
<1>1. UNCHANGED <<ledgerVars, closeout>> /\ t.pc = "write" /\ Answered(c) /\ Resume(c, u)
  BY DEF Written
<1>2. c \in Tasks /\ Fields(u, TaskFields) /\ u.pc = "eval"
  BY TaskOf DEF Tasks, Fields, TaskFields
<1>3. KnownRows(posCache', trades)
  <2>1. CASE c = "stream" /\ ~Failed(c)
    <3>1. Sync(t.item, t.reply.row)
      BY <2>1 DEF Written
    <3>2. Known(t.item, t.reply.row, trades)
      BY <1>1, <1>2, <2>1, ReplyOf
    <3> QED BY <3>1, <3>2, CacheSyncs DEF OmsInv
  <2>2. CASE ~(c = "stream" /\ ~Failed(c))
    <3>1. UNCHANGED posCache
      BY <2>2 DEF Written
    <3> QED BY <3>1 DEF OmsInv
  <2> QED BY <2>1, <2>2
<1> HIDE DEF u
<1> QED BY <1>1, <1>2, <1>3, StreamResumes

----------------------------------------------------------------------------
(* Routed orders: the calls that may open a generation.                    *)

LEMMA PullOrdersKeeps ==
  ASSUME OmsInv, NEW batch, PullOrders(batch)
  PROVE  OmsInv'
<1> DEFINE u == IF batch = {} THEN Idle ELSE [Idle EXCEPT !.pc = "orders", !.todo = batch]
<1>1. Resume("stream", u) /\ UNCHANGED <<ledgerVars, closeout, posCache>>
  BY DEF PullOrders, processVars
<1>2. Fields(u, TaskFields) /\ u.pc \in {"idle", "orders"}
  BY IdleForm DEF Fields, TaskFields
<1>3. KnownRows(posCache', trades)
  BY <1>1 DEF OmsInv
<1> HIDE DEF u
<1> QED BY <1>1, <1>2, <1>3, StreamResumes

LEMMA ProcessOrderKeeps ==
  ASSUME OmsInv, NEW o \in Orders, NEW skipped, ProcessOrder(o, skipped)
  PROVE  OmsInv'
<1> DEFINE t == task["stream"]
           u == [t EXCEPT !.pc = "order", !.item = o, !.todo = t.todo \ ({o} \cup skipped),
                          !.handled = t.handled \cup skipped]
           call == OrderCall(o, bookCache[o.symbol])
<1>1. Write("stream", u, call) /\ UNCHANGED <<ledgerVars, closeout, posCache>>
  BY DEF ProcessOrder, processVars
<1>2. Fields(u, TaskFields) /\ u.pc = "order" /\ u.item = o
  BY TaskOf DEF Tasks, Fields, TaskFields
<1>3. KnownRows(posCache', trades)
  BY <1>1 DEF OmsInv
<1>4. o.symbol \in Symbols
  BY OmsAssumption DEF Order
<1>5. GoodCall(call, trades) /\ call.req.symbol = o.symbol
  BY <1>4 DEF OrderCall, FillCall, GoodCall, FromOrder
<1> HIDE DEF u, call
<1> QED BY <1>1, <1>2, <1>3, <1>5, StreamWrites

LEMMA OrderWrittenKeeps ==
  ASSUME OmsInv, OrderWritten
  PROVE  OmsInv'
<1> DEFINE t == task["stream"]
           u == [t EXCEPT !.pc = "orders", !.item = NoItem]
           v == [u EXCEPT !.handled = t.handled \cup {t.item}]
<1>1. UNCHANGED <<ledgerVars, closeout>> /\ t.pc = "order" /\ Answered("stream")
  BY DEF OrderWritten
<1>2. Fields(u, TaskFields) /\ u.pc = "orders" /\ Fields(t, TaskFields)
  BY TaskOf DEF Tasks, Fields, TaskFields
<1>3. Fields(v, TaskFields) /\ v.pc = "orders"
  BY <1>2 DEF Fields, TaskFields
<1>4. CASE Failed("stream")
  <2>1. Resume("stream", u) /\ KnownRows(posCache', trades)
    BY <1>4 DEF OrderWritten, OmsInv
  <2> HIDE DEF u
  <2> QED BY <1>1, <1>2, <2>1, StreamResumes
<1>5. CASE ~Failed("stream")
  <2>1. Resume("stream", v) /\ Sync(t.item.symbol, t.reply.row)
    BY <1>5 DEF OrderWritten
  <2>2. Known(t.call.req.symbol, t.reply.row, trades)
    BY <1>1, <1>5, ReplyOf DEF Tasks
  <2>3. t.call.req.symbol = t.item.symbol
    BY <1>1, TaskOf DEF TaskForm, Tasks
  <2>4. KnownRows(posCache', trades)
    BY <2>1, <2>2, <2>3, CacheSyncs DEF OmsInv
  <2> HIDE DEF v
  <2> QED BY <1>1, <1>3, <2>1, <2>4, StreamResumes
<1> QED BY <1>4, <1>5

LEMMA AcknowledgeKeeps ==
  ASSUME OmsInv, Acknowledge
  PROVE  OmsInv'
<1>1. Resume("stream", Idle) /\ UNCHANGED <<ledgerVars, closeout>> /\ KnownRows(posCache', trades)
  BY DEF Acknowledge, processVars, OmsInv
<1> QED BY <1>1, IdleForm, StreamResumes

----------------------------------------------------------------------------
(* The opening process.                                                    *)

LEMMA OpeningKeeps ==
  ASSUME OmsInv,
         OpeningStarts \/ OpeningListed \/ OpeningEnds \/
         \E s \in Symbols, b \in Books, skipped \in SUBSET Symbols : OpeningExits(s, b, skipped)
  PROVE  OmsInv'
<1>1. UNCHANGED <<ledgerVars, closeout, posCache>> /\ KnownRows(posCache', trades)
  BY DEF OpeningStarts, OpeningListed, OpeningEnds, OpeningExits, processVars, OmsInv
<1>2. DOMAIN Idle = TaskFields
  BY IdleForm
<1>3. CASE OpeningStarts
  <2> DEFINE u == [Idle EXCEPT !.pc = "list"]
  <2>1. Fields(u, TaskFields) /\ u.pc = "list" /\ Read("opening", u)
    BY <1>2, <1>3 DEF Fields, TaskFields, OpeningStarts
  <2> HIDE DEF u
  <2> QED BY <1>1, <2>1, StreamReads
<1>4. CASE OpeningListed
  <2> DEFINE rows == task["opening"].reply.row
             v == [Idle EXCEPT !.pc = "done"]
             w == [Idle EXCEPT !.pc = "eval", !.at = now, !.rows = rows,
                     !.todo = {s \in Symbols : rows[s] # NoPosition
                                /\ rows[s].plan.holding = "swing" /\ Elapsed(rows[s], now)}]
             u == IF Failed("opening") THEN v ELSE w
  <2>1. Fields(v, TaskFields) /\ v.pc = "done" /\ Fields(w, TaskFields) /\ w.pc = "eval"
    BY <1>2 DEF Fields, TaskFields
  <2>2. Resume("opening", u)
    BY <1>4 DEF OpeningListed
  <2> HIDE DEF v, w
  <2>3. Fields(u, TaskFields) /\ u.pc \in {"done", "eval"}
    BY <2>1
  <2> HIDE DEF u
  <2> QED BY <1>1, <2>2, <2>3, StreamResumes
<1>5. CASE OpeningEnds
  <2> DEFINE u == [Idle EXCEPT !.pc = "done"]
  <2>1. Fields(u, TaskFields) /\ u.pc = "done" /\ Resume("opening", u)
    BY <1>2, <1>5 DEF Fields, TaskFields, OpeningEnds
  <2> HIDE DEF u
  <2> QED BY <1>1, <2>1, StreamResumes
<1>6. ASSUME NEW s \in Symbols, NEW b \in Books, NEW skipped \in SUBSET Symbols,
             OpeningExits(s, b, skipped)
      PROVE  OmsInv'
  <2> DEFINE t == task["opening"]
             u == [t EXCEPT !.pc = "reread", !.item = s, !.pos = t.rows[s],
                            !.book = b, !.todo = t.todo \ ({s} \cup skipped)]
  <2>1. Fields(u, TaskFields) /\ u.pc = "reread" /\ u.item = s
    BY TaskOf DEF Tasks, Fields, TaskFields
  <2>2. Read("opening", u)
    BY <1>6 DEF OpeningExits
  <2> HIDE DEF u
  <2> QED BY <1>1, <2>1, <2>2, StreamReads
<1> QED BY <1>3, <1>4, <1>5, <1>6

----------------------------------------------------------------------------
(* The closeout.                                                           *)

LEMMA CloseoutResumes ==
  ASSUME OmsInv, UNCHANGED ledgerVars, KnownRows(posCache', trades),
         NEW t, Fields(t, TaskFields), t.pc \notin {"list", "reread", "write", "order"},
         Resume("closeout", t),
         \A u : u.pc = t.pc /\ u.rows = t.rows /\ u.todo = t.todo
                => RunForm(u, closeout', position, trades)
  PROVE  OmsInv'
<1> DEFINE u == [t EXCEPT !.call = NoCall, !.try = 0, !.reply = NoReply]
<1>1. task' = [task EXCEPT !["closeout"] = u] /\ wire' = wire
  BY DEF Resume
<1>2. TaskForm(u, trades) /\ RunForm(u, closeout', position, trades)
  BY Resumes
<1>3. "closeout" \in Tasks
  BY DEF Tasks
<1> HIDE DEF u
<1> QED BY <1>1, <1>2, <1>3, TaskMoves

LEMMA CloseoutReads ==
  ASSUME OmsInv, UNCHANGED ledgerVars, KnownRows(posCache', trades),
         Read("closeout", [Idle EXCEPT !.pc = "list"]),
         closeout'.status = "running", Fields(closeout', {"status", "retries", "incomplete"})
  PROVE  OmsInv'
<1> DEFINE u == [Idle EXCEPT !.pc = "list"]
           v == Awaiting(u, ReadCall)
<1>1. Fields(u, TaskFields) /\ u.pc = "list"
  BY IdleForm DEF Fields, TaskFields
<1> HIDE DEF u
<1>2. task' = [task EXCEPT !["closeout"] = v] /\ wire' = wire
  BY DEF Read, u
<1>3. TaskForm(v, trades) /\ v.pc = "list"
  BY <1>1, Awaits
<1> HIDE DEF v
<1>4. RunForm(v, closeout', position, trades)
  BY <1>3 DEF RunForm
<1>5. "closeout" \in Tasks
  BY DEF Tasks
<1> QED BY <1>2, <1>3, <1>4, <1>5, TaskMoves

LEMMA CloseoutFiresKeeps ==
  ASSUME OmsInv, CloseoutFires
  PROVE  OmsInv'
<1>1. /\ UNCHANGED ledgerVars /\ KnownRows(posCache', trades)
      /\ Read("closeout", [Idle EXCEPT !.pc = "list"])
  BY DEF CloseoutFires, processVars, OmsInv
<1>2. closeout'.status = "running" /\ Fields(closeout', {"status", "retries", "incomplete"})
  BY DEF CloseoutFires, OmsInv, RunForm, Fields
<1> QED BY <1>1, <1>2, CloseoutReads

(* A run ends complete only when every row it listed is gone.              *)
LEMMA EndRunKeeps ==
  ASSUME OmsInv, UNCHANGED ledgerVars, KnownRows(posCache', trades), NEW incomplete,
         EndRun(incomplete), closeout.status = "running",
         ~incomplete => LET rows == task["closeout"].rows
                        IN  /\ KnownRows(rows, trades)
                            /\ \A s \in DayRows(rows) : Gone(s, rows[s], position)
  PROVE  OmsInv'
<1>1. Fields(closeout, {"status", "retries", "incomplete"})
  BY DEF OmsInv, RunForm
<1>2. CASE ~incomplete
  <2> DEFINE u == [Idle EXCEPT !.rows = task["closeout"].rows]
  <2>1. Fields(u, TaskFields) /\ u.pc = "idle" /\ u.rows = task["closeout"].rows
    BY IdleForm DEF Fields, TaskFields
  <2>2. Resume("closeout", u) /\ closeout' = [closeout EXCEPT !.status = "complete"]
    BY <1>2 DEF EndRun
  <2>3. Fields(closeout', {"status", "retries", "incomplete"})
    BY <1>1, <2>2 DEF Fields
  <2> HIDE DEF u
  <2>4. \A v : v.pc = u.pc /\ v.rows = u.rows /\ v.todo = u.todo
          => RunForm(v, closeout', position, trades)
    BY <1>2, <2>1, <2>3 DEF RunForm
  <2> QED BY <2>1, <2>2, <2>4, CloseoutResumes
<1>3. CASE incomplete /\ closeout.retries = CloseoutRetries
  <2>1. Resume("closeout", Idle) /\ closeout' = [closeout EXCEPT !.status = "gave_up"]
    BY <1>3 DEF EndRun
  <2>2. Fields(closeout', {"status", "retries", "incomplete"}) /\ closeout'.status = "gave_up"
    BY <1>1, <2>1 DEF Fields
  <2>3. \A v : v.pc = Idle.pc /\ v.rows = Idle.rows /\ v.todo = Idle.todo
          => RunForm(v, closeout', position, trades)
    BY <2>2, IdleForm DEF RunForm
  <2> QED BY <2>1, <2>3, IdleForm, CloseoutResumes
<1>4. CASE incomplete /\ closeout.retries # CloseoutRetries
  <2>1. /\ Read("closeout", [Idle EXCEPT !.pc = "list"])
        /\ closeout' = [closeout EXCEPT !.retries = @ + 1, !.incomplete = FALSE]
    BY <1>4 DEF EndRun
  <2>2. Fields(closeout', {"status", "retries", "incomplete"}) /\ closeout'.status = "running"
    BY <1>1, <2>1 DEF Fields
  <2> QED BY <2>1, <2>2, CloseoutReads
<1> QED BY <1>2, <1>3, <1>4

LEMMA CloseoutListedKeeps ==
  ASSUME OmsInv, CloseoutListed
  PROVE  OmsInv'
<1> DEFINE rows == task["closeout"].reply.row
           todo == {s \in Symbols : rows[s] # NoPosition /\ rows[s].plan.holding = "day"}
           u == [Idle EXCEPT !.pc = "eval", !.at = now, !.rows = rows, !.todo = todo]
<1>1. /\ UNCHANGED ledgerVars /\ KnownRows(posCache', trades) /\ "closeout" \in Tasks
      /\ task["closeout"].pc = "list" /\ Answered("closeout")
  BY DEF CloseoutListed, processVars, OmsInv, Tasks
<1>2. closeout.status = "running" /\ Fields(closeout, {"status", "retries", "incomplete"})
  BY <1>1 DEF OmsInv, RunForm
<1>3. CASE Failed("closeout")
  <2>1. EndRun(TRUE)
    BY <1>3 DEF CloseoutListed
  <2> QED BY <1>1, <1>2, <2>1, EndRunKeeps
<1>4. CASE ~Failed("closeout")
  <2>1. Resume("closeout", u) /\ closeout' = closeout
    BY <1>4 DEF CloseoutListed
  <2>2. Fields(u, TaskFields) /\ u.pc = "eval" /\ u.rows = rows /\ u.todo = todo
    BY IdleForm DEF Fields, TaskFields
  <2>3. KnownRows(rows, trades)
    BY <1>1, <1>4, ReplyOf
  <2>4. todo = DayRows(rows)
    BY DEF DayRows
  <2> HIDE DEF u, todo, rows
  <2>5. \A v : v.pc = u.pc /\ v.rows = u.rows /\ v.todo = u.todo
          => RunForm(v, closeout', position, trades)
    BY <1>2, <2>1, <2>2, <2>3, <2>4 DEF RunForm
  <2> QED BY <1>1, <2>1, <2>2, <2>5, CloseoutResumes
<1> QED BY <1>3, <1>4

LEMMA CloseoutSellsKeeps ==
  ASSUME OmsInv, NEW s \in Symbols, NEW skipped \in SUBSET Symbols, CloseoutSells(s, skipped)
  PROVE  OmsInv'
<1> DEFINE t == task["closeout"]
           u == [t EXCEPT !.pc = "write", !.item = s, !.todo = t.todo \ ({s} \cup skipped)]
           call == ExitCall(t.rows[s], s, bookCache[s], t.at)
           v == Awaiting(u, call)
<1>1. /\ UNCHANGED ledgerVars /\ KnownRows(posCache', trades) /\ "closeout" \in Tasks
      /\ t.pc = "eval" /\ s \in t.todo /\ skipped \subseteq t.todo
      /\ Write("closeout", u, call)
      /\ closeout' = [closeout EXCEPT !.incomplete = @ \/ skipped # {}]
  BY DEF CloseoutSells, OmsInv, Tasks, Sellable, Tried
<1>2. RunForm(t, closeout, position, trades)
  BY DEF OmsInv
<1>3. KnownRows(t.rows, trades) /\ t.todo \subseteq DayRows(t.rows)
  BY <1>1, <1>2 DEF RunForm
<1>4. t.rows[s] # NoPosition /\ Known(s, t.rows[s], trades)
  BY <1>1, <1>3 DEF DayRows, KnownRows
<1>5. GoodCall(call, trades) /\ call.req.symbol = s
  BY <1>4, ExitCallGood
<1>6. /\ Fields(u, TaskFields) /\ u.pc = "write" /\ u.item = s /\ u.rows = t.rows
      /\ u.todo = t.todo \ ({s} \cup skipped)
  BY <1>1, TaskOf DEF Fields, TaskFields
<1> HIDE DEF u, call
<1>7. /\ task' = [task EXCEPT !["closeout"] = v]
      /\ wire' = wire \cup {Message("closeout", call, 1)}
  BY <1>1 DEF Write
<1>8. /\ TaskForm(v, trades) /\ v.pc = "write" /\ v.item = s /\ v.rows = t.rows
      /\ v.todo = t.todo \ ({s} \cup skipped) /\ v.reply = NoReply
  BY <1>5, <1>6, Awaits
<1> HIDE DEF v
<1>9. /\ Fields(closeout', {"status", "retries", "incomplete"})
      /\ closeout'.status = "running"
      /\ ~closeout'.incomplete => ~closeout.incomplete /\ skipped = {}
  BY <1>1, <1>2 DEF RunForm, Fields
<1>10. RunForm(v, closeout', position, trades)
  <2>1. v.todo \subseteq DayRows(v.rows) /\ v.item \in DayRows(v.rows)
    BY <1>1, <1>3, <1>8
  <2>2. ~closeout'.incomplete => \A r \in DayRows(v.rows) :
          r \in v.todo \/ r = v.item \/ Gone(r, v.rows[r], position)
    BY <1>1, <1>2, <1>8, <1>9 DEF RunForm
  <2> QED BY <1>3, <1>8, <1>9, <2>1, <2>2 DEF RunForm, Ok
<1>11. \A m \in wire' : m \in wire \/ GoodCall(m.call, trades)
  BY <1>5, <1>7 DEF Message
<1> QED BY <1>1, <1>7, <1>8, <1>10, <1>11, TaskMoves

LEMMA CloseoutSoldKeeps ==
  ASSUME OmsInv, CloseoutSold
  PROVE  OmsInv'
<1> DEFINE t == task["closeout"]
           u == [t EXCEPT !.pc = "eval", !.item = NoItem]
<1>1. /\ UNCHANGED ledgerVars /\ "closeout" \in Tasks
      /\ t.pc = "write" /\ Answered("closeout") /\ Resume("closeout", u)
      /\ closeout' = [closeout EXCEPT !.incomplete =
                        @ \/ Failed("closeout") \/ t.reply.outcome = "rejected"
                          \/ t.reply.row # NoPosition]
  BY DEF CloseoutSold, Tasks
<1>2. RunForm(t, closeout, position, trades)
  BY DEF OmsInv
<1>3. KnownRows(posCache', trades)
  <2>1. CASE ~Failed("closeout")
    <3>1. Sync(t.item, t.reply.row)
      BY <2>1 DEF CloseoutSold
    <3> QED BY <1>1, <2>1, <3>1, ReplyOf, CacheSyncs DEF OmsInv
  <2>2. CASE Failed("closeout")
    BY <2>2 DEF CloseoutSold, OmsInv
  <2> QED BY <2>1, <2>2
<1>4. Fields(u, TaskFields) /\ u.pc = "eval" /\ u.rows = t.rows /\ u.todo = t.todo
  BY <1>1, TaskOf DEF Fields, TaskFields
<1>5. /\ Fields(closeout', {"status", "retries", "incomplete"})
      /\ closeout'.status = "running"
      /\ ~closeout'.incomplete =>
           ~closeout.incomplete /\ ~Failed("closeout") /\ t.reply.row = NoPosition
  BY <1>1, <1>2 DEF RunForm, Fields
<1>6. ~closeout'.incomplete => Gone(t.item, t.rows[t.item], position)
  BY <1>1, <1>2, <1>5, ReplyOf DEF RunForm
<1>7. ~closeout'.incomplete => \A s \in DayRows(t.rows) :
        s \in t.todo \/ Gone(s, t.rows[s], position)
  BY <1>1, <1>2, <1>5, <1>6 DEF RunForm
<1>8. KnownRows(t.rows, trades) /\ t.todo \subseteq DayRows(t.rows)
  BY <1>1, <1>2 DEF RunForm
<1> HIDE DEF u
<1>9. \A v : v.pc = u.pc /\ v.rows = u.rows /\ v.todo = u.todo
        => RunForm(v, closeout', position, trades)
  BY <1>4, <1>5, <1>7, <1>8 DEF RunForm
<1> QED BY <1>1, <1>3, <1>4, <1>9, CloseoutResumes

LEMMA CloseoutRunEndsKeeps ==
  ASSUME OmsInv, CloseoutRunEnds
  PROVE  OmsInv'
<1> DEFINE t == task["closeout"]
           incomplete == closeout.incomplete \/ t.todo # {}
<1>1. /\ UNCHANGED ledgerVars /\ KnownRows(posCache', trades)
      /\ t.pc = "eval" /\ EndRun(incomplete)
  BY DEF CloseoutRunEnds, OmsInv
<1>2. /\ closeout.status = "running" /\ KnownRows(t.rows, trades)
      /\ ~incomplete => \A s \in DayRows(t.rows) : Gone(s, t.rows[s], position)
  BY <1>1 DEF OmsInv, RunForm
<1> HIDE DEF incomplete
<1> QED BY <1>1, <1>2, EndRunKeeps

----------------------------------------------------------------------------
(* Answers, timeouts, crashes.                                             *)

LEMMA RunAnswers ==
  ASSUME NEW t, NEW k, NEW P, NEW T, RunForm(t, k, P, T), NEW u,
         u.pc = t.pc, u.rows = t.rows, u.todo = t.todo, u.item = t.item,
         u.pc = "write" /\ Ok(u.reply) /\ u.reply.row = NoPosition =>
           Gone(u.item, u.rows[u.item], P)
  PROVE  RunForm(u, k, P, T)
BY DEF RunForm

LEMMA ReplyMoves ==
  ASSUME OmsInv, UNCHANGED <<ledgerVars, closeout, posCache>>, NEW c \in Tasks,
         NEW u, Fields(u, TaskFields), u.pc = task[c].pc, u.call = task[c].call,
         u.item = task[c].item, u.rows = task[c].rows, u.todo = task[c].todo,
         ~Ok(u.reply) \/ (u.call = ReadCall /\ u.reply.row = position),
         task' = [task EXCEPT ![c] = u], \A m \in wire' : m \in wire \/ GoodCall(m.call, trades)
  PROVE  OmsInv'
<1>1. TaskForm(task[c], trades)
  BY TaskOf
<1>2. KnownRows(position, trades) /\ KnownRows(posCache', trades)
  BY DEF OmsInv, LedgerPart
<1>3. u.call = ReadCall => u.pc \notin {"write", "order"}
  BY <1>1 DEF TaskForm, GoodCall, ReadCall
<1>4. TaskForm(u, trades)
  BY <1>1, <1>2, <1>3 DEF TaskForm
<1>5. RunForm(IF c = "closeout" THEN u ELSE task["closeout"], closeout', position, trades)
  <2>1. CASE c = "closeout"
    <3>1. RunForm(task[c], closeout, position, trades)
      BY <2>1 DEF OmsInv
    <3>2. RunForm(u, closeout, position, trades)
      BY <1>3, <3>1, RunAnswers
    <3> QED BY <2>1, <3>2
  <2>2. CASE c # "closeout"
    BY <2>2 DEF OmsInv
  <2> QED BY <2>1, <2>2
<1> QED BY <1>2, <1>4, <1>5, TaskMoves

LEMMA ExecuteReadKeeps ==
  ASSUME OmsInv, NEW c \in Tasks, ExecuteRead(c)
  PROVE  OmsInv'
<1> DEFINE t == task[c]
           u == [t EXCEPT !.reply = [outcome |-> "ok", row |-> position]]
<1>1. /\ UNCHANGED <<ledgerVars, closeout, posCache, wire>> /\ t.call = ReadCall
      /\ task' = [task EXCEPT ![c] = u]
  BY DEF ExecuteRead, processVars
<1>2. /\ Fields(u, TaskFields) /\ u.pc = t.pc /\ u.call = t.call /\ u.item = t.item
      /\ u.rows = t.rows /\ u.todo = t.todo /\ u.reply.row = position
  BY TaskOf DEF Fields, TaskFields
<1> HIDE DEF u
<1> QED BY <1>1, <1>2, ReplyMoves

LEMMA RetryKeeps ==
  ASSUME OmsInv, NEW c \in Tasks, Retry(c)
  PROVE  OmsInv'
<1> DEFINE t == task[c]
           u == [t EXCEPT !.try = @ + 1, !.reply = NoReply]
<1>1. UNCHANGED <<ledgerVars, closeout, posCache>> /\ t.call \notin {NoCall, ReadCall}
  BY DEF Retry, processVars
<1>2. task' = [task EXCEPT ![c] = u]
  <2>1. c \in DOMAIN task
    BY DEF OmsInv, TasksForm
  <2> QED BY <2>1 DEF Retry
<1>3. /\ Fields(u, TaskFields) /\ u.pc = t.pc /\ u.call = t.call /\ u.item = t.item
      /\ u.rows = t.rows /\ u.todo = t.todo /\ ~Ok(u.reply)
  BY TaskOf DEF Fields, TaskFields, Ok
<1>4. GoodCall(t.call, trades)
  BY <1>1, TaskOf DEF TaskForm
<1>5. \A m \in wire' : m \in wire \/ GoodCall(m.call, trades)
  BY <1>4 DEF Retry, Message
<1> HIDE DEF u
<1> QED BY <1>1, <1>2, <1>3, <1>5, ReplyMoves

LEMMA GiveUpKeeps ==
  ASSUME OmsInv, NEW c \in Tasks, GiveUp(c)
  PROVE  OmsInv'
<1> DEFINE t == task[c]
           u == [t EXCEPT !.reply = [outcome |-> "error", row |-> NoPosition]]
<1>1. /\ UNCHANGED <<ledgerVars, closeout, posCache, wire>> /\ task' = [task EXCEPT ![c] = u]
  BY DEF GiveUp, processVars
<1>2. /\ Fields(u, TaskFields) /\ u.pc = t.pc /\ u.call = t.call /\ u.item = t.item
      /\ u.rows = t.rows /\ u.todo = t.todo /\ ~Ok(u.reply)
  BY TaskOf DEF Fields, TaskFields, Ok
<1> HIDE DEF u
<1> QED BY <1>1, <1>2, ReplyMoves

LEMMA CrashKeeps ==
  ASSUME OmsInv, Crash
  PROVE  OmsInv'
<1>1. task = [d \in Tasks |-> task[d]] /\ \A d \in Tasks : TaskForm(task[d], trades)
  BY DEF OmsInv, TasksForm
<1>2. /\ position' = position /\ trades' = trades /\ wire' = wire
      /\ posCache' = [s \in Symbols |-> NoPosition]
      /\ Fields(closeout', {"status", "retries", "incomplete"})
  BY DEF Crash, ledgerVars, Fields
<1>3. task' = [d \in Tasks |-> IF d = "opening" THEN task[d] ELSE Idle]
  BY <1>1 DEF Crash, Tasks
<1>4. TasksForm(task', trades) /\ task'["closeout"] = Idle
  BY <1>1, <1>3, IdleForm DEF TasksForm, Tasks
<1>5. RunForm(Idle, closeout', position, trades)
  BY <1>2, IdleForm DEF RunForm
<1>6. KnownRows(posCache', trades)
  BY <1>2 DEF KnownRows, Known
<1> QED BY <1>2, <1>4, <1>5, <1>6 DEF OmsInv

LEMMA OpeningCrashKeeps ==
  ASSUME OmsInv, OpeningCrash
  PROVE  OmsInv'
<1> DEFINE u == [Idle EXCEPT !.pc = "done"]
<1>1. /\ UNCHANGED <<ledgerVars, closeout, posCache, wire>>
      /\ task' = [task EXCEPT !["opening"] = u]
  BY DEF OpeningCrash, processVars
<1>2. Fields(u, TaskFields) /\ u.pc = "done" /\ u.call = NoCall
  BY IdleForm DEF Fields, TaskFields
<1>3. TaskForm(u, trades)
  BY <1>2 DEF TaskForm
<1> HIDE DEF u
<1> QED BY <1>1, <1>3, OtherMoves DEF OmsInv

----------------------------------------------------------------------------
(* A write executes, however late, and its caller may still await it.      *)

LEMMA GoneStays ==
  ASSUME NEW P, NEW T, NEW s, Touches(P, T, s), NEW t, NEW k, RunForm(t, k, position, trades)
  PROVE  RunForm(t, k, P, T)
<1>1. \A rows : KnownRows(rows, trades) => KnownRows(rows, T)
  BY KnownStays DEF Touches
<1>2. \A rows : \A r \in DayRows(rows) :
        KnownRows(rows, trades) /\ Gone(r, rows[r], position) => Gone(r, rows[r], P)
  BY DEF Touches, DayRows, KnownRows
<1> QED BY <1>1, <1>2 DEF RunForm

LEMMA ExecuteKeeps ==
  ASSUME OmsInv, NEW m \in wire, Execute(m)
  PROVE  OmsInv'
<1> DEFINE s == m.call.req.symbol
           reply == [outcome |-> Outcome(m.call), row |-> Result(m.call)]
           Hit(c) == /\ c = m.caller /\ task[c].call = m.call /\ task[c].try = m.try
                     /\ task[c].reply = NoReply
<1>1. GoodCall(m.call, trades) /\ LedgerPart(position, trades)
  BY DEF OmsInv
<1>2. Touches(position', trades', s) /\ Result(m.call) = position'[s]
  <2>1. CASE m.call.kind = "fill"
    <3>1. ApplyFill(m.call.req) /\ Result(m.call) = FillResult(m.call.req)
      BY <2>1 DEF Execute, Result
    <3> QED BY <1>1, <2>1, <3>1, FillTouches DEF GoodCall
  <2>2. CASE m.call.kind # "fill"
    <3>1. UpdateStopLoss(m.call.req) /\ Result(m.call) = StopResult(m.call.req)
      BY <2>2 DEF Execute, Result
    <3> QED BY <1>1, <3>1, StopTouches DEF GoodCall
  <2> QED BY <2>1, <2>2
<1>3. task = [c \in Tasks |-> task[c]] /\ \A c \in Tasks : TaskForm(task[c], trades)
  BY DEF OmsInv, TasksForm
<1>4. wire' = wire \ {m} /\ posCache' = posCache /\ closeout' = closeout
  BY DEF Execute, processVars
<1>5. /\ task' = [c \in Tasks |-> task'[c]]
      /\ \A c \in Tasks : task'[c] = IF Hit(c) THEN [task[c] EXCEPT !.reply = reply] ELSE task[c]
  BY <1>3 DEF Execute, Deliver
<1>6. trades \subseteq trades' /\ LedgerPart(position', trades')
      /\ Known(s, position'[s], trades')
  BY <1>1, <1>2 DEF Touches, LedgerPart, KnownRows, GoodCall
<1>7. \A c \in Tasks : TaskForm(task[c], trades')
  BY <1>3, <1>6, KnownStays
<1> HIDE DEF reply
<1>8. \A c \in Tasks : Hit(c) =>
        /\ Fields(task'[c], TaskFields) /\ task'[c].pc = task[c].pc
        /\ task'[c].call = task[c].call /\ task'[c].item = task[c].item
        /\ task'[c].rows = task[c].rows /\ task'[c].todo = task[c].todo
        /\ task'[c].reply = reply
  BY <1>3, <1>5 DEF TaskForm, Fields, TaskFields
<1>9. reply.row = position'[s]
  BY <1>2 DEF reply
<1>10. \A c \in Tasks : Hit(c) => task[c].pc \notin {"list", "reread"}
  BY <1>1, <1>3 DEF TaskForm, GoodCall, ReadCall
<1>11. \A c \in Tasks : TaskForm(task'[c], trades')
  <2> SUFFICES ASSUME NEW c \in Tasks PROVE TaskForm(task'[c], trades')
    OBVIOUS
  <2>1. CASE ~Hit(c)
    BY <1>5, <1>7, <2>1
  <2>2. CASE Hit(c)
    <3> DEFINE t == task[c]
               u == task'[c]
    <3>1. TaskForm(t, trades')
      BY <1>7
    <3>2. t.call.req.symbol = s
      BY <2>2
    <3>3. /\ Fields(u, TaskFields) /\ u.pc = t.pc /\ u.call = t.call /\ u.item = t.item
          /\ u.reply = reply
      BY <1>8, <2>2
    <3>4. t.pc \notin {"list", "reread"} /\ Known(t.call.req.symbol, reply.row, trades')
      BY <1>6, <1>9, <1>10, <2>2, <3>2
    <3> HIDE DEF t, u, Hit, s
    <3>5. TaskForm(u, trades')
      BY <3>1, <3>3, <3>4, Answers
    <3> QED BY <3>5 DEF u
  <2> QED BY <2>1, <2>2
<1>12. RunForm(task'["closeout"], closeout', position', trades')
  <2> DEFINE t == task["closeout"]
             u == task'["closeout"]
  <2>1. RunForm(t, closeout, position, trades)
    BY DEF OmsInv
  <2>2. RunForm(t, closeout', position', trades')
    BY <1>2, <1>4, <2>1, GoneStays
  <2>3. "closeout" \in Tasks
    BY DEF Tasks
  <2>4. CASE ~Hit("closeout")
    BY <1>5, <2>2, <2>3, <2>4
  <2>5. CASE Hit("closeout")
    <3>1. t.pc = "write" => t.item = s
      BY <1>3, <2>3, <2>5 DEF TaskForm
    <3>2. /\ u.pc = t.pc /\ u.rows = t.rows /\ u.todo = t.todo /\ u.item = t.item
          /\ u.reply = reply
      BY <1>8, <2>3, <2>5
    <3>3. u.pc = "write" /\ u.reply.row = NoPosition => Gone(u.item, u.rows[u.item], position')
      BY <1>9, <3>1, <3>2 DEF Gone
    <3> HIDE DEF t, u, Hit, s
    <3>4. RunForm(u, closeout', position', trades')
      BY <2>2, <3>2, <3>3, RunAnswers
    <3> QED BY <3>4 DEF u
  <2> QED BY <2>4, <2>5
<1>13. KnownRows(posCache', trades') /\ \A n \in wire' : GoodCall(n.call, trades')
  BY <1>4, <1>6, KnownStays DEF OmsInv
<1> QED BY <1>5, <1>6, <1>11, <1>12, <1>13 DEF OmsInv, TasksForm

----------------------------------------------------------------------------
LEMMA OmsStart == Init => OmsInv
<1> SUFFICES ASSUME Init PROVE OmsInv
  OBVIOUS
<1>1. position = [s \in Symbols |-> NoPosition] /\ trades = {}
  BY DEF Init, LedgerInit
<1>2. LedgerPart(position, trades) /\ KnownRows(posCache, trades)
  BY <1>1 DEF Init, LedgerPart, KnownRows, Known
<1>3. TasksForm(task, trades) /\ task["closeout"] = Idle
  BY IdleForm DEF Init, TasksForm, Tasks
<1>4. RunForm(Idle, closeout, position, trades)
  BY IdleForm DEF Init, RunForm, Fields
<1> QED BY <1>2, <1>3, <1>4 DEF OmsInv, Init

LEMMA OmsKeeps == OmsInv /\ [Next]_omsVars => OmsInv'
<1> SUFFICES ASSUME OmsInv, [Next]_omsVars PROVE OmsInv'
  OBVIOUS
<1>1. CASE UNCHANGED omsVars
  BY <1>1 DEF OmsInv, omsVars
<1>2. CASE Database
  BY <1>2, ExecuteKeeps, ExecuteReadKeeps DEF Database
<1>3. ASSUME NEW b \in Books, ConsumeBook(b) PROVE OmsInv'
  BY <1>3, ConsumeBookKeeps
<1>4. CASE Monitors
  <2>1. CASE BeginMonitors
    BY <2>1, EnterPassKeeps DEF BeginMonitors, processVars
  <2>2. CASE PassDone
    BY <2>2, LeavePassKeeps DEF PassDone, processVars
  <2> QED BY <1>4, <2>1, <2>2, CacheLoadedKeeps, MonitorKeeps, RereadKeeps, WrittenKeeps
          DEF Monitors
<1>5. ASSUME NEW batch \in SUBSET Orders, PullOrders(batch) PROVE OmsInv'
  BY <1>5, PullOrdersKeeps
<1>6. CASE OrderLoop
  BY <1>6, ProcessOrderKeeps, OrderWrittenKeeps, AcknowledgeKeeps DEF OrderLoop
<1>7. CASE Closeout
  BY <1>7, CloseoutFiresKeeps, CloseoutListedKeeps, CloseoutSellsKeeps, CloseoutSoldKeeps,
     CloseoutRunEndsKeeps DEF Closeout
<1>8. CASE OpeningBatch
  BY <1>8, OpeningKeeps, RereadKeeps, WrittenKeeps DEF OpeningBatch
<1>9. CASE Environment
  <2>1. ASSUME NEW o \in Orders, Redeliver(o) PROVE OmsInv'
    BY <2>1 DEF Redeliver, OmsInv, ledgerVars, processVars
  <2>2. CASE Tick
    BY <2>2 DEF Tick, OmsInv, ledgerVars, processVars
  <2> QED BY <1>9, <2>1, <2>2, RetryKeeps, GiveUpKeeps, CrashKeeps, OpeningCrashKeeps
          DEF Environment
<1> QED BY <1>1, <1>2, <1>3, <1>4, <1>5, <1>6, <1>7, <1>8, <1>9 DEF Next

(* Only a write that executes touches the ledger.                          *)
LEMMA OthersLeaveLedger ==
  ASSUME [Next]_omsVars, \A m \in wire : ~Execute(m)
  PROVE  UNCHANGED ledgerVars
<1>1. CASE UNCHANGED omsVars
  BY <1>1 DEF omsVars, ledgerVars
<1>2. CASE Database
  BY <1>2 DEF Database, ExecuteRead
<1>3. CASE \E b \in Books : ConsumeBook(b)
  BY <1>3 DEF ConsumeBook
<1>4. CASE Monitors
  BY <1>4 DEF Monitors, BeginMonitors, CacheLoaded, Monitor, PassDone, Reread, Written
<1>5. CASE \E batch \in SUBSET Orders : PullOrders(batch)
  BY <1>5 DEF PullOrders
<1>6. CASE OrderLoop
  BY <1>6 DEF OrderLoop, ProcessOrder, OrderWritten, Acknowledge
<1>7. CASE Closeout
  BY <1>7 DEF Closeout, CloseoutFires, CloseoutListed, CloseoutSells, CloseoutSold,
              CloseoutRunEnds
<1>8. CASE OpeningBatch
  BY <1>8 DEF OpeningBatch, OpeningStarts, OpeningListed, OpeningExits, Reread, Written, OpeningEnds
<1>9. CASE Environment
  BY <1>9 DEF Environment, Retry, GiveUp, Crash, OpeningCrash, Redeliver, Tick
<1> QED BY <1>1, <1>2, <1>3, <1>4, <1>5, <1>6, <1>7, <1>8, <1>9 DEF Next

(* Every row a task, a cache or a call knows is one a trade has opened, and*)
(* a closeout that has seen no failure has lost nothing it listed.         *)
THEOREM OmsSafe == Spec => []OmsInv
<1> QED BY OmsStart, OmsKeeps, PTL DEF Spec

(* opened_at identifies a generation, for any number of symbols, orders,   *)
(* redeliveries and faults.  The one fact about the orders it rests on is  *)
(* that no two of them for the same symbol and side carry the same time.   *)
THEOREM OpenedAtIsUnique == Spec => []OpenedAtIdentifiesGeneration
<1>1. OmsInv => OpenedAtIdentifiesGeneration
  <2> SUFFICES ASSUME OmsInv, NEW t \in trades, NEW u \in trades, t.symbol = u.symbol,
                      t.gen = t.trade, u.gen = u.trade, t.executedAt = u.executedAt
               PROVE  t = u
    BY DEF OpenedAtIdentifiesGeneration
  <2>1. LedgerPart(position, trades)
    BY DEF OmsInv
  <2>2. Opens(t, t.symbol, t.gen) /\ Opens(u, t.symbol, u.gen)
    BY <2>1 DEF LedgerPart, Opens
  <2>3. /\ Began(trades, t.symbol, t.gen, t.executedAt)
        /\ Began(trades, t.symbol, u.gen, t.executedAt)
    BY <2>2 DEF Began
  <2>4. t.gen = u.gen
    BY <2>1, <2>3, TimeOfGeneration
  <2> QED BY <2>1, <2>4 DEF LedgerPart
<1> QED BY <1>1, OmsSafe, PTL

(* A closeout that ends complete has closed every day position it listed.  *)
THEOREM CompleteIsFlat == Spec => []CompleteCloseoutIsFlat
<1>1. OmsInv => CompleteCloseoutIsFlat
  BY DEF OmsInv, RunForm, CompleteCloseoutIsFlat, Gone, DayRows
<1> QED BY <1>1, OmsSafe, PTL

(* An exit or a stop update, whenever it executes, changes no generation   *)
(* but the one it was decided on.                                          *)
THEOREM DecisionsHit == Spec => DecisionsHitTheirGeneration
<1>1. ASSUME OmsInv, [Next]_omsVars, NEW m \in wire \ wire', m.call.for # NoTime,
             position'[m.call.req.symbol] # position[m.call.req.symbol]
      PROVE  position[m.call.req.symbol].gen = m.call.for
  <2>1. PICK n \in wire : Execute(n)
    BY <1>1, OthersLeaveLedger DEF ledgerVars
  <2>2. n = m
    BY <1>1, <2>1 DEF Execute
  <2>3. LedgerPart(position, trades) /\ GoodCall(m.call, trades)
    BY <1>1 DEF OmsInv
  <2>4. IF m.call.kind = "fill" THEN ApplyFill(m.call.req) ELSE UpdateStopLoss(m.call.req)
    BY <2>1, <2>2 DEF Execute
  <2> QED BY <1>1, <2>3, <2>4, CallsHit
<1>2. OmsInv /\ [Next]_omsVars =>
        [\A m \in wire \ wire' :
           LET s == m.call.req.symbol
           IN  m.call.for # NoTime /\ position'[s] # position[s]
               => position[s].gen = m.call.for]_omsVars
  BY <1>1
<1> QED BY <1>2, OmsSafe, PTL DEF Spec, DecisionsHitTheirGeneration

----------------------------------------------------------------------------
(* The service as a client of the ledger.                                  *)

(* The domains of the program: an identity nobody has used, a time of the  *)
(* clock and a filled quantity are any positive numbers, a trailed stop is *)
(* a price, and the clients of the ledger may send whatever has the form   *)
(* of a request.                                                           *)
Domains ==
  /\ Requests = FillRequest /\ StopRequests = StopRequest
  /\ TradeIds = Nat \ {0} /\ TradeIds \subseteq OrderIds
  /\ Times = Nat \ {0} /\ Quantities = Nat \ {0}
  /\ \A p \in Position, b \in Books : p.plan.trail # 0 => TrailedStop(p, b) \in Prices

Rows == [Symbols -> Position \cup {NoPosition}]

TypedCall(call) ==
  /\ call.id \in Nat
  /\ call.kind = "fill" => call.req \in FillRequest
  /\ call.kind # "fill" => call.req \in StopRequest

(* What a task needs to know for its next call to be a request.            *)
TypedTask(c, t) ==
  /\ t.call \notin {NoCall, ReadCall} => TypedCall(t.call)
  /\ t.pc \in {"eval", "reread", "write"} =>
       t.at \in Times /\ (c = "closeout" => t.rows \in Rows)
  /\ t.pc = "reread" => t.book \in Books /\ t.book.depth > 0
  /\ t.pc \in {"list", "reread"} /\ Ok(t.reply) => t.reply.row \in Rows
  /\ t.pc \in {"write", "order"} /\ Ok(t.reply) =>
       t.reply.row \in Position \cup {NoPosition}

OmsTypes ==
  /\ LedgerTypeOK /\ IsFiniteSet(trades)
  /\ IsFiniteSet(wire) /\ \A m \in wire : TypedCall(m.call)
  /\ now \in Times
  /\ bookCache \in [Symbols -> Books \cup {NoBook}]
  /\ posCache \in Rows
  /\ \A c \in Tasks : TypedTask(c, task[c])

OmsClient == OmsInv /\ OmsTypes

(* A finite set of numbers has a largest one, so an unused identity is one.*)
LEMMA FreshIsNumber ==
  ASSUME Domains, OmsTypes
  PROVE  FreshId \in TradeIds
<1> DEFINE T == {t.trade : t \in trades}
           W == {m.call.id : m \in wire}
           C == {task[c].call.id : c \in {d \in Tasks : task[d].call # NoCall}}
<1>1. IsFiniteSet(T) /\ T \subseteq Nat
  <2> DEFINE f == [t \in trades |-> t.trade]
  <2>1. {f[t] : t \in trades} = T
    OBVIOUS
  <2>2. IsFiniteSet({f[t] : t \in trades})
    <3> HIDE DEF f
    <3> QED BY FiniteImage DEF OmsTypes
  <2> QED BY <2>1, <2>2 DEF OmsTypes, LedgerTypeOK, Trade, Domains
<1>2. IsFiniteSet(W) /\ W \subseteq Nat
  <2> DEFINE f == [m \in wire |-> m.call.id]
  <2>1. {f[m] : m \in wire} = W
    OBVIOUS
  <2>2. IsFiniteSet({f[m] : m \in wire})
    <3> HIDE DEF f
    <3> QED BY FiniteImage DEF OmsTypes
  <2> QED BY <2>1, <2>2 DEF OmsTypes, TypedCall
<1>3. IsFiniteSet(C) /\ C \subseteq Nat
  <2> DEFINE D == {d \in Tasks : task[d].call # NoCall}
             f == [d \in D |-> task[d].call.id]
  <2>1. IsFiniteSet(Tasks)
    <3>1. IsFiniteSet({"stream"})
      BY FS_Singleton
    <3>2. IsFiniteSet({"stream"} \cup {"closeout"})
      BY <3>1, FS_AddElement
    <3>3. IsFiniteSet(({"stream"} \cup {"closeout"}) \cup {"opening"})
      BY <3>2, FS_AddElement
    <3>4. Tasks = ({"stream"} \cup {"closeout"}) \cup {"opening"}
      BY DEF Tasks
    <3> QED BY <3>3, <3>4
  <2>2. IsFiniteSet(D)
    BY <2>1, FS_Subset
  <2>3. IsFiniteSet({f[d] : d \in D})
    <3> HIDE DEF D, f
    <3> QED BY <2>2, FiniteImage
  <2>4. {f[d] : d \in D} = C
    OBVIOUS
  <2>5. \A d \in D : task[d].call.id \in Nat
    BY DEF OmsTypes, TypedTask, TypedCall, ReadCall
  <2> QED BY <2>3, <2>4, <2>5
<1>4. IsFiniteSet({0} \cup InUse) /\ {0} \cup InUse \subseteq Nat
  <2>1. InUse = T \cup W \cup C
    BY DEF InUse
  <2> HIDE DEF T, W, C
  <2>2. IsFiniteSet(T \cup W \cup C)
    BY <1>1, <1>2, <1>3, FS_Union
  <2>3. IsFiniteSet({0} \cup InUse)
    BY <2>1, <2>2, FS_Singleton, FS_Union
  <2> QED BY <1>1, <1>2, <1>3, <2>1, <2>3
<1>5. Max({0} \cup InUse) \in Nat
  <2> DEFINE S == {0} \cup InUse
  <2>1. S \in SUBSET Nat /\ IsFiniteSet(S) /\ S # {}
    BY <1>4
  <2> HIDE DEF S
  <2>2. Max(S) \in S
    BY <2>1, LargestNumber
  <2> QED BY <2>1, <2>2 DEF S
<1> QED BY <1>5 DEF FreshId, Domains

----------------------------------------------------------------------------
(* The calls of the service are requests.                                  *)

LEMMA ExitCallTyped ==
  ASSUME Domains, OmsTypes, NEW p \in Position, NEW s \in Symbols, NEW b \in Books,
         b.depth > 0, NEW t \in Times
  PROVE  TypedCall(ExitCall(p, s, b, t))
<1>1. FreshId \in TradeIds
  BY FreshIsNumber
<1>2. ExitQty(p, b) \in Quantities
  <2>1. b.depth \in Nat \ {0} /\ p.qty \in Nat \ {0}
    BY OmsAssumption DEF Book, Position
  <2> QED BY <2>1 DEF ExitQty, Domains
<1>3. b.price \in Prices /\ p.openedAt \in Times /\ p.plan \in Plans
  BY OmsAssumption DEF Book, Position
<1>4. FreshId \in OrderIds /\ FreshId \in Nat
  BY <1>1 DEF Domains
<1> HIDE DEF FreshId
<1> QED BY <1>1, <1>2, <1>3, <1>4 DEF TypedCall, ExitCall, FillCall, FillRequest

LEMMA StopCallTyped ==
  ASSUME Domains, OmsTypes, NEW p \in Position, NEW s \in Symbols, NEW b \in Books,
         p.plan.trail # 0
  PROVE  TypedCall(StopCall(p, s, b))
<1>1. FreshId \in Nat
  BY FreshIsNumber DEF Domains
<1>2. TrailedStop(p, b) \in Prices
  BY DEF Domains
<1>3. p.openedAt \in Times
  BY DEF Position
<1> QED BY <1>1, <1>2, <1>3 DEF TypedCall, StopCall, StopRequest

LEMMA OrderCallTyped ==
  ASSUME Domains, OmsTypes, NEW o \in Orders, NEW b \in Books, FilledQty(o, b) > 0
  PROVE  TypedCall(OrderCall(o, b))
<1>1. FreshId \in TradeIds /\ FreshId \in Nat
  BY FreshIsNumber DEF Domains
<1>2. o \in Order /\ b \in Book
  BY OmsAssumption
<1>3. FilledQty(o, b) \in Quantities
  <2>1. b.depth \in Nat /\ o.qty \in Nat
    BY <1>2 DEF Book, Order, Domains
  <2>2. FilledQty(o, b) \in Nat
    BY <2>1 DEF FilledQty
  <2> QED BY <2>2 DEF Domains
<1>4. b.price \in Prices
  BY <1>2 DEF Book
<1> QED BY <1>1, <1>2, <1>3, <1>4 DEF TypedCall, OrderCall, FillCall, FillRequest, Order

LEMMA TypedMoves ==
  ASSUME OmsInv, OmsTypes, UNCHANGED <<ledgerVars, now>>, NEW c \in Tasks, NEW t,
         task' = [task EXCEPT ![c] = t], TypedTask(c, t),
         bookCache' \in [Symbols -> Books \cup {NoBook}], posCache' \in Rows,
         IsFiniteSet(wire'), \A m \in wire' : m \in wire \/ TypedCall(m.call)
  PROVE  OmsTypes'
<1>1. \A d \in Tasks : TypedTask(d, task'[d])
  BY DEF OmsInv, TasksForm, OmsTypes
<1>2. position' = position /\ trades' = trades /\ now' = now
  BY DEF ledgerVars
<1>3. LedgerTypeOK' /\ IsFiniteSet(trades') /\ now' \in Times
  BY <1>2 DEF OmsTypes, LedgerTypeOK
<1>4. \A m \in wire' : TypedCall(m.call)
  BY DEF OmsTypes
<1> QED BY <1>1, <1>3, <1>4 DEF OmsTypes

(* The caches as an action of a task leaves them.                          *)
CachesTyped == bookCache' \in [Symbols -> Books \cup {NoBook}] /\ posCache' \in Rows

LEMMA TypedResumes ==
  ASSUME OmsInv, OmsTypes, UNCHANGED <<ledgerVars, now>>, CachesTyped, NEW c \in Tasks,
         NEW t, Fields(t, TaskFields), t.pc \notin {"list", "reread", "write", "order"},
         t.pc = "eval" => t.at \in Times /\ (c = "closeout" => t.rows \in Rows),
         Resume(c, t)
  PROVE  OmsTypes'
<1> DEFINE u == [t EXCEPT !.call = NoCall, !.try = 0, !.reply = NoReply]
<1>1. task' = [task EXCEPT ![c] = u] /\ wire' = wire
  BY DEF Resume
<1>2. u.pc = t.pc /\ u.call = NoCall /\ u.at = t.at /\ u.rows = t.rows
  BY DEF Fields, TaskFields
<1> HIDE DEF u
<1>3. TypedTask(c, u)
  BY <1>2 DEF TypedTask
<1> QED BY <1>1, <1>3, TypedMoves DEF CachesTyped, OmsTypes

LEMMA TypedReads ==
  ASSUME OmsInv, OmsTypes, UNCHANGED <<ledgerVars, now>>, CachesTyped, NEW c \in Tasks,
         NEW t, Fields(t, TaskFields), t.pc \in {"list", "reread"},
         t.pc = "reread" => /\ t.at \in Times /\ t.book \in Books /\ t.book.depth > 0
                            /\ c = "closeout" => t.rows \in Rows,
         Read(c, t)
  PROVE  OmsTypes'
<1> DEFINE u == Awaiting(t, ReadCall)
<1>1. task' = [task EXCEPT ![c] = u] /\ wire' = wire
  BY DEF Read
<1>2. /\ u.pc = t.pc /\ u.call = ReadCall /\ u.at = t.at /\ u.rows = t.rows
      /\ u.book = t.book /\ u.reply = NoReply
  BY DEF Fields, TaskFields, Awaiting
<1> HIDE DEF u
<1>3. TypedTask(c, u)
  BY <1>2 DEF TypedTask, Ok
<1> QED BY <1>1, <1>3, TypedMoves DEF CachesTyped, OmsTypes

LEMMA TypedWrites ==
  ASSUME OmsInv, OmsTypes, UNCHANGED <<ledgerVars, now>>, CachesTyped, NEW c \in Tasks,
         NEW t, Fields(t, TaskFields), t.pc \in {"write", "order"},
         t.pc = "write" => t.at \in Times /\ (c = "closeout" => t.rows \in Rows),
         NEW call, TypedCall(call), Write(c, t, call)
  PROVE  OmsTypes'
<1> DEFINE u == Awaiting(t, call)
<1>1. /\ task' = [task EXCEPT ![c] = u]
      /\ wire' = wire \cup {Message(c, call, 1)}
  BY DEF Write
<1>2. /\ u.pc = t.pc /\ u.call = call /\ u.at = t.at /\ u.rows = t.rows /\ u.reply = NoReply
  BY DEF Fields, TaskFields, Awaiting
<1> HIDE DEF u
<1>3. TypedTask(c, u)
  BY <1>2 DEF TypedTask, Ok
<1>4. IsFiniteSet(wire')
  BY <1>1, FS_AddElement DEF OmsTypes
<1>5. \A m \in wire' : m \in wire \/ TypedCall(m.call)
  BY <1>1 DEF Message
<1> QED BY <1>1, <1>3, <1>4, <1>5, TypedMoves DEF CachesTyped

(* Caches that an action leaves alone, or syncs with a row of the table.   *)
LEMMA CachesStay ==
  ASSUME OmsTypes, bookCache' = bookCache
  PROVE  /\ posCache' = posCache => CachesTyped
         /\ \A s \in Symbols : \A row \in Position \cup {NoPosition} :
              Sync(s, row) => CachesTyped
  BY DEF OmsTypes, CachesTyped, Sync, Rows

LEMMA TypedOf ==
  ASSUME OmsInv, OmsTypes, NEW c \in Tasks
  PROVE  /\ TypedTask(c, task[c]) /\ Fields(task[c], TaskFields)
         /\ Answered(c) /\ ~Failed(c) => Ok(task[c].reply)
  BY TaskOf DEF OmsTypes, Answered, Failed, Ok

----------------------------------------------------------------------------
(* The actions of the tasks keep what makes their next calls requests.     *)

LEMMA EnterPassTyped ==
  ASSUME OmsInv, OmsTypes, UNCHANGED <<ledgerVars, now>>, CachesTyped, NEW pass, EnterPass(pass)
  PROVE  OmsTypes'
<1> DEFINE t == [task["stream"] EXCEPT !.pass = pass]
           u == [t EXCEPT !.pc = "eval", !.at = now, !.todo = t.updated]
           v == [t EXCEPT !.pc = "list"]
<1>1. "stream" \in Tasks /\ Fields(t, TaskFields)
  BY TypedOf DEF Tasks, Fields, TaskFields
<1> HIDE DEF t
<1>2. Fields(u, TaskFields) /\ u.pc = "eval" /\ u.at = now
  BY <1>1 DEF Fields, TaskFields
<1>3. Fields(v, TaskFields) /\ v.pc = "list"
  BY <1>1 DEF Fields, TaskFields
<1>4. Resume("stream", u) \/ Read("stream", v)
  BY DEF EnterPass, t
<1>5. now \in Times
  BY DEF OmsTypes
<1> HIDE DEF u, v
<1> QED BY <1>1, <1>2, <1>3, <1>4, <1>5, TypedResumes, TypedReads

LEMMA LeavePassTyped ==
  ASSUME OmsInv, OmsTypes, UNCHANGED <<ledgerVars, now>>, CachesTyped, LeavePass
  PROVE  OmsTypes'
<1>1. CASE EnterPass("day")
  BY <1>1, EnterPassTyped
<1>2. CASE Resume("stream", [Idle EXCEPT !.pc = "pull"])
  <2> DEFINE u == [Idle EXCEPT !.pc = "pull"]
  <2>1. Fields(u, TaskFields) /\ u.pc = "pull" /\ "stream" \in Tasks
    BY IdleForm DEF Fields, TaskFields, Tasks
  <2>2. Resume("stream", u)
    BY <1>2
  <2> HIDE DEF u
  <2> QED BY <2>1, <2>2, TypedResumes
<1> QED BY <1>1, <1>2 DEF LeavePass

LEMMA ConsumeBookTyped ==
  ASSUME OmsInv, OmsTypes, NEW b \in Books, ConsumeBook(b)
  PROVE  OmsTypes'
<1> DEFINE u == [task["stream"] EXCEPT !.updated = @ \cup {b.symbol}]
<1>1. "stream" \in Tasks /\ Fields(task["stream"], TaskFields) /\ TypedTask("stream", task["stream"])
  BY TypedOf DEF Tasks
<1>2. task' = [task EXCEPT !["stream"] = u]
  BY <1>1 DEF ConsumeBook, OmsInv, TasksForm
<1>3. /\ u.pc = task["stream"].pc /\ u.call = task["stream"].call /\ u.at = task["stream"].at
      /\ u.rows = task["stream"].rows /\ u.book = task["stream"].book
      /\ u.reply = task["stream"].reply
  BY <1>1 DEF Fields, TaskFields
<1> HIDE DEF u
<1>4. TypedTask("stream", u)
  BY <1>1, <1>3 DEF TypedTask
<1>5. bookCache' \in [Symbols -> Books \cup {NoBook}] /\ posCache' \in Rows
  BY DEF ConsumeBook, OmsTypes
<1>6. UNCHANGED <<ledgerVars, now>> /\ IsFiniteSet(wire') /\ wire' = wire
  BY DEF ConsumeBook, OmsTypes
<1> QED BY <1>1, <1>2, <1>4, <1>5, <1>6, TypedMoves

LEMMA CacheLoadedTyped ==
  ASSUME OmsInv, OmsTypes, CacheLoaded
  PROVE  OmsTypes'
<1> DEFINE t == task["stream"]
           u == [t EXCEPT !.pc = "eval", !.at = now, !.todo = t.updated]
<1>1. /\ "stream" \in Tasks /\ UNCHANGED <<ledgerVars, now>> /\ bookCache' = bookCache
      /\ t.pc = "list" /\ Answered("stream")
  BY DEF Tasks, CacheLoaded
<1>2. CASE Failed("stream")
  <2>1. LeavePass /\ posCache' = posCache
    BY <1>2 DEF CacheLoaded
  <2>2. CachesTyped
    BY <1>1, <2>1, CachesStay
  <2> QED BY <1>1, <2>1, <2>2, LeavePassTyped
<1>3. CASE ~Failed("stream")
  <2>1. Resume("stream", u) /\ posCache' = t.reply.row
    BY <1>3 DEF CacheLoaded
  <2>2. posCache' \in Rows
    BY <1>1, <1>3, <2>1, TypedOf DEF TypedTask
  <2>3. CachesTyped
    BY <1>1, <2>2 DEF OmsTypes, CachesTyped
  <2>4. Fields(u, TaskFields) /\ u.pc = "eval" /\ u.at \in Times
    BY <1>1, TypedOf DEF Fields, TaskFields, OmsTypes
  <2> HIDE DEF u
  <2> QED BY <1>1, <2>1, <2>3, <2>4, TypedResumes
<1> QED BY <1>2, <1>3

LEMMA MonitorTyped ==
  ASSUME Domains, OmsInv, OmsTypes, NEW s \in Symbols, NEW skipped \in SUBSET Symbols,
         Monitor(s, skipped)
  PROVE  OmsTypes'
<1> DEFINE t == task["stream"]
           p == posCache[s]
           b == bookCache[s]
           u == [t EXCEPT !.todo = t.todo \ ({s} \cup skipped), !.item = s]
           v == [u EXCEPT !.pc = "reread", !.pos = p, !.book = b]
           w == [u EXCEPT !.pc = "write"]
<1>1. /\ "stream" \in Tasks /\ UNCHANGED <<ledgerVars, now>> /\ CachesTyped
      /\ t.pc = "eval" /\ s \in Acting
  BY CachesStay DEF Tasks, Monitor, processVars
<1>2. /\ p \in Position /\ b \in Books /\ b.depth > 0 /\ Decision(p, b, t.at) # "hold"
  BY <1>1 DEF Acting, Usable, OmsTypes, Rows
<1>3. t.at \in Times /\ Fields(t, TaskFields)
  BY <1>1, TypedOf DEF TypedTask
<1>4. Fields(u, TaskFields) /\ u.at = t.at
  BY <1>3 DEF Fields, TaskFields
<1>5. CASE Decision(p, b, t.at) = "exit"
  <2>1. Read("stream", v)
    BY <1>5 DEF Monitor
  <2> HIDE DEF u
  <2>2. Fields(v, TaskFields) /\ v.pc = "reread" /\ v.at = t.at /\ v.book = b
    BY <1>4 DEF Fields, TaskFields
  <2> HIDE DEF t, p, b, v
  <2> QED BY <1>1, <1>2, <1>3, <2>1, <2>2, TypedReads
<1>6. CASE Decision(p, b, t.at) # "exit"
  <2>1. Write("stream", w, StopCall(p, s, b))
    BY <1>6 DEF Monitor
  <2>2. p.plan.trail # 0
    BY <1>2, <1>6 DEF Decision
  <2> HIDE DEF u
  <2>3. Fields(w, TaskFields) /\ w.pc = "write" /\ w.at = t.at
    BY <1>4 DEF Fields, TaskFields
  <2> HIDE DEF t, p, b, w
  <2>4. TypedCall(StopCall(p, s, b))
    BY <1>2, <2>2, StopCallTyped
  <2> QED BY <1>1, <1>3, <2>1, <2>3, <2>4, TypedWrites
<1> QED BY <1>5, <1>6

LEMMA RereadTyped ==
  ASSUME Domains, OmsInv, OmsTypes, NEW c \in {"stream", "opening"}, Reread(c)
  PROVE  OmsTypes'
<1> DEFINE t == task[c]
           current == t.reply.row[t.item]
           stale == current = NoPosition \/ current.openedAt # t.pos.openedAt
           back == [t EXCEPT !.pc = "eval", !.item = NoItem, !.pos = NoPosition, !.book = NoBook]
           v == [t EXCEPT !.pc = "write", !.pos = NoPosition, !.book = NoBook]
           call == ExitCall(current, t.item, t.book, t.at)
<1>1. /\ UNCHANGED <<ledgerVars, now>> /\ bookCache' = bookCache /\ c \in Tasks
      /\ t.pc = "reread" /\ Answered(c)
  BY DEF Reread, Tasks
<1>2. /\ Fields(t, TaskFields) /\ t.item \in Symbols /\ t.at \in Times
      /\ t.book \in Books /\ t.book.depth > 0
  BY <1>1, TypedOf, TaskOf DEF TypedTask, TaskForm
<1>3. ~Failed(c) => current \in Position \cup {NoPosition}
  BY <1>1, <1>2, TypedOf DEF TypedTask, Rows
<1>4. CachesTyped
  <2>1. CASE c = "stream" /\ ~Failed(c) /\ stale
    <3>1. Sync(t.item, current)
      BY <2>1 DEF Reread
    <3> QED BY <1>1, <1>2, <1>3, <2>1, <3>1, CachesStay
  <2>2. CASE ~(c = "stream" /\ ~Failed(c) /\ stale)
    <3>1. UNCHANGED posCache
      BY <2>2 DEF Reread
    <3> QED BY <1>1, <3>1, CachesStay
  <2> QED BY <2>1, <2>2
<1>5. Fields(back, TaskFields) /\ back.pc = "eval" /\ back.at = t.at
  BY <1>2 DEF Fields, TaskFields
<1>6. Fields(v, TaskFields) /\ v.pc = "write" /\ v.at = t.at
  BY <1>2 DEF Fields, TaskFields
<1>7. CASE Failed(c) \/ stale
  <2>1. Resume(c, back)
    BY <1>7 DEF Reread
  <2> HIDE DEF back, t
  <2> QED BY <1>1, <1>2, <1>4, <1>5, <2>1, TypedResumes
<1>8. CASE ~(Failed(c) \/ stale)
  <2>1. Write(c, v, call)
    BY <1>8 DEF Reread
  <2>2. current \in Position
    BY <1>3, <1>8
  <2>3. TypedCall(call)
    <3> HIDE DEF current, t
    <3> QED BY <1>2, <2>2, ExitCallTyped
  <2> HIDE DEF v, call, t
  <2> QED BY <1>1, <1>2, <1>4, <1>6, <2>1, <2>3, TypedWrites
<1> QED BY <1>7, <1>8

LEMMA WrittenTyped ==
  ASSUME OmsInv, OmsTypes, NEW c \in {"stream", "opening"}, Written(c)
  PROVE  OmsTypes'
<1> DEFINE t == task[c]
           u == [t EXCEPT !.pc = "eval", !.item = NoItem]
<1>1. /\ UNCHANGED <<ledgerVars, now>> /\ bookCache' = bookCache /\ c \in Tasks
      /\ t.pc = "write" /\ Answered(c) /\ Resume(c, u)
  BY DEF Written, Tasks
<1>2. t.at \in Times /\ Fields(t, TaskFields) /\ t.item \in Symbols
  BY <1>1, TypedOf, TaskOf DEF TypedTask, TaskForm
<1>3. ~Failed(c) => t.reply.row \in Position \cup {NoPosition}
  BY <1>1, TypedOf DEF TypedTask
<1>4. CachesTyped
  <2>1. CASE c = "stream" /\ ~Failed(c)
    <3>1. Sync(t.item, t.reply.row)
      BY <2>1 DEF Written
    <3> QED BY <1>1, <1>2, <1>3, <2>1, <3>1, CachesStay
  <2>2. CASE ~(c = "stream" /\ ~Failed(c))
    <3>1. UNCHANGED posCache
      BY <2>2 DEF Written
    <3> QED BY <1>1, <3>1, CachesStay
  <2> QED BY <2>1, <2>2
<1>5. Fields(u, TaskFields) /\ u.pc = "eval" /\ u.at = t.at
  BY <1>2 DEF Fields, TaskFields
<1> HIDE DEF u, t
<1> QED BY <1>1, <1>2, <1>4, <1>5, TypedResumes

LEMMA OrdersTyped ==
  ASSUME Domains, OmsInv, OmsTypes,
         \/ \E batch \in SUBSET Orders : PullOrders(batch)
         \/ \E o \in Orders, skipped \in SUBSET Orders : ProcessOrder(o, skipped)
         \/ OrderWritten \/ Acknowledge
  PROVE  OmsTypes'
<1> DEFINE t == task["stream"]
<1>1. "stream" \in Tasks /\ Fields(t, TaskFields) /\ DOMAIN Idle = TaskFields /\ Idle.pc = "idle"
  BY TypedOf, IdleForm DEF Tasks
<1>2. ASSUME NEW batch, PullOrders(batch) PROVE OmsTypes'
  <2> DEFINE v == [Idle EXCEPT !.pc = "orders", !.todo = batch]
             u == IF batch = {} THEN Idle ELSE v
  <2>1. Resume("stream", u) /\ UNCHANGED <<ledgerVars, now>> /\ CachesTyped
    BY <1>2, CachesStay DEF PullOrders, processVars
  <2>2. Fields(u, TaskFields) /\ u.pc \in {"idle", "orders"}
    BY <1>1 DEF Fields, TaskFields
  <2> HIDE DEF u
  <2> QED BY <1>1, <2>1, <2>2, TypedResumes
<1>3. ASSUME NEW o \in Orders, NEW skipped \in SUBSET Orders, ProcessOrder(o, skipped)
      PROVE  OmsTypes'
  <2> DEFINE b == bookCache[o.symbol]
             u == [t EXCEPT !.pc = "order", !.item = o, !.todo = t.todo \ ({o} \cup skipped),
                            !.handled = t.handled \cup skipped]
  <2>1. /\ Write("stream", u, OrderCall(o, b)) /\ UNCHANGED <<ledgerVars, now>> /\ CachesTyped
        /\ o \in Fillable
    BY <1>3, CachesStay DEF ProcessOrder, processVars
  <2>2. b \in Books /\ FilledQty(o, b) > 0
    <3>1. o.symbol \in Symbols
      BY OmsAssumption DEF Order
    <3> QED BY <2>1, <3>1 DEF Fillable, Usable, OmsTypes
  <2>3. Fields(u, TaskFields) /\ u.pc = "order"
    BY <1>1 DEF Fields, TaskFields
  <2> HIDE DEF u, b
  <2>4. TypedCall(OrderCall(o, b))
    BY <2>2, OrderCallTyped
  <2> QED BY <1>1, <2>1, <2>3, <2>4, TypedWrites
<1>4. CASE OrderWritten
  <2> DEFINE u == [t EXCEPT !.pc = "orders", !.item = NoItem]
             v == [u EXCEPT !.handled = t.handled \cup {t.item}]
  <2>1. /\ UNCHANGED <<ledgerVars, now>> /\ bookCache' = bookCache
        /\ t.pc = "order" /\ Answered("stream")
    BY <1>4 DEF OrderWritten
  <2>2. t.item.symbol \in Symbols
    BY <1>1, <2>1, TaskOf, OmsAssumption DEF TaskForm, Order
  <2>3. Fields(u, TaskFields) /\ u.pc = "orders"
    BY <1>1 DEF Fields, TaskFields
  <2>4. Fields(v, TaskFields) /\ v.pc = "orders"
    BY <2>3 DEF Fields, TaskFields
  <2>5. CASE Failed("stream")
    <3>1. Resume("stream", u) /\ CachesTyped
      BY <1>4, <2>1, <2>5, CachesStay DEF OrderWritten
    <3> HIDE DEF u
    <3> QED BY <1>1, <2>1, <2>3, <3>1, TypedResumes
  <2>6. CASE ~Failed("stream")
    <3>1. Resume("stream", v) /\ Sync(t.item.symbol, t.reply.row)
      BY <1>4, <2>6 DEF OrderWritten
    <3>2. t.reply.row \in Position \cup {NoPosition}
      BY <1>1, <2>1, <2>6, TypedOf DEF TypedTask
    <3>3. CachesTyped
      BY <2>1, <2>2, <3>1, <3>2, CachesStay
    <3> HIDE DEF v
    <3> QED BY <1>1, <2>1, <2>4, <3>1, <3>3, TypedResumes
  <2> QED BY <2>5, <2>6
<1>5. CASE Acknowledge
  <2>1. Resume("stream", Idle) /\ UNCHANGED <<ledgerVars, now>> /\ CachesTyped
    BY <1>5, CachesStay DEF Acknowledge, processVars
  <2> QED BY <1>1, <2>1, TypedResumes DEF Fields
<1> QED BY <1>2, <1>3, <1>4, <1>5

LEMMA OpeningTyped ==
  ASSUME OmsInv, OmsTypes,
         OpeningStarts \/ OpeningListed \/ OpeningEnds \/
         \E s \in Symbols, b \in Books, skipped \in SUBSET Symbols : OpeningExits(s, b, skipped)
  PROVE  OmsTypes'
<1>1. "opening" \in Tasks /\ UNCHANGED <<ledgerVars, now>> /\ CachesTyped
  BY CachesStay DEF Tasks, OpeningStarts, OpeningListed, OpeningEnds, OpeningExits, processVars
<1>2. DOMAIN Idle = TaskFields /\ now \in Times
  BY IdleForm DEF OmsTypes
<1>3. CASE OpeningStarts
  <2> DEFINE u == [Idle EXCEPT !.pc = "list"]
  <2>1. Fields(u, TaskFields) /\ u.pc = "list" /\ Read("opening", u)
    BY <1>2, <1>3 DEF Fields, TaskFields, OpeningStarts
  <2> HIDE DEF u
  <2> QED BY <1>1, <2>1, TypedReads
<1>4. CASE OpeningListed
  <2> DEFINE rows == task["opening"].reply.row
             v == [Idle EXCEPT !.pc = "done"]
             w == [Idle EXCEPT !.pc = "eval", !.at = now, !.rows = rows,
                     !.todo = {s \in Symbols : rows[s] # NoPosition
                                /\ rows[s].plan.holding = "swing" /\ Elapsed(rows[s], now)}]
             u == IF Failed("opening") THEN v ELSE w
  <2>1. Fields(v, TaskFields) /\ v.pc = "done"
    BY <1>2 DEF Fields, TaskFields
  <2>2. Fields(w, TaskFields) /\ w.pc = "eval" /\ w.at = now
    BY <1>2 DEF Fields, TaskFields
  <2>3. Resume("opening", u)
    BY <1>4 DEF OpeningListed
  <2> HIDE DEF v, w
  <2>4. /\ Fields(u, TaskFields) /\ u.pc \in {"done", "eval"}
        /\ u.pc = "eval" => u.at = now
    BY <2>1, <2>2
  <2> HIDE DEF u
  <2> QED BY <1>1, <1>2, <2>3, <2>4, TypedResumes
<1>5. CASE OpeningEnds
  <2> DEFINE u == [Idle EXCEPT !.pc = "done"]
  <2>1. Fields(u, TaskFields) /\ u.pc = "done" /\ Resume("opening", u)
    BY <1>2, <1>5 DEF Fields, TaskFields, OpeningEnds
  <2> HIDE DEF u
  <2> QED BY <1>1, <2>1, TypedResumes
<1>6. ASSUME NEW s \in Symbols, NEW b \in Books, NEW skipped \in SUBSET Symbols,
             OpeningExits(s, b, skipped)
      PROVE  OmsTypes'
  <2> DEFINE t == task["opening"]
             u == [t EXCEPT !.pc = "reread", !.item = s, !.pos = t.rows[s],
                            !.book = b, !.todo = t.todo \ ({s} \cup skipped)]
  <2>1. t.pc = "eval" /\ b.depth > 0 /\ Read("opening", u)
    BY <1>6 DEF OpeningExits
  <2>2. Fields(t, TaskFields) /\ t.at \in Times
    BY <1>1, <2>1, TypedOf DEF TypedTask
  <2>3. Fields(u, TaskFields) /\ u.pc = "reread" /\ u.at = t.at /\ u.book = b
    BY <2>2 DEF Fields, TaskFields
  <2> HIDE DEF u, t
  <2> QED BY <1>1, <2>1, <2>2, <2>3, TypedReads
<1> QED BY <1>3, <1>4, <1>5, <1>6

LEMMA EndRunTyped ==
  ASSUME OmsInv, OmsTypes, UNCHANGED <<ledgerVars, now>>, CachesTyped, NEW incomplete,
         EndRun(incomplete)
  PROVE  OmsTypes'
<1> DEFINE u == [Idle EXCEPT !.rows = task["closeout"].rows]
           v == [Idle EXCEPT !.pc = "list"]
<1>1. "closeout" \in Tasks /\ DOMAIN Idle = TaskFields /\ Idle.pc = "idle"
  BY IdleForm DEF Tasks
<1>2. Fields(u, TaskFields) /\ u.pc = "idle"
  BY <1>1 DEF Fields, TaskFields
<1>3. Fields(v, TaskFields) /\ v.pc = "list"
  BY <1>1 DEF Fields, TaskFields
<1>4. Resume("closeout", u) \/ Resume("closeout", Idle) \/ Read("closeout", v)
  BY DEF EndRun
<1> HIDE DEF u, v
<1>5. CASE Resume("closeout", u)
  BY <1>1, <1>2, <1>5, TypedResumes
<1>6. CASE Resume("closeout", Idle)
  BY <1>1, <1>6, TypedResumes DEF Fields
<1>7. CASE Read("closeout", v)
  BY <1>1, <1>3, <1>7, TypedReads
<1> QED BY <1>4, <1>5, <1>6, <1>7

LEMMA CloseoutTyped ==
  ASSUME Domains, OmsInv, OmsTypes, Closeout
  PROVE  OmsTypes'
<1> DEFINE t == task["closeout"]
<1>1. /\ "closeout" \in Tasks /\ DOMAIN Idle = TaskFields /\ now \in Times
      /\ Fields(t, TaskFields) /\ TypedTask("closeout", t)
  BY TypedOf, IdleForm DEF Tasks, OmsTypes
<1>2. CASE CloseoutFires
  <2> DEFINE u == [Idle EXCEPT !.pc = "list"]
  <2>1. Fields(u, TaskFields) /\ u.pc = "list"
    BY <1>1 DEF Fields, TaskFields
  <2>2. Read("closeout", u) /\ UNCHANGED <<ledgerVars, now>> /\ CachesTyped
    BY <1>2, CachesStay DEF CloseoutFires, processVars
  <2> HIDE DEF u
  <2> QED BY <1>1, <2>1, <2>2, TypedReads
<1>3. CASE CloseoutListed
  <2> DEFINE rows == t.reply.row
             u == [Idle EXCEPT !.pc = "eval", !.at = now, !.rows = rows,
                     !.todo = {s \in Symbols : rows[s] # NoPosition
                                              /\ rows[s].plan.holding = "day"}]
  <2>1. /\ UNCHANGED <<ledgerVars, now>> /\ CachesTyped
        /\ t.pc = "list" /\ Answered("closeout")
    BY <1>3, CachesStay DEF CloseoutListed, processVars
  <2>2. CASE Failed("closeout")
    <3>1. EndRun(TRUE)
      BY <1>3, <2>2 DEF CloseoutListed
    <3> QED BY <2>1, <3>1, EndRunTyped
  <2>3. CASE ~Failed("closeout")
    <3>1. Resume("closeout", u)
      BY <1>3, <2>3 DEF CloseoutListed
    <3>2. rows \in Rows
      BY <1>1, <2>1, <2>3, TypedOf DEF TypedTask
    <3>3. Fields(u, TaskFields) /\ u.pc = "eval" /\ u.at = now /\ u.rows = rows
      BY <1>1 DEF Fields, TaskFields
    <3> HIDE DEF u, rows
    <3> QED BY <1>1, <2>1, <3>1, <3>2, <3>3, TypedResumes
  <2> QED BY <2>2, <2>3
<1>4. ASSUME NEW s \in Symbols, NEW skipped \in SUBSET Symbols, CloseoutSells(s, skipped)
      PROVE  OmsTypes'
  <2> DEFINE p == t.rows[s]
             b == bookCache[s]
             u == [t EXCEPT !.pc = "write", !.item = s, !.todo = t.todo \ ({s} \cup skipped)]
             call == ExitCall(p, s, b, t.at)
  <2>1. /\ UNCHANGED <<ledgerVars, now>> /\ CachesTyped /\ t.pc = "eval"
        /\ s \in Sellable /\ Write("closeout", u, call)
    BY <1>4, CachesStay DEF CloseoutSells
  <2>2. b \in Books /\ b.depth > 0 /\ s \in t.todo
    BY <2>1 DEF Sellable, Tried, Usable, OmsTypes
  <2>3. t.at \in Times /\ t.rows \in Rows
    BY <1>1, <2>1 DEF TypedTask
  <2>4. p # NoPosition
    BY <2>1, <2>2 DEF OmsInv, RunForm, DayRows
  <2>5. p \in Position
    BY <2>3, <2>4 DEF Rows
  <2>6. Fields(u, TaskFields) /\ u.pc = "write" /\ u.at = t.at /\ u.rows = t.rows
    BY <1>1 DEF Fields, TaskFields
  <2>7. TypedCall(call)
    <3> HIDE DEF p, b, t
    <3> QED BY <2>2, <2>3, <2>5, ExitCallTyped
  <2> HIDE DEF u, call, t
  <2> QED BY <1>1, <2>1, <2>3, <2>6, <2>7, TypedWrites
<1>5. CASE CloseoutSold
  <2> DEFINE u == [t EXCEPT !.pc = "eval", !.item = NoItem]
  <2>1. /\ UNCHANGED <<ledgerVars, now>> /\ bookCache' = bookCache
        /\ t.pc = "write" /\ Answered("closeout") /\ Resume("closeout", u)
    BY <1>5 DEF CloseoutSold
  <2>2. t.at \in Times /\ t.rows \in Rows /\ t.item \in Symbols
    BY <1>1, <2>1, TaskOf DEF TypedTask, TaskForm
  <2>3. ~Failed("closeout") => t.reply.row \in Position \cup {NoPosition}
    BY <1>1, <2>1, TypedOf DEF TypedTask
  <2>4. CachesTyped
    <3>1. CASE Failed("closeout")
      BY <1>5, <2>1, <3>1, CachesStay DEF CloseoutSold
    <3>2. CASE ~Failed("closeout")
      <4>1. Sync(t.item, t.reply.row)
        BY <1>5, <3>2 DEF CloseoutSold
      <4> QED BY <2>1, <2>2, <2>3, <3>2, <4>1, CachesStay
    <3> QED BY <3>1, <3>2
  <2>5. Fields(u, TaskFields) /\ u.pc = "eval" /\ u.at = t.at /\ u.rows = t.rows
    BY <1>1 DEF Fields, TaskFields
  <2> HIDE DEF u, t
  <2> QED BY <1>1, <2>1, <2>2, <2>4, <2>5, TypedResumes
<1>6. CASE CloseoutRunEnds
  <2> DEFINE incomplete == closeout.incomplete \/ t.todo # {}
  <2>1. UNCHANGED <<ledgerVars, now>> /\ CachesTyped /\ EndRun(incomplete)
    BY <1>6, CachesStay DEF CloseoutRunEnds
  <2> HIDE DEF incomplete
  <2> QED BY <2>1, EndRunTyped
<1> QED BY <1>2, <1>3, <1>4, <1>5, <1>6 DEF Closeout

----------------------------------------------------------------------------
(* Answers, timeouts, crashes; a write that executes is a step of a client.*)

LEMMA AnswersTyped ==
  ASSUME NEW c \in Tasks, NEW t, TypedTask(c, t), NEW u,
         u.call = t.call, u.pc = t.pc, u.at = t.at, u.rows = t.rows, u.book = t.book,
         u.pc \in {"list", "reread"} /\ Ok(u.reply) => u.reply.row \in Rows,
         u.pc \in {"write", "order"} /\ Ok(u.reply) =>
           u.reply.row \in Position \cup {NoPosition}
  PROVE  TypedTask(c, u)
BY DEF TypedTask

LEMMA ExecuteReadTyped ==
  ASSUME OmsInv, OmsTypes, NEW c \in Tasks, ExecuteRead(c)
  PROVE  OmsTypes'
<1> DEFINE t == task[c]
           u == [t EXCEPT !.reply = [outcome |-> "ok", row |-> position]]
<1>1. /\ UNCHANGED <<ledgerVars, now, wire>> /\ CachesTyped /\ t.call = ReadCall
      /\ task' = [task EXCEPT ![c] = u]
  BY CachesStay DEF ExecuteRead, processVars
<1>2. Fields(t, TaskFields) /\ TypedTask(c, t) /\ t.pc \notin {"write", "order"}
  BY <1>1, TypedOf, TaskOf DEF TaskForm, GoodCall, ReadCall
<1>3. /\ u.call = t.call /\ u.pc = t.pc /\ u.at = t.at /\ u.rows = t.rows /\ u.book = t.book
      /\ u.reply.row = position
  BY <1>2 DEF Fields, TaskFields
<1>4. position \in Rows
  BY DEF OmsTypes, LedgerTypeOK, Rows
<1> HIDE DEF u, t
<1>5. TypedTask(c, u)
  BY <1>2, <1>3, <1>4, AnswersTyped
<1> QED BY <1>1, <1>5, TypedMoves DEF CachesTyped, OmsTypes

LEMMA RetryTyped ==
  ASSUME OmsInv, OmsTypes, NEW c \in Tasks, Retry(c)
  PROVE  OmsTypes'
<1> DEFINE t == task[c]
           u == [t EXCEPT !.try = @ + 1, !.reply = NoReply]
<1>1. /\ UNCHANGED <<ledgerVars, now>> /\ CachesTyped /\ t.call \notin {NoCall, ReadCall}
      /\ wire' = wire \cup {Message(c, t.call, t.try + 1)}
  BY CachesStay DEF Retry, processVars
<1>2. task' = [task EXCEPT ![c] = u]
  <2>1. c \in DOMAIN task
    BY DEF OmsInv, TasksForm
  <2> QED BY <2>1 DEF Retry
<1>3. Fields(t, TaskFields) /\ TypedTask(c, t)
  BY TypedOf
<1>4. /\ u.call = t.call /\ u.pc = t.pc /\ u.at = t.at /\ u.rows = t.rows /\ u.book = t.book
      /\ ~Ok(u.reply)
  BY <1>3 DEF Fields, TaskFields, Ok
<1>5. TypedCall(t.call)
  BY <1>1, <1>3 DEF TypedTask
<1> HIDE DEF u, t
<1>6. TypedTask(c, u)
  BY <1>3, <1>4, AnswersTyped
<1>7. IsFiniteSet(wire')
  BY <1>1, FS_AddElement DEF OmsTypes
<1>8. \A m \in wire' : m \in wire \/ TypedCall(m.call)
  BY <1>1, <1>5 DEF Message
<1> QED BY <1>1, <1>2, <1>6, <1>7, <1>8, TypedMoves DEF CachesTyped

LEMMA GiveUpTyped ==
  ASSUME OmsInv, OmsTypes, NEW c \in Tasks, GiveUp(c)
  PROVE  OmsTypes'
<1> DEFINE t == task[c]
           u == [t EXCEPT !.reply = [outcome |-> "error", row |-> NoPosition]]
<1>1. /\ UNCHANGED <<ledgerVars, now, wire>> /\ CachesTyped /\ task' = [task EXCEPT ![c] = u]
  BY CachesStay DEF GiveUp, processVars
<1>2. Fields(t, TaskFields) /\ TypedTask(c, t)
  BY TypedOf
<1>3. /\ u.call = t.call /\ u.pc = t.pc /\ u.at = t.at /\ u.rows = t.rows /\ u.book = t.book
      /\ ~Ok(u.reply)
  BY <1>2 DEF Fields, TaskFields, Ok
<1> HIDE DEF u, t
<1>4. TypedTask(c, u)
  BY <1>2, <1>3, AnswersTyped
<1> QED BY <1>1, <1>4, TypedMoves DEF CachesTyped, OmsTypes

LEMMA CrashTyped ==
  ASSUME OmsInv, OmsTypes, Crash \/ OpeningCrash
  PROVE  OmsTypes'
<1> DEFINE u == [Idle EXCEPT !.pc = "done"]
<1>1. /\ Idle.pc = "idle" /\ Idle.call = NoCall
      /\ u.pc = "done" /\ u.call = NoCall
  BY IdleForm DEF TaskFields, Idle
<1> HIDE DEF u
<1>2. \A c \in Tasks : TypedTask(c, Idle) /\ TypedTask(c, u)
  BY <1>1 DEF TypedTask
<1>3. /\ position' = position /\ trades' = trades /\ now' = now /\ wire' = wire
  BY DEF Crash, OpeningCrash, ledgerVars
<1>4. CachesTyped
  BY CachesStay DEF Crash, OpeningCrash, processVars, CachesTyped, Rows
<1>5. \A c \in Tasks : task'[c] \in {task[c], Idle, u}
  BY DEF OmsInv, TasksForm, Crash, OpeningCrash, u
<1>6. \A c \in Tasks : TypedTask(c, task'[c])
  BY <1>2, <1>5 DEF OmsTypes
<1> QED BY <1>3, <1>4, <1>6 DEF OmsTypes, LedgerTypeOK, CachesTyped

(* What a write does to the tables, it does as a request.                  *)
LEMMA ExecutesRequest ==
  ASSUME Domains, OmsInv, OmsTypes, NEW m \in wire, Execute(m)
  PROVE  /\ LedgerNext
         /\ LedgerTypeOK' /\ IsFiniteSet(trades')
         /\ Result(m.call) \in Position \cup {NoPosition}
<1>1. TypedCall(m.call) /\ GoodCall(m.call, trades) /\ LedgerPart(position, trades)
  BY DEF OmsInv, OmsTypes
<1>2. CASE m.call.kind = "fill"
  <2> DEFINE req == m.call.req
  <2>1. ApplyFill(req) /\ req \in FillRequest /\ Result(m.call) = FillResult(req)
    BY <1>1, <1>2 DEF Execute, TypedCall, Result
  <2>2. LedgerTypeOK'
    BY <2>1, FillKeepsTypes DEF OmsTypes
  <2>3. trades' \in {trades, trades \cup {TradeOf(req)}}
    BY <2>1 DEF ApplyFill, ledgerVars
  <2>4. FillResult(req) = position'[req.symbol] /\ req.symbol \in Symbols
    BY <1>1, <1>2, <2>1, FillTouches DEF GoodCall
  <2> HIDE DEF req
  <2>5. IsFiniteSet(trades')
    BY <2>3, FS_AddElement DEF OmsTypes
  <2> QED BY <2>1, <2>2, <2>4, <2>5 DEF LedgerNext, Domains, LedgerTypeOK
<1>3. CASE m.call.kind # "fill"
  <2> DEFINE req == m.call.req
  <2>1. UpdateStopLoss(req) /\ req \in StopRequest /\ Result(m.call) = StopResult(req)
    BY <1>1, <1>3 DEF Execute, TypedCall, Result
  <2>2. LedgerTypeOK'
    BY <2>1, StopKeepsTypes DEF OmsTypes
  <2>3. trades' = trades
    BY <2>1 DEF UpdateStopLoss
  <2>4. StopResult(req) = position'[req.symbol] /\ req.symbol \in Symbols
    BY <1>1, <2>1, StopTouches DEF GoodCall
  <2> HIDE DEF req
  <2> QED BY <2>1, <2>2, <2>3, <2>4 DEF LedgerNext, Domains, LedgerTypeOK, OmsTypes
<1> QED BY <1>2, <1>3

LEMMA ExecuteTyped ==
  ASSUME Domains, OmsInv, OmsTypes, NEW m \in wire, Execute(m)
  PROVE  OmsTypes'
<1> DEFINE reply == [outcome |-> Outcome(m.call), row |-> Result(m.call)]
<1>1. now' = now /\ wire' = wire \ {m} /\ CachesTyped
  BY CachesStay DEF Execute, processVars
<1>2. /\ LedgerTypeOK' /\ IsFiniteSet(trades')
      /\ reply.row \in Position \cup {NoPosition}
  BY ExecutesRequest
<1> HIDE DEF reply
<1>3. IsFiniteSet(wire') /\ \A n \in wire' : TypedCall(n.call)
  BY <1>1, FS_RemoveElement DEF OmsTypes
<1>4. ASSUME NEW c \in Tasks PROVE TypedTask(c, task'[c])
  <2> DEFINE t == task[c]
             u == [t EXCEPT !.reply = reply]
  <2>1. Fields(t, TaskFields) /\ TypedTask(c, t) /\ TaskForm(t, trades)
    BY TypedOf, TaskOf
  <2>2. \/ task'[c] = t
        \/ task'[c] = u /\ t.call = m.call
    BY DEF Execute, Deliver, OmsInv, TasksForm, reply
  <2>3. t.call = m.call => t.pc \notin {"list", "reread"}
    BY <2>1 DEF OmsInv, TaskForm, GoodCall, ReadCall
  <2>4. /\ u.call = t.call /\ u.pc = t.pc /\ u.at = t.at /\ u.rows = t.rows
        /\ u.book = t.book /\ u.reply = reply
    BY <2>1 DEF Fields, TaskFields
  <2> HIDE DEF t, u
  <2>5. t.call = m.call => TypedTask(c, u)
    BY <1>2, <2>1, <2>3, <2>4, AnswersTyped
  <2> QED BY <2>1, <2>2, <2>5
<1> QED BY <1>1, <1>2, <1>3, <1>4 DEF OmsTypes, CachesTyped

----------------------------------------------------------------------------
LEMMA ClientStart == ASSUME Domains PROVE Init => OmsClient
<1> SUFFICES ASSUME Init PROVE OmsClient
  OBVIOUS
<1>1. LedgerTypeOK /\ IsFiniteSet(trades) /\ IsFiniteSet(wire)
  BY FS_EmptySet DEF Init, LedgerInit, LedgerTypeOK
<1>2. now \in Times /\ posCache \in Rows
      /\ bookCache \in [Symbols -> Books \cup {NoBook}]
  BY DEF Init, Domains, Rows
<1>3. \A c \in Tasks : TypedTask(c, task[c])
  BY IdleForm DEF Init, TypedTask
<1> QED BY <1>1, <1>2, <1>3, OmsStart DEF OmsClient, OmsTypes, Init

LEMMA ClientKeeps == ASSUME Domains PROVE OmsClient /\ [Next]_omsVars => OmsClient'
<1> SUFFICES ASSUME OmsInv, OmsTypes, [Next]_omsVars PROVE OmsTypes'
  BY OmsKeeps DEF OmsClient
<1>1. CASE UNCHANGED omsVars
  BY <1>1 DEF OmsTypes, omsVars, LedgerTypeOK
<1>2. CASE Database
  BY <1>2, ExecuteTyped, ExecuteReadTyped DEF Database
<1>3. ASSUME NEW b \in Books, ConsumeBook(b) PROVE OmsTypes'
  BY <1>3, ConsumeBookTyped
<1>4. CASE Monitors
  <2>1. CASE BeginMonitors
    BY <2>1, EnterPassTyped, CachesStay DEF BeginMonitors, processVars
  <2>2. CASE PassDone
    BY <2>2, LeavePassTyped, CachesStay DEF PassDone, processVars
  <2> QED BY <1>4, <2>1, <2>2, CacheLoadedTyped, MonitorTyped, RereadTyped, WrittenTyped
          DEF Monitors
<1>5. CASE (\E batch \in SUBSET Orders : PullOrders(batch)) \/ OrderLoop
  BY <1>5, OrdersTyped DEF OrderLoop
<1>6. CASE Closeout
  BY <1>6, CloseoutTyped
<1>7. CASE OpeningBatch
  BY <1>7, OpeningTyped, RereadTyped, WrittenTyped DEF OpeningBatch
<1>8. CASE Environment
  <2>1. ASSUME NEW o \in Orders, Redeliver(o) PROVE OmsTypes'
    BY <2>1 DEF Redeliver, OmsTypes, ledgerVars, processVars, LedgerTypeOK
  <2>2. CASE Tick
    <3>1. now' \in Times
      BY <2>2 DEF Tick, OmsTypes, Domains
    <3> QED BY <2>2, <3>1 DEF Tick, OmsTypes, ledgerVars, processVars, LedgerTypeOK
  <2> QED BY <1>8, <2>1, <2>2, RetryTyped, GiveUpTyped, CrashTyped DEF Environment
<1> QED BY <1>1, <1>2, <1>3, <1>4, <1>5, <1>6, <1>7, <1>8 DEF Next

(* Every step of the service, whatever it has cached, retried or lost, is  *)
(* a call of one of the ledger's two functions or leaves the tables alone: *)
(* the stream, the closeout and the opening exits are clients of the       *)
(* ledger and nothing more.                                                *)
THEOREM OmsIsClient == ASSUME Domains PROVE Spec => LedgerSpec
<1>1. Init => OmsClient /\ LedgerInit
  BY ClientStart DEF Init
<1>2. OmsClient /\ [Next]_omsVars => OmsClient'
  BY ClientKeeps
<1>3. OmsClient /\ [Next]_omsVars => [LedgerNext]_ledgerVars
  BY OthersLeaveLedger, ExecutesRequest DEF OmsClient
<1> QED BY <1>1, <1>2, <1>3, PTL DEF Spec, LedgerSpec

(* So what the ledger promises any clients holds while the service runs,   *)
(* whatever it retries after a timeout and however late its calls execute: *)
(* nothing is filled twice, every share is accounted for by a generation   *)
(* that was opened, averages stay among the prices paid, stops never fall. *)
THEOREM OmsKeepsLedger ==
  ASSUME Domains
  PROVE  Spec => /\ []LedgerTypeOK /\ []NoDoubleFill /\ []Lineage
                 /\ []Conserved /\ []EntryBetweenBuys
                 /\ StopsOnlyRise /\ ImplementsAccount
  BY OmsIsClient, LedgerTypes, LedgerNoDoubleFill, LedgerLineage, LedgerConserved,
     LedgerEntries, LedgerStopsOnlyRise, LedgerIsAccount, PTL
==============================================================================
