---------------------------- MODULE LiveTrading ----------------------------
(***************************************************************************)
(* oms-live: orders from the live-orders topic, the stop monitor's exits   *)
(* and the day closeout, sent to the broker, polled and recorded in        *)
(* trades_live, positions and the profit row.  The stream and the closeout *)
(* are asyncio tasks of one process, and the closeout runs one task per    *)
(* position; an action is the code between two awaits.  The broker is      *)
(* modelled from how the service uses it: it fills orders when it likes,   *)
(* and refuses to sell what is not held.                                   *)
(*                                                                         *)
(* Prices are left out: a stop may fire at any moment (a trailing update   *)
(* changes no quantity), and the profit of a sale is the number of its     *)
(* shares.  The retries of a database call are one call, which may fail    *)
(* with or without its effect; a write executed after that is left out.    *)
(***************************************************************************)
EXTENDS Integers, Sequences, FiniteSetsExt

CONSTANTS
  Symbols,
  Orders,        \* the messages of the live-orders topic
  Exit,          \* the id of an exit: fresh, and never sent again
  NoOrder,       \* a task that works on no order
  Opening,       \* shares of each symbol when the day begins
  Refused,       \* orders beyond allowed_symbols or max_qty_per_order
  MaxSent,       \* bound on the orders the broker accepts
  Faults,        \* bound on the faults of a behaviour
  FaultKinds     \* the kinds of faults that may happen

Order == [id : Nat, symbol : Symbols, side : {"BUY", "SELL"}, qty : Nat \ {0}]

(* The closeout's tasks are named by their symbols.                        *)
Tasks == {"stream", "closeout"} \cup Symbols

ASSUME LiveAssumption ==
  /\ Orders \subseteq Order /\ NoOrder \notin Order /\ Exit \notin Nat
  /\ \A o, u \in Orders : o.id = u.id => o = u
  /\ Opening \in [Symbols -> Nat] /\ Refused \subseteq Orders
  /\ {"stream", "closeout"} \cap Symbols = {}
  /\ MaxSent \in Nat /\ Faults \in Nat
  /\ FaultKinds \subseteq {"error", "lost", "unsent", "blind", "crash"}

VARIABLES
  broker,     \* the orders the broker accepted, in its order
  position,   \* quantity of each live row of positions, 0 for no row
  trades,     \* trades_live
  profit,     \* daily_pnl of system_status, in shares sold
  allowed,    \* is_trading_allowed
  issued,     \* messages published on live-orders
  acked,      \* messages acknowledged
  alive,      \* whether the process runs
  job,        \* where each task stands
  batch,      \* messages left to process, and those to acknowledge
  pending,    \* _pending_broker_order_deadlines: symbol and side
  cache,      \* live_position_cache
  closeout,   \* progress of today's run_closeout
  faults,     \* faults left
  torn        \* history: symbols with a trade whose position was not written

processVars == <<alive, job, batch, pending, cache, closeout>>
tableVars == <<position, trades, profit, allowed>>
liveVars == <<broker, tableVars, issued, acked, processVars, faults, torn>>

Idle == [pc |-> "idle", order |-> NoOrder, existing |-> 0, sent |-> 0,
         fill |-> 0, seen |-> 0]
NoBatch == [todo |-> {}, done |-> {}]

Fault(kind) == kind \in FaultKinds /\ faults > 0 /\ faults' = faults - 1

----------------------------------------------------------------------------
(* The broker.                                                             *)

SentFor(s, side) == {i \in DOMAIN broker : broker[i].symbol = s /\ broker[i].side = side}

FilledOf(s, side) == MapThenSumSet(LAMBDA i : broker[i].cum, SentFor(s, side))

Holding(s) == Opening[s] + FilledOf(s, "BUY") - FilledOf(s, "SELL")

(* Shares that no working sale has a claim on.                             *)
Free(s) == Holding(s) -
  MapThenSumSet(LAMBDA i : broker[i].qty - broker[i].cum,
                {i \in SentFor(s, "SELL") : broker[i].working})

Accepts(o) == Len(broker) < MaxSent /\ (o.side = "SELL" => o.qty <= Free(o.symbol))

Accept(o) == broker' = Append(broker, [order |-> o.id, symbol |-> o.symbol,
                                       side |-> o.side, qty |-> o.qty,
                                       cum |-> 0, working |-> TRUE])

BrokerFills(i, n) ==
  /\ broker[i].working /\ n \in 1 .. broker[i].qty - broker[i].cum
  /\ broker' = [broker EXCEPT ![i].cum = @ + n,
                              ![i].working = broker[i].cum + n < broker[i].qty]
  /\ UNCHANGED <<tableVars, issued, acked, processVars, faults, torn>>

(* An order that expires or is refused by the exchange.                    *)
BrokerEnds(i) ==
  /\ broker[i].working
  /\ broker' = [broker EXCEPT ![i].working = FALSE]
  /\ UNCHANGED <<tableVars, issued, acked, processVars, faults, torn>>

----------------------------------------------------------------------------
(* How a task goes on.                                                     *)

Go(w, next) == job' = [job EXCEPT ![w] = next]
At(w, pc) == alive /\ job[w].pc = pc
Routed(w) == w = "stream" /\ job[w].order.id # Exit

(* A closeout that dies is not run again today.                            *)
Interrupted ==
  IF closeout.at \in {"waiting", "ended"} THEN closeout
  ELSE [closeout EXCEPT !.at = "ended", !.result = "interrupted"]

(* The process ends; what its tasks had in hand is forgotten.  The broker  *)
(* and the database stay as they are.                                      *)
Die(flushed, unwritten) ==
  /\ alive' = FALSE
  /\ job' = [w \in Tasks |-> Idle]
  /\ batch' = NoBatch /\ pending' = {}
  /\ cache' = [s \in Symbols |-> 0]
  /\ closeout' = Interrupted
  /\ acked' = acked \cup flushed
  /\ torn' = torn \cup unwritten
              \cup {job[w].order.symbol : w \in {v \in Tasks : job[v].pc = "write"}}

(* _process_order and _process_closeout_order return: a message is done, a *)
(* filled exit leaves the cache, a task of the closeout has its outcome.   *)
Return_KeepsUnfilled(w, outcome) ==
  /\ Go(w, IF w \in Symbols THEN [job[w] EXCEPT !.pc = outcome]
           ELSE IF w = "stream" /\ Routed(w) THEN [Idle EXCEPT !.pc = "batch"]
           ELSE Idle)
  /\ batch' = IF w = "stream" /\ Routed(w) /\ outcome # "no_fill"
              THEN [batch EXCEPT !.done = @ \cup {job[w].order}] ELSE batch
  /\ cache' = IF w = "stream" /\ ~Routed(w) /\ outcome = "filled"
              THEN [cache EXCEPT ![job[w].order.symbol] = 0] ELSE cache
  /\ closeout' = IF w = "closeout" THEN [closeout EXCEPT !.at = "recheck"]
                 ELSE closeout
  /\ UNCHANGED <<alive, acked>>

Return(w, outcome) ==
  /\ Go(w, IF w \in Symbols THEN [job[w] EXCEPT !.pc = outcome]
           ELSE IF w = "stream" /\ Routed(w) THEN [Idle EXCEPT !.pc = "batch"]
           ELSE Idle)
  /\ batch' = IF w = "stream" /\ Routed(w)
              THEN [batch EXCEPT !.done = @ \cup {job[w].order}] ELSE batch
  /\ cache' = IF w = "stream" /\ ~Routed(w) /\ outcome = "filled"
              THEN [cache EXCEPT ![job[w].order.symbol] = 0] ELSE cache
  /\ closeout' = IF w = "closeout" THEN [closeout EXCEPT !.at = "recheck"]
                 ELSE closeout
  /\ UNCHANGED <<alive, acked>>

(* A SupabaseError: fatal for the stream's messages, after a last attempt  *)
(* to acknowledge what is done; logged for exits and for the closeout.     *)
Break(w, unwritten) ==
  IF Routed(w)
  THEN \E flushed \in {{}, batch.done} : Die(flushed, unwritten)
  ELSE /\ Return(w, "failed") /\ torn' = torn \cup unwritten /\ UNCHANGED pending

----------------------------------------------------------------------------
(* The topic.  The gateway buys what has no row, and a symbol sold today   *)
(* not again; a sale is of the whole row.                                  *)

Issue(o) ==
  /\ o \in Orders \ issued
  /\ IF o.side = "BUY"
     THEN position[o.symbol] = 0
          /\ ~\E t \in trades : t.symbol = o.symbol /\ t.side = "SELL"
     ELSE position[o.symbol] = o.qty
  /\ issued' = issued \cup {o}
  /\ UNCHANGED <<broker, tableVars, acked, processVars, faults, torn>>

Pull(S) ==
  /\ At("stream", "idle") /\ S # {} /\ S \subseteq issued \ acked
  /\ Go("stream", [Idle EXCEPT !.pc = "batch"])
  /\ batch' = [todo |-> S, done |-> {}]
  /\ UNCHANGED <<broker, tableVars, issued, acked, alive, pending, cache,
                 closeout, faults, torn>>

Take(o) ==
  /\ At("stream", "batch") /\ o \in batch.todo
  /\ Go("stream", [Idle EXCEPT !.pc = "check", !.order = o])
  /\ batch' = [batch EXCEPT !.todo = @ \ {o}]
  /\ UNCHANGED <<broker, tableVars, issued, acked, alive, pending, cache,
                 closeout, faults, torn>>

Acknowledge ==
  /\ At("stream", "batch") /\ batch.todo = {}
  /\ acked' = acked \cup batch.done
  /\ Go("stream", Idle) /\ batch' = NoBatch
  /\ UNCHANGED <<broker, tableVars, issued, alive, pending, cache, closeout,
                 faults, torn>>

(* live_trade_exists_for_order_id, the safety knobs and the mark of a      *)
(* broker order that was left working.                                     *)
Recorded(o) == o.id # Exit /\ \E t \in trades : t.order = o.id

Check ==
  LET o == job["stream"].order
  IN  /\ At("stream", "check")
      /\ \/ /\ IF Recorded(o) \/ o \in Refused \/ <<o.symbol, o.side>> \in pending
               THEN Return("stream", "skipped")
               ELSE /\ Go("stream", [job["stream"] EXCEPT !.pc = "send"])
                    /\ UNCHANGED <<alive, acked, batch, cache, closeout>>
            /\ UNCHANGED <<pending, faults, torn>>
         \/ Fault("error") /\ Break("stream", {})
      /\ UNCHANGED <<broker, tableVars, issued>>

----------------------------------------------------------------------------
(* The life of an order at the broker.                                     *)

KeyOf(w) == <<job[w].order.symbol, job[w].order.side>>

Send(w) ==
  /\ At(w, "send") /\ Accepts(job[w].order) /\ Accept(job[w].order)
  /\ Go(w, [job[w] EXCEPT !.pc = "poll", !.sent = Len(broker) + 1])
  /\ pending' = IF Routed(w) THEN pending \cup {KeyOf(w)} ELSE pending
  /\ UNCHANGED <<tableVars, issued, acked, alive, batch, cache, closeout, faults, torn>>

SendRejected(w) ==
  /\ At(w, "send") /\ Return(w, "no_fill")
  /\ UNCHANGED <<broker, tableVars, issued, pending, faults, torn>>

(* The reply to sendorder is lost: an exception of httpx, which only the   *)
(* closeout's gather catches.                                              *)
SendUnanswered(w) ==
  /\ At(w, "send") /\ Fault("unsent")
  /\ \/ Accepts(job[w].order) /\ Accept(job[w].order)
     \/ UNCHANGED broker
  /\ IF w = "stream" THEN Die({}, {})
     ELSE Return(w, "no_fill") /\ UNCHANGED <<pending, torn>>
  /\ UNCHANGED <<tableVars, issued>>

(* apply_fill refuses a sale of more than the row.                         *)
Applies(o, existing, fill) == o.side = "SELL" => fill <= existing

(* _poll_until_filled: any filled quantity is terminal, also while the     *)
(* rest may still fill.                                                    *)
Poll(w) ==
  LET b == broker[job[w].sent]
  IN  /\ At(w, "poll") /\ (b.cum > 0 \/ ~b.working)
      /\ pending' = IF Routed(w) THEN pending \ {KeyOf(w)} ELSE pending
      /\ IF b.cum = 0 \/ (~Routed(w) /\ ~Applies(job[w].order, job[w].existing, b.cum))
         THEN Return(w, "no_fill")
         ELSE /\ Go(w, [job[w] EXCEPT !.fill = b.cum,
                          !.pc = IF Routed(w) THEN "read" ELSE "insert"])
              /\ UNCHANGED <<alive, acked, batch, cache, closeout>>
      /\ UNCHANGED <<broker, tableVars, issued, faults, torn>>

(* Or the query fails, whatever was filled meanwhile.                      *)
PollTimesOut(w) ==
  /\ At(w, "poll")
  /\ Go(w, [job[w] EXCEPT !.pc = "cancel"])
  /\ UNCHANGED <<broker, tableVars, issued, acked, alive, batch, pending, cache,
                 closeout, faults, torn>>

(* _best_effort_cancel may fail, and may come too late.                    *)
Cancel(w) ==
  /\ At(w, "cancel")
  /\ \/ broker' = [broker EXCEPT ![job[w].sent].working = FALSE]
     \/ UNCHANGED broker
  /\ Return(w, "no_fill")
  /\ UNCHANGED <<tableVars, issued, pending, faults, torn>>

CooldownEnds(key) ==
  /\ alive /\ key \in pending
  /\ pending' = pending \ {key}
  /\ UNCHANGED <<broker, tableVars, issued, acked, alive, job, batch, cache,
                 closeout, faults, torn>>

----------------------------------------------------------------------------
(* Recording a fill: the row is read (an exit uses the row it was decided  *)
(* on), the trade inserted, the row written, the profit added.             *)

ReadPosition ==
  LET o == job["stream"].order
      j == [job["stream"] EXCEPT !.existing = position[o.symbol]]
  IN  /\ At("stream", "read")
      /\ \/ /\ IF Applies(o, position[o.symbol], j.fill)
               THEN /\ Go("stream", [j EXCEPT !.pc = "insert"])
                    /\ UNCHANGED <<alive, acked, batch, cache, closeout>>
               ELSE Return("stream", "no_fill")
            /\ UNCHANGED <<pending, faults, torn>>
         \/ Fault("error") /\ Break("stream", {})
      /\ UNCHANGED <<broker, tableVars, issued>>

TradeOf_Ordered(w) == [order |-> job[w].order.id, sent |-> job[w].sent,
               symbol |-> job[w].order.symbol, side |-> job[w].order.side,
               qty |-> job[w].order.qty]

TradeOf(w) == [order |-> job[w].order.id, sent |-> job[w].sent,
               symbol |-> job[w].order.symbol, side |-> job[w].order.side,
               qty |-> job[w].fill]

(* The stream is alone in recording a message, and it has just checked: the *)
(* unique index finds nothing.                                             *)
InsertTrade(w) ==
  /\ At(w, "insert")
  /\ \/ /\ trades' = trades \cup {TradeOf(w)}
        /\ Go(w, [job[w] EXCEPT !.pc = "write"])
        /\ UNCHANGED <<alive, acked, batch, pending, cache, closeout, faults, torn>>
     \/ Fault("error") /\ Break(w, {}) /\ UNCHANGED trades
     \/ /\ Fault("lost") /\ Break(w, {job[w].order.symbol})
        /\ trades' = trades \cup {TradeOf(w)}
  /\ UNCHANGED <<broker, position, profit, allowed, issued>>

(* A new row is inserted, by the only task that buys, an empty one deleted, *)
(* another one patched.                                                    *)
NewQuantity_Ordered(w) ==
  IF job[w].order.side = "BUY" THEN job[w].existing + job[w].order.qty
  ELSE job[w].existing - job[w].order.qty

NewQuantity(w) ==
  IF job[w].order.side = "BUY" THEN job[w].existing + job[w].fill
  ELSE job[w].existing - job[w].fill

PatchesNothing(w) ==
  job[w].existing # 0 /\ position[job[w].order.symbol] = 0

WriteRow(w) ==
  position' = [position EXCEPT ![job[w].order.symbol] =
                 IF PatchesNothing(w) THEN 0 ELSE NewQuantity(w)]

Written(w) ==
  IF job[w].order.side = "SELL" /\ w = "stream"
  THEN /\ Go(w, [job[w] EXCEPT !.pc = "pnl"])
       /\ UNCHANGED <<alive, acked, batch, cache, closeout>>
  ELSE Return(w, "filled")

WritePosition(w) ==
  LET s == job[w].order.symbol
  IN  /\ At(w, "write")
      /\ \/ WriteRow(w) /\ Written(w) /\ UNCHANGED <<pending, faults, torn>>
         \/ Fault("error") /\ Break(w, {s}) /\ UNCHANGED position
         \/ Fault("lost") /\ WriteRow(w) /\ Break(w, {})
      /\ UNCHANGED <<broker, trades, profit, allowed, issued>>

(* add_realized_pnl reads the row, adds and writes it; after a lost reply  *)
(* it does so again.                                                       *)
ReadProfit(w) ==
  /\ At(w, "pnl")
  /\ \/ /\ Go(w, [job[w] EXCEPT !.pc = "add", !.seen = profit])
        /\ UNCHANGED <<alive, acked, batch, pending, cache, closeout, faults, torn>>
     \/ Fault("error") /\ Break(w, {})
  /\ UNCHANGED <<broker, tableVars, issued>>

AddProfit(w) ==
  /\ At(w, "add")
  /\ \/ /\ profit' = job[w].seen + job[w].fill
        /\ Return(w, "filled") /\ UNCHANGED <<pending, faults, torn>>
     \/ Fault("error") /\ Break(w, {}) /\ UNCHANGED profit
     \/ /\ Fault("lost")
        /\ profit' = job[w].seen + job[w].fill
        /\ Go(w, [job[w] EXCEPT !.pc = "pnl"])
        /\ UNCHANGED <<alive, acked, batch, pending, cache, closeout, torn>>
  /\ UNCHANGED <<broker, position, trades, allowed, issued>>

----------------------------------------------------------------------------
(* The stop monitor decides on the cached row and does not read it again.  *)

SaleOf(s, qty) == [Idle EXCEPT !.pc = "send", !.existing = qty,
                     !.order = [id |-> Exit, symbol |-> s, side |-> "SELL", qty |-> qty]]

RefreshCache ==
  /\ At("stream", "idle") /\ cache # position
  /\ cache' = position
  /\ UNCHANGED <<broker, tableVars, issued, acked, alive, job, batch, pending,
                 closeout, faults, torn>>

StopExit(s) ==
  /\ At("stream", "idle") /\ cache[s] > 0
  /\ Go("stream", SaleOf(s, cache[s]))
  /\ UNCHANGED <<broker, tableVars, issued, acked, alive, batch, pending, cache,
                 closeout, faults, torn>>

----------------------------------------------------------------------------
(* run_closeout.                                                           *)

CloseoutAt(at) == alive /\ closeout.at = at
Reach(at) == closeout' = [closeout EXCEPT !.at = at]
End(result) == closeout' = [closeout EXCEPT !.at = "ended", !.result = result]
Flat(f) == \A s \in Symbols : f[s] = 0
closeoutKeeps == <<broker, issued, acked, alive, batch, pending, cache, torn>>

CloseoutFires ==
  /\ CloseoutAt("waiting")
  /\ \/ Reach("list") /\ UNCHANGED faults
     \/ Fault("error") /\ End("skipped")
  /\ UNCHANGED <<closeoutKeeps, tableVars, job>>

(* No handler catches a failed list: the process ends.                     *)
CloseoutLists ==
  /\ CloseoutAt("list")
  /\ \/ /\ closeout' = [closeout EXCEPT !.at = "precheck", !.listed = position]
        /\ UNCHANGED <<job, faults, acked, alive, batch, pending, cache, torn>>
     \/ Fault("error") /\ Die({}, {})
  /\ UNCHANGED <<broker, tableVars, issued>>

Precheck ==
  LET listed == closeout.listed
  IN  /\ CloseoutAt("precheck")
      /\ \/ /\ closeout' = [closeout EXCEPT
                 !.bought = [s \in Symbols |-> FilledOf(s, "BUY")],
                 !.at = IF \E s \in Symbols : Holding(s) # listed[s] THEN "halt"
                        ELSE IF Flat(listed) THEN "ended" ELSE "selling",
                 !.result = IF Flat(listed) THEN "empty" ELSE "none"]
            /\ job' = [w \in Tasks |->
                 IF w \in Symbols /\ closeout'.at = "selling" /\ listed[w] > 0
                 THEN SaleOf(w, listed[w]) ELSE job[w]]
            /\ UNCHANGED faults
         \/ Fault("blind") /\ Reach("halt") /\ UNCHANGED job
      /\ UNCHANGED <<closeoutKeeps, tableVars>>

Gather ==
  LET sold  == {s \in Symbols : job[s].pc = "filled"}
      total == MapThenSumSet(LAMBDA s : job[s].fill, sold)
  IN  /\ CloseoutAt("selling")
      /\ \A s \in Symbols : job[s].pc \in {"idle", "filled", "no_fill", "failed"}
      /\ job' = [w \in Tasks |->
           IF w \in Symbols THEN Idle
           ELSE IF w = "closeout" /\ total > 0 THEN [Idle EXCEPT !.pc = "pnl", !.fill = total]
           ELSE job[w]]
      /\ Reach(IF total > 0 THEN "profit" ELSE "recheck")
      /\ UNCHANGED <<closeoutKeeps, tableVars, faults>>

Recheck ==
  /\ CloseoutAt("recheck")
  /\ \/ /\ closeout' = [closeout EXCEPT !.at = "postcheck", !.listed = position]
        /\ UNCHANGED faults
     \/ Fault("error") /\ End("blind")
  /\ UNCHANGED <<closeoutKeeps, tableVars, job>>

Postcheck_TablesOnly ==
  /\ CloseoutAt("postcheck")
  /\ \/ /\ IF Flat(closeout.listed) THEN End("clear") ELSE Reach("halt")
        /\ UNCHANGED faults
     \/ Fault("blind") /\ End("blind")
  /\ UNCHANGED <<closeoutKeeps, tableVars, job>>

Postcheck ==
  /\ CloseoutAt("postcheck")
  /\ \/ /\ IF Flat(closeout.listed) /\ Flat([s \in Symbols |-> Holding(s)])
           THEN End("clear") ELSE Reach("halt")
        /\ UNCHANGED faults
     \/ Fault("blind") /\ End("blind")
  /\ UNCHANGED <<closeoutKeeps, tableVars, job>>

(* _disable_trading_after_closeout_failure.                                *)
Halt ==
  /\ CloseoutAt("halt")
  /\ \/ allowed' = FALSE /\ End("halted") /\ UNCHANGED faults
     \/ Fault("error") /\ End("unhalted") /\ UNCHANGED allowed
  /\ UNCHANGED <<closeoutKeeps, position, trades, profit, job>>

----------------------------------------------------------------------------
Crash ==
  /\ alive /\ Fault("crash") /\ Die({}, {})
  /\ UNCHANGED <<broker, tableVars, issued>>

(* The container restarts unless it was stopped, after whatever exit code; *)
(* a closeout whose time has passed waits for tomorrow.                    *)
Restart ==
  /\ ~alive /\ alive' = TRUE
  /\ \/ UNCHANGED closeout
     \/ closeout.at = "waiting" /\ End("missed")
  /\ UNCHANGED <<broker, tableVars, issued, acked, job, batch, pending, cache,
                 faults, torn>>

----------------------------------------------------------------------------
Nothing == [s \in Symbols |-> 0]

Init ==
  /\ broker = <<>> /\ position = Opening /\ trades = {} /\ profit = 0
  /\ allowed = TRUE /\ issued = {} /\ acked = {}
  /\ alive = TRUE /\ job = [w \in Tasks |-> Idle] /\ batch = NoBatch
  /\ pending = {} /\ cache = Nothing
  /\ closeout = [at |-> "waiting", listed |-> Nothing, bought |-> Nothing,
                 result |-> "none"]
  /\ faults = Faults /\ torn = {}

Working(w) ==
  \/ Send(w) \/ SendRejected(w) \/ SendUnanswered(w)
  \/ Poll(w) \/ PollTimesOut(w) \/ Cancel(w)
  \/ InsertTrade(w) \/ WritePosition(w) \/ ReadProfit(w) \/ AddProfit(w)

Stream ==
  \/ \E o \in Orders : Take(o)
  \/ Check \/ ReadPosition \/ Acknowledge \/ Working("stream")

CloseoutRun ==
  \/ CloseoutLists \/ Precheck \/ Gather \/ Recheck \/ Postcheck \/ Halt

Environment ==
  \/ \E o \in Orders : Issue(o)
  \/ \E i \in DOMAIN broker : BrokerEnds(i)
                              \/ \E n \in 1 .. broker[i].qty : BrokerFills(i, n)
  \/ \E key \in pending : CooldownEnds(key)
  \/ Crash

Next ==
  \/ Stream
  \/ \E S \in SUBSET Orders : Pull(S)
  \/ RefreshCache \/ \E s \in Symbols : StopExit(s)
  \/ CloseoutFires \/ CloseoutRun
  \/ \E w \in Tasks \ {"stream"} : Working(w)
  \/ Environment \/ Restart

Spec == Init /\ [][Next]_liveVars

(* The event loop runs what is ready, calls are answered or given up, the  *)
(* container restarts, and as long as something is not acknowledged the    *)
(* topic delivers some of it again.  The broker owes nothing: polls time   *)
(* out.                                                                    *)
Fairness ==
  /\ WF_liveVars(Stream)
  /\ WF_liveVars(Restart)
  /\ SF_liveVars(\E S \in SUBSET Orders : S # {} /\ Pull(S))

FairSpec == Spec /\ Fairness

----------------------------------------------------------------------------
Sold(s)   == MapThenSumSet(LAMBDA t : t.qty,
               {t \in trades : t.symbol = s /\ t.side = "SELL"})
Bought(s) == MapThenSumSet(LAMBDA t : t.qty,
               {t \in trades : t.symbol = s /\ t.side = "BUY"})

(* A recorded trade is what its own order at the broker filled, at least:  *)
(* no order is recorded twice and none for more than was executed, however *)
(* tasks, polls and redeliveries interleave.                               *)
TradesWereFilled ==
  /\ \A t \in trades :
       LET b == broker[t.sent]
       IN  b.order = t.order /\ b.symbol = t.symbol /\ b.side = t.side /\ t.qty <= b.cum
  /\ \A t, u \in trades :
       t.sent = u.sent \/ (t.order # Exit /\ t.order = u.order) => t = u

(* Shares that were bought after the service had stopped looking: a late   *)
(* fill, the rest of a partial one, or an order sent before a crash.       *)
Unrecorded(s) ==
  \E i \in SentFor(s, "BUY") :
    /\ \A w \in Tasks : job[w].sent # i
    /\ \A t \in trades : t.sent = i => t.qty < broker[i].cum
    /\ broker[i].cum > 0

(* The row of a symbol is what its trades add up to, although a row is     *)
(* written from a quantity read earlier, or cached, by one of several      *)
(* tasks, and although one task may sell while another records a sale.     *)
(* Excepted are a fill being recorded, symbols for which a failure or a    *)
(* crash fell between the trade and the row, shares the service never      *)
(* recorded (with those, the closeout may take a sale that the stream is   *)
(* recording for an agreement of row and broker, and sell a second time),  *)
(* and symbols bought a second time: a sale decided before on the smaller  *)
(* row, read or cached, is then written over the larger one.               *)
PositionsFollowTrades ==
  \A s \in Symbols \ torn :
    /\ ~Unrecorded(s) /\ \A i, k \in SentFor(s, "BUY") : i = k
    /\ \A w \in Tasks : job[w].pc = "write" => job[w].order.symbol # s
    => position[s] = Opening[s] + Bought(s) - Sold(s)

(* After a closeout that found nothing left, or nothing to sell, whatever  *)
(* the broker holds was bought after its first look.                       *)
FlatOrHalted ==
  closeout.result \in {"clear", "empty"} /\ closeout.at = "ended" =>
    \A s \in Symbols : Holding(s) <= FilledOf(s, "BUY") - closeout.bought[s]

(* Every published order is acknowledged in the end, through lost replies, *)
(* fail-fast exits, crashes and restarts.                                  *)
OrdersAnswered == \A o \in Orders : o \in issued ~> o \in acked

(* SQL 010 says that the existence check and the unique index prevent a    *)
(* double fill when sendorder succeeded, the tables were not written and   *)
(* the message comes again: no message fills more than it asked for.  (The *)
(* closeout, whose failed list ends the process as well, is left out.)     *)
FilledOnce ==
  closeout.at = "waiting" =>
  \A o \in Orders :
    MapThenSumSet(LAMBDA i : broker[i].cum,
                  {i \in DOMAIN broker : broker[i].order = o.id}) <= o.qty

(* add_realized_pnl says that no other writer can race with it: when no    *)
(* task is at work, the profit is that of the recorded sales.              *)
ProfitAddsUp ==
  /\ alive /\ closeout.at \in {"waiting", "ended"}
  /\ \A w \in Tasks : job[w].pc = "idle"
  => profit = MapThenSumSet(Sold, Symbols)
=============================================================================
