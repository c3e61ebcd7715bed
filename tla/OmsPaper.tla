------------------------------ MODULE OmsPaper ------------------------------
(***************************************************************************)
(* The paper order-management service: one asyncio process whose stream    *)
(* loop and closeout scheduler share the ledger, the book cache and the    *)
(* position caches, and the one-shot opening-exit process that shares the  *)
(* ledger only.  An action is the code between two awaits; between them    *)
(* any other task runs.                                                    *)
(*                                                                         *)
(* A database write is a message in `wire` until the database executes it. *)
(* The client times out whenever it likes, before or after the execution,  *)
(* and sends the same call again, so an abandoned call may execute long    *)
(* after its caller went on.  Faults bounds the timeouts, failed reads,    *)
(* crashes and failed acknowledgements of a behaviour.                     *)
(*                                                                         *)
(* A book has one price and one depth for both sides.  System status has   *)
(* trading_style = day throughout, and its read is part of the closeout's  *)
(* list read.  The day stop monitor is enabled.                            *)
(***************************************************************************)
EXTENDS PaperLedger

CONSTANTS
  Orders,         \* the messages of the paper-orders topic
  Books,          \* the messages of the raw-market-data topic
  NoBook,         \* a symbol without an entry in book_cache
  NoCall,         \* a task that awaits nothing from the database
  NoReply,        \* a call that has not been answered
  NoItem,         \* a task that serves no symbol and no order
  MaxAge,         \* order_book_max_age_seconds
  MaxSkew,        \* order_book_max_future_skew_seconds
  CacheTTL,       \* swing_cache_ttl_seconds
  CloseoutAt,     \* day_closeout_time
  OpeningAt,      \* when the opening-exit command is run
  CloseoutRetries,\* incomplete_retry_attempts
  Attempts,       \* stop_after_attempt of the database client
  MaxTime,        \* bound on the clock
  Faults,         \* bound on the faults of a behaviour
  FaultKinds      \* the kinds of faults that may happen

(* An order as the gateway or, without a signal, the feature engine        *)
(* published it.  A signal the gateway handles twice gives two messages    *)
(* with one order id and, as their microsecond timestamps do, different    *)
(* times.  limit = 0 is a market order.                                    *)
Order ==
  [ id : OrderIds, symbol : Symbols, side : {"BUY", "SELL"}, qty : Quantities,
    signal : SignalIds \cup {NoSignal}, created : Times, limit : Nat,
    mode : {"paper", "live"}, plan : Plans, stop : Prices \cup {NoStop} ]

Book == [ symbol : Symbols, at : Times, price : Prices, depth : Nat ]

ASSUME OmsAssumption ==
  /\ Orders \subseteq Order
  /\ Books \subseteq Book
  /\ NoBook \notin Book
  /\ \A o, u \in Orders :
       o.symbol = u.symbol /\ o.side = u.side /\ o.created = u.created => o = u
  /\ Attempts \in Nat \ {0}
  /\ FaultKinds \subseteq {"timeout", "error", "crash", "redelivery"}

VARIABLES
  now,         \* wall clock
  faults,      \* faults left
  acked,       \* orders acknowledged to Pub/Sub
  bookCache,   \* book_cache
  posCache,    \* swing_position_cache and day_position_cache: a symbol is
               \* in the one its holding type names, or in neither
  cacheAt,     \* swing_cache_loaded_at
  attempted,   \* _closeout_attempted_book_at
  task,        \* where each task stands
  closeout,    \* progress of today's closeout
  wire         \* writes sent and not yet executed

processVars == <<bookCache, posCache, cacheAt, attempted>>
omsVars == <<position, trades, now, faults, acked, bookCache, posCache,
             cacheAt, attempted, task, closeout, wire>>

Tasks == {"stream", "closeout", "opening"}

(* What a task holds: the stage of its code, the pass and its start time,  *)
(* the symbols or orders still to visit, the one being served with the row *)
(* it was decided on and the book, the rows listed, and the call awaited.  *)
Idle == [ pc |-> "idle", pass |-> "none", at |-> NoTime, updated |-> {},
          todo |-> {}, handled |-> {}, item |-> NoItem, pos |-> NoPosition,
          book |-> NoBook, rows |-> NoReply,
          call |-> NoCall, try |-> 0, reply |-> NoReply ]

----------------------------------------------------------------------------
(* Market data: the pure functions of the runner.                          *)

Rejected(b, t) == t - b.at > MaxAge \/ b.at - t > MaxSkew

Usable(b, t) == b # NoBook /\ ~Rejected(b, t)

(* _consume_books: whether an incoming book replaces the cached one.       *)
Replaces(b, old) ==
  old # NoBook =>
    \/ ~Rejected(b, now) /\ Rejected(old, now)
    \/ /\ Rejected(b, now) => Rejected(old, now)
       /\ b.at >= old.at

(* simulate_fill on one level.                                             *)
Crosses(o, b) ==
  \/ o.limit = 0
  \/ IF o.side = "BUY" THEN b.price <= o.limit ELSE b.price >= o.limit

FilledQty(o, b) ==
  IF ~Crosses(o, b) THEN 0 ELSE IF b.depth < o.qty THEN b.depth ELSE o.qty

ExitQty(p, b) == IF b.depth < p.qty THEN b.depth ELSE p.qty

(* evaluate_swing_exit and evaluate_day_exit; the plan's due is the time   *)
(* at which its holding period has elapsed.                                *)
Elapsed(p, t) == p.plan.due # NoTime /\ t >= p.plan.due

TrailedStop(p, b) == (b.price * (100 - p.plan.trail) + 50) \div 100

Decision(p, b, t) ==
  IF \/ p.stop # NoStop /\ b.price <= p.stop
     \/ p.plan.target # 0 /\ b.price >= p.plan.target
     \/ Elapsed(p, t)
  THEN "exit"
  ELSE IF p.plan.trail # 0 /\ (p.stop = NoStop \/ TrailedStop(p, b) > p.stop)
  THEN "trail"
  ELSE "hold"

----------------------------------------------------------------------------
(* Calls to the database.                                                  *)

(* uuid4: an identity no trade and no call carries.                        *)
InUse == {t.trade : t \in trades} \cup {m.call.id : m \in wire}
           \cup {task[c].call.id : c \in {d \in Tasks : task[d].call # NoCall}}

FreshId == 1 + Max({0} \cup InUse)

FillCall(req, gen) == [kind |-> "fill", id |-> req.trade, req |-> req, for |-> gen]

ExitCall_AnyGeneration(p, s, b, t) ==
  FillCall([ order |-> FreshId, trade |-> FreshId, symbol |-> s,
             side |-> "SELL", qty |-> ExitQty(p, b), price |-> b.price,
             signal |-> NoSignal, executedAt |-> t, expected |-> NoTime,
             plan |-> p.plan, stop |-> NoStop ], p.gen)

ExitCall(p, s, b, t) ==
  FillCall([ order |-> FreshId, trade |-> FreshId, symbol |-> s,
             side |-> "SELL", qty |-> ExitQty(p, b), price |-> b.price,
             signal |-> NoSignal, executedAt |-> t, expected |-> p.openedAt,
             plan |-> p.plan, stop |-> NoStop ], p.gen)

OrderCall(o, b) ==
  FillCall([ order |-> o.id, trade |-> FreshId, symbol |-> o.symbol,
             side |-> o.side, qty |-> FilledQty(o, b), price |-> b.price,
             signal |-> o.signal, executedAt |-> o.created, expected |-> NoTime,
             plan |-> o.plan, stop |-> o.stop ], NoTime)

StopCall(p, s, b) ==
  [ kind |-> "stop", id |-> FreshId,
    req |-> [symbol |-> s, expected |-> p.openedAt, stop |-> TrailedStop(p, b)],
    for |-> p.gen ]

ReadCall == [kind |-> "read", id |-> 0]

Message(c, call, try) == [caller |-> c, call |-> call, try |-> try]

(* The state of a task that goes on as `t` and awaits a call.              *)
Awaiting(t, call) == [t EXCEPT !.call = call, !.try = 1, !.reply = NoReply]

Write(c, t, call) ==
  /\ task' = [task EXCEPT ![c] = Awaiting(t, call)]
  /\ wire' = wire \cup {Message(c, call, 1)}

Read(c, t) ==
  /\ task' = [task EXCEPT ![c] = Awaiting(t, ReadCall)]
  /\ UNCHANGED wire

Resume(c, t) ==
  /\ task' = [task EXCEPT ![c] =
                [t EXCEPT !.call = NoCall, !.try = 0, !.reply = NoReply]]
  /\ UNCHANGED wire

Waiting(c)  == task[c].call # NoCall /\ task[c].reply = NoReply
Answered(c) == task[c].call # NoCall /\ task[c].reply # NoReply
Failed(c)   == task[c].reply.outcome \in {"error", "exception"}

(* The database executes a write and, if its caller still awaits that      *)
(* attempt, the reply reaches it.                                          *)
Outcome(call) == IF call.kind = "fill" THEN FillOutcome(call.req)
                 ELSE StopOutcome(call.req)
Result(call)  == IF call.kind = "fill" THEN FillResult(call.req)
                 ELSE StopResult(call.req)

Deliver(m) ==
  task' = [task EXCEPT ![m.caller] =
             IF @.call = m.call /\ @.try = m.try /\ @.reply = NoReply
             THEN [@ EXCEPT !.reply = [outcome |-> Outcome(m.call),
                                       row |-> Result(m.call)]]
             ELSE @]

Execute(m) ==
  /\ wire' = wire \ {m}
  /\ Deliver(m)
  /\ IF m.call.kind = "fill" THEN ApplyFill(m.call.req)
     ELSE UpdateStopLoss(m.call.req)
  /\ UNCHANGED <<now, faults, acked, processVars, closeout>>

(* A read answers with every row; a reread uses the row it asked for.      *)
ExecuteRead(c) ==
  /\ Waiting(c) /\ task[c].call = ReadCall
  /\ task' = [task EXCEPT ![c].reply = [outcome |-> "ok", row |-> position]]
  /\ UNCHANGED <<ledgerVars, now, faults, acked, processVars, closeout, wire>>

Fault(kind) == kind \in FaultKinds /\ faults > 0 /\ faults' = faults - 1

(* The client gives up waiting and sends the write again; a repeated read  *)
(* is only a later read.                                                   *)
Retry(c) ==
  /\ Fault("timeout")
  /\ task[c].call \notin {NoCall, ReadCall} /\ task[c].try < Attempts
  /\ task' = [task EXCEPT ![c].try = @ + 1, ![c].reply = NoReply]
  /\ wire' = wire \cup {Message(c, task[c].call, task[c].try + 1)}
  /\ UNCHANGED <<ledgerVars, now, acked, processVars, closeout>>

(* The last attempt ends in a SupabaseError, which the callers handle; a   *)
(* transport error, which they do not, is a Crash.                         *)
GiveUp(c) ==
  /\ Fault("error")
  /\ task[c].call # NoCall
  /\ task[c].call = ReadCall \/ task[c].try = Attempts
  /\ task' = [task EXCEPT ![c].reply = [outcome |-> "error", row |-> NoPosition]]
  /\ UNCHANGED <<ledgerVars, now, acked, processVars, closeout, wire>>

(* _sync_position_caches after a write or a failed reread.                 *)
Sync(s, row) == posCache' = [posCache EXCEPT ![s] = row]

----------------------------------------------------------------------------
(* The stream loop: books, the swing pass, the day pass, orders.           *)

ConsumeBook(b) ==
  /\ task["stream"].pc = "idle" /\ b.at <= now + MaxSkew + 1
  /\ Replaces(b, bookCache[b.symbol])
  /\ bookCache' = [bookCache EXCEPT ![b.symbol] = b]
  /\ task' = [task EXCEPT !["stream"].updated = @ \cup {b.symbol}]
  /\ UNCHANGED <<ledgerVars, now, faults, acked, posCache, cacheAt, attempted,
                 closeout, wire>>

(* _ensure_position_caches_fresh at the head of a pass.                    *)
EnterPass(pass) ==
  LET t == [task["stream"] EXCEPT !.pass = pass]
  IN  IF cacheAt # NoTime /\ now - cacheAt < CacheTTL
      THEN Resume("stream", [t EXCEPT !.pc = "eval", !.at = now, !.todo = t.updated])
      ELSE Read("stream", [t EXCEPT !.pc = "list"])

LeavePass ==
  IF task["stream"].pass = "swing" THEN EnterPass("day")
  ELSE Resume("stream", [Idle EXCEPT !.pc = "pull"])

BeginMonitors ==
  /\ task["stream"].pc = "idle" /\ task["stream"].updated # {}
  /\ EnterPass("swing")
  /\ UNCHANGED <<ledgerVars, now, faults, acked, processVars, closeout>>

CacheLoaded ==
  /\ task["stream"].pc = "list" /\ Answered("stream")
  /\ IF Failed("stream")
     THEN LeavePass /\ UNCHANGED <<posCache, cacheAt>>
     ELSE /\ posCache' = task["stream"].reply.row
          /\ cacheAt' = now
          /\ Resume("stream", [task["stream"] EXCEPT
                      !.pc = "eval", !.at = now, !.todo = task["stream"].updated])
  /\ UNCHANGED <<ledgerVars, now, faults, acked, bookCache, attempted, closeout>>

(* The symbols of the pass that its decision would act on.                 *)
Acting ==
  LET t == task["stream"]
  IN  {s \in t.todo :
         /\ posCache[s] # NoPosition /\ posCache[s].plan.holding = t.pass
         /\ Usable(bookCache[s], t.at) /\ bookCache[s].depth > 0
         /\ Decision(posCache[s], bookCache[s], t.at) # "hold"}

(* The pass visits its symbols in any order, and those it only skips before*)
(* the next await are visited with it.                                     *)
Monitor(s, skipped) ==
  LET t == task["stream"]
      u == [t EXCEPT !.todo = t.todo \ ({s} \cup skipped), !.item = s]
  IN  /\ t.pc = "eval" /\ s \in Acting /\ skipped \subseteq t.todo \ Acting
      /\ IF Decision(posCache[s], bookCache[s], t.at) = "exit"
         THEN Read("stream", [u EXCEPT !.pc = "reread", !.pos = posCache[s],
                                       !.book = bookCache[s]])
         ELSE Write("stream", [u EXCEPT !.pc = "write"],
                    StopCall(posCache[s], s, bookCache[s]))
      /\ UNCHANGED <<ledgerVars, now, faults, acked, processVars, closeout>>

PassDone ==
  /\ task["stream"].pc = "eval" /\ Acting = {}
  /\ LeavePass
  /\ UNCHANGED <<ledgerVars, now, faults, acked, processVars, closeout>>

(* _run_swing_exit and _run_day_stop_exit after the reread, in the stream  *)
(* and in the opening process, whose caches nothing else reads.            *)
Reread(c) ==
  LET t       == task[c]
      current == t.reply.row[t.item]
      stale   == current = NoPosition \/ current.openedAt # t.pos.openedAt
      back    == [t EXCEPT !.pc = "eval", !.item = NoItem, !.pos = NoPosition,
                           !.book = NoBook]
  IN  /\ t.pc = "reread" /\ Answered(c)
      /\ IF Failed(c) \/ stale
         THEN Resume(c, back)
         ELSE Write(c, [t EXCEPT !.pc = "write", !.pos = NoPosition, !.book = NoBook],
                    ExitCall(current, t.item, t.book, t.at))
      /\ IF c = "stream" /\ ~Failed(c) /\ stale
         THEN Sync(t.item, current) ELSE UNCHANGED posCache
      /\ UNCHANGED <<ledgerVars, now, faults, acked, bookCache, cacheAt,
                     attempted, closeout>>

(* The reply to an exit or to a stop update.                               *)
Written(c) ==
  LET t == task[c]
  IN  /\ t.pc = "write" /\ Answered(c)
      /\ Resume(c, [t EXCEPT !.pc = "eval", !.item = NoItem])
      /\ IF c = "stream" /\ ~Failed(c)
         THEN Sync(t.item, t.reply.row) ELSE UNCHANGED posCache
      /\ UNCHANGED <<ledgerVars, now, faults, acked, bookCache, cacheAt,
                     attempted, closeout>>

----------------------------------------------------------------------------
(* Routed orders.                                                          *)

Outstanding == {o \in Orders : o.created <= now} \ acked

PullOrders(batch) ==
  /\ \/ task["stream"].pc = "pull"
     \/ task["stream"].pc = "idle" /\ task["stream"].updated = {}
  /\ batch \subseteq Outstanding
  /\ Resume("stream", IF batch = {} THEN Idle
                      ELSE [Idle EXCEPT !.pc = "orders", !.todo = batch])
  /\ UNCHANGED <<ledgerVars, now, faults, acked, processVars, closeout>>

(* The orders that reach the database; the others are no-fills.            *)
Fillable ==
  {o \in task["stream"].todo :
     /\ o.mode = "paper"
     /\ Usable(bookCache[o.symbol], now)
     /\ FilledQty(o, bookCache[o.symbol]) > 0}

ProcessOrder(o, skipped) ==
  LET t == task["stream"]
  IN  /\ t.pc = "orders" /\ o \in Fillable /\ skipped \subseteq t.todo \ Fillable
      /\ Write("stream", [t EXCEPT !.pc = "order", !.item = o,
                            !.todo = t.todo \ ({o} \cup skipped),
                            !.handled = t.handled \cup skipped],
               OrderCall(o, bookCache[o.symbol]))
      /\ UNCHANGED <<ledgerVars, now, faults, acked, processVars, closeout>>

(* A failed write leaves the message for redelivery.                       *)
OrderWritten ==
  LET t == task["stream"]
      u == [t EXCEPT !.pc = "orders", !.item = NoItem]
  IN  /\ t.pc = "order" /\ Answered("stream")
      /\ IF Failed("stream")
         THEN Resume("stream", u) /\ UNCHANGED posCache
         ELSE /\ Resume("stream", [u EXCEPT !.handled = t.handled \cup {t.item}])
              /\ Sync(t.item.symbol, t.reply.row)
      /\ UNCHANGED <<ledgerVars, now, faults, acked, bookCache, cacheAt,
                     attempted, closeout>>

Acknowledge_FillsOnly ==
  /\ task["stream"].pc = "orders" /\ Fillable = {}
  /\ acked' = acked \cup task["stream"].handled
  /\ Resume("stream", Idle)
  /\ UNCHANGED <<ledgerVars, now, faults, processVars, closeout>>

(* The batch is acknowledged at the end of run_once.                       *)
Acknowledge ==
  /\ task["stream"].pc = "orders" /\ Fillable = {}
  /\ acked' = acked \cup task["stream"].handled \cup task["stream"].todo
  /\ Resume("stream", Idle)
  /\ UNCHANGED <<ledgerVars, now, faults, processVars, closeout>>

----------------------------------------------------------------------------
(* The closeout scheduler.  A run lists the rows, sells every day position *)
(* it can and ends complete or incomplete; an incomplete run is repeated   *)
(* CloseoutRetries times.                                                  *)

EndRun_RetriesForever(incomplete) ==
  IF ~incomplete
  THEN /\ closeout' = [closeout EXCEPT !.status = "complete"]
       /\ Resume("closeout", [Idle EXCEPT !.rows = task["closeout"].rows])
  ELSE /\ closeout' = [closeout EXCEPT !.incomplete = FALSE]
       /\ Read("closeout", [Idle EXCEPT !.pc = "list"])

EndRun(incomplete) ==
  IF ~incomplete
  THEN /\ closeout' = [closeout EXCEPT !.status = "complete"]
       /\ Resume("closeout", [Idle EXCEPT !.rows = task["closeout"].rows])
  ELSE IF closeout.retries = CloseoutRetries
  THEN /\ closeout' = [closeout EXCEPT !.status = "gave_up"]
       /\ Resume("closeout", Idle)
  ELSE /\ closeout' = [closeout EXCEPT !.retries = @ + 1, !.incomplete = FALSE]
       /\ Read("closeout", [Idle EXCEPT !.pc = "list"])

CloseoutFires ==
  /\ closeout.status = "waiting" /\ now >= CloseoutAt
  /\ closeout' = [closeout EXCEPT !.status = "running"]
  /\ Read("closeout", [Idle EXCEPT !.pc = "list"])
  /\ UNCHANGED <<ledgerVars, now, faults, acked, processVars>>

CloseoutListed ==
  LET rows == task["closeout"].reply.row
  IN  /\ task["closeout"].pc = "list" /\ Answered("closeout")
      /\ IF Failed("closeout") THEN EndRun(TRUE)
         ELSE /\ Resume("closeout",
                   [Idle EXCEPT !.pc = "eval", !.at = now, !.rows = rows,
                      !.todo = {s \in Symbols : rows[s] # NoPosition
                                               /\ rows[s].plan.holding = "day"}])
              /\ UNCHANGED closeout
      /\ UNCHANGED <<ledgerVars, now, faults, acked, processVars>>

(* A book is tried at most once, and sold into when it has any depth.      *)
Tried ==
  LET t == task["closeout"]
  IN  {s \in t.todo : Usable(bookCache[s], t.at) /\ bookCache[s].at > attempted[s]}

Sellable == {s \in Tried : bookCache[s].depth > 0}

Attempt(S) == attempted' =
  [s \in Symbols |-> IF s \in S \cap Tried THEN bookCache[s].at ELSE attempted[s]]

CloseoutSells(s, skipped) ==
  LET t == task["closeout"]
  IN  /\ t.pc = "eval" /\ s \in Sellable /\ skipped \subseteq t.todo \ Sellable
      /\ Attempt({s} \cup skipped)
      /\ closeout' = [closeout EXCEPT !.incomplete = @ \/ skipped # {}]
      /\ Write("closeout", [t EXCEPT !.pc = "write", !.item = s,
                              !.todo = t.todo \ ({s} \cup skipped)],
               ExitCall(t.rows[s], s, bookCache[s], t.at))
      /\ UNCHANGED <<ledgerVars, now, faults, acked, bookCache, posCache, cacheAt>>

CloseoutSold_IgnoresRest ==
  LET t == task["closeout"]
  IN  /\ t.pc = "write" /\ Answered("closeout")
      /\ closeout' = [closeout EXCEPT !.incomplete =
                        @ \/ Failed("closeout") \/ t.reply.outcome = "rejected"]
      /\ Resume("closeout", [t EXCEPT !.pc = "eval", !.item = NoItem])
      /\ IF Failed("closeout") THEN UNCHANGED posCache ELSE Sync(t.item, t.reply.row)
      /\ UNCHANGED <<ledgerVars, now, faults, acked, bookCache, cacheAt, attempted>>

CloseoutSold ==
  LET t == task["closeout"]
  IN  /\ t.pc = "write" /\ Answered("closeout")
      /\ closeout' = [closeout EXCEPT !.incomplete =
                        @ \/ Failed("closeout") \/ t.reply.outcome = "rejected"
                          \/ t.reply.row # NoPosition]
      /\ Resume("closeout", [t EXCEPT !.pc = "eval", !.item = NoItem])
      /\ IF Failed("closeout") THEN UNCHANGED posCache ELSE Sync(t.item, t.reply.row)
      /\ UNCHANGED <<ledgerVars, now, faults, acked, bookCache, cacheAt, attempted>>

CloseoutRunEnds ==
  /\ task["closeout"].pc = "eval" /\ Sellable = {}
  /\ Attempt(task["closeout"].todo)
  /\ EndRun(closeout.incomplete \/ task["closeout"].todo # {})
  /\ UNCHANGED <<ledgerVars, now, faults, acked, bookCache, posCache, cacheAt>>

----------------------------------------------------------------------------
(* run_opening_swing_max_hold_exits, in its own process with a warmed book *)
(* cache of its own.                                                       *)

OpeningStarts ==
  /\ task["opening"].pc = "idle" /\ now >= OpeningAt
  /\ Read("opening", [Idle EXCEPT !.pc = "list"])
  /\ UNCHANGED <<ledgerVars, now, faults, acked, processVars, closeout>>

OpeningListed ==
  LET rows == task["opening"].reply.row
  IN  /\ task["opening"].pc = "list" /\ Answered("opening")
      /\ Resume("opening",
           IF Failed("opening") THEN [Idle EXCEPT !.pc = "done"]
           ELSE [Idle EXCEPT !.pc = "eval", !.at = now, !.rows = rows,
                   !.todo = {s \in Symbols : rows[s] # NoPosition
                              /\ rows[s].plan.holding = "swing"
                              /\ Elapsed(rows[s], now)}])
      /\ UNCHANGED <<ledgerVars, now, faults, acked, processVars, closeout>>

OpeningExits(s, b, skipped) ==
  LET t == task["opening"]
  IN  /\ t.pc = "eval" /\ s \in t.todo /\ skipped \subseteq t.todo \ {s}
      /\ b.symbol = s /\ b.depth > 0 /\ Usable(b, t.at)
      /\ Read("opening", [t EXCEPT !.pc = "reread", !.item = s, !.pos = t.rows[s],
                            !.book = b, !.todo = t.todo \ ({s} \cup skipped)])
      /\ UNCHANGED <<ledgerVars, now, faults, acked, processVars, closeout>>

OpeningEnds ==
  /\ task["opening"].pc = "eval"
  /\ Resume("opening", [Idle EXCEPT !.pc = "done"])
  /\ UNCHANGED <<ledgerVars, now, faults, acked, processVars, closeout>>

----------------------------------------------------------------------------
(* Crashes, redelivery and time.                                           *)

(* The process dies with its caches and starts again; a closeout whose     *)
(* time has passed is scheduled for tomorrow.                              *)
Crash ==
  /\ Fault("crash")
  /\ task' = [task EXCEPT !["stream"] = Idle, !["closeout"] = Idle]
  /\ bookCache' = [s \in Symbols |-> NoBook]
  /\ posCache' = [s \in Symbols |-> NoPosition]
  /\ cacheAt' = NoTime
  /\ attempted' = [s \in Symbols |-> NoTime]
  /\ closeout' = [ retries |-> 0, incomplete |-> FALSE,
                   status |-> IF now <= CloseoutAt THEN "waiting"
                              ELSE IF closeout.status \in {"waiting", "running"}
                              THEN "missed" ELSE closeout.status ]
  /\ UNCHANGED <<ledgerVars, now, acked, wire>>

OpeningCrash ==
  /\ Fault("crash")
  /\ task["opening"].pc \notin {"idle", "done"}
  /\ task' = [task EXCEPT !["opening"] = [Idle EXCEPT !.pc = "done"]]
  /\ UNCHANGED <<ledgerVars, now, acked, processVars, closeout, wire>>

(* Pub/Sub delivers at least once, even what was acknowledged.             *)
Redeliver(o) ==
  /\ Fault("redelivery")
  /\ o \in acked
  /\ acked' = acked \ {o}
  /\ UNCHANGED <<ledgerVars, now, processVars, task, closeout, wire>>

Tick ==
  /\ now < MaxTime
  /\ now' = now + 1
  /\ UNCHANGED <<ledgerVars, faults, acked, processVars, task, closeout, wire>>

----------------------------------------------------------------------------
Init ==
  /\ LedgerInit
  /\ now = 1 /\ faults = Faults /\ acked = {} /\ wire = {}
  /\ bookCache = [s \in Symbols |-> NoBook]
  /\ posCache = [s \in Symbols |-> NoPosition]
  /\ cacheAt = NoTime
  /\ attempted = [s \in Symbols |-> NoTime]
  /\ task = [c \in Tasks |-> Idle]
  /\ closeout = [status |-> "waiting", retries |-> 0, incomplete |-> FALSE]

Database ==
  \/ \E m \in wire : Execute(m)
  \/ \E c \in Tasks : ExecuteRead(c)

Monitors ==
  \/ BeginMonitors
  \/ CacheLoaded
  \/ \E s \in Symbols, skipped \in SUBSET Symbols : Monitor(s, skipped)
  \/ PassDone
  \/ Reread("stream")
  \/ Written("stream")

OrderLoop ==
  \/ \E o \in Orders, skipped \in SUBSET Orders : ProcessOrder(o, skipped)
  \/ OrderWritten
  \/ Acknowledge

Closeout ==
  \/ CloseoutFires
  \/ CloseoutListed
  \/ \E s \in Symbols, skipped \in SUBSET Symbols : CloseoutSells(s, skipped)
  \/ CloseoutSold
  \/ CloseoutRunEnds

OpeningBatch ==
  \/ OpeningStarts
  \/ OpeningListed
  \/ \E s \in Symbols, b \in Books, skipped \in SUBSET Symbols :
       OpeningExits(s, b, skipped)
  \/ Reread("opening")
  \/ Written("opening")
  \/ OpeningEnds

Environment ==
  \/ \E c \in Tasks : Retry(c) \/ GiveUp(c)
  \/ Crash
  \/ OpeningCrash
  \/ \E o \in Orders : Redeliver(o)
  \/ Tick

Next ==
  \/ Database
  \/ \E b \in Books : ConsumeBook(b)
  \/ Monitors
  \/ \E batch \in SUBSET Orders : PullOrders(batch)
  \/ OrderLoop
  \/ Closeout
  \/ OpeningBatch
  \/ Environment

Spec == Init /\ [][Next]_omsVars

(* The event loop runs every ready task, the database executes what it     *)
(* receives and answers, and Pub/Sub keeps delivering what is not          *)
(* acknowledged.  Time, books and faults owe nothing.                      *)
Fairness ==
  /\ \A c \in Tasks :
       /\ WF_omsVars(ExecuteRead(c))
       /\ WF_omsVars(\E m \in wire : m.caller = c /\ Execute(m))
  /\ WF_omsVars(Monitors)
  /\ WF_omsVars(OrderLoop)
  /\ WF_omsVars(Closeout)
  /\ WF_omsVars(Tick)
  /\ \A o \in Orders :
       SF_omsVars(\E batch \in SUBSET Orders : o \in batch /\ PullOrders(batch))

FairSpec == Spec /\ Fairness

----------------------------------------------------------------------------
(* opened_at identifies a generation: however orders are redelivered, no   *)
(* two openings of a symbol carry the same time.  Every stale-decision     *)
(* check of the service compares opened_at and nothing else.               *)
OpenedAtIdentifiesGeneration ==
  \A t, u \in trades :
    /\ t.symbol = u.symbol /\ t.gen = t.trade /\ u.gen = u.trade
    /\ t.executedAt = u.executedAt
    => t = u

(* A closeout that ends complete has closed every day position its last    *)
(* list saw, even when replies were lost, partial fills retried and the    *)
(* stop monitor sold the same rows meanwhile; a generation it saw never    *)
(* comes back.                                                             *)
CompleteCloseoutIsFlat ==
  closeout.status = "complete" /\ task["closeout"].rows # NoReply =>
    LET rows == task["closeout"].rows
    IN  \A s \in Symbols :
          /\ rows[s] # NoPosition /\ rows[s].plan.holding = "day"
          /\ position[s] # NoPosition
          => position[s].gen # rows[s].gen

(* An exit or a stop update changes only the generation it was decided on, *)
(* however late it executes and whatever reopened the symbol meanwhile.    *)
DecisionsHitTheirGeneration ==
  [][\A m \in wire \ wire' :
       LET s == m.call.req.symbol
       IN  m.call.for # NoTime /\ position'[s] # position[s]
           => position[s].gen = m.call.for]_omsVars

(* Every published order is eventually acknowledged for good: no failure   *)
(* of the database, crash or redelivery leaves it circulating.             *)
OrdersSettle == \A o \in Orders : <>[](o \in acked)

(* Today's closeout ends: complete, given up, or put off by a restart.     *)
CloseoutEnds == <>(closeout.status \in {"complete", "gave_up", "missed"})
=============================================================================
