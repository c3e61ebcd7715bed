---------------------------- MODULE PaperLedger ----------------------------
(***************************************************************************)
(* The paper-trading ledger: the two tables `positions` (trade_type paper) *)
(* and `trades_paper`, and the two Postgres functions that are the only    *)
(* writers of quantities and stops, oms_paper_apply_fill and               *)
(* oms_paper_update_stop_loss.  Each function holds a transaction-scoped   *)
(* advisory lock on its symbol, and unique indexes cover what it reads of  *)
(* other symbols, so a call is one atomic step here.                       *)
(*                                                                         *)
(* Prices are whole yen, as the updater quantises them.  A stop price of   *)
(* NoStop stands for a NULL column and an expected opening time of NoTime  *)
(* for a NULL argument.  Columns that never decide anything in the         *)
(* functions (current_price, unrealized_pnl, signal_source) are left out;  *)
(* the exit plan written with a new position (holding type, target, dates, *)
(* trailing percentage) is one opaque value.                               *)
(*                                                                         *)
(* An operator named X_Fault is a faulty form of X.  Nothing uses it: the  *)
(* properties are tested by putting it in the place of X.                  *)
(***************************************************************************)
EXTENDS Integers, FiniteSets, FiniteSetsExt

CONSTANTS
  Symbols,        \* stock symbols
  OrderIds,       \* OrderRequest.order_id
  SignalIds,      \* unified_signal_id
  NoSignal,       \* NULL unified_signal_id: exits have none
  TradeIds,       \* PaperFillRecord.trade_id
  Quantities,     \* filled quantities
  Prices,         \* fill and stop prices
  Times,          \* opened_at / executed_at
  Plans,          \* exit plan of a new position
  NoPosition      \* the absence of a row in positions

NoStop == 0
NoTime == 0

(* One call of oms_paper_apply_fill.                                       *)
FillRequest ==
  [ order : OrderIds, trade : TradeIds, symbol : Symbols,
    side : {"BUY", "SELL"}, qty : Quantities, price : Prices,
    signal : SignalIds \cup {NoSignal}, executedAt : Times,
    expected : Times \cup {NoTime}, plan : Plans, stop : Prices \cup {NoStop} ]

(* One call of oms_paper_update_stop_loss.                                 *)
StopRequest == [ symbol : Symbols, expected : Times, stop : Prices ]

(* A row of positions.                                                     *)
Position ==
  [ gen : TradeIds, openedAt : Times, qty : Nat \ {0}, entry : Nat \ {0},
    plan : Plans, stop : Prices \cup {NoStop} ]

(* A row of trades_paper.                                                  *)
Trade ==
  [ trade : TradeIds, order : OrderIds, symbol : Symbols,
    side : {"BUY", "SELL"}, qty : Quantities, price : Prices,
    signal : SignalIds \cup {NoSignal}, gen : TradeIds, executedAt : Times ]

ASSUME LedgerAssumption ==
  /\ Quantities \subseteq Nat \ {0}
  /\ Prices \subseteq Nat \ {0}
  /\ Times \subseteq Nat \ {0}
  /\ NoSignal \notin SignalIds
  /\ NoPosition \notin Position

VARIABLES
  position,   \* the row of each symbol
  trades      \* the rows of trades_paper

ledgerVars == <<position, trades>>

----------------------------------------------------------------------------
(* The three idempotency reads, in the order the function makes them.      *)

ByOrder(req)  == {t \in trades : t.order = req.order}
BySignal(req) == IF req.signal = NoSignal
                 THEN {} ELSE {t \in trades : t.signal = req.signal}
ByTrade(req)  == {t \in trades : t.trade = req.trade}

SameOrder(t, req) ==
  t.symbol = req.symbol /\ t.side = req.side /\ t.signal = req.signal

SameSignal(t, req) ==
  t.symbol = req.symbol /\ t.side = req.side /\ t.order = req.order

SameFill(t, req) ==
  /\ SameOrder(t, req) /\ t.order = req.order
  /\ t.qty = req.qty /\ t.price = req.price /\ t.executedAt = req.executedAt

(* A committed trade that the request repeats, with the payload it must    *)
(* agree with; "exception" is the raised payload mismatch.                 *)
Repeated_ByOrderOnly(req) == ByOrder(req) # {}
Repeated_ByTradeOnly(req) == ByTrade(req) # {}

Repeated(req) == ByOrder(req) \cup BySignal(req) \cup ByTrade(req) # {}

ReplayOutcome(req) ==
  LET agrees ==
        IF ByOrder(req) # {} THEN \A t \in ByOrder(req) : SameOrder(t, req)
        ELSE IF BySignal(req) # {} THEN \A t \in BySignal(req) : SameSignal(t, req)
        ELSE \A t \in ByTrade(req) : SameFill(t, req)
  IN  IF agrees THEN "duplicate" ELSE "exception"

----------------------------------------------------------------------------
(* The position transition.                                                *)

Held(s) == IF position[s] = NoPosition THEN 0 ELSE position[s].qty

AverageEntry_Unweighted(p, req) == (p.entry * p.qty + req.price * req.qty) \div p.qty

(* round(x, 0) of the weighted average, half away from zero.               *)
AverageEntry(p, req) ==
  LET n    == p.qty + req.qty
      cost == p.entry * p.qty + req.price * req.qty
  IN  (2 * cost + n) \div (2 * n)

RejectReason_NoOversell(req) ==
  LET p == position[req.symbol]
  IN  IF req.side = "BUY" THEN "none"
      ELSE IF p = NoPosition THEN "no_position_for_sell"
      ELSE IF req.expected # NoTime /\ p.openedAt # req.expected
           THEN "position_generation_mismatch"
      ELSE "none"

RejectReason_AnyGeneration(req) ==
  LET p == position[req.symbol]
  IN  IF req.side = "BUY" THEN "none"
      ELSE IF p = NoPosition THEN "no_position_for_sell"
      ELSE IF req.qty > p.qty THEN "oversell"
      ELSE "none"

RejectReason(req) ==
  LET p == position[req.symbol]
  IN  IF req.side = "BUY" THEN "none"
      ELSE IF p = NoPosition THEN "no_position_for_sell"
      ELSE IF req.expected # NoTime /\ p.openedAt # req.expected
           THEN "position_generation_mismatch"
      ELSE IF req.qty > p.qty THEN "oversell"
      ELSE "none"

FillOutcome(req) ==
  IF Repeated(req) THEN ReplayOutcome(req)
  ELSE IF RejectReason(req) # "none" THEN "rejected"
  ELSE "applied"

Opened(req) ==
  [ gen |-> req.trade, openedAt |-> req.executedAt, qty |-> req.qty,
    entry |-> req.price, plan |-> req.plan, stop |-> req.stop ]

PositionAfter_KeepsEmptyRow(req) ==
  LET p == position[req.symbol]
  IN  IF req.side = "BUY"
      THEN IF p = NoPosition THEN Opened(req)
           ELSE [p EXCEPT !.qty = p.qty + req.qty,
                          !.entry = AverageEntry(p, req)]
      ELSE [p EXCEPT !.qty = p.qty - req.qty]

PositionAfter_Reopens(req) ==
  LET p == position[req.symbol]
  IN  IF req.side = "BUY"
      THEN IF p = NoPosition THEN Opened(req)
           ELSE [p EXCEPT !.qty = p.qty + req.qty,
                          !.openedAt = req.executedAt,
                          !.entry = AverageEntry(p, req)]
      ELSE IF req.qty = p.qty THEN NoPosition
           ELSE [p EXCEPT !.qty = p.qty - req.qty]

PositionAfter(req) ==
  LET p == position[req.symbol]
  IN  IF req.side = "BUY"
      THEN IF p = NoPosition THEN Opened(req)
           ELSE [p EXCEPT !.qty = p.qty + req.qty,
                          !.entry = AverageEntry(p, req)]
      ELSE IF req.qty = p.qty THEN NoPosition
           ELSE [p EXCEPT !.qty = p.qty - req.qty]

GenerationOf_EveryBuy(req) ==
  IF req.side = "BUY" THEN req.trade ELSE position[req.symbol].gen

GenerationOf(req) ==
  IF req.side = "BUY" /\ position[req.symbol] = NoPosition
  THEN req.trade ELSE position[req.symbol].gen

TradeOf(req) ==
  [ trade |-> req.trade, order |-> req.order, symbol |-> req.symbol,
    side |-> req.side, qty |-> req.qty, price |-> req.price,
    signal |-> req.signal, gen |-> GenerationOf(req),
    executedAt |-> req.executedAt ]

(* resulting_position of the reply: the row the call leaves behind, which  *)
(* for a duplicate or a rejection is the row it found.                     *)
FillResult(req) ==
  IF FillOutcome(req) = "applied" THEN PositionAfter(req)
  ELSE position[req.symbol]

ApplyFill(req) ==
  IF FillOutcome(req) = "applied"
  THEN /\ position' = [position EXCEPT ![req.symbol] = PositionAfter(req)]
       /\ trades' = trades \cup {TradeOf(req)}
  ELSE UNCHANGED ledgerVars

----------------------------------------------------------------------------
StopOutcome_MayLower(r) ==
  LET p == position[r.symbol]
  IN  IF p = NoPosition THEN "no_position_for_update"
      ELSE IF p.openedAt # r.expected THEN "position_generation_mismatch"
      ELSE "applied"

StopOutcome(r) ==
  LET p == position[r.symbol]
  IN  IF p = NoPosition THEN "no_position_for_update"
      ELSE IF p.openedAt # r.expected THEN "position_generation_mismatch"
      ELSE IF p.stop # NoStop /\ r.stop <= p.stop THEN "stop_not_raised"
      ELSE "applied"

StopResult(r) ==
  IF StopOutcome(r) = "applied"
  THEN [position[r.symbol] EXCEPT !.stop = r.stop]
  ELSE position[r.symbol]

UpdateStopLoss(r) ==
  /\ position' = [position EXCEPT ![r.symbol] = StopResult(r)]
  /\ UNCHANGED trades

----------------------------------------------------------------------------
LedgerInit ==
  /\ position = [s \in Symbols |-> NoPosition]
  /\ trades = {}

----------------------------------------------------------------------------
(* Every row has the columns the tables declare; quantities are positive.  *)
LedgerTypeOK ==
  /\ position \in [Symbols -> Position \cup {NoPosition}]
  /\ trades \subseteq Trade

(* No order, no unified signal and no fill attempt is committed twice, in  *)
(* whatever order retries and redeliveries reach the database (the         *)
(* duplicate checks of oms_paper_apply_fill under its advisory lock).      *)
NoDoubleFill ==
  \A t, u \in trades :
    \/ t.order = u.order
    \/ t.trade = u.trade
    \/ t.signal = u.signal /\ t.signal # NoSignal
    => t = u

(* The generation recorded on a trade is the trade_id of a BUY of the same *)
(* symbol that opened it, and the open row of a symbol descends from such  *)
(* a BUY executed when the row says it was opened.                         *)
Opens(t, s, g) == t.symbol = s /\ t.side = "BUY" /\ t.trade = g /\ t.gen = g

Lineage ==
  /\ \A t \in trades : \E u \in trades : Opens(u, t.symbol, t.gen)
  /\ \A s \in Symbols : position[s] # NoPosition =>
       \E t \in trades : /\ Opens(t, s, position[s].gen)
                         /\ t.executedAt = position[s].openedAt

(* Shares are conserved: the row of a symbol holds exactly what its        *)
(* generation bought and has not sold, and every other generation of the   *)
(* symbol is sold out, so no SELL is ever booked against the wrong one.    *)
Shares(side, s, g) ==
  MapThenSumSet(LAMBDA t : t.qty,
                {t \in trades : t.symbol = s /\ t.gen = g /\ t.side = side})

Conserved ==
  \A t \in trades :
    Shares("BUY", t.symbol, t.gen) - Shares("SELL", t.symbol, t.gen) =
      IF position[t.symbol] # NoPosition /\ position[t.symbol].gen = t.gen
      THEN position[t.symbol].qty ELSE 0

(* However many fills are averaged and rounded, the entry price of a row   *)
(* stays between the cheapest and the dearest BUY of its generation.       *)
EntryBetweenBuys ==
  \A s \in Symbols : position[s] # NoPosition =>
    LET paid == {t.price : t \in {u \in trades :
                   u.symbol = s /\ u.side = "BUY" /\ u.gen = position[s].gen}}
    IN  /\ \E p \in paid : p <= position[s].entry
        /\ \E p \in paid : position[s].entry <= p

(* While a generation is open its stop never falls and is never erased,    *)
(* whichever overlapping monitors sent the updates and in whatever order   *)
(* they arrive.                                                            *)
StopsOnlyRise ==
  [][\A s \in Symbols :
       /\ position[s] # NoPosition
       /\ position'[s] # NoPosition
       /\ position'[s].gen = position[s].gen
       => position'[s].stop >= position[s].stop]_ledgerVars

(* The ledger implements the account: a call fills a new order against the *)
(* holding of its symbol or leaves every holding alone.                    *)
Account == INSTANCE PaperAccount WITH
             holding <- [s \in Symbols |-> Held(s)],
             filled  <- {t.order : t \in trades}

ImplementsAccount == Account!AccountSpec
=============================================================================
