-------------------------- MODULE MCLedgerClients --------------------------
(* A bounded instance of LedgerClients for TLC: one or two symbols, two    *)
(* opening BUYs, one routed SELL and one monitor exit, each of them sent   *)
(* more than once with whatever a retry or a redelivery may change (trade  *)
(* id, quantity, price, time), and two requests that reuse an identity     *)
(* with another payload.                                                   *)
EXTENDS LedgerClients

MCSymbols    == {"a", "b"}
MCOrderIds   == {"b1", "b2", "b3", "s1", "x1", "x2"}
MCSignalIds  == {"sig1", "sig2", "sig3", "sig4"}
MCTradeIds   == 1 .. 9
MCQuantities == 1 .. 3
MCPrices     == 3 .. 8
MCTimes      == 1 .. 4
MCPlans      == {"day", "swing"}

Req(order, trade, sym, side, qty, price, sig, at, expected) ==
  [ order |-> order, trade |-> trade, symbol |-> sym, side |-> side,
    qty |-> qty, price |-> price, signal |-> sig, executedAt |-> at,
    expected |-> expected, plan |-> "day", stop |-> 3 ]

MCRequests ==
  { (* an opening BUY, redelivered and refilled from another book *)
    Req("b1", 1, "a", "BUY", 2, 4, "sig1", 1, NoTime),
    Req("b1", 2, "a", "BUY", 1, 7, "sig1", 2, NoTime),
    (* a second BUY, also redelivered *)
    Req("b2", 3, "a", "BUY", 3, 7, "sig2", 3, NoTime),
    Req("b2", 4, "a", "BUY", 1, 8, "sig2", 4, NoTime),
    (* a BUY of another symbol *)
    Req("b3", 5, "b", "BUY", 1, 5, "sig3", 2, NoTime),
    (* the routed SELL, partial and full *)
    Req("s1", 6, "a", "SELL", 1, 5, "sig4", 4, NoTime),
    Req("s1", 7, "a", "SELL", 2, 5, "sig4", 4, NoTime),
    (* exits decided for the generations opened at 1 and at 3 *)
    Req("x1", 8, "a", "SELL", 2, 3, NoSignal, 4, 1),
    Req("x2", 9, "a", "SELL", 3, 3, NoSignal, 4, 3),
    (* an order id, and a signal, reused with another payload *)
    Req("b1", 5, "b", "BUY", 1, 4, "sig1", 4, NoTime),
    Req("x2", 9, "a", "SELL", 1, 5, "sig4", 4, NoTime) }

MCStopRequests ==
  { [symbol |-> "a", expected |-> at, stop |-> p] : at \in {1, 3}, p \in {4, 5} }
=============================================================================
