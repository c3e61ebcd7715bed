----------------------------- MODULE MCOmsPaper -----------------------------
(* Instances of OmsPaper for TLC, each of one symbol.                      *)
EXTENDS OmsPaper

MCSymbols    == {"a"}
MCIds        == 1 .. 12
MCOrderIds   == MCIds \cup {101, 102, 103}   \* exits and routed orders
MCSignalIds  == {"sig1", "sig2", "sig3"}
MCQuantities == 1 .. 3
MCPrices     == 3 .. 8
MCTimes      == 1 .. 6

Plan(holding, target, due, trail) ==
  [holding |-> holding, target |-> target, due |-> due, trail |-> trail]

MCPlans == { Plan(h, t, d, r) : h \in {"day", "swing"}, t \in {0, 8},
                                d \in 0 .. 3, r \in {0, 25} }

BookAt(s, at, price, depth) ==
  [symbol |-> s, at |-> at, price |-> price, depth |-> depth]

OrderOf(id, s, side, qty, sig, at, plan, stop) ==
  [ id |-> id, symbol |-> s, side |-> side, qty |-> qty, signal |-> sig,
    created |-> at, limit |-> 0, mode |-> "paper", plan |-> plan, stop |-> stop ]

Quiet == Plan("day", 0, 0, 0)

(* A BUY and the SELL that follows it.                                     *)
OrdersFew == { OrderOf(101, "a", "BUY", 2, "sig1", 1, Quiet, NoStop),
               OrderOf(103, "a", "SELL", 2, "sig2", 2, Quiet, NoStop) }
BooksFew  == { BookAt("a", 1, 5, 1) }

(* A day position with a stop that trails, closed out while it is watched: *)
(* a BUY, another that may reopen the position once it is sold, and three  *)
(* books of which one is thin.                                             *)
Watched == Plan("day", 0, 0, 25)
OrdersDay == { OrderOf(101, "a", "BUY", 2, "sig1", 1, Watched, 4),
               OrderOf(102, "a", "BUY", 1, "sig2", 2, Watched, 3) }
BooksDay == { BookAt("a", 1, 6, 2), BookAt("a", 2, 4, 1), BookAt("a", 3, 5, 2) }

(* A swing position due at 2, sold by the monitor and the opening process. *)
Due == Plan("swing", 0, 2, 0)
OrdersDue == { OrderOf(101, "a", "BUY", 2, "sig1", 1, Due, NoStop),
               OrderOf(102, "a", "BUY", 1, "sig2", 2, Due, NoStop) }
BooksDue == { BookAt("a", 1, 5, 2), BookAt("a", 2, 5, 1) }
=============================================================================
