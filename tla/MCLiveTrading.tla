--------------------------- MODULE MCLiveTrading ---------------------------
(* Instances of LiveTrading for TLC.                                       *)
EXTENDS LiveTrading

OrderOf(id, s, side, qty) == [id |-> id, symbol |-> s, side |-> side, qty |-> qty]

OneSymbol == {"a"}
OrdersOne == {OrderOf(1, "a", "BUY", 2), OrderOf(2, "a", "SELL", 2)}
OpeningOne == [s \in OneSymbol |-> 0]

TwoSymbols == {"a", "b"}
OrdersTwo == {OrderOf(1, "a", "SELL", 1)}
OpeningTwo == [s \in TwoSymbols |-> 1]
NoneRefused == {}
=============================================================================
