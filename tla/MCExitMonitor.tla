---------------------------- MODULE MCExitMonitor ----------------------------
(* Instances of ExitMonitor for TLC.                                       *)
EXTENDS ExitMonitor

MCOneSymbol  == {"a"}
MCTwoSymbols == {"a", "b"}
MCTradeTypes == {"live", "paper"}
MCOneType    == {"paper"}

RowOf(entry, opened, target, stop, trail, holding) ==
  [ entry |-> entry, current |-> entry, openedAt |-> opened, target |-> target,
    stop |-> stop, trail |-> trail, holding |-> holding ]

(* One row with a stop and a trailing distance, one with a target that is  *)
(* also held for the day only.                                             *)
RowsMixed == { RowOf(8, 1, 0, 6, 20, "swing"), RowOf(8, 1, 9, 0, 0, "day") }

(* From a high down to the trailing distance and through the stop.         *)
TickAt(s, at, price) == [symbol |-> s, at |-> at, price |-> price]
TicksOne == { TickAt("a", 1, 10), TickAt("a", 2, 8), TickAt("a", 3, 6),
              TickAt("a", 5, 5) }

(* A position on "a" that reaches its target, and ticks of "b" between.    *)
RowsTarget == { RowOf(8, 1, 9, 0, 0, "swing") }
TicksTwo == { TickAt("a", 1, 9), TickAt("b", 1, 5), TickAt("a", 2, 9) }
=============================================================================
