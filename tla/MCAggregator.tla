---------------------------- MODULE MCAggregator ----------------------------
(* The way of a signal: the two strategy services that make it, and the    *)
(* aggregator's two paths, event-paper signals on through the gateway      *)
(* (MCEventPaperDispatch) and the pairing of ordinary ones.  The paths     *)
(* meet in no bucket and no table, and the pairing takes any signals, so a *)
(* behaviour is one of any: in the others nothing was sent.                *)
(*                                                                         *)
(* A rule's BUY that the model confirms with little confidence, and the    *)
(* SELL of a position that may be gone.  Two features: the first makes the *)
(* opening range and sells off, on the second it breaks out, the averages  *)
(* cross, and the limit on the model's calls is near.                      *)
EXTENDS MCEventPaperDispatch, SignalPairing, StrategyStream

VARIABLE part

HalfOf(id, bucket, origin, source, action, confidence) ==
  [ id |-> id, bucket |-> bucket, origin |-> origin, source |-> source,
    action |-> action, confidence |-> confidence ]

MCHalves ==
  { HalfOf(1, 1, "a", "RULE", "BUY", 2), HalfOf(2, 1, "b", "AI", "BUY", 1),
    HalfOf(3, 2, "a", "RULE", "SELL", 2) }

FeatureAt(id, at, minute, price, diff, rsi, band, fit, high) ==
  [ id |-> id, symbol |-> "a", day |-> 1, at |-> at, minute |-> minute,
    price |-> price, vwap |-> 98, diff |-> diff, rsi |-> rsi, band |-> band,
    fit |-> fit, sure |-> [r \in Rules |-> IF r \in high THEN 2 ELSE 1] ]

MCFeatures ==
  { FeatureAt(1, 1, 0, 100, -2, "low", "inside", Rules \ {"relative_momentum"},
              {"rsi_threshold"}),
    FeatureAt(2, 2, 20, 101, 2, "middle", "below", Rules, {}) }
MCEnabled == << "sma_crossover", "rsi_threshold", "bollinger_breakout",
                "opening_range_breakout", "relative_momentum" >>

aggregatorVars == <<part, dispatchVars, pairingVars, strategyVars>>

AggregatorInit ==
  /\ Init /\ PairingInit /\ StrategyInit
  /\ part \in {"event", "pairing", "strategies"}
  /\ published = IF part = "event" THEN SourceMessages ELSE {}
  /\ offered = IF part = "strategies" THEN {f.id : f \in Features} ELSE {}

AggregatorNext ==
  /\ UNCHANGED part
  /\ \/ part = "event" /\ Next /\ UNCHANGED <<pairingVars, strategyVars>>
     \/ part = "pairing" /\ PairingNext /\ UNCHANGED <<dispatchVars, strategyVars>>
     \/ part = "strategies" /\ StrategyNext /\ UNCHANGED <<dispatchVars, pairingVars>>

AggregatorSpec ==
  /\ AggregatorInit /\ [][AggregatorNext]_aggregatorVars
  /\ \A w \in Workers : WF_dispatchVars(Work(w))
  /\ PairingFairness /\ StrategyFairness
=============================================================================
