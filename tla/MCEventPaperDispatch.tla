------------------------ MODULE MCEventPaperDispatch ------------------------
(* Instances of EventPaperDispatch for TLC: one worker per stage, as they  *)
(* are deployed.                                                           *)
EXTENDS EventPaperDispatch

MCWorkers == {"a", "g"}
MCStageOf == [w \in MCWorkers |-> IF w = "a" THEN "aggregator" ELSE "gateway"]

(* Two ways to merge a signal and two sizes of its order.                  *)
MCMerges == {"m1", "m2"}
MCOrders == {"o1", "o2"}
MCPayloads == MCMerges \cup MCOrders
=============================================================================
