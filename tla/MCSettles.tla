----------------------------- MODULE MCSettles ------------------------------
(* Two services whose processes end on an error and are restarted, and     *)
(* which must get on all the same: oms-paper (MCOmsPaper) and the feeder.  *)
(* They share nothing here, so a behaviour is one of either; the other     *)
(* stands still.                                                           *)
(*                                                                         *)
(* The feeder finds an instrument registered by an earlier run, and a      *)
(* token in the file that may be stale.                                    *)
EXTENDS MCOmsPaper, FeederSession

VARIABLE part

MCInstruments == {"x", "y"}
MCPushes == 1 .. 2

settlesVars == <<part, omsVars, feederVars>>

SettlesInit ==
  /\ part \in {"oms", "feeder"} /\ Init /\ FeederInit
  /\ kabu = {"x"} /\ (part = "oms" => cached = "none")

SettlesNext ==
  /\ UNCHANGED part
  /\ \/ part = "oms" /\ Next /\ UNCHANGED feederVars
     \/ part = "feeder" /\ FeederNext /\ UNCHANGED omsVars

(* OmsPaper!Fairness and FeederFairness, each for the part that moves.     *)
SettlesSpec ==
  /\ SettlesInit /\ [][SettlesNext]_settlesVars
  /\ \A c \in Tasks :
       /\ WF_omsVars(part = "oms" /\ ExecuteRead(c))
       /\ WF_omsVars(part = "oms" /\ \E m \in wire : m.caller = c /\ Execute(m))
  /\ WF_omsVars(part = "oms" /\ Monitors) /\ WF_omsVars(part = "oms" /\ OrderLoop)
  /\ WF_omsVars(part = "oms" /\ Closeout) /\ WF_omsVars(part = "oms" /\ Tick)
  /\ \A o \in Orders :
       SF_omsVars(part = "oms" /\ \E batch \in SUBSET Orders :
                    o \in batch /\ PullOrders(batch))
  /\ WF_feederVars(part = "feeder" /\ Cycle)
  /\ \A a \in Appliers :
       WF_feederVars(part = "feeder" /\ token = "stale" /\ CallFails(a))

(* What OmsPaper promises of orders and of the closeout, where it moves.   *)
PaperOrdersSettle == part = "oms" => OrdersSettle
PaperCloseoutEnds == part = "oms" => CloseoutEnds
=============================================================================
