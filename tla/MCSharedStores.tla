--------------------------- MODULE MCSharedStores ---------------------------
(* What holds however clients race, retry, give up and start again, of     *)
(* parts that share nothing: in Postgres the paper ledger                  *)
(* (MCLedgerClients), the gateway's loss limits (MCGatewayRisk) and the    *)
(* event-paper claim; the opportunity router's file; the exit monitor,     *)
(* which keeps a memory of its own beside the positions (MCExitMonitor).   *)
(* A behaviour is one of any of them; the others stand still.              *)
(*                                                                         *)
(* Three publishers, two books of one time and one of another; cohorts of  *)
(* more candidates than may enter, in two orders, in part, with one twice, *)
(* late or refused.                                                        *)
EXTENDS MCLedgerClients, MCGatewayRisk, EventPaperClaim, OpportunityRouter, MCExitMonitor

VARIABLE part

MCRuns   == 1 .. 3
MCQuotes == 1 .. 3
MCTimeOf == <<1, 2, 2>>

MCPolicy ==
  [ intact |-> TRUE, enabled |-> TRUE, effective |-> 1, expires |-> 5, maxEntries |-> 2,
    intake |-> [intact |-> TRUE, version |-> 1, contract |-> 1],
    playbooks |-> [p \in {"p", "q"} |-> [intact |-> TRUE, enabled |-> p = "p"]],
    rule |-> [priority |-> <<"p">>, instrumentLimit |-> 1, sectorLimit |-> 1] ]
MCPopulation ==
  [ intact |-> TRUE, version |-> 1, contract |-> 1, hash |-> 1,
    candidates |-> 1 .. 5, instruments |-> {"x", "y", "z"} ]
CandidateOf(id, instrument, priority, at) ==
  [ id |-> id, instrument |-> instrument,
    sector |-> IF instrument = "z" THEN NoSector ELSE "s", priority |-> priority,
    at |-> at, cutoff |-> 1, until |-> 2, intake |-> 1, population |-> 1,
    matched |-> <<"p">>, gates |-> [g \in {"evidence", "execution"} |-> "PASS"],
    duplicate |-> FALSE ]
MCCohorts ==
  LET a == CandidateOf(1, "x", 1, 2)
      b == CandidateOf(2, "y", 1, 2)
      c == CandidateOf(3, "z", 1, 2)
      d == CandidateOf(4, "x", 0, 2)
      unknown == [CandidateOf(5, "y", 0, 2) EXCEPT !.gates["evidence"] = "UNKNOWN"]
      late == [a EXCEPT !.at = 3]
  IN  {<<a, b, c>>, <<c, b, a>>, <<d, a, d>>, <<a, c>>, <<unknown, b>>, <<late>>,
       <<c, [d EXCEPT !.matched = <<"q">>]>>}

ASSUME MCCohortsAreNamed == CohortsAreNamed

StoresInit ==
  /\ part \in {"ledger", "risk", "claim", "router", "exits"}
  /\ LedgerInit /\ RiskInit /\ ClaimInit /\ RouterInit /\ Init

storesVars == <<part, ledgerVars, riskVars, claimVars, routerVars, exitVars>>

StoresNext ==
  /\ UNCHANGED part
  /\ \/ /\ part = "ledger" /\ LedgerNext
        /\ UNCHANGED <<riskVars, claimVars, routerVars, exitVars>>
     \/ /\ part = "risk" /\ RiskNext
        /\ UNCHANGED <<ledgerVars, claimVars, routerVars, exitVars>>
     \/ /\ part = "claim" /\ ClaimNext
        /\ UNCHANGED <<ledgerVars, riskVars, routerVars, exitVars>>
     \/ /\ part = "router" /\ RouterNext
        /\ UNCHANGED <<ledgerVars, riskVars, claimVars, exitVars>>
     \/ /\ part = "exits" /\ Next
        /\ UNCHANGED <<ledgerVars, riskVars, claimVars, routerVars>>

StoresSpec == StoresInit /\ [][StoresNext]_storesVars
=============================================================================
