--------------------------- MODULE LedgerClients ---------------------------
(* The paper ledger under arbitrary clients: any request of a set, in any  *)
(* order and any number of times.  This is all the database may assume of  *)
(* the processes that share it, whose retries, redeliveries and stale      *)
(* decisions reach it as repeated and reordered calls; OmsPaper models the *)
(* clients there really are.                                               *)
EXTENDS PaperLedger

CONSTANTS
  Requests,       \* the fill requests that callers may send
  StopRequests    \* the stop updates that callers may send

ASSUME RequestsAssumption ==
  /\ Requests \subseteq FillRequest
  /\ StopRequests \subseteq StopRequest

LedgerNext ==
  \/ \E req \in Requests : ApplyFill(req)
  \/ \E r \in StopRequests : UpdateStopLoss(r)

LedgerSpec == LedgerInit /\ [][LedgerNext]_ledgerVars
=============================================================================
