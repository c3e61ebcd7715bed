---------------------------- MODULE GatewayRisk -----------------------------
(***************************************************************************)
(* The gateway's loss limits: the functions of SQL 015 and 016, which lock *)
(* the system_status row, and the workers that call them on the way from a *)
(* signal to a published order.  A worker is one gateway process; a call   *)
(* of a function is one step, and its reply may be lost.                   *)
(*                                                                         *)
(* One trading date, live mode.  The id of an order is computed from its   *)
(* signal, the mode and the side, so that a signal stands for its order,   *)
(* also when it is delivered again.  What the order can lose is the same   *)
(* each time it is built; 0 is a sale, or a purchase without a stop, which *)
(* reserve nothing.  The gates between the two calls only refuse.          *)
(***************************************************************************)
EXTENDS Integers, FiniteSetsExt

CONSTANTS
  Workers,
  Signals,       \* messages of the trade-signals subscription
  Risk,          \* what the order of a signal can lose
  Periods,       \* the day, the week and the month
  LossLimit,     \* of each period
  StartPnl,      \* profit of each period when the date begins
  Troubles       \* bound on lost replies, failed publications and crashes

ASSUME RiskAssumption ==
  /\ Risk \in [Signals -> Nat]
  /\ LossLimit \in [Periods -> Nat] /\ StartPnl \in [Periods -> Int]
  /\ Troubles \in Nat /\ IsFiniteSet(Workers) /\ IsFiniteSet(Signals)

VARIABLES
  pnl,           \* daily_pnl, weekly_pnl, monthly_pnl
  trading,       \* is_trading_allowed
  order,         \* of each signal: where it is, what its publications reported
  reservation,   \* gateway_risk_reservations: status of each order's row
  worker,        \* where each worker stands
  answered,      \* signals acknowledged
  adrift,        \* reserve calls of each order still on their way
  troubles,      \* troubles left
  after          \* history: orders delivered since trading was stopped

riskVars == <<pnl, trading, order, reservation, worker, answered, adrift,
              troubles, after>>

Resting == [pc |-> "rest", signal |-> "none"]
Trouble == troubles > 0 /\ troubles' = troubles - 1
RiskOf(s) == Risk[s]
LostBy(s) == order[s].lost
Goes(w, pc) == worker' = [worker EXCEPT ![w].pc = pc]

----------------------------------------------------------------------------
(* gateway_check_kill_switch.                                              *)
Breached == \E p \in Periods : pnl[p] <= -LossLimit[p]
KillSwitch == trading' = (trading /\ ~Breached)

Receive_Unchecked(w, s) ==
  /\ worker[w].pc = "rest" /\ s \notin answered
  /\ KillSwitch
  /\ worker' = [worker EXCEPT ![w] = [pc |-> "gates", signal |-> s]]
  /\ UNCHANGED <<pnl, order, reservation, answered, adrift, troubles, after>>

Receive(w, s) ==
  /\ worker[w].pc = "rest" /\ s \notin answered
  /\ KillSwitch
  /\ worker' = [worker EXCEPT ![w] =
       [pc |-> IF trading' THEN "gates" ELSE "answer", signal |-> s]]
  /\ UNCHANGED <<pnl, order, reservation, answered, adrift, troubles, after>>

GatesRefuse(w) ==
  /\ worker[w].pc = "gates" /\ Goes(w, "answer")
  /\ UNCHANGED <<pnl, trading, order, reservation, answered, adrift, troubles, after>>

Build_Unreserved(w) ==
  /\ worker[w].pc = "gates" /\ Goes(w, "publish")
  /\ UNCHANGED <<pnl, trading, order, reservation, answered, adrift, troubles, after>>

(* build_order: a signal delivered again gives the same order id, and so   *)
(* meets the row that an earlier worker left.                              *)
Build(w) ==
  /\ worker[w].pc = "gates"
  /\ Goes(w, IF Risk[worker[w].signal] > 0 THEN "reserve" ELSE "publish")
  /\ UNCHANGED <<pnl, trading, order, reservation, answered, adrift, troubles, after>>

----------------------------------------------------------------------------
(* gateway_check_and_reserve_risk.  It looks at the sum of the active rows *)
(* and never at the order's own: an active one counts once more when the   *)
(* call is repeated, and a released one lets the call pass and stays as it *)
(* is (on conflict do nothing).                                            *)
ActiveRisk == MapThenSumSet(RiskOf, {s \in Signals : reservation[s] = "active"})

Passes_AloneInMind(s) ==
  trading /\ \A p \in Periods : pnl[p] - RiskOf(s) > -LossLimit[p]

Passes(s) ==
  trading /\ \A p \in Periods : pnl[p] - ActiveRisk - RiskOf(s) > -LossLimit[p]

Reserved(s) ==
  IF Passes(s) /\ reservation[s] = "none"
  THEN [reservation EXCEPT ![s] = "active"] ELSE reservation

Reserve(w) ==
  LET s == worker[w].signal
  IN  /\ worker[w].pc = "reserve"
      /\ reservation' = Reserved(s)
      /\ Goes(w, IF Passes(s) THEN "publish" ELSE "answer")
      /\ UNCHANGED <<pnl, trading, order, answered, adrift, troubles, after>>

(* The client calls again: the first call was executed, or still will be.  *)
ReserveUnanswered(w) ==
  LET s == worker[w].signal
  IN  /\ worker[w].pc = "reserve" /\ Trouble
      /\ \/ reservation' = Reserved(s) /\ UNCHANGED adrift
         \/ adrift' = [adrift EXCEPT ![s] = @ + 1] /\ UNCHANGED reservation
      /\ UNCHANGED <<pnl, trading, order, worker, answered, after>>

ReserveLate(s) ==
  /\ adrift[s] > 0
  /\ adrift' = [adrift EXCEPT ![s] = @ - 1] /\ reservation' = Reserved(s)
  /\ UNCHANGED <<pnl, trading, order, worker, answered, troubles, after>>

----------------------------------------------------------------------------
(* oms-live takes an order again unless it was filled.                     *)
WithOms(s) == IF order[s].at = "filled" THEN "filled" ELSE "open"

Published(s, reached, report) ==
  /\ order' = [order EXCEPT ![s].at = IF reached THEN WithOms(s) ELSE @,
                            ![s].reported = @ \cup {report}]
  /\ after' = IF reached /\ ~trading THEN after + 1 ELSE after

Publish(w) ==
  /\ worker[w].pc = "publish"
  /\ Published(worker[w].signal, TRUE, "sent") /\ Goes(w, "answer")
  /\ UNCHANGED <<pnl, trading, reservation, answered, adrift, troubles>>

(* The publication is reported failed, although the topic may have it.     *)
PublishFails(w) ==
  LET s == worker[w].signal
  IN  /\ worker[w].pc = "publish" /\ Trouble
      /\ \E reached \in BOOLEAN : Published(s, reached, "failed")
      /\ Goes(w, IF RiskOf(s) > 0 THEN "release" ELSE "dead")
      /\ UNCHANGED <<pnl, trading, reservation, answered, adrift>>

(* gateway_release_risk_reservation; its own failure is suppressed.  The   *)
(* process ends with the exception of the publication.                     *)
Released(s) ==
  IF reservation[s] = "active" THEN [reservation EXCEPT ![s] = "released"]
  ELSE reservation

Release(w) ==
  /\ worker[w].pc = "release"
  /\ \/ reservation' = Released(worker[w].signal) /\ UNCHANGED troubles
     \/ Trouble /\ UNCHANGED reservation
  /\ Goes(w, "dead")
  /\ UNCHANGED <<pnl, trading, order, answered, adrift, after>>

Answer(w) ==
  /\ worker[w].pc = "answer"
  /\ answered' = answered \cup {worker[w].signal}
  /\ worker' = [worker EXCEPT ![w] = Resting]
  /\ UNCHANGED <<pnl, trading, order, reservation, adrift, troubles, after>>

(* A crash, or an error of any call that outlives its retries: the signal  *)
(* will be delivered again.                                                *)
WorkerDies(w) ==
  /\ worker[w].pc \notin {"rest", "dead"} /\ Trouble
  /\ Goes(w, "dead")
  /\ UNCHANGED <<pnl, trading, order, reservation, answered, adrift, after>>

WorkerRestarts(w) ==
  /\ worker[w].pc = "dead"
  /\ worker' = [worker EXCEPT ![w] = Resting]
  /\ UNCHANGED <<pnl, trading, order, reservation, answered, adrift, troubles, after>>

----------------------------------------------------------------------------
(* oms-live fills an order and books its loss, at most what it risked, or  *)
(* refuses it or gives it up unfilled.  Neither touches the reservation.   *)
Settle(s, loss) ==
  /\ order[s].at = "open" /\ loss \in 0 .. RiskOf(s)
  /\ pnl' = [p \in Periods |-> pnl[p] - loss]
  /\ order' = [order EXCEPT ![s].at = "filled", ![s].lost = loss]
  /\ UNCHANGED <<trading, reservation, worker, answered, adrift, troubles, after>>

Unfilled(s) ==
  /\ order[s].at = "open"
  /\ order' = [order EXCEPT ![s].at = "away"]
  /\ UNCHANGED <<pnl, trading, reservation, worker, answered, adrift, troubles, after>>

(* The dashboard, or oms-live after a closeout that failed.                *)
StopTrading ==
  /\ trading /\ trading' = FALSE
  /\ UNCHANGED <<pnl, order, reservation, worker, answered, adrift, troubles, after>>

RiskInit ==
  /\ pnl = StartPnl /\ trading = TRUE
  /\ order = [s \in Signals |-> [at |-> "away", reported |-> {}, lost |-> 0]]
  /\ reservation = [s \in Signals |-> "none"] /\ adrift = [s \in Signals |-> 0]
  /\ worker = [w \in Workers |-> Resting] /\ answered = {}
  /\ troubles = Troubles /\ after = 0

RiskNext ==
  \/ \E w \in Workers :
       \/ \E s \in Signals : Receive(w, s)
       \/ GatesRefuse(w) \/ Build(w) \/ Reserve(w) \/ ReserveUnanswered(w)
       \/ Publish(w) \/ PublishFails(w) \/ Release(w) \/ Answer(w)
       \/ WorkerDies(w) \/ WorkerRestarts(w)
  \/ \E s \in Signals :
       ReserveLate(s) \/ Unfilled(s) \/ \E n \in 0 .. RiskOf(s) : Settle(s, n)
  \/ StopTrading

RiskSpec == RiskInit /\ [][RiskNext]_riskVars

----------------------------------------------------------------------------
(* Rows and workers are of the shape the tables and the code give them: a  *)
(* row is there only for an order that risks something, it is released     *)
(* only after a publication of the order that was reported failed, and a   *)
(* worker that is to publish such an order finds a row for it.             *)
RiskTypeOK ==
  /\ reservation \in [Signals -> {"none", "active", "released"}]
  /\ \A s \in Signals : reservation[s] # "none" => RiskOf(s) > 0
  /\ \A s \in Signals : reservation[s] = "released" => "failed" \in order[s].reported
  /\ \A w \in Workers :
       worker[w].pc = "publish" /\ RiskOf(worker[w].signal) > 0
         => reservation[worker[w].signal] # "none"

(* When every open order loses all it can, no period that began within its *)
(* limit reaches it; orders set aside are left out, with what they lost.   *)
WithinLimits(aside) ==
  \A p \in Periods : StartPnl[p] > -LossLimit[p] =>
    pnl[p] + MapThenSumSet(LostBy, aside)
      - MapThenSumSet(RiskOf, {s \in Signals \ aside : order[s].at = "open"})
        > -LossLimit[p]

(* What SQL 016 promises: worst-case risk is reserved before an order is   *)
(* published, so that workers that read the same profit do not overshoot a *)
(* limit together.  Left out are orders none of whose publications was     *)
(* reported sent, which the topic may have all the same.                   *)
WorstCaseWithinLimit ==
  WithinLimits({s \in Signals : "sent" \notin order[s].reported})

(* What it keeps: the promise without the orders of which a publication    *)
(* was reported failed, for their rows are released and not taken again.   *)
ReservedWithinLimit ==
  WithinLimits({s \in Signals : "failed" \in order[s].reported})

(* Once trading is stopped, each worker delivers at most the order it has  *)
(* in hand, whatever is redelivered and restarted.                         *)
StopsAtOnce == after <= Cardinality(Workers)
=============================================================================
