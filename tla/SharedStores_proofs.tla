------------------------ MODULE SharedStores_proofs ------------------------
(***************************************************************************)
(* Three stores and the workers that call them: in Postgres the gateway's  *)
(* risk reservations with its kill switch, and the event-paper claim; the  *)
(* opportunity router's file.                                              *)
(*                                                                         *)
(* The gateway, for any number of workers, signals and troubles.  RiskInv: *)
(* an order that risks something is published only when there is a row for *)
(* it, which stays active unless a publication of the order was reported   *)
(* failed; and once trading is stopped each worker delivers at most the    *)
(* order it has in hand.  AccountInv adds the sums: what SQL 016 reserves  *)
(* covers what the open orders can lose, but for orders of which a         *)
(* publication was reported failed.                                        *)
(*                                                                         *)
(* The event-paper claim, for any runs, quotes and times: at most one      *)
(* message, and receipts that tell the truth.  The row only moves from     *)
(* nothing to a quote, to an attempt on it, to its checkpoint.  ClaimInv   *)
(* says what every run that is under way, and every call that was given    *)
(* up, may rely on at each of these stages: the run between its attempt    *)
(* and its checkpoint has the row to itself, for the others find an        *)
(* attempt that is not theirs.                                             *)
(*                                                                         *)
(* The router, for any policy, cohorts and breaks: what append_all has     *)
(* returned stays, up to a line that two writes share, and the entries of  *)
(* a cohort are the best of it.  The routing itself is a sort and a fold:  *)
(* SortedIs says what the sort gives, TakenAreTheBest that the fold, entry *)
(* by entry, takes the foremost.  RouterInv says what the file and what    *)
(* was returned have to do with the routing.                               *)
(***************************************************************************)
EXTENDS GatewayRisk, EventPaperClaim, OpportunityRouter, SequenceTheorems, SumTheorems

Stages == {"rest", "gates", "reserve", "publish", "release", "answer", "dead"}
Statuses == {"none", "active", "released"}
Worker == [pc : Stages, signal : Signals \cup {"none"}]
Order ==
  [at : {"away", "open", "filled"}, reported : SUBSET {"sent", "failed"}, lost : Nat]
Owning(w) == worker[w].pc \in {"gates", "reserve", "publish", "release"}
Failed(s) == "failed" \in order[s].reported

Shapes ==
  /\ worker \in [Workers -> Worker] /\ trading \in BOOLEAN /\ after \in Nat
  /\ order \in [Signals -> Order] /\ reservation \in [Signals -> Statuses]
  /\ adrift \in [Signals -> Nat]
  /\ \A w \in Workers : Owning(w) => worker[w].signal \in Signals

(* Several workers may have the same order in hand.  A row that was taken  *)
(* does not go away again, and only a publication that was reported failed *)
(* releases it; so an order that is open without such a report has its     *)
(* active row, whoever published it.                                       *)
RowsHold ==
  /\ \A s \in Signals :
       /\ reservation[s] # "none" \/ adrift[s] > 0 => Risk[s] > 0
       /\ reservation[s] = "released" => Failed(s)
       /\ order[s].at = "open" /\ ~Failed(s) /\ Risk[s] > 0 => reservation[s] = "active"
       /\ order[s].at # "filled" => order[s].lost = 0
  /\ \A w \in Workers :
       LET s == worker[w].signal
       IN  /\ worker[w].pc = "reserve" => Risk[s] > 0
           /\ worker[w].pc = "publish" /\ Risk[s] > 0 => reservation[s] # "none"
           /\ worker[w].pc = "release" => Failed(s)

(* The workers that may still deliver the order they have in hand: each    *)
(* delivery after the stop takes one out of that set, and with trading     *)
(* stopped none comes back into it.                                        *)
InHand == {w \in Workers : worker[w].pc \in {"gates", "reserve", "publish"}}

StopHolds ==
  /\ trading => after = 0
  /\ ~trading => after + Cardinality(InHand) <= Cardinality(Workers)

RiskInv == Shapes /\ RowsHold /\ StopHolds

----------------------------------------------------------------------------
LEMMA RowsOfSignals ==
  ASSUME Shapes, NEW s \in Signals
  PROVE  /\ Risk[s] \in Nat /\ order[s] \in Order /\ reservation[s] \in Statuses
         /\ adrift[s] \in Nat
BY RiskAssumption DEF Shapes

LEMMA HandsAreFinite ==
  ASSUME NEW S \in SUBSET Workers
  PROVE  /\ IsFiniteSet(S) /\ Cardinality(S) \in Nat
         /\ Cardinality(S) <= Cardinality(Workers) /\ Cardinality(Workers) \in Nat
BY RiskAssumption, FS_Subset, FS_CardinalityType

LEMMA RiskInitInv == RiskInit => RiskInv
BY DEF RiskInit, RiskInv, Shapes, RowsHold, StopHolds, Worker, Order, Stages, Statuses,
       Resting, Owning

(* A step without a delivery, in which no worker sets out unless trading   *)
(* is allowed.                                                             *)
LEMMA NothingDelivered ==
  ASSUME RiskInv, trading' \in BOOLEAN, after' = after, trading' => trading,
         trading' \/ InHand' \subseteq InHand
  PROVE  StopHolds'
<1>1. InHand \in SUBSET Workers /\ InHand' \in SUBSET Workers
  BY DEF InHand
<1>2. CASE trading'
  BY <1>2 DEF RiskInv, StopHolds
<1>3. CASE ~trading'
  <2>1. /\ Cardinality(InHand') \in Nat /\ Cardinality(InHand) \in Nat
        /\ Cardinality(Workers) \in Nat
        /\ Cardinality(InHand') <= Cardinality(InHand)
        /\ Cardinality(InHand') <= Cardinality(Workers)
    BY <1>1, <1>3, HandsAreFinite, FS_Subset
  <2> HIDE DEF InHand
  <2>2. after' + Cardinality(InHand') <= Cardinality(Workers)
    BY <2>1 DEF RiskInv, Shapes, StopHolds
  <2> QED BY <1>3, <2>2 DEF StopHolds
<1> QED BY <1>2, <1>3

(* A delivery, after which the worker has nothing in hand.                 *)
LEMMA OneDelivered ==
  ASSUME RiskInv, NEW w \in Workers, w \in InHand, InHand' = InHand \ {w},
         trading' = trading, after' \in {after, IF trading THEN after ELSE after + 1}
  PROVE  StopHolds' /\ after' \in Nat
<1>1. CASE trading
  BY <1>1 DEF RiskInv, Shapes, StopHolds
<1>2. CASE ~trading
  <2>1. InHand \in SUBSET Workers
    BY DEF InHand
  <2>2. /\ Cardinality(InHand') = Cardinality(InHand) - 1
        /\ Cardinality(InHand) \in Nat /\ Cardinality(Workers) \in Nat
    BY <2>1, HandsAreFinite, FS_RemoveElement
  <2>3. after' \in {after, after + 1} /\ after \in Nat
        /\ after + Cardinality(InHand) <= Cardinality(Workers)
    BY <1>2 DEF RiskInv, Shapes, StopHolds
  <2>4. after' \in Nat /\ after' + Cardinality(InHand') <= Cardinality(Workers)
    BY <2>2, <2>3
  <2> QED BY <1>2, <2>4 DEF StopHolds
<1> QED BY <1>1, <1>2

(* A worker that moves stays in hand only where it was.                    *)
LEMMA WorkerMoves ==
  ASSUME Shapes, NEW w \in Workers, NEW b \in Worker, worker' = [worker EXCEPT ![w] = b]
  PROVE  /\ worker' \in [Workers -> Worker] /\ worker'[w] = b
         /\ \A v \in Workers \ {w} : worker'[v] = worker[v]
         /\ b.pc \notin {"gates", "reserve", "publish"} => InHand' = InHand \ {w}
         /\ w \in InHand => InHand' \subseteq InHand
BY DEF Shapes, InHand

LEMMA WorkerGoes ==
  ASSUME Shapes, NEW w \in Workers, NEW pc \in Stages, Goes(w, pc)
  PROVE  \E b \in Worker : /\ worker' = [worker EXCEPT ![w] = b]
                           /\ b.pc = pc /\ b.signal = worker[w].signal
<1> DEFINE b == [worker[w] EXCEPT !.pc = pc]
<1>1. /\ b \in Worker /\ b.pc = pc /\ worker' = [worker EXCEPT ![w] = b]
      /\ b.signal = worker[w].signal
  BY DEF Shapes, Worker, Goes
<1> QED BY <1>1

----------------------------------------------------------------------------
(* A worker that moves while orders and rows stay as they are.             *)
LEMMA RowsAlone ==
  ASSUME RiskInv, NEW w \in Workers, NEW b \in Worker, worker' = [worker EXCEPT ![w] = b],
         b.pc # "release",
         b.pc \in {"gates", "reserve", "publish"} => b.signal \in Signals,
         b.pc = "reserve" => Risk[b.signal] > 0,
         b.pc = "publish" => ~(Risk[b.signal] > 0),
         UNCHANGED <<order, reservation, adrift>>, trading' \in BOOLEAN, after' \in Nat
  PROVE  Shapes' /\ RowsHold'
<1>1. /\ worker' \in [Workers -> Worker] /\ worker'[w] = b
      /\ \A v \in Workers \ {w} : worker'[v] = worker[v]
  BY WorkerMoves DEF RiskInv
<1>2. Shapes'
  BY <1>1 DEF RiskInv, Shapes, Owning
<1>3. RowsHold'
  BY <1>1 DEF RiskInv, RowsHold, Failed
<1> QED BY <1>2, <1>3

LEMMA ReceiveInv ==
  ASSUME RiskInv, NEW w \in Workers, NEW s \in Signals, Receive(w, s) PROVE RiskInv'
<1> DEFINE b == [pc |-> IF trading' THEN "gates" ELSE "answer", signal |-> s]
<1>1. /\ b \in Worker /\ b.pc \in {"gates", "answer"} /\ b.signal \in Signals
      /\ ~trading' => b.pc = "answer"
  BY DEF Worker, Stages
<1>2. /\ worker' = [worker EXCEPT ![w] = b]
      /\ UNCHANGED <<order, reservation, adrift, after>>
  BY DEF Receive
<1>3. trading' \in BOOLEAN /\ (trading' => trading)
  BY DEF Receive, KillSwitch, RiskInv, Shapes
<1> HIDE DEF b
<1>4. ~trading' => InHand' \subseteq InHand
  BY ZenonT(40), <1>1, <1>2, WorkerMoves DEF RiskInv
<1>5. StopHolds'
  BY <1>2, <1>3, <1>4, NothingDelivered
<1>6. after' \in Nat
  BY <1>2 DEF RiskInv, Shapes
<1>7. Shapes' /\ RowsHold'
  BY <1>1, <1>2, <1>3, <1>6, RowsAlone
<1> QED BY <1>5, <1>7 DEF RiskInv

LEMMA WorkerTurnsInv ==
  ASSUME RiskInv, NEW w \in Workers, NEW b \in Worker, worker' = [worker EXCEPT ![w] = b],
         b.pc \in {"rest", "answer", "dead"}
           \/ (w \in InHand /\ b.pc \in {"reserve", "publish"} /\ b.signal \in Signals),
         b.pc = "reserve" => Risk[b.signal] > 0,
         b.pc = "publish" => ~(Risk[b.signal] > 0),
         UNCHANGED <<order, reservation, adrift, trading, after>>
  PROVE  RiskInv'
<1>1. trading' \in BOOLEAN /\ after' \in Nat
  BY DEF RiskInv, Shapes
<1>2. StopHolds'
  <2>1. InHand' \subseteq InHand
    BY ZenonT(40), WorkerMoves DEF RiskInv
  <2> QED BY <1>1, <2>1, NothingDelivered
<1>3. Shapes' /\ RowsHold'
  BY <1>1, RowsAlone
<1> QED BY <1>2, <1>3 DEF RiskInv

LEMMA WorkerEndsInv ==
  ASSUME RiskInv, NEW w \in Workers,
         \/ GatesRefuse(w) \/ Answer(w) \/ WorkerDies(w) \/ WorkerRestarts(w)
  PROVE  RiskInv'
<1>1. Resting \in Worker /\ Resting.pc = "rest"
  BY DEF Resting, Worker, Stages
<1>2. CASE Answer(w) \/ WorkerRestarts(w)
  BY <1>1, <1>2, WorkerTurnsInv DEF Answer, WorkerRestarts
<1>3. CASE GatesRefuse(w) \/ WorkerDies(w)
  <2>1. PICK pc \in {"answer", "dead"} : Goes(w, pc)
    BY <1>3 DEF GatesRefuse, WorkerDies
  <2>2. PICK b \in Worker : b.pc = pc /\ worker' = [worker EXCEPT ![w] = b]
    BY <2>1, WorkerGoes DEF RiskInv, Stages
  <2> QED BY <1>3, <2>1, <2>2, WorkerTurnsInv DEF GatesRefuse, WorkerDies
<1> QED BY <1>2, <1>3

(* The order of a signal that comes again finds the row as it is.          *)
LEMMA BuildInv == ASSUME RiskInv, NEW w \in Workers, Build(w) PROVE RiskInv'
<1>1. worker[w].pc = "gates" /\ worker[w].signal \in Signals /\ w \in InHand
  BY DEF Build, RiskInv, Shapes, Owning, InHand
<1>2. PICK pc \in {"reserve", "publish"} :
        /\ Goes(w, pc)
        /\ pc = "reserve" => Risk[worker[w].signal] > 0
        /\ pc = "publish" => ~(Risk[worker[w].signal] > 0)
  BY DEF Build
<1>3. PICK b \in Worker : /\ worker' = [worker EXCEPT ![w] = b]
                          /\ b.pc = pc /\ b.signal = worker[w].signal
  BY <1>2, WorkerGoes DEF RiskInv, Stages
<1>4. UNCHANGED <<order, reservation, adrift, trading, after>>
  BY DEF Build
<1> QED BY <1>1, <1>2, <1>3, <1>4, WorkerTurnsInv

----------------------------------------------------------------------------
(* A row that is reserved, for whatever call: none becomes active, the     *)
(* rest stay as they are, and who passes finds one.                        *)
LEMMA RowReserved ==
  ASSUME Shapes, NEW s \in Signals
  PROVE  /\ Reserved(s) \in [Signals -> Statuses]
         /\ \A t \in Signals \ {s} : Reserved(s)[t] = reservation[t]
         /\ Reserved(s)[s] # reservation[s] =>
              reservation[s] = "none" /\ Reserved(s)[s] = "active"
         /\ Passes(s) => Reserved(s)[s] # "none"
BY DEF Shapes, Statuses, Reserved

(* A call by a worker, on time, repeated or late.                          *)
LEMMA ReservedInv ==
  ASSUME RiskInv, NEW s \in Signals, Risk[s] > 0,
         reservation' \in {reservation, Reserved(s)}, UNCHANGED <<order, trading, after>>,
         adrift' \in [Signals -> Nat], \A t \in Signals \ {s} : adrift'[t] = adrift[t],
         worker' \in [Workers -> Worker],
         \A v \in Workers :
           \/ worker'[v] = worker[v] \/ worker'[v].pc = "answer"
           \/ worker'[v].pc = "publish" /\ worker'[v].signal = s /\ reservation'[s] # "none"
  PROVE  Shapes' /\ RowsHold'
<1>1. /\ reservation' \in [Signals -> Statuses]
      /\ \A t \in Signals \ {s} : reservation'[t] = reservation[t]
      /\ reservation'[s] # reservation[s] =>
           reservation[s] = "none" /\ reservation'[s] = "active"
  BY RowReserved DEF RiskInv, Shapes
<1>2. Shapes'
  BY <1>1 DEF RiskInv, Shapes, Owning
<1>3. ASSUME NEW t \in Signals
      PROVE  /\ reservation'[t] # "none" \/ adrift'[t] > 0 => Risk[t] > 0
             /\ reservation'[t] = "released" => Failed(t)'
             /\ order'[t].at = "open" /\ ~Failed(t)' /\ Risk[t] > 0 => reservation'[t] = "active"
             /\ order'[t].at # "filled" => order'[t].lost = 0
  BY <1>1 DEF RiskInv, RowsHold, Failed
<1>4. ASSUME NEW v \in Workers
      PROVE  /\ worker'[v].pc = "reserve" => Risk[worker'[v].signal] > 0
             /\ worker'[v].pc = "publish" /\ Risk[worker'[v].signal] > 0
                  => reservation'[worker'[v].signal] # "none"
             /\ worker'[v].pc = "release" => Failed(worker[v].signal)'
  <2>1. CASE worker'[v] = worker[v]
    BY <1>1, <2>1 DEF RiskInv, RowsHold, Shapes, Owning, Failed
  <2>2. CASE worker'[v] # worker[v]
    BY <2>2
  <2> QED BY <2>1, <2>2
<1> QED BY <1>2, <1>3, <1>4 DEF RowsHold

LEMMA ReserveInv == ASSUME RiskInv, NEW w \in Workers, Reserve(w) PROVE RiskInv'
<1>1. PICK s : s = worker[w].signal
  OBVIOUS
<1>2. worker[w].pc = "reserve" /\ s \in Signals /\ Risk[s] > 0 /\ w \in InHand
  BY <1>1 DEF Reserve, RiskInv, Shapes, RowsHold, Owning, InHand
<1>3. PICK pc \in {"publish", "answer"} : Goes(w, pc) /\ (pc = "publish" => Passes(s))
  BY <1>1 DEF Reserve
<1>4. /\ reservation' = Reserved(s) /\ UNCHANGED <<order, adrift, trading, after>>
      /\ adrift' \in [Signals -> Nat] /\ trading' \in BOOLEAN
  BY <1>1 DEF Reserve, RiskInv, Shapes
<1>5. PICK b \in Worker : /\ worker' = [worker EXCEPT ![w] = b]
                          /\ b.pc = pc /\ b.signal = worker[w].signal
  BY <1>3, WorkerGoes DEF RiskInv, Stages
<1>6. /\ worker' \in [Workers -> Worker] /\ worker'[w] = b
      /\ \A v \in Workers \ {w} : worker'[v] = worker[v]
      /\ InHand' \subseteq InHand
  BY <1>2, <1>5, WorkerMoves DEF RiskInv
<1>7. pc = "publish" => reservation'[s] # "none"
  BY <1>2, <1>3, <1>4, RowReserved DEF RiskInv
<1>8. \A v \in Workers :
           \/ worker'[v] = worker[v] \/ worker'[v].pc = "answer"
           \/ worker'[v].pc = "publish" /\ worker'[v].signal = s /\ reservation'[s] # "none"
  BY <1>1, <1>3, <1>5, <1>6, <1>7
<1>9. Shapes' /\ RowsHold'
  BY <1>2, <1>4, <1>6, <1>8, ReservedInv
<1>10. StopHolds'
  BY <1>4, <1>6, NothingDelivered
<1> QED BY <1>9, <1>10 DEF RiskInv

LEMMA ReserveAwayInv ==
  ASSUME RiskInv,
         \/ \E w \in Workers : ReserveUnanswered(w)
         \/ \E s \in Signals : ReserveLate(s)
  PROVE  RiskInv'
<1>1. /\ UNCHANGED <<order, worker, trading, after>>
      /\ worker' \in [Workers -> Worker] /\ trading' \in BOOLEAN
  BY DEF ReserveUnanswered, ReserveLate, RiskInv, Shapes
<1>2. StopHolds'
  BY <1>1, NothingDelivered DEF InHand
<1>3. PICK s \in Signals :
        /\ Risk[s] > 0 /\ reservation' \in {reservation, Reserved(s)}
        /\ adrift' \in [Signals -> Nat] /\ \A t \in Signals \ {s} : adrift'[t] = adrift[t]
  <2>1. CASE \E w \in Workers : ReserveUnanswered(w)
    <3>1. PICK w \in Workers : ReserveUnanswered(w)
      BY <2>1
    <3>2. PICK s \in Signals : s = worker[w].signal
      BY <3>1 DEF ReserveUnanswered, RiskInv, Shapes, Owning
    <3>3. Risk[s] > 0 /\ reservation' \in {reservation, Reserved(s)}
      BY <3>1, <3>2 DEF ReserveUnanswered, RiskInv, RowsHold
    <3>4. adrift' = adrift \/ adrift' = [adrift EXCEPT ![s] = @ + 1]
      BY <3>1, <3>2 DEF ReserveUnanswered
    <3>5. adrift' \in [Signals -> Nat] /\ \A t \in Signals \ {s} : adrift'[t] = adrift[t]
      BY <3>4 DEF RiskInv, Shapes
    <3> QED BY <3>3, <3>5
  <2>2. CASE \E s \in Signals : ReserveLate(s)
    <3>1. PICK s \in Signals : ReserveLate(s)
      BY <2>2
    <3>2. Risk[s] > 0 /\ reservation' = Reserved(s)
      BY <3>1 DEF ReserveLate, RiskInv, RowsHold
    <3>3. adrift' \in [Signals -> Nat] /\ \A t \in Signals \ {s} : adrift'[t] = adrift[t]
      BY <3>1 DEF ReserveLate, RiskInv, Shapes
    <3> QED BY <3>2, <3>3
  <2> QED BY <2>1, <2>2
<1>4. Shapes' /\ RowsHold'
  BY <1>1, <1>3, ReservedInv
<1> QED BY <1>2, <1>4 DEF RiskInv

----------------------------------------------------------------------------
(* What a publication leaves of an order.                                  *)
LEMMA OrderPublished ==
  ASSUME Shapes, NEW s \in Signals, NEW reached \in BOOLEAN, NEW report \in {"sent", "failed"},
         Published(s, reached, report)
  PROVE  /\ order' \in [Signals -> Order]
         /\ \A t \in Signals \ {s} : order'[t] = order[t]
         /\ order'[s].lost = order[s].lost
         /\ order'[s].reported = order[s].reported \cup {report}
         /\ order'[s].at = "filled" <=> order[s].at = "filled"
<1>1. PICK at \in {"away", "open", "filled"} :
        /\ order' = [order EXCEPT ![s].at = at, ![s].reported = @ \cup {report}]
        /\ at = "filled" <=> order[s].at = "filled"
  <2>1. order[s].at \in {"away", "open", "filled"}
    BY RowsOfSignals DEF Order
  <2>2. CASE reached
    BY <2>2 DEF Published, WithOms
  <2>3. CASE ~reached
    BY <2>1, <2>3 DEF Published
  <2> QED BY <2>2, <2>3
<1>2. order[s] \in Order /\ order \in [Signals -> Order]
  BY DEF Shapes
<1> DEFINE o == [order[s] EXCEPT !.at = at, !.reported = order[s].reported \cup {report}]
<1>3. /\ o \in Order /\ o.lost = order[s].lost /\ o.at = at
      /\ o.reported = order[s].reported \cup {report}
  BY <1>2 DEF Order
<1>4. order' = [order EXCEPT ![s] = o]
  BY <1>1, <1>2
<1> HIDE DEF o
<1> QED BY <1>1, <1>2, <1>3, <1>4

(* A worker that publishes ends its business with the order, or is left    *)
(* with its release.                                                       *)
LEMMA PublicationInv ==
  ASSUME RiskInv, NEW w \in Workers, worker[w].pc = "publish",
         NEW s \in Signals, s = worker[w].signal,
         NEW reached \in BOOLEAN, NEW report \in {"sent", "failed"},
         Published(s, reached, report),
         NEW pc \in {"answer", "release", "dead"}, Goes(w, pc),
         pc = "release" => report = "failed",
         UNCHANGED <<trading, reservation, adrift>>
  PROVE  RiskInv'
<1>1. PICK b \in Worker : /\ worker' = [worker EXCEPT ![w] = b]
                          /\ b.pc = pc /\ b.signal = s
  BY WorkerGoes DEF RiskInv, Stages
<1>2. /\ worker' \in [Workers -> Worker] /\ worker'[w] = b
      /\ \A v \in Workers \ {w} : worker'[v] = worker[v]
      /\ InHand' = InHand \ {w} /\ w \in InHand
  BY <1>1, WorkerMoves DEF RiskInv, InHand
<1>3. StopHolds' /\ after' \in Nat
  <2>1. after' \in {after, IF trading THEN after ELSE after + 1}
    BY DEF Published
  <2> QED BY <1>2, <2>1, OneDelivered
<1>4. /\ order' \in [Signals -> Order]
      /\ \A t \in Signals \ {s} : order'[t] = order[t]
      /\ order'[s].lost = order[s].lost
      /\ order'[s].reported = order[s].reported \cup {report}
      /\ order'[s].at = "filled" <=> order[s].at = "filled"
  BY OrderPublished DEF RiskInv
<1>5. Shapes'
  BY <1>1, <1>2, <1>3, <1>4 DEF RiskInv, Shapes, Owning
<1>6. ASSUME NEW t \in Signals
      PROVE  /\ reservation'[t] # "none" \/ adrift'[t] > 0 => Risk[t] > 0
             /\ reservation'[t] = "released" => Failed(t)'
             /\ order'[t].at = "open" /\ ~Failed(t)' /\ Risk[t] > 0 => reservation'[t] = "active"
             /\ order'[t].at # "filled" => order'[t].lost = 0
  <2>1. CASE t # s
    BY <1>4, <2>1 DEF RiskInv, RowsHold, Failed
  <2>2. CASE t = s
    <3>1. Failed(s) => Failed(s)'
      BY <1>4 DEF Failed
    <3>2. reservation[s] \in Statuses /\ (Risk[s] > 0 => reservation[s] # "none")
      BY RowsOfSignals DEF RiskInv, RowsHold
    <3>3. ~Failed(s)' /\ Risk[s] > 0 => reservation'[s] = "active"
      BY <3>1, <3>2 DEF RiskInv, RowsHold, Statuses
    <3> QED BY <1>4, <2>2, <3>1, <3>3 DEF RiskInv, RowsHold
  <2> QED BY <2>1, <2>2
<1>7. ASSUME NEW v \in Workers
      PROVE  /\ worker'[v].pc = "reserve" => Risk[worker'[v].signal] > 0
             /\ worker'[v].pc = "publish" /\ Risk[worker'[v].signal] > 0
                  => reservation'[worker'[v].signal] # "none"
             /\ worker'[v].pc = "release" => Failed(worker[v].signal)'
  <2>1. CASE v = w
    BY <1>1, <1>2, <1>4, <2>1 DEF Failed
  <2>2. CASE v # w
    <3>1. worker'[v] = worker[v]
      BY <1>2, <2>2
    <3>2. worker[v].pc = "release" => worker[v].signal \in Signals /\ Failed(worker[v].signal)
      BY DEF RiskInv, RowsHold, Shapes, Owning
    <3>3. worker[v].pc = "release" => Failed(worker[v].signal)'
      BY <1>4, <3>1, <3>2 DEF Failed
    <3> QED BY <3>1, <3>3 DEF RiskInv, RowsHold
  <2> QED BY <2>1, <2>2
<1> QED BY <1>3, <1>5, <1>6, <1>7 DEF RiskInv, RowsHold

LEMMA PublishInv ==
  ASSUME RiskInv, NEW w \in Workers, Publish(w) \/ PublishFails(w) PROVE RiskInv'
<1>1. worker[w].pc = "publish" /\ UNCHANGED <<trading, reservation, adrift>>
  BY DEF Publish, PublishFails
<1>2. PICK s \in Signals : s = worker[w].signal
  BY <1>1 DEF RiskInv, Shapes, Owning
<1>3. CASE Publish(w)
  BY <1>1, <1>2, <1>3, PublicationInv DEF Publish
<1>4. CASE PublishFails(w)
  <2>1. PICK reached \in BOOLEAN : Published(s, reached, "failed")
    BY <1>2, <1>4 DEF PublishFails
  <2>2. PICK pc \in {"release", "dead"} : Goes(w, pc)
    BY <1>4 DEF PublishFails
  <2> QED BY <1>1, <1>2, <2>1, <2>2, PublicationInv
<1> QED BY <1>3, <1>4

(* A release takes the row of an order whose publication failed.           *)
LEMMA ReleaseInv == ASSUME RiskInv, NEW w \in Workers, Release(w) PROVE RiskInv'
<1>1. worker[w].pc = "release"
  BY DEF Release
<1>2. PICK s \in Signals : s = worker[w].signal
  BY <1>1 DEF RiskInv, Shapes, Owning
<1>3. /\ Goes(w, "dead") /\ UNCHANGED <<trading, order, adrift, after>>
      /\ reservation' \in {reservation, Released(s)} /\ Failed(s) /\ trading' \in BOOLEAN
  BY <1>1, <1>2 DEF Release, RiskInv, RowsHold, Shapes
<1>4. /\ reservation' \in [Signals -> Statuses]
      /\ \A t \in Signals \ {s} : reservation'[t] = reservation[t]
      /\ reservation'[s] # reservation[s] =>
           reservation[s] = "active" /\ reservation'[s] = "released"
  BY <1>3 DEF RiskInv, Shapes, Statuses, Released
<1>5. /\ worker' \in [Workers -> Worker] /\ worker'[w].pc = "dead"
      /\ \A v \in Workers \ {w} : worker'[v] = worker[v]
      /\ InHand' = InHand \ {w}
  <2>1. PICK b \in Worker : worker' = [worker EXCEPT ![w] = b] /\ b.pc = "dead"
    BY <1>3, WorkerGoes DEF RiskInv, Stages
  <2> QED BY <2>1, WorkerMoves DEF RiskInv
<1>6. Shapes'
  BY <1>3, <1>4, <1>5 DEF RiskInv, Shapes, Owning
<1>7. ASSUME NEW t \in Signals
      PROVE  /\ reservation'[t] # "none" \/ adrift'[t] > 0 => Risk[t] > 0
             /\ reservation'[t] = "released" => Failed(t)'
             /\ order'[t].at = "open" /\ ~Failed(t)' /\ Risk[t] > 0 => reservation'[t] = "active"
             /\ order'[t].at # "filled" => order'[t].lost = 0
  <2>1. CASE t # s
    BY <1>3, <1>4, <2>1 DEF RiskInv, RowsHold, Failed
  <2>2. CASE t = s
    BY <1>3, <1>4, <2>2 DEF RiskInv, RowsHold, Failed
  <2> QED BY <2>1, <2>2
<1>8. ASSUME NEW v \in Workers
      PROVE  /\ worker'[v].pc = "reserve" => Risk[worker'[v].signal] > 0
             /\ worker'[v].pc = "publish" /\ Risk[worker'[v].signal] > 0
                  => reservation'[worker'[v].signal] # "none"
             /\ worker'[v].pc = "release" => Failed(worker[v].signal)'
  <2>1. CASE v = w
    BY <1>5, <2>1
  <2>2. CASE v # w
    BY <1>3, <1>4, <1>5, <2>2 DEF RiskInv, RowsHold, Shapes, Owning, Failed
  <2> QED BY <2>1, <2>2
<1>9. StopHolds'
  BY <1>3, <1>5, NothingDelivered
<1> QED BY <1>6, <1>7, <1>8, <1>9 DEF RiskInv, RowsHold

----------------------------------------------------------------------------
(* What happens to an order at oms-live.                                   *)
LEMMA OrderEnds ==
  ASSUME Shapes, NEW s \in Signals, Unfilled(s) \/ \E n \in 0 .. RiskOf(s) : Settle(s, n)
  PROVE  \E o \in Order :
           /\ order' = [order EXCEPT ![s] = o] /\ o.reported = order[s].reported
           /\ \/ o.at = "away" /\ o.lost = order[s].lost /\ pnl' = pnl
              \/ /\ o.at = "filled" /\ o.lost <= RiskOf(s)
                 /\ pnl' = [p \in Periods |-> pnl[p] - o.lost]
<1>1. order[s] \in Order /\ RiskOf(s) \in Nat
  BY RowsOfSignals DEF RiskOf
<1>2. CASE Unfilled(s)
  <2> DEFINE o == [order[s] EXCEPT !.at = "away"]
  <2>1. o \in Order /\ o.at = "away" /\ o.lost = order[s].lost /\ o.reported = order[s].reported
    BY <1>1 DEF Order
  <2>2. order' = [order EXCEPT ![s] = o] /\ pnl' = pnl
    BY <1>2 DEF Unfilled
  <2> HIDE DEF o
  <2> QED BY <2>1, <2>2
<1>3. CASE \E n \in 0 .. RiskOf(s) : Settle(s, n)
  <2>1. PICK n \in 0 .. RiskOf(s) : Settle(s, n)
    BY <1>3
  <2>2. n \in Nat /\ n <= RiskOf(s)
    BY <1>1
  <2> DEFINE o == [order[s] EXCEPT !.at = "filled", !.lost = n]
  <2>3. o \in Order /\ o.at = "filled" /\ o.lost = n /\ o.reported = order[s].reported
    BY <1>1, <2>2 DEF Order
  <2>4. order' = [order EXCEPT ![s] = o] /\ pnl' = [p \in Periods |-> pnl[p] - n]
    BY <2>1 DEF Settle
  <2> HIDE DEF o
  <2> QED BY <2>2, <2>3, <2>4
<1> QED BY <1>2, <1>3

(* The rest of the world: an order ends, trading is stopped.               *)
LEMMA WorldInv ==
  ASSUME RiskInv,
         \/ \E s \in Signals : Unfilled(s) \/ \E n \in 0 .. RiskOf(s) : Settle(s, n)
         \/ StopTrading \/ UNCHANGED riskVars
  PROVE  RiskInv'
<1>1. /\ UNCHANGED <<reservation, worker, adrift, after>>
      /\ trading' \in BOOLEAN /\ (trading' => trading)
  <2>1. trading \in BOOLEAN
    BY DEF RiskInv, Shapes
  <2>2. /\ UNCHANGED <<reservation, worker, adrift, after>>
        /\ trading' = trading \/ trading' = FALSE
    BY DEF Settle, Unfilled, StopTrading, riskVars
  <2>3. CASE trading' = trading
    BY <2>1, <2>2, <2>3
  <2>4. CASE trading' = FALSE
    BY <2>2, <2>4
  <2> QED BY <2>2, <2>3, <2>4
<1>2. StopHolds'
  BY <1>1, NothingDelivered DEF InHand
<1>3. CASE order' = order
  BY <1>1, <1>2, <1>3 DEF RiskInv, Shapes, RowsHold, Failed, Owning
<1>4. CASE \E s \in Signals : Unfilled(s) \/ \E n \in 0 .. RiskOf(s) : Settle(s, n)
  <2>1. PICK s \in Signals : Unfilled(s) \/ \E n \in 0 .. RiskOf(s) : Settle(s, n)
    BY <1>4
  <2>2. PICK o \in Order : /\ order' = [order EXCEPT ![s] = o]
                           /\ o.reported = order[s].reported
                           /\ o.at = "filled" \/ (o.at = "away" /\ o.lost = order[s].lost)
    BY <2>1, OrderEnds DEF RiskInv
  <2>3. /\ order' \in [Signals -> Order] /\ order'[s] = o
        /\ \A t \in Signals \ {s} : order'[t] = order[t]
    BY <2>2 DEF RiskInv, Shapes
  <2>4. \A t \in Signals : Failed(t)' <=> Failed(t)
    BY <2>2, <2>3 DEF Failed
  <2>5. order[s].at = "open"
    BY <2>1 DEF Unfilled, Settle
  <2>6. Shapes'
    BY <1>1, <2>3 DEF RiskInv, Shapes, Owning
  <2>7. ASSUME NEW t \in Signals
        PROVE  /\ reservation'[t] # "none" \/ adrift'[t] > 0 => Risk[t] > 0
               /\ reservation'[t] = "released" => Failed(t)'
               /\ order'[t].at = "open" /\ ~Failed(t)' /\ Risk[t] > 0 => reservation'[t] = "active"
               /\ order'[t].at # "filled" => order'[t].lost = 0
    <3>1. CASE t # s
      BY <1>1, <2>3, <2>4, <3>1 DEF RiskInv, RowsHold
    <3>2. CASE t = s
      BY <1>1, <2>2, <2>3, <2>4, <2>5, <3>2 DEF RiskInv, RowsHold
    <3> QED BY <3>1, <3>2
  <2>8. ASSUME NEW v \in Workers
        PROVE  /\ worker'[v].pc = "reserve" => Risk[worker'[v].signal] > 0
               /\ worker'[v].pc = "publish" /\ Risk[worker'[v].signal] > 0
                    => reservation'[worker'[v].signal] # "none"
               /\ worker'[v].pc = "release" => Failed(worker[v].signal)'
    BY <1>1, <2>4 DEF RiskInv, RowsHold, Shapes, Owning
  <2> QED BY <1>2, <2>6, <2>7, <2>8 DEF RiskInv, RowsHold
<1> QED BY <1>3, <1>4 DEF StopTrading, riskVars

LEMMA RiskNextInv == RiskInv /\ [RiskNext]_riskVars => RiskInv'
<1> SUFFICES ASSUME RiskInv, [RiskNext]_riskVars PROVE RiskInv'
  OBVIOUS
<1>1. ASSUME NEW w \in Workers,
             \/ \E s \in Signals : Receive(w, s)
             \/ GatesRefuse(w) \/ Build(w) \/ Reserve(w) \/ ReserveUnanswered(w)
             \/ Publish(w) \/ PublishFails(w) \/ Release(w) \/ Answer(w)
             \/ WorkerDies(w) \/ WorkerRestarts(w)
      PROVE  RiskInv'
  BY <1>1, ReceiveInv, WorkerEndsInv, BuildInv, ReserveInv, ReserveAwayInv, PublishInv,
     ReleaseInv
<1>2. CASE \/ \E s \in Signals :
                ReserveLate(s) \/ Unfilled(s) \/ \E n \in 0 .. RiskOf(s) : Settle(s, n)
           \/ StopTrading \/ UNCHANGED riskVars
  BY <1>2, ReserveAwayInv, WorldInv
<1> QED BY <1>1, <1>2 DEF RiskNext

(* Rows, orders and workers keep their shape, and an open order has its    *)
(* active row unless one of its publications was reported failed.          *)
THEOREM RiskSafe == RiskSpec => []RiskInv
BY RiskInitInv, RiskNextInv, PTL DEF RiskSpec

(* A row is there only for an order that risks something and is released   *)
(* only after a failed publication of it, and a worker that is to publish  *)
(* such an order finds a row, whatever calls are lost, repeated or late    *)
(* and whoever left the row.                                               *)
THEOREM RiskTypes == RiskSpec => []RiskTypeOK
<1>1. RiskInv => RiskTypeOK
  BY DEF RiskInv, Shapes, RowsHold, RiskTypeOK, Statuses, RiskOf, Failed
<1> QED BY <1>1, RiskSafe, PTL

(* Once trading is stopped each worker delivers at most one more order,    *)
(* for any number of workers, orders and failures.                         *)
THEOREM RiskStopsAtOnce == RiskSpec => []StopsAtOnce
<1>1. RiskInv => StopsAtOnce
  <2> SUFFICES ASSUME RiskInv PROVE StopsAtOnce
    OBVIOUS
  <2>1. Cardinality(InHand) \in Nat /\ Cardinality(Workers) \in Nat
    BY HandsAreFinite DEF InHand
  <2> HIDE DEF InHand
  <2> QED BY <2>1 DEF RiskInv, Shapes, StopHolds, StopsAtOnce
<1> QED BY <1>1, RiskSafe, PTL

----------------------------------------------------------------------------
(* The sums.                                                               *)

(* What an order may still cost, or has cost, its period: a loss that was  *)
(* booked, or else what an active row keeps for it.  An order of which a   *)
(* publication failed is out of account.                                   *)
LostIn(o) == [s \in Signals |-> o[s].lost]
Exposure(o, r) ==
  [s \in Signals |-> IF "failed" \in o[s].reported THEN 0
                     ELSE IF o[s].at = "filled" THEN o[s].lost
                     ELSE IF r[s] = "active" THEN Risk[s] ELSE 0]

(* The profit is what the losses left of it, and with the rows that are    *)
(* kept it stays above the limit.                                          *)
LimitsKept ==
  /\ pnl \in [Periods -> Int]
  /\ \A p \in Periods : pnl[p] = StartPnl[p] - SumOver(LostIn(order), Signals)
  /\ \A p \in Periods : StartPnl[p] > -LossLimit[p] =>
       StartPnl[p] - SumOver(Exposure(order, reservation), Signals) > -LossLimit[p]

AccountInv == RiskInv /\ LimitsKept

LEMMA WeightsOf ==
  ASSUME NEW o \in [Signals -> Order], NEW r
  PROVE  /\ IsFiniteSet(Signals)
         /\ \A s \in Signals :
              /\ Risk[s] \in Nat
              /\ LostIn(o)[s] = o[s].lost /\ LostIn(o)[s] \in Nat
              /\ Exposure(o, r)[s] \in Nat
         /\ SumOver(LostIn(o), Signals) \in Int
         /\ SumOver(Exposure(o, r), Signals) \in Int
<1>1. IsFiniteSet(Signals)
  BY RiskAssumption
<1>2. ASSUME NEW s \in Signals
      PROVE  /\ Risk[s] \in Nat
             /\ LostIn(o)[s] = o[s].lost /\ LostIn(o)[s] \in Nat
             /\ Exposure(o, r)[s] \in Nat
  <2>1. o[s].lost \in Nat /\ Risk[s] \in Nat
    BY RiskAssumption DEF Order
  <2> QED BY <2>1 DEF LostIn, Exposure
<1>3. SumOver(LostIn(o), Signals) \in Int /\ SumOver(Exposure(o, r), Signals) \in Int
  BY <1>1, <1>2, SumInt
<1> QED BY <1>1, <1>2, <1>3

LEMMA RisksAreSum ==
  ASSUME NEW S \in SUBSET Signals
  PROVE  MapThenSumSet(RiskOf, S) = SumOver(Risk, S)
<1> DEFINE weighed(h) == [s \in SUBSET S |->
             IF s = {} THEN 0 ELSE RiskOf(Chosen(s)) + h[s \ {Chosen(s)}]]
<1>1. MapThenSumSet(RiskOf, S) = (CHOOSE h : h = weighed(h))[S]
  BY DEF MapThenSumSet, MapThenFoldSet, Chosen
<1>2. \A h : weighed(h) = PartialSums(Risk, h, S)
  BY DEF PartialSums, RiskOf
<1>3. (CHOOSE h : h = weighed(h)) = Solution(Risk, S)
  <2> HIDE DEF weighed
  <2> QED BY <1>2, Zenon DEF Solution
<1> QED BY <1>1, <1>3, SumIsSolution

LEMMA LossesAreSum ==
  ASSUME NEW S \in SUBSET Signals
  PROVE  MapThenSumSet(LostBy, S) = SumOver(LostIn(order), S)
<1> DEFINE f == LostIn(order)
           weighed(h) == [s \in SUBSET S |->
             IF s = {} THEN 0 ELSE LostBy(Chosen(s)) + h[s \ {Chosen(s)}]]
<1>1. MapThenSumSet(LostBy, S) = (CHOOSE h : h = weighed(h))[S]
  BY DEF MapThenSumSet, MapThenFoldSet, Chosen
<1>2. \A h : weighed(h) = PartialSums(f, h, S)
  BY ChosenIn DEF PartialSums, LostIn, LostBy
<1>3. (CHOOSE h : h = weighed(h)) = Solution(f, S)
  <2> HIDE DEF weighed, f
  <2> QED BY <1>2, Zenon DEF Solution
<1> QED BY <1>1, <1>3, SumIsSolution

(* The rows that SQL 016 adds up, with the losses in the profit, are no    *)
(* less than the exposure: orders that are filled are counted twice.       *)
LEMMA RowsCoverExposure ==
  ASSUME RiskInv
  PROVE  /\ ActiveRisk \in Int
         /\ SumOver(Exposure(order, reservation), Signals)
              <= SumOver(LostIn(order), Signals) + ActiveRisk
<1> DEFINE rows == {s \in Signals : reservation[s] = "active"}
           h == [s \in Signals |-> IF s \in rows THEN Risk[s] ELSE 0]
           l == LostIn(order)
           both == [s \in Signals |-> l[s] + h[s]]
           e == Exposure(order, reservation)
<1>1. /\ IsFiniteSet(Signals) /\ rows \in SUBSET Signals
      /\ \A s \in Signals : /\ Risk[s] \in Nat /\ l[s] = order[s].lost /\ l[s] \in Nat
                            /\ e[s] \in Nat
  BY WeightsOf DEF RiskInv, Shapes
<1>2. ActiveRisk = SumOver(Risk, rows)
  BY RisksAreSum DEF ActiveRisk
<1>3. \A s \in Signals : h[s] \in Nat
  BY <1>1
<1>4. SumOver(Risk, rows) = SumOver(h, Signals)
  <2> HIDE DEF rows
  <2>1. \A s \in Signals : Risk[s] \in Int
    BY <1>1
  <2> QED BY <1>1, <2>1, SumWhere
<1>5. SumOver(both, Signals) = SumOver(l, Signals) + SumOver(h, Signals)
  <2>1. \A s \in Signals : l[s] \in Int /\ h[s] \in Int
    BY <1>1, <1>3
  <2> HIDE DEF h, l
  <2> QED BY <1>1, <2>1, SumPlus
<1>6. \A s \in Signals : e[s] \in Int /\ both[s] \in Int /\ e[s] <= both[s]
  <2> TAKE s \in Signals
  <2>1. both[s] = order[s].lost + h[s]
        /\ h[s] = IF reservation[s] = "active" THEN Risk[s] ELSE 0
    BY <1>1
  <2>2. order[s].lost \in Nat /\ Risk[s] \in Nat
    BY <1>1
  <2>3. e[s] = IF "failed" \in order[s].reported THEN 0
               ELSE IF order[s].at = "filled" THEN order[s].lost
               ELSE IF reservation[s] = "active" THEN Risk[s] ELSE 0
    BY DEF Exposure
  <2> HIDE DEF both, h, e
  <2> QED BY <2>1, <2>2, <2>3
<1>7. SumOver(e, Signals) <= SumOver(both, Signals)
  <2> HIDE DEF both, e
  <2> QED BY <1>1, <1>6, SumAtMost
<1>8. SumOver(h, Signals) \in Int
  <2>1. \A s \in Signals : h[s] \in Int
    BY <1>3
  <2> HIDE DEF h
  <2> QED BY <1>1, <2>1, SumInt
<1> HIDE DEF both, h, e, l, rows
<1>9. SumOver(e, Signals) <= SumOver(l, Signals) + ActiveRisk /\ ActiveRisk \in Int
  BY <1>2, <1>4, <1>5, <1>7, <1>8
<1> QED BY <1>9 DEF e, l

----------------------------------------------------------------------------
(* A call of gateway_check_and_reserve_risk, on time or late.              *)
LEMMA ReservedLimits ==
  ASSUME AccountInv, NEW s \in Signals, reservation' \in {reservation, Reserved(s)},
         order' = order, pnl' = pnl
  PROVE  LimitsKept'
<1> DEFINE e == Exposure(order, reservation)
           n == Exposure(order, reservation')
           l == LostIn(order)
<1>1. /\ IsFiniteSet(Signals) /\ SumOver(e, Signals) \in Int /\ SumOver(l, Signals) \in Int
      /\ \A t \in Signals : e[t] \in Nat /\ n[t] \in Nat /\ Risk[t] \in Nat
  BY WeightsOf DEF AccountInv, RiskInv, Shapes
<1>2. CASE reservation' = reservation
  BY <1>2 DEF AccountInv, LimitsKept
<1>3. CASE reservation' # reservation
  <2>1. /\ Passes(s) /\ reservation[s] = "none" /\ reservation'[s] = "active"
        /\ \A t \in Signals \ {s} : reservation'[t] = reservation[t]
    BY <1>3 DEF Reserved, AccountInv, RiskInv, Shapes
  <2>2. \A t \in Signals : t # s => e[t] = n[t]
    BY <2>1 DEF Exposure
  <2>3. n[s] <= e[s] + Risk[s]
    <3>1. /\ e[s] = IF "failed" \in order[s].reported THEN 0
                    ELSE IF order[s].at = "filled" THEN order[s].lost ELSE 0
          /\ n[s] = IF "failed" \in order[s].reported THEN 0
                    ELSE IF order[s].at = "filled" THEN order[s].lost ELSE Risk[s]
      BY <2>1 DEF Exposure
    <3>2. e[s] \in Nat /\ n[s] \in Nat /\ Risk[s] \in Nat
      BY <1>1
    <3> HIDE DEF e, n
    <3> QED BY <3>1, <3>2
  <2>4. SumOver(n, Signals) = SumOver(e, Signals) + (n[s] - e[s])
    <3>1. \A t \in Signals : e[t] \in Int /\ n[t] \in Int
      BY <1>1
    <3> HIDE DEF e, n
    <3> QED BY <1>1, <2>2, <3>1, SumChange
  <2>5. /\ SumOver(e, Signals) <= SumOver(l, Signals) + ActiveRisk
        /\ ActiveRisk \in Int
    BY RowsCoverExposure DEF AccountInv
  <2>6. ASSUME NEW p \in Periods
        PROVE  StartPnl[p] - SumOver(n, Signals) > -LossLimit[p]
    <3>1. /\ pnl[p] - ActiveRisk - Risk[s] > -LossLimit[p]
          /\ pnl[p] = StartPnl[p] - SumOver(l, Signals)
      BY <2>1 DEF Passes, RiskOf, AccountInv, LimitsKept
    <3>2. /\ StartPnl[p] \in Int /\ LossLimit[p] \in Int
          /\ e[s] \in Int /\ n[s] \in Int /\ Risk[s] \in Int
      BY <1>1, RiskAssumption
    <3> HIDE DEF e, n, l
    <3>3. SumOver(n, Signals) <= SumOver(l, Signals) + ActiveRisk + Risk[s]
          /\ SumOver(n, Signals) \in Int
      BY <1>1, <2>3, <2>4, <2>5, <3>2
    <3> QED BY <1>1, <2>5, <3>1, <3>2, <3>3
  <2> QED BY <2>6 DEF AccountInv, LimitsKept
<1> QED BY <1>2, <1>3

(* What happens to one order: its loss is taken from every period, and its *)
(* exposure does not grow.                                                 *)
LEMMA OrderLimits ==
  ASSUME AccountInv, NEW s \in Signals, order' \in [Signals -> Order],
         \A t \in Signals \ {s} : order'[t] = order[t], reservation' = reservation,
         pnl' \in [Periods -> Int],
         \A p \in Periods : pnl'[p] = pnl[p] - (order'[s].lost - order[s].lost),
         Exposure(order', reservation)[s] <= Exposure(order, reservation)[s]
  PROVE  LimitsKept'
<1> DEFINE e == Exposure(order, reservation)
           n == Exposure(order', reservation)
           l == LostIn(order)
           k == LostIn(order')
<1>1. /\ IsFiniteSet(Signals) /\ SumOver(e, Signals) \in Int /\ SumOver(l, Signals) \in Int
      /\ \A t \in Signals : e[t] \in Int /\ l[t] \in Int
  BY WeightsOf DEF AccountInv, RiskInv, Shapes
<1>2. \A t \in Signals : n[t] \in Int /\ k[t] \in Int
  <2>1. \A t \in Signals : k[t] \in Nat /\ n[t] \in Nat
    BY WeightsOf
  <2> HIDE DEF k, n
  <2> QED BY <2>1
<1>3. \A t \in Signals : t # s => e[t] = n[t] /\ l[t] = k[t]
  BY DEF Exposure, LostIn
<1>4. /\ SumOver(n, Signals) = SumOver(e, Signals) + (n[s] - e[s])
      /\ SumOver(k, Signals) = SumOver(l, Signals) + (k[s] - l[s])
  <2> HIDE DEF e, n, l, k
  <2>1. SumOver(n, Signals) = SumOver(e, Signals) + (n[s] - e[s])
    BY <1>1, <1>2, <1>3, SumChange
  <2>2. SumOver(k, Signals) = SumOver(l, Signals) + (k[s] - l[s])
    BY <1>1, <1>2, <1>3, SumChange
  <2> QED BY <2>1, <2>2
<1>5. k[s] = order'[s].lost /\ l[s] = order[s].lost
  BY DEF LostIn
<1>6. n[s] <= e[s] /\ n[s] \in Int /\ e[s] \in Int /\ k[s] \in Int /\ l[s] \in Int
  BY <1>1, <1>2
<1>7. ASSUME NEW p \in Periods
      PROVE  /\ pnl'[p] = StartPnl[p] - SumOver(k, Signals)
             /\ StartPnl[p] > -LossLimit[p] =>
                  StartPnl[p] - SumOver(n, Signals) > -LossLimit[p]
  <2>1. /\ pnl[p] = StartPnl[p] - SumOver(l, Signals)
        /\ StartPnl[p] > -LossLimit[p] => StartPnl[p] - SumOver(e, Signals) > -LossLimit[p]
        /\ pnl'[p] = pnl[p] - (k[s] - l[s])
    BY <1>5 DEF AccountInv, LimitsKept
  <2>2. StartPnl[p] \in Int /\ LossLimit[p] \in Int
    BY RiskAssumption
  <2> HIDE DEF e, n, l, k
  <2> QED BY <1>1, <1>4, <1>6, <2>1, <2>2
<1> QED BY <1>7 DEF LimitsKept

----------------------------------------------------------------------------
LEMMA InitLimits == RiskInit => LimitsKept
<1> SUFFICES ASSUME RiskInit PROVE LimitsKept
  OBVIOUS
<1> DEFINE e == Exposure(order, reservation)
           l == LostIn(order)
           z == [s \in Signals |-> 0]
<1>1. \A s \in Signals : e[s] = z[s] /\ l[s] = z[s]
  BY DEF RiskInit, Exposure, LostIn
<1>2. SumOver(e, Signals) = SumOver(z, Signals) /\ SumOver(l, Signals) = SumOver(z, Signals)
  <2> HIDE DEF e, l, z
  <2> QED BY <1>1, SumSame
<1>3. SumOver(z, Signals) = 0
  <2>1. SumOver(z, {}) = 0
    BY SumEmpty
  <2>2. /\ \A s \in Signals : z[s] \in Int
        /\ [s \in Signals |-> IF s \in {} THEN z[s] ELSE 0] = z
    OBVIOUS
  <2>3. IsFiniteSet(Signals) /\ {} \in SUBSET Signals
    BY RiskAssumption
  <2> HIDE DEF z
  <2> QED BY <2>1, <2>2, <2>3, SumWhere
<1>4. pnl = StartPnl
  BY DEF RiskInit
<1> HIDE DEF e, l, z
<1>5. \A p \in Periods : pnl[p] = StartPnl[p] - SumOver(l, Signals)
  BY <1>2, <1>3, <1>4, RiskAssumption
<1>6. \A p \in Periods : StartPnl[p] > -LossLimit[p] =>
        StartPnl[p] - SumOver(e, Signals) > -LossLimit[p]
  BY <1>2, <1>3, RiskAssumption
<1> QED BY <1>4, <1>5, <1>6, RiskAssumption DEF LimitsKept, e, l

(* The exposure of an order that is delivered is what its row keeps for    *)
(* it, and that of an order of which a publication failed is gone.         *)
LEMMA PublishLimits ==
  ASSUME AccountInv, NEW w \in Workers, Publish(w) \/ PublishFails(w)
  PROVE  LimitsKept'
<1>1. PICK s \in Signals : s = worker[w].signal
  BY DEF Publish, PublishFails, AccountInv, RiskInv, Shapes, Owning
<1>2. PICK reached \in BOOLEAN, report \in {"sent", "failed"} : Published(s, reached, report)
  <2>1. CASE Publish(w)
    BY <1>1, <2>1 DEF Publish
  <2>2. CASE PublishFails(w)
    <3>1. PICK reached \in BOOLEAN : Published(s, reached, "failed")
      BY <1>1, <2>2 DEF PublishFails
    <3> QED BY <3>1
  <2> QED BY <2>1, <2>2
<1>3. /\ order' \in [Signals -> Order]
      /\ \A t \in Signals \ {s} : order'[t] = order[t]
      /\ order'[s].lost = order[s].lost
      /\ order'[s].reported = order[s].reported \cup {report}
      /\ order'[s].at = "filled" <=> order[s].at = "filled"
  BY <1>2, OrderPublished DEF AccountInv, RiskInv
<1>4. reservation' = reservation /\ pnl' = pnl
  BY DEF Publish, PublishFails
<1>5. Exposure(order', reservation)[s] <= Exposure(order, reservation)[s]
  <2>1. Exposure(order', reservation)[s] \in Nat /\ Exposure(order, reservation)[s] \in Nat
    BY <1>3, WeightsOf DEF AccountInv, RiskInv, Shapes
  <2>2. Exposure(order', reservation)[s] \in {0, Exposure(order, reservation)[s]}
    BY <1>3 DEF Exposure
  <2> QED BY <2>1, <2>2
<1>6. \A p \in Periods : pnl'[p] = pnl[p] - (order'[s].lost - order[s].lost)
  <2>1. order[s].lost \in Nat /\ \A p \in Periods : pnl[p] \in Int
    BY DEF AccountInv, RiskInv, Shapes, LimitsKept, Order
  <2> QED BY <1>3, <1>4, <2>1
<1>7. pnl' \in [Periods -> Int]
  BY <1>4 DEF AccountInv, LimitsKept
<1> QED BY <1>3, <1>4, <1>5, <1>6, <1>7, OrderLimits

(* Only the row of an order of which a publication failed is released.     *)
LEMMA ReleaseLimits ==
  ASSUME AccountInv, NEW w \in Workers, Release(w)
  PROVE  LimitsKept'
<1>1. PICK s \in Signals : s = worker[w].signal /\ "failed" \in order[s].reported
  BY DEF Release, AccountInv, RiskInv, RowsHold, Shapes, Owning, Failed
<1>2. order' = order /\ pnl' = pnl /\ \A t \in Signals \ {s} : reservation'[t] = reservation[t]
  BY <1>1 DEF Release, Released, AccountInv, RiskInv, Shapes
<1>3. Exposure(order, reservation') = Exposure(order, reservation)
  BY <1>1, <1>2 DEF Exposure
<1> QED BY <1>2, <1>3 DEF AccountInv, LimitsKept

(* A loss is at most what the row of the order keeps for it.               *)
LEMMA EndLimits ==
  ASSUME AccountInv, NEW s \in Signals, Unfilled(s) \/ \E n \in 0 .. RiskOf(s) : Settle(s, n)
  PROVE  LimitsKept'
<1>1. PICK o \in Order :
        /\ order' = [order EXCEPT ![s] = o] /\ o.reported = order[s].reported
        /\ \/ o.at = "away" /\ o.lost = order[s].lost /\ pnl' = pnl
           \/ /\ o.at = "filled" /\ o.lost <= RiskOf(s)
              /\ pnl' = [p \in Periods |-> pnl[p] - o.lost]
  BY OrderEnds DEF AccountInv, RiskInv
<1>2. /\ order[s].at = "open" /\ order[s].lost = 0 /\ Risk[s] \in Nat /\ o.lost \in Nat
      /\ "failed" \notin order[s].reported /\ Risk[s] > 0 => reservation[s] = "active"
  BY RowsOfSignals DEF Unfilled, Settle, AccountInv, RiskInv, RowsHold, Failed, Order
<1>3. /\ order' \in [Signals -> Order] /\ order'[s] = o
      /\ \A t \in Signals \ {s} : order'[t] = order[t]
  BY <1>1 DEF AccountInv, RiskInv, Shapes
<1>4. reservation' = reservation
  BY DEF Unfilled, Settle
<1>5. Exposure(order', reservation)[s] <= Exposure(order, reservation)[s]
  <2>1. Exposure(order, reservation)[s]
          = IF "failed" \in order[s].reported THEN 0
            ELSE IF reservation[s] = "active" THEN Risk[s] ELSE 0
    BY <1>2 DEF Exposure
  <2>2. Exposure(order', reservation)[s]
          = IF "failed" \in order[s].reported THEN 0
            ELSE IF o.at = "filled" THEN o.lost
            ELSE IF reservation[s] = "active" THEN Risk[s] ELSE 0
    BY <1>1, <1>3 DEF Exposure
  <2>3. o.at = "away" \/ (o.at = "filled" /\ o.lost <= Risk[s])
    BY <1>1 DEF RiskOf
  <2> QED BY <1>2, <2>1, <2>2, <2>3
<1>6. \A p \in Periods : pnl[p] \in Int
  BY DEF AccountInv, LimitsKept
<1>7. pnl' \in [Periods -> Int] /\ \A p \in Periods : pnl'[p] = pnl[p] - (o.lost - order[s].lost)
  BY <1>1, <1>2, <1>6 DEF AccountInv, LimitsKept
<1> QED BY <1>3, <1>4, <1>5, <1>7, OrderLimits

LEMMA NextLimits == AccountInv /\ [RiskNext]_riskVars => LimitsKept'
<1> SUFFICES ASSUME AccountInv, [RiskNext]_riskVars PROVE LimitsKept'
  OBVIOUS
<1>1. CASE UNCHANGED <<order, reservation, pnl>>
  BY <1>1 DEF AccountInv, LimitsKept
<1>2. ASSUME NEW w \in Workers,
             \/ \E s \in Signals : Receive(w, s)
             \/ GatesRefuse(w) \/ Build(w) \/ Answer(w) \/ WorkerDies(w) \/ WorkerRestarts(w)
      PROVE  LimitsKept'
  BY <1>1, <1>2 DEF Receive, GatesRefuse, Build, Answer, WorkerDies, WorkerRestarts
<1>3. ASSUME NEW w \in Workers, Reserve(w) \/ ReserveUnanswered(w)
      PROVE  LimitsKept'
  <2>1. PICK s \in Signals : s = worker[w].signal
    BY <1>3 DEF Reserve, ReserveUnanswered, AccountInv, RiskInv, Shapes, Owning
  <2>2. reservation' \in {reservation, Reserved(s)} /\ order' = order /\ pnl' = pnl
    BY <1>3, <2>1 DEF Reserve, ReserveUnanswered
  <2> QED BY <2>2, ReservedLimits
<1>4. ASSUME NEW w \in Workers, Publish(w) \/ PublishFails(w)
      PROVE  LimitsKept'
  BY <1>4, PublishLimits
<1>5. ASSUME NEW w \in Workers, Release(w)
      PROVE  LimitsKept'
  BY <1>5, ReleaseLimits
<1>6. ASSUME NEW s \in Signals, ReserveLate(s)
      PROVE  LimitsKept'
  BY <1>6, ReservedLimits DEF ReserveLate
<1>7. ASSUME NEW s \in Signals, Unfilled(s) \/ \E n \in 0 .. RiskOf(s) : Settle(s, n)
      PROVE  LimitsKept'
  BY <1>7, EndLimits
<1>8. CASE StopTrading \/ UNCHANGED riskVars
  BY <1>1, <1>8 DEF StopTrading, riskVars
<1> QED BY <1>2, <1>3, <1>4, <1>5, <1>6, <1>7, <1>8 DEF RiskNext

(* Every order's loss is in the profit of each period, and the rows that   *)
(* are still active keep for the open orders what they can lose.           *)
THEOREM RiskAccounts == RiskSpec => []AccountInv
<1>1. RiskInit => AccountInv
  BY RiskInitInv, InitLimits DEF AccountInv
<1>2. AccountInv /\ [RiskNext]_riskVars => AccountInv'
  BY RiskNextInv, NextLimits DEF AccountInv
<1> QED BY <1>1, <1>2, PTL DEF RiskSpec

(* With orders taken out of account when a publication fails, the profit   *)
(* and the loss of every open order stay above the limit.                  *)
LEMMA ExposureIsWorst ==
  ASSUME AccountInv, NEW p \in Periods, StartPnl[p] > -LossLimit[p],
         NEW aside, aside = {s \in Signals : "failed" \in order[s].reported}
  PROVE  pnl[p] + MapThenSumSet(LostBy, aside)
           - MapThenSumSet(RiskOf, {s \in Signals \ aside : order[s].at = "open"})
             > -LossLimit[p]
<1> DEFINE open == {s \in Signals \ aside : order[s].at = "open"}
           e == Exposure(order, reservation)
           l == LostIn(order)
           o == [s \in Signals |-> IF s \in aside THEN l[s] ELSE 0]
           k == [s \in Signals |-> IF s \in open THEN Risk[s] ELSE 0]
           lo == [s \in Signals |-> k[s] + l[s]]
           eo == [s \in Signals |-> e[s] + o[s]]
<1>1. /\ IsFiniteSet(Signals) /\ open \in SUBSET Signals /\ aside \in SUBSET Signals
      /\ \A s \in Signals : /\ Risk[s] \in Nat /\ l[s] = order[s].lost
                            /\ l[s] \in Nat /\ e[s] \in Nat
      /\ SumOver(l, Signals) \in Int /\ SumOver(e, Signals) \in Int
  BY WeightsOf DEF AccountInv, RiskInv, Shapes
<1>2. \A s \in Signals : Risk[s] \in Int /\ l[s] \in Int /\ e[s] \in Int
                         /\ o[s] \in Int /\ k[s] \in Int
  BY <1>1
<1>3. MapThenSumSet(RiskOf, open) = SumOver(k, Signals) /\ SumOver(k, Signals) \in Int
  <2> HIDE DEF open
  <2>1. MapThenSumSet(RiskOf, open) = SumOver(Risk, open)
    BY <1>1, RisksAreSum
  <2>2. SumOver(Risk, open) = SumOver(k, Signals)
    BY <1>1, <1>2, SumWhere DEF k
  <2> HIDE DEF k
  <2> QED BY <1>1, <1>2, <2>1, <2>2, SumInt
<1>4. MapThenSumSet(LostBy, aside) = SumOver(o, Signals) /\ SumOver(o, Signals) \in Int
  <2>1. MapThenSumSet(LostBy, aside) = SumOver(l, aside)
    BY <1>1, LossesAreSum
  <2> HIDE DEF l
  <2>2. SumOver(l, aside) = SumOver(o, Signals)
    BY <1>1, <1>2, SumWhere DEF o
  <2> HIDE DEF o
  <2> QED BY <1>1, <1>2, <2>1, <2>2, SumInt
<1>5. /\ SumOver(lo, Signals) = SumOver(k, Signals) + SumOver(l, Signals)
      /\ SumOver(eo, Signals) = SumOver(e, Signals) + SumOver(o, Signals)
  <2> HIDE DEF k, l, e, o
  <2>1. SumOver(lo, Signals) = SumOver(k, Signals) + SumOver(l, Signals)
    BY <1>1, <1>2, SumPlus
  <2>2. SumOver(eo, Signals) = SumOver(e, Signals) + SumOver(o, Signals)
    BY <1>1, <1>2, SumPlus
  <2> QED BY <2>1, <2>2
<1>6. \A s \in Signals : lo[s] \in Int /\ eo[s] \in Int /\ lo[s] <= eo[s]
  <2> TAKE s \in Signals
  <2>1. lo[s] = k[s] + l[s] /\ eo[s] = e[s] + o[s]
    OBVIOUS
  <2>2. /\ order[s].lost \in Nat /\ Risk[s] \in Nat
        /\ order[s].at # "filled" => order[s].lost = 0
        /\ order[s].at = "open" /\ "failed" \notin order[s].reported /\ Risk[s] > 0
             => reservation[s] = "active"
    BY <1>1 DEF AccountInv, RiskInv, RowsHold, Failed
  <2>3. e[s] = IF "failed" \in order[s].reported THEN 0
               ELSE IF order[s].at = "filled" THEN order[s].lost
               ELSE IF reservation[s] = "active" THEN Risk[s] ELSE 0
    BY DEF Exposure
  <2>4. l[s] = order[s].lost
        /\ o[s] = IF "failed" \in order[s].reported THEN order[s].lost ELSE 0
    BY <1>1
  <2>5. k[s] = IF order[s].at = "open" /\ "failed" \notin order[s].reported
               THEN Risk[s] ELSE 0
    OBVIOUS
  <2> HIDE DEF lo, eo, k, l, e, o
  <2> QED BY <2>1, <2>2, <2>3, <2>4, <2>5
<1>7. SumOver(lo, Signals) <= SumOver(eo, Signals)
  <2> HIDE DEF lo, eo
  <2> QED BY <1>1, <1>6, SumAtMost
<1>8. /\ pnl[p] = StartPnl[p] - SumOver(l, Signals)
      /\ StartPnl[p] - SumOver(e, Signals) > -LossLimit[p]
      /\ StartPnl[p] \in Int /\ LossLimit[p] \in Int
  BY RiskAssumption DEF AccountInv, LimitsKept
<1> HIDE DEF lo, eo, k, l, e, o
<1>9. pnl[p] + SumOver(o, Signals) - SumOver(k, Signals) > -LossLimit[p]
  BY <1>1, <1>3, <1>4, <1>5, <1>7, <1>8
<1> QED BY <1>3, <1>4, <1>9

(* What SQL 016 keeps of its promise: workers that reserve at the same     *)
(* time or publish the same order, calls that are executed twice or late,  *)
(* and losses booked between a reservation and a publication do not bring  *)
(* a period to its limit, with the orders set aside of which a publication *)
(* was reported failed.                                                    *)
THEOREM RiskReserved == RiskSpec => []ReservedWithinLimit
<1>1. AccountInv => ReservedWithinLimit
  BY ExposureIsWorst DEF ReservedWithinLimit, WithinLimits
<1> QED BY <1>1, RiskAccounts, PTL

----------------------------------------------------------------------------
(* The event-paper claim.                                                  *)

(* The row's stages.                                                       *)
RowInv ==
  /\ claim.attempt # None => claim.quote # None
  /\ claim.done => claim.attempt # None /\ published # <<>>

(* The attempt on record is of a run that has begun it; what is published  *)
(* is its message.                                                         *)
AttemptInv ==
  claim.attempt # None => run[claim.attempt].pc \in {"send", "checkpoint", "ended"}

MessageInv ==
  published # <<>> =>
    /\ claim.attempt # None
    /\ published = <<[quote |-> claim.quote, run |-> claim.attempt]>>
    /\ run[claim.attempt].pc # "send"

(* What a run knows.                                                       *)
Fresh(c) == c.quote # None /\ c.attempt = None /\ ~c.done

RunInv(r) ==
  /\ run[r].pc = "insert" => run[r].quote # None
  /\ run[r].pc = "verify" => claim.quote # None
  /\ run[r].pc = "begin" => Fresh(run[r].base)
  /\ run[r].pc \in {"send", "checkpoint"} =>
       claim = run[r].base /\ claim.attempt = r /\ ~claim.done
  /\ run[r].pc = "checkpoint" => published # <<>>

(* What a call that was given up can still do.                             *)
Insertion(s) == s.from = NoClaim /\ Fresh(s.to)
Beginning(s) ==
  /\ Fresh(s.from) /\ s.to.quote = s.from.quote /\ ~s.to.done
  /\ s.to.attempt # None /\ run[s.to.attempt].pc = "ended"
Ending(s) ==
  /\ s.from.quote # None /\ s.from.attempt # None /\ ~s.from.done
  /\ s.to.quote = s.from.quote /\ s.to.attempt = s.from.attempt /\ s.to.done
  /\ run[s.from.attempt].pc = "ended" /\ published # <<>>
CallInv(s) == Insertion(s) \/ Beginning(s) \/ Ending(s)

ClaimInv ==
  /\ ClaimTypeOK /\ RowInv /\ AttemptInv /\ MessageInv /\ ReceiptsAreTrue
  /\ \A r \in Runs : RunInv(r)
  /\ \A s \in calls : CallInv(s)

----------------------------------------------------------------------------
LEMMA ClaimInitInv == ClaimInit => ClaimInv
BY ClaimAssumption
DEF ClaimInit, ClaimInv, ClaimTypeOK, Claims, Steps, Receipts, NoClaim, RowInv,
    AttemptInv, MessageInv, ReceiptsAreTrue, RunInv

(* A run that goes on, or ends with a receipt it may give, without a       *)
(* change of the row or the topic.                                         *)
LEMMA RunMovesInv ==
  ASSUME ClaimInv, NEW r \in Runs,
         NEW b \in [pc : Steps, quote : Quotes \cup {None}, base : Claims],
         NEW status \in Receipts,
         run' = [run EXCEPT ![r] = b],
         receipt' \in {receipt, [receipt EXCEPT ![r] = status]},
         claim' = claim, published' = published,
         calls' \subseteq [from : Claims, to : Claims],
         \A s \in calls' : s \in calls \/ CallInv(s)',
         run[r].pc # "ended",
         run[r].pc \in {"send", "checkpoint"} => b.pc = "ended",
         b.pc = "insert" => b.quote # None,
         b.pc = "verify" => claim.quote # None,
         b.pc = "begin" => Fresh(b.base),
         b.pc \notin {"send", "checkpoint"},
         status = "confirmed" => claim.done,
         status = "ambiguous" => claim.attempt # None
  PROVE  ClaimInv'
<1> USE DEF ClaimInv
<1>1. /\ run[r]' = b
      /\ \A t \in Runs \ {r} : run[t]' = run[t]
  BY DEF ClaimTypeOK
<1>2. ClaimTypeOK'
  BY DEF ClaimTypeOK
<1>3. RowInv'
  BY DEF RowInv
<1>4. AttemptInv'
  BY <1>1 DEF AttemptInv, ClaimTypeOK, Claims
<1>5. MessageInv'
  BY <1>1 DEF MessageInv, ClaimTypeOK, Claims
<1>6. ReceiptsAreTrue'
  BY DEF ReceiptsAreTrue, ClaimTypeOK, RowInv
<1>7. ASSUME NEW t \in Runs PROVE RunInv(t)'
  BY <1>1 DEF RunInv, Fresh
<1>8. ASSUME NEW s \in calls' PROVE CallInv(s)'
  <2>1. CASE s \in calls
    BY <2>1, <1>1 DEF CallInv, Insertion, Beginning, Ending, ClaimTypeOK, Claims
  <2> QED BY <2>1
<1> QED BY <1>2, <1>3, <1>4, <1>5, <1>6, <1>7, <1>8

----------------------------------------------------------------------------
(* The steps that leave the row and the topic alone.                       *)
LEMMA ReadClaimInv == ASSUME ClaimInv, NEW r \in Runs, ReadClaim(r) PROVE ClaimInv'
<1> USE DEF ReadClaim, ClaimInv, ClaimTypeOK
<1>1. CASE Progressed(claim)
  <2> DEFINE b == [run[r] EXCEPT !.pc = "ended"]
             status == ReceiptFor(claim)
  <2>1. /\ b \in [pc : Steps, quote : Quotes \cup {None}, base : Claims]
        /\ status \in Receipts
        /\ status = "confirmed" => claim.done
        /\ status = "ambiguous" => claim.attempt # None
        /\ b.pc = "ended" /\ run[r].pc = "start"
    BY <1>1 DEF Steps, Receipts, ReceiptFor, Progressed
  <2>2. run' = [run EXCEPT ![r] = b] /\ receipt' = [receipt EXCEPT ![r] = status]
    BY <1>1 DEF Report, Goto
  <2> QED BY <2>1, <2>2, RunMovesInv
<1>2. CASE ~Progressed(claim)
  <2> DEFINE b == [run[r] EXCEPT !.base = claim,
                     !.pc = IF claim = NoClaim THEN "pull" ELSE "begin"]
  <2>1. /\ b \in [pc : Steps, quote : Quotes \cup {None}, base : Claims]
        /\ run[r].pc = "start" /\ b.pc \in {"pull", "begin"}
    BY DEF Steps
  <2>2. b.pc = "begin" => Fresh(b.base)
    BY <1>2 DEF Progressed, RowInv, NoClaim, Claims, Fresh
  <2>3. run' = [run EXCEPT ![r] = b] /\ receipt' = receipt
    BY <1>2
  <2>4. "none" \in Receipts
    BY DEF Receipts
  <2> HIDE DEF b
  <2> QED BY ZenonT(40), <2>1, <2>2, <2>3, <2>4, RunMovesInv
<1> QED BY <1>1, <1>2

LEMMA PullBookInv ==
  ASSUME ClaimInv, NEW r \in Runs, NEW q \in Quotes, PullBook(r, q) PROVE ClaimInv'
<1> DEFINE b == [run[r] EXCEPT !.pc = "insert", !.quote = q]
<1>1. /\ b \in [pc : Steps, quote : Quotes \cup {None}, base : Claims]
      /\ run[r].pc = "pull" /\ b.pc = "insert" /\ b.quote # None
  BY ClaimAssumption DEF PullBook, ClaimInv, ClaimTypeOK, Steps
<1>2. /\ run' = [run EXCEPT ![r] = b] /\ receipt' = receipt
      /\ claim' = claim /\ published' = published /\ calls' = calls
      /\ calls \subseteq [from : Claims, to : Claims]
  BY DEF PullBook, ClaimInv, ClaimTypeOK
<1>3. "none" \in Receipts
  BY DEF Receipts
<1> HIDE DEF b
<1> QED BY <1>1, <1>2, <1>3, RunMovesInv

LEMMA VerifyClaimInv == ASSUME ClaimInv, NEW r \in Runs, VerifyClaim(r) PROVE ClaimInv'
<1> USE DEF VerifyClaim, ClaimInv, ClaimTypeOK
<1>1. CASE TimeOf[claim.quote] # TimeOf[run[r].quote] \/ Progressed(claim)
  <2> DEFINE b == [run[r] EXCEPT !.pc = "ended"]
             status == IF TimeOf[claim.quote] # TimeOf[run[r].quote] THEN "error"
                       ELSE ReceiptFor(claim)
  <2>1. /\ b \in [pc : Steps, quote : Quotes \cup {None}, base : Claims]
        /\ status \in Receipts
        /\ status = "confirmed" => claim.done
        /\ status = "ambiguous" => claim.attempt # None
        /\ b.pc = "ended" /\ run[r].pc = "verify"
    BY <1>1 DEF Steps, Receipts, ReceiptFor, Progressed
  <2>2. run' = [run EXCEPT ![r] = b] /\ receipt' = [receipt EXCEPT ![r] = status]
    BY <1>1 DEF Report, Goto
  <2> QED BY <2>1, <2>2, RunMovesInv
<1>2. CASE TimeOf[claim.quote] = TimeOf[run[r].quote] /\ ~Progressed(claim)
  <2> DEFINE b == [run[r] EXCEPT !.base = claim, !.pc = "begin"]
  <2>1. /\ b \in [pc : Steps, quote : Quotes \cup {None}, base : Claims]
        /\ run[r].pc = "verify" /\ b.pc = "begin"
    BY DEF Steps
  <2>2. Fresh(b.base)
    BY <1>2 DEF Progressed, RowInv, Claims, Fresh, RunInv
  <2>3. run' = [run EXCEPT ![r] = b] /\ receipt' = receipt
    BY <1>2
  <2>4. "none" \in Receipts
    BY DEF Receipts
  <2> HIDE DEF b
  <2> QED BY <2>1, <2>2, <2>3, <2>4, RunMovesInv
<1> QED BY <1>1, <1>2

LEMMA RunFailsInv == ASSUME ClaimInv, NEW r \in Runs, RunFails(r) PROVE ClaimInv'
<1> USE DEF RunFails, ClaimInv, ClaimTypeOK
<1> DEFINE b == [run[r] EXCEPT !.pc = "ended"]
<1>1. /\ b \in [pc : Steps, quote : Quotes \cup {None}, base : Claims]
      /\ "error" \in Receipts /\ b.pc = "ended" /\ run[r].pc # "ended"
  BY DEF Steps, Receipts
<1>2. run' = [run EXCEPT ![r] = b] /\ receipt' = [receipt EXCEPT ![r] = "error"]
  BY DEF Report, Goto
<1> QED BY <1>1, <1>2, RunMovesInv

----------------------------------------------------------------------------
(* The steps that move the row.                                            *)
LEMMA InsertClaimInv == ASSUME ClaimInv, NEW r \in Runs, InsertClaim(r) PROVE ClaimInv'
<1> USE DEF ClaimInv
<1> DEFINE b == [run[r] EXCEPT !.pc = "verify"]
<1>1. /\ run[r].pc = "insert" /\ run' = [run EXCEPT ![r] = b]
      /\ claim' = IF claim = NoClaim THEN Selected(r) ELSE claim
      /\ published' = published /\ receipt' = receipt /\ calls' = calls
  BY DEF InsertClaim, Goto, Swapped
<1>2. /\ b \in [pc : Steps, quote : Quotes \cup {None}, base : Claims] /\ b.pc = "verify"
      /\ run[r]' = b /\ \A t \in Runs \ {r} : run[t]' = run[t]
  BY <1>1 DEF ClaimTypeOK, Steps
<1>3. Selected(r) \in Claims /\ Fresh(Selected(r))
  BY <1>1, ClaimAssumption DEF Selected, NoClaim, Claims, ClaimTypeOK, Fresh, RunInv
<1>4. /\ claim'.attempt = claim.attempt /\ claim'.done = claim.done
      /\ claim'.quote # None /\ (claim # NoClaim => claim' = claim)
  BY <1>1, <1>3 DEF NoClaim, Fresh, ClaimTypeOK, Claims, RowInv
<1>5. ClaimTypeOK'
  BY <1>1, <1>2, <1>3 DEF ClaimTypeOK
<1>6. RowInv' /\ AttemptInv' /\ ReceiptsAreTrue'
  BY <1>1, <1>2, <1>4 DEF RowInv, AttemptInv, ReceiptsAreTrue, ClaimTypeOK, Claims
<1>7. MessageInv'
  BY <1>1, <1>2, <1>4 DEF MessageInv, NoClaim, ClaimTypeOK, Claims
<1>8. ASSUME NEW t \in Runs PROVE RunInv(t)'
  BY <1>1, <1>2, <1>4, ClaimAssumption DEF RunInv, Fresh, NoClaim
<1>9. ASSUME NEW s \in calls' PROVE CallInv(s)'
  BY <1>1, <1>2 DEF CallInv, Insertion, Beginning, Ending, ClaimTypeOK, Claims
<1> QED BY <1>5, <1>6, <1>7, <1>8, <1>9

LEMMA BeginAttemptInv == ASSUME ClaimInv, NEW r \in Runs, BeginAttempt(r) PROVE ClaimInv'
<1> USE DEF ClaimInv
<1>1. /\ run[r].pc = "begin" /\ Fresh(run[r].base) /\ run[r].base \in Claims
      /\ Attempted(r) \in Claims /\ Attempted(r).attempt = r
      /\ Attempted(r).quote = run[r].base.quote /\ ~Attempted(r).done
  BY DEF BeginAttempt, RunInv, ClaimTypeOK, Claims, Attempted, Fresh
<1>2. claim.attempt # r
  BY <1>1, ClaimAssumption DEF AttemptInv
<1>3. CASE claim # run[r].base
  <2> DEFINE b == [run[r] EXCEPT !.pc = "ended"]
             status == IF claim.done THEN "confirmed" ELSE "error"
  <2>1. /\ b \in [pc : Steps, quote : Quotes \cup {None}, base : Claims]
        /\ status \in Receipts /\ (status = "confirmed" => claim.done)
        /\ status # "ambiguous" /\ b.pc = "ended"
    BY DEF Steps, Receipts, ClaimTypeOK
  <2>2. /\ run' = [run EXCEPT ![r] = b] /\ receipt' = [receipt EXCEPT ![r] = status]
        /\ claim' = claim /\ published' = published /\ calls' = calls
    BY <1>2, <1>3 DEF BeginAttempt, Report, Goto, Swapped
  <2> HIDE DEF b, status
  <2> QED BY <1>1, <2>1, <2>2, RunMovesInv DEF ClaimTypeOK
<1>4. CASE claim = run[r].base
  <2> DEFINE b == [run[r] EXCEPT !.base = Attempted(r), !.pc = "send"]
  <2>1. /\ claim' = Attempted(r) /\ run' = [run EXCEPT ![r] = b]
        /\ published' = published /\ receipt' = receipt /\ calls' = calls
    BY <1>1, <1>4 DEF BeginAttempt, Swapped
  <2>2. /\ b \in [pc : Steps, quote : Quotes \cup {None}, base : Claims]
        /\ b.pc = "send" /\ b.base = Attempted(r)
    BY <1>1 DEF ClaimTypeOK, Steps
  <2> HIDE DEF b
  <2>3. run[r]' = b /\ \A t \in Runs \ {r} : run[t]' = run[t]
    BY <2>1 DEF ClaimTypeOK
  <2>4. published = <<>> /\ claim.attempt = None /\ ~claim.done
    BY <1>1, <1>4 DEF MessageInv, Fresh
  <2>5. ClaimTypeOK'
    BY <1>1, <2>1, <2>2 DEF ClaimTypeOK
  <2>6. RowInv' /\ AttemptInv' /\ MessageInv' /\ ReceiptsAreTrue'
    BY <1>1, <2>1, <2>2, <2>3, <2>4
    DEF RowInv, AttemptInv, MessageInv, ReceiptsAreTrue, Fresh
  <2>7. ASSUME NEW t \in Runs PROVE RunInv(t)'
    BY <1>1, <2>1, <2>2, <2>3, <2>4, ClaimAssumption DEF RunInv, Fresh
  <2>8. ASSUME NEW s \in calls' PROVE CallInv(s)'
    BY <1>1, <2>1, <2>3 DEF CallInv, Insertion, Beginning, Ending, ClaimTypeOK, Claims
  <2> QED BY <2>5, <2>6, <2>7, <2>8
<1> QED BY <1>3, <1>4

LEMMA CheckpointInv == ASSUME ClaimInv, NEW r \in Runs, Checkpoint(r) PROVE ClaimInv'
<1> USE DEF ClaimInv
<1> DEFINE b == [run[r] EXCEPT !.pc = "ended"]
<1>1. /\ run[r].pc = "checkpoint" /\ claim = run[r].base /\ claim.attempt = r
      /\ ~claim.done /\ published # <<>>
  BY DEF Checkpoint, RunInv
<1>2. /\ claim' = [claim EXCEPT !.done = TRUE] /\ run' = [run EXCEPT ![r] = b]
      /\ published' = published /\ receipt' = [receipt EXCEPT ![r] = "confirmed"]
      /\ calls' = calls
  BY <1>1 DEF Checkpoint, Checkpointed, Swapped, Report, Goto, ClaimTypeOK, Claims
<1>3. /\ claim'.quote = claim.quote /\ claim'.attempt = r /\ claim'.done
      /\ claim' \in Claims
  BY <1>1, <1>2 DEF ClaimTypeOK, Claims
<1>4. /\ b \in [pc : Steps, quote : Quotes \cup {None}, base : Claims] /\ b.pc = "ended"
      /\ run[r]' = b /\ \A t \in Runs \ {r} : run[t]' = run[t]
  BY <1>2 DEF ClaimTypeOK, Steps
<1> HIDE DEF b
<1>5. ClaimTypeOK'
  BY <1>2, <1>3, <1>4 DEF ClaimTypeOK, Receipts
<1>6. RowInv' /\ AttemptInv' /\ MessageInv'
  BY <1>1, <1>2, <1>3, <1>4, ClaimAssumption DEF RowInv, AttemptInv, MessageInv
<1>7. ReceiptsAreTrue'
  BY <1>1, <1>2, <1>3, ClaimAssumption DEF ReceiptsAreTrue, ClaimTypeOK
<1>8. ASSUME NEW t \in Runs PROVE RunInv(t)'
  BY <1>1, <1>2, <1>3, <1>4 DEF RunInv, RowInv
<1>9. ASSUME NEW s \in calls' PROVE CallInv(s)'
  BY <1>1, <1>2, <1>4 DEF CallInv, Insertion, Beginning, Ending, ClaimTypeOK, Claims
<1> QED BY <1>5, <1>6, <1>7, <1>8, <1>9

(* A call executed after its run has ended.                                *)
LEMMA CallLateInv == ASSUME ClaimInv, NEW s \in calls, CallLate(s) PROVE ClaimInv'
<1> USE DEF ClaimInv
<1>1. /\ claim' = IF claim = s.from THEN s.to ELSE claim
      /\ calls' = calls \ {s} /\ published' = published /\ run' = run
      /\ receipt' = receipt
  BY DEF CallLate, Swapped
<1>2. CallInv(s) /\ s.to \in Claims /\ s.from \in Claims
  BY DEF ClaimTypeOK
<1>3. ASSUME NEW t \in calls' PROVE CallInv(t)'
  BY <1>1 DEF CallInv, Insertion, Beginning, Ending
<1>4. ClaimTypeOK'
  BY <1>1, <1>2 DEF ClaimTypeOK
<1>5. CASE claim # s.from
  BY <1>1, <1>3, <1>4, <1>5
  DEF RowInv, AttemptInv, MessageInv, ReceiptsAreTrue, RunInv
<1>6. CASE claim = s.from /\ Insertion(s)
  BY <1>1, <1>3, <1>4, <1>6, ClaimAssumption
  DEF Insertion, Fresh, NoClaim, RowInv, AttemptInv, MessageInv, ReceiptsAreTrue, RunInv
<1>7. CASE claim = s.from /\ Beginning(s)
  BY <1>1, <1>3, <1>4, <1>7, ClaimAssumption
  DEF Beginning, Fresh, RowInv, AttemptInv, MessageInv, ReceiptsAreTrue, RunInv
<1>8. CASE claim = s.from /\ Ending(s)
  BY <1>1, <1>3, <1>4, <1>8, ClaimAssumption
  DEF Ending, RowInv, AttemptInv, MessageInv, ReceiptsAreTrue, RunInv
<1> QED BY <1>2, <1>5, <1>6, <1>7, <1>8 DEF CallInv

----------------------------------------------------------------------------
(* The one publication of a run, answered or not.                          *)
LEMMA PublishedInv ==
  ASSUME ClaimInv, NEW r \in Runs, run[r].pc = "send",
         published' = Append(published, MessageOf(r)),
         NEW pc \in {"checkpoint", "ended"}, NEW status \in {"none", "error"},
         run' = [run EXCEPT ![r].pc = pc],
         receipt' \in {receipt, [receipt EXCEPT ![r] = status]},
         claim' = claim, calls' = calls
  PROVE  ClaimInv'
<1> USE DEF ClaimInv
<1> DEFINE b == [run[r] EXCEPT !.pc = pc]
           m == [quote |-> claim.quote, run |-> claim.attempt]
<1>1. claim = run[r].base /\ claim.attempt = r /\ ~claim.done /\ published = <<>>
  BY DEF RunInv, MessageInv
<1>2. claim.quote \in Quotes
  BY <1>1, ClaimAssumption DEF RowInv, ClaimTypeOK, Claims
<1>3. m \in [quote : Quotes, run : Runs] /\ published' = <<m>>
  BY <1>1, <1>2 DEF MessageOf
<1>4. published' # <<>> /\ published' \in Seq([quote : Quotes, run : Runs])
  BY <1>3
<1>5. /\ b \in [pc : Steps, quote : Quotes \cup {None}, base : Claims]
      /\ b.pc = pc /\ b.base = run[r].base
      /\ run[r]' = b /\ \A t \in Runs \ {r} : run[t]' = run[t]
  BY DEF ClaimTypeOK, Steps
<1>6. ClaimTypeOK'
  BY <1>4, <1>5 DEF ClaimTypeOK, Receipts
<1> HIDE DEF b
<1>7. RowInv' /\ AttemptInv'
  BY <1>1, <1>4, <1>5 DEF RowInv, AttemptInv
<1>8. MessageInv'
  BY <1>1, <1>3, <1>5, ClaimAssumption DEF MessageInv
<1>9. ReceiptsAreTrue'
  BY <1>1, <1>4 DEF ReceiptsAreTrue, ClaimTypeOK
<1>10. ASSUME NEW t \in Runs PROVE RunInv(t)'
  BY <1>1, <1>4, <1>5 DEF RunInv
<1>11. ASSUME NEW s \in calls' PROVE CallInv(s)'
  BY <1>1, <1>4, <1>5 DEF CallInv, Insertion, Beginning, Ending, ClaimTypeOK, Claims
<1> QED BY <1>6, <1>7, <1>8, <1>9, <1>10, <1>11

LEMMA SendSignalInv == ASSUME ClaimInv, NEW r \in Runs, SendSignal(r) PROVE ClaimInv'
BY PublishedInv DEF SendSignal, Goto

LEMMA ReplyLostInv == ASSUME ClaimInv, NEW r \in Runs, ReplyLost(r) PROVE ClaimInv'
<1> DEFINE b == [run[r] EXCEPT !.pc = "ended"]
<1>1. /\ run' = [run EXCEPT ![r] = b] /\ receipt' = [receipt EXCEPT ![r] = "error"]
      /\ claim' = claim
  BY DEF ReplyLost, Report, Goto
<1>2. /\ b \in [pc : Steps, quote : Quotes \cup {None}, base : Claims] /\ b.pc = "ended"
      /\ run[r]' = b /\ "error" \in Receipts
      /\ calls \subseteq [from : Claims, to : Claims]
  BY <1>1 DEF ClaimInv, ClaimTypeOK, Steps, Receipts
<1>3. CASE run[r].pc = "send"
  BY <1>3, PublishedInv DEF ReplyLost, Report, Goto
<1>4. ASSUME NEW s \in [from : Claims, to : Claims], calls' = calls \cup {s},
             published' = published, CallInv(s)', run[r].pc # "ended"
      PROVE  ClaimInv'
  <2> HIDE DEF b
  <2> QED BY <1>1, <1>2, <1>4, RunMovesInv
<1>5. CASE run[r].pc = "insert"
  <2> DEFINE s == [from |-> NoClaim, to |-> Selected(r)]
  <2>1. calls' = calls \cup {s} /\ published' = published
    BY <1>5 DEF ReplyLost
  <2>2. Selected(r) \in Claims /\ Fresh(Selected(r)) /\ NoClaim \in Claims
    BY <1>5, ClaimAssumption
    DEF ClaimInv, Selected, NoClaim, Claims, ClaimTypeOK, Fresh, RunInv
  <2>3. Insertion(s)
    BY <2>2 DEF Insertion
  <2> QED BY <1>4, <1>5, <2>1, <2>2, <2>3 DEF CallInv, Insertion
<1>6. CASE run[r].pc = "begin"
  <2>1. /\ Attempted(r) \in Claims /\ run[r].base \in Claims /\ Fresh(run[r].base)
        /\ Attempted(r).attempt = r /\ ~Attempted(r).done
        /\ Attempted(r).quote = run[r].base.quote
    BY <1>6 DEF ClaimInv, Attempted, Claims, ClaimTypeOK, Fresh, RunInv
  <2>2. PICK s \in [from : Claims, to : Claims] :
          s = [from |-> run[r].base, to |-> Attempted(r)]
    BY <2>1
  <2>3. calls' = calls \cup {s} /\ published' = published
    BY <1>6, <2>2 DEF ReplyLost
  <2>4. CallInv(s)'
    BY <1>2, <2>1, <2>2, ClaimAssumption DEF CallInv, Beginning, Fresh
  <2> QED BY <1>4, <1>6, <2>3, <2>4
<1>7. CASE run[r].pc = "checkpoint"
  <2>1. /\ Checkpointed(r) \in Claims /\ run[r].base \in Claims
        /\ run[r].base.attempt = r /\ run[r].base.quote # None /\ ~run[r].base.done
        /\ Checkpointed(r).attempt = r /\ Checkpointed(r).done /\ published # <<>>
        /\ Checkpointed(r).quote = run[r].base.quote
    BY <1>7, ClaimAssumption DEF ClaimInv, Checkpointed, Claims, ClaimTypeOK, RunInv, RowInv
  <2>2. PICK s \in [from : Claims, to : Claims] :
          s = [from |-> run[r].base, to |-> Checkpointed(r)]
    BY <2>1
  <2>3. calls' = calls \cup {s} /\ published' = published
    BY <1>7, <2>2 DEF ReplyLost
  <2>4. CallInv(s)'
    BY <1>2, <2>1, <2>2, <2>3, ClaimAssumption DEF CallInv, Ending
  <2> QED BY <1>4, <1>7, <2>3, <2>4
<1> QED BY <1>3, <1>5, <1>6, <1>7 DEF ReplyLost

----------------------------------------------------------------------------
LEMMA ClaimNextInv == ClaimInv /\ [ClaimNext]_claimVars => ClaimInv'
<1> SUFFICES ASSUME ClaimInv, [ClaimNext]_claimVars PROVE ClaimInv'
  OBVIOUS
<1>1. ASSUME NEW r \in Runs, RunStep(r) PROVE ClaimInv'
  BY <1>1, ReadClaimInv, PullBookInv, InsertClaimInv, VerifyClaimInv, BeginAttemptInv,
     SendSignalInv, CheckpointInv, RunFailsInv, ReplyLostInv
  DEF RunStep
<1>2. ASSUME NEW s \in calls, CallLate(s) PROVE ClaimInv'
  BY <1>2, CallLateInv
<1>3. CASE UNCHANGED claimVars
  BY <1>3
  DEF claimVars, ClaimInv, ClaimTypeOK, RowInv, AttemptInv, MessageInv, ReceiptsAreTrue,
      RunInv, CallInv, Insertion, Beginning, Ending
<1> QED BY <1>1, <1>2, <1>3 DEF ClaimNext

(* However many runs of the publisher overlap, fail and leave calls        *)
(* behind: what they rely on holds at every stage of the claim.            *)
THEOREM ClaimSafe == ClaimSpec => []ClaimInv
BY ClaimInitInv, ClaimNextInv, PTL DEF ClaimSpec

(* The row, the runs and the calls on their way have the shape of claims.  *)
THEOREM ClaimTypes == ClaimSpec => []ClaimTypeOK
<1>1. ClaimInv => ClaimTypeOK
  BY DEF ClaimInv
<1> QED BY <1>1, ClaimSafe, PTL

(* At most one message is published for the candidate, that of the attempt *)
(* and the quote on record, for any number of runs of the publisher.       *)
THEOREM ClaimPublishesOnce == ClaimSpec => []OneMessagePerCandidate
<1>1. ClaimInv => OneMessagePerCandidate
  BY DEF ClaimInv, MessageInv, OneMessagePerCandidate
<1> QED BY <1>1, ClaimSafe, PTL

(* Receipts of the publisher tell the truth, for any number of runs.       *)
THEOREM ClaimReceiptsAreTrue == ClaimSpec => []ReceiptsAreTrue
<1>1. ClaimInv => ReceiptsAreTrue
  BY DEF ClaimInv
<1> QED BY <1>1, ClaimSafe, PTL

----------------------------------------------------------------------------
(* Picked takes each of the chosen places once.                            *)
LEMMA PickedIs ==
  ASSUME NEW s, NEW n \in Nat, DOMAIN s = 1 .. n, NEW chosen \in SUBSET (1 .. n)
  PROVE  LET m == Cardinality(chosen)
         IN  /\ m \in Nat /\ Len(Picked(s, chosen)) = m /\ DOMAIN Picked(s, chosen) = 1 .. m
             /\ \A k \in 1 .. m :
                  Nth(chosen, k) \in chosen /\ Picked(s, chosen)[k] = s[Nth(chosen, k)]
             /\ \A k, l \in 1 .. m : Nth(chosen, k) = Nth(chosen, l) => k = l
             /\ \A i \in chosen : \E k \in 1 .. m : Nth(chosen, k) = i
<1> DEFINE m == Cardinality(chosen)
           R == {p \in chosen \X chosen : p[1] <= p[2]}
           place == Placing(chosen, R)
<1>1. IsFiniteSet(chosen) /\ chosen \subseteq Int
  <2>1. IsFiniteSet(1 .. n)
    BY FS_Interval
  <2>2. IsFiniteSet(chosen)
    BY <2>1, FS_Subset
  <2> QED BY <2>2
<1>2. \A i, j \in chosen : <<i, j>> \in R <=> i <= j
  OBVIOUS
<1>3. /\ m \in Nat /\ place \in [chosen -> 1 .. m]
      /\ \A k \in 1 .. m : \E i \in chosen : place[i] = k
      /\ \A i, j \in chosen : place[i] <= place[j] <=> <<i, j>> \in R
  <2> HIDE DEF R
  <2>1. /\ \A i, j \in chosen : <<i, j>> \in R \/ <<j, i>> \in R
        /\ \A i, j \in chosen : <<i, j>> \in R /\ <<j, i>> \in R => i = j
        /\ \A i, j, k \in chosen : <<i, j>> \in R /\ <<j, k>> \in R => <<i, k>> \in R
    BY <1>1, <1>2
  <2> QED BY <1>1, <2>1, Places
<1>4. ASSUME NEW i \in chosen PROVE place[i] = Cardinality(chosen \cap (1 .. i))
  <2>1. \A j \in chosen : j \in 1 .. n /\ (<<j, i>> \in R <=> j <= i)
    BY <1>2
  <2> HIDE DEF R
  <2>2. \A j \in chosen : <<j, i>> \in R <=> j \in 1 .. i
    <3>1. i \in Int /\ \A j \in 1 .. n : j \in Int /\ 1 <= j
      BY <1>1
    <3> QED BY <2>1, <3>1
  <2>3. {j \in chosen : <<j, i>> \in R} = chosen \cap (1 .. i)
    BY <2>2
  <2> QED BY <2>3 DEF Placing
<1> HIDE DEF R, place, m
<1>5. \A k \in 1 .. m : Nth(chosen, k) \in chosen /\ place[Nth(chosen, k)] = k
  BY <1>3, <1>4 DEF Nth
<1>6. \A k, l \in 1 .. m : Nth(chosen, k) = Nth(chosen, l) => k = l
  BY <1>5
<1>7. ASSUME NEW i \in chosen PROVE \E k \in 1 .. m : Nth(chosen, k) = i
  <2>1. PICK k \in 1 .. m : place[i] = k
    BY <1>3
  <2>2. k \in Nat /\ Nth(chosen, k) \in chosen /\ place[Nth(chosen, k)] = k
    BY <1>3, <1>5
  <2>3. Nth(chosen, k) <= i /\ i <= Nth(chosen, k)
    <3>1. place[i] <= place[Nth(chosen, k)] /\ place[Nth(chosen, k)] <= place[i]
      BY <2>1, <2>2
    <3> QED BY <1>2, <1>3, <2>2, <3>1
  <2>4. Nth(chosen, k) = i
    <3>1. i \in Int /\ Nth(chosen, k) \in Int
      BY <1>1, <2>2
    <3> QED BY <2>3, <3>1
  <2> QED BY <2>4
<1>8. Picked(s, chosen) = [k \in 1 .. m |-> s[Nth(chosen, k)]]
  BY DEF Picked, m
<1>9. /\ DOMAIN Picked(s, chosen) = 1 .. m /\ Len(Picked(s, chosen)) = m
      /\ \A k \in 1 .. m : Picked(s, chosen)[k] = s[Nth(chosen, k)]
  BY <1>3, <1>8
<1> QED BY <1>3, <1>5, <1>6, <1>7, <1>9 DEF m

LEMMA PickedRange ==
  ASSUME NEW s, NEW n \in Nat, DOMAIN s = 1 .. n, NEW chosen \in SUBSET (1 .. n)
  PROVE  Range(Picked(s, chosen)) = {s[i] : i \in chosen}
<1> DEFINE m == Cardinality(chosen)
           t == Picked(s, chosen)
<1>1. /\ DOMAIN t = 1 .. m
      /\ \A k \in 1 .. m : Nth(chosen, k) \in chosen /\ t[k] = s[Nth(chosen, k)]
      /\ \A i \in chosen : \E k \in 1 .. m : Nth(chosen, k) = i
  BY PickedIs
<1> HIDE DEF m, t
<1>2. Range(t) = {s[i] : i \in chosen}
  BY <1>1 DEF Range
<1> QED BY <1>2 DEF t

(* An order in which what is not before may be level.                      *)
WeakOrder(before, S) ==
  /\ \A a, b \in S : <<a, b>> \in before => <<b, a>> \notin before
  /\ \A a, b, c \in S : <<a, b>> \in before => <<a, c>> \in before \/ <<c, b>> \in before

(* Sorted takes each place once, and nothing comes before what is before   *)
(* it.                                                                     *)
PlacedAt(p, s, before) == CHOOSE i \in DOMAIN s : PlaceOf(i, s, before) = p

LEMMA SortedIs ==
  ASSUME NEW s, NEW n \in Nat, DOMAIN s = 1 .. n, NEW before, WeakOrder(before, Range(s))
  PROVE  LET t == Sorted(s, before)
         IN  /\ Len(t) = n /\ DOMAIN t = 1 .. n
             /\ \A p, q \in 1 .. n : p < q => <<t[q], t[p]>> \notin before
             /\ \A p \in 1 .. n :
                  PlacedAt(p, s, before) \in 1 .. n /\ t[p] = s[PlacedAt(p, s, before)]
             /\ \A p, q \in 1 .. n : PlacedAt(p, s, before) = PlacedAt(q, s, before) => p = q
             /\ \A i \in 1 .. n : \E p \in 1 .. n : PlacedAt(p, s, before) = i
<1> DEFINE I == 1 .. n
           Earlier(j, i) == <<s[j], s[i]>> \in before \/ (j <= i /\ <<s[i], s[j]>> \notin before)
           R == {p \in I \X I : Earlier(p[1], p[2])}
           place == Placing(I, R)
           at(p) == PlacedAt(p, s, before)
           t == Sorted(s, before)
<1>1. IsFiniteSet(I) /\ Cardinality(I) = n /\ I \subseteq Nat
  BY FS_Interval
<1>2. \A i, j \in I : <<i, j>> \in R <=> Earlier(i, j)
  OBVIOUS
<1>3. \A i \in I : s[i] \in Range(s)
  BY DEF Range
<1>4. /\ \A i, j \in I : Earlier(i, j) \/ Earlier(j, i)
      /\ \A i, j \in I : Earlier(i, j) /\ Earlier(j, i) => i = j
      /\ \A i, j, k \in I : Earlier(i, j) /\ Earlier(j, k) => Earlier(i, k)
  BY <1>3 DEF WeakOrder
<1>5. /\ place \in [I -> I]
      /\ \A k \in I : \E i \in I : place[i] = k
      /\ \A i, j \in I : place[i] <= place[j] <=> Earlier(i, j)
  <2> HIDE DEF R, Earlier
  <2>1. /\ \A i, j \in I : <<i, j>> \in R \/ <<j, i>> \in R
        /\ \A i, j \in I : <<i, j>> \in R /\ <<j, i>> \in R => i = j
        /\ \A i, j, k \in I : <<i, j>> \in R /\ <<j, k>> \in R => <<i, k>> \in R
    BY <1>2, <1>4
  <2> HIDE DEF I
  <2>2. /\ place \in [I -> 1 .. Cardinality(I)]
        /\ \A p \in 1 .. Cardinality(I) : \E i \in I : place[i] = p
        /\ \A i, j \in I : place[i] <= place[j] <=> <<i, j>> \in R
    BY <1>1, <2>1, Places
  <2> QED BY <1>1, <1>2, <2>2 DEF I
<1>6. ASSUME NEW i \in I PROVE place[i] = PlaceOf(i, s, before)
  <2>1. {j \in I : <<j, i>> \in R} = {j \in DOMAIN s : Earlier(j, i)}
    BY <1>2
  <2> QED BY <2>1 DEF Placing, PlaceOf
<1> HIDE DEF R, place
<1>7. ASSUME NEW p \in I PROVE at(p) \in I /\ place[at(p)] = p
  <2>1. \E i \in DOMAIN s : PlaceOf(i, s, before) = p
    BY <1>5, <1>6
  <2>2. at(p) \in DOMAIN s /\ PlaceOf(at(p), s, before) = p
    BY <2>1 DEF PlacedAt
  <2> QED BY <1>6, <2>2
<1> HIDE DEF at
<1>8. \A p, q \in I : at(p) = at(q) => p = q
  BY <1>7
<1>9. ASSUME NEW i \in I PROVE \E p \in I : at(p) = i
  <2> HIDE DEF Earlier, I
  <2>1. PICK p \in I : place[i] = p
    BY <1>5
  <2>2. at(p) \in I /\ place[at(p)] = p /\ p \in Nat
    BY <1>1, <1>7
  <2>3. Earlier(i, at(p)) /\ Earlier(at(p), i)
    <3>1. place[i] <= place[at(p)] /\ place[at(p)] <= place[i]
      BY <2>1, <2>2
    <3> QED BY <1>5, <2>2, <3>1
  <2>4. at(p) = i
    BY <1>4, <2>2, <2>3
  <2> QED BY <2>4
<1>10. t = [p \in I |-> s[at(p)]]
  BY DEF Sorted, PlacedAt, at
<1>11. Len(t) = n /\ DOMAIN t = 1 .. n /\ \A p \in I : t[p] = s[at(p)]
  <2> HIDE DEF t
  <2> QED BY <1>10
<1> HIDE DEF t
<1>12. ASSUME NEW p \in I, NEW q \in I, p < q PROVE <<t[q], t[p]>> \notin before
  <2>1. place[at(p)] = p /\ place[at(q)] = q /\ at(p) \in I /\ at(q) \in I
    BY <1>7
  <2>2. t[p] = s[at(p)] /\ t[q] = s[at(q)] /\ ~(q <= p)
    BY <1>11, <1>12
  <2> HIDE DEF Earlier, I
  <2>3. ~Earlier(at(q), at(p))
    BY <1>5, <2>1, <2>2
  <2> QED BY <2>2, <2>3 DEF Earlier
<1> QED BY <1>7, <1>8, <1>9, <1>11, <1>12 DEF at, t

LEMMA SortedRange ==
  ASSUME NEW s, NEW n \in Nat, DOMAIN s = 1 .. n, NEW before, WeakOrder(before, Range(s))
  PROVE  Range(Sorted(s, before)) = Range(s)
<1>1. /\ DOMAIN Sorted(s, before) = 1 .. n
      /\ \A p \in 1 .. n : /\ PlacedAt(p, s, before) \in 1 .. n
                           /\ Sorted(s, before)[p] = s[PlacedAt(p, s, before)]
      /\ \A i \in 1 .. n : \E p \in 1 .. n : PlacedAt(p, s, before) = i
  BY SortedIs DEF WeakOrder
<1> QED BY <1>1 DEF Range

----------------------------------------------------------------------------
(* What a decision keeps of its candidate, and what it is known by.        *)
LEMMA EvaluatedAs ==
  ASSUME NEW c
  PROVE  /\ Evaluate(c).candidate = [c EXCEPT !.duplicate = FALSE]
         /\ Evaluate(c).id = <<c.id, Evaluate(c).playbook, c.cutoff>>
BY Zenon DEF Evaluate, Decided

LEMMA ChecksAre ==
  ASSUME NEW c
  PROVE  /\ DOMAIN Checks(c) = 1 .. 18
         /\ \A i \in 1 .. 18 : Checks(c)[i][2] # "ENTER_SHADOW"
         /\ Checks(c)[14][1] = c.duplicate
BY DEF Checks

(* A candidate that enters failed no check: it is no duplicate.            *)
LEMMA EntersAs ==
  ASSUME NEW c, c.duplicate \in BOOLEAN
  PROVE  Enters(Evaluate(c)) => c.duplicate = FALSE
<1> SUFFICES ASSUME Enters(Evaluate(c)) PROVE c.duplicate = FALSE
  OBVIOUS
<1> DEFINE failed == {i \in DOMAIN Checks(c) : Checks(c)[i][1]}
<1>1. CASE failed # {}
  <2>1. Min(failed) \in failed
    <3>1. failed \in SUBSET Nat
      <4>1. failed \subseteq DOMAIN Checks(c)
        OBVIOUS
      <4>2. DOMAIN Checks(c) = 1 .. 18
        BY ChecksAre
      <4> HIDE DEF failed
      <4> QED BY <4>1, <4>2
    <3> HIDE DEF failed
    <3> QED BY <1>1, <3>1, SmallestNumber
  <2>2. Min(failed) \in 1 .. 18
    BY <2>1, ChecksAre
  <2>3. Evaluate(c).kind = Checks(c)[Min(failed)][2]
    BY <1>1 DEF Evaluate, Decided
  <2> HIDE DEF failed
  <2> QED BY <2>2, <2>3, ChecksAre DEF Enters
<1>2. CASE failed = {}
  <2>1. 14 \in DOMAIN Checks(c)
    BY ChecksAre
  <2>2. ~Checks(c)[14][1]
    BY <1>2, <2>1
  <2> QED BY <2>2, ChecksAre
<1> QED BY <1>1, <1>2

LEMMA RankIsNumber ==
  ASSUME NEW b, Len(Policy.rule.priority) \in Nat
  PROVE  RankOf(b) \in Nat
<1> DEFINE I == {i \in 1 .. Len(Policy.rule.priority) : Policy.rule.priority[i] = b}
<1>1. RankOf(b) = IF I # {} THEN Min(I) ELSE 0
  BY DEF RankOf, SelectInSeq
<1>2. I \in SUBSET Nat
  OBVIOUS
<1> HIDE DEF I
<1>3. I # {} => Min(I) \in Nat
  BY <1>2, SmallestNumber
<1> QED BY <1>1, <1>3

(* The entries of a cohort: ranked, known by their candidate and by their  *)
(* id, and each instrument of one sector.                                  *)
Entries(E) ==
  /\ IsFiniteSet(E)
  /\ \A d \in E : /\ RankOf(d.playbook) \in Int
                  /\ d.candidate.priority \in Int /\ d.candidate.id \in Int
  /\ \A d, e \in E : d.candidate.id = e.candidate.id \/ d.id = e.id => d = e
  /\ \A d, e \in E : d.candidate.instrument = e.candidate.instrument =>
                       d.candidate.sector = e.candidate.sector

LEMMA BetterIsBefore ==
  ASSUME NEW E, Entries(E), NEW d \in E, NEW e \in E
  PROVE  Better(d, e) <=> Before(d, e)
<1> DEFINE key(f) == <<RankOf(f.playbook), f.candidate.priority, f.candidate.id>>
           D == key(d)
           F == key(e)
<1>1. Better(d, e) <=> \E i \in 1 .. 3 : D[i] < F[i] /\ \A j \in 1 .. i - 1 : D[j] = F[j]
  BY DEF Better
<1>2. /\ D[1] = RankOf(d.playbook) /\ D[2] = d.candidate.priority /\ D[3] = d.candidate.id
      /\ F[1] = RankOf(e.playbook) /\ F[2] = e.candidate.priority /\ F[3] = e.candidate.id
  OBVIOUS
<1> HIDE DEF D, F
<1>3. (\E i \in 1 .. 3 : D[i] < F[i] /\ \A j \in 1 .. i - 1 : D[j] = F[j]) <=>
        \/ D[1] < F[1]
        \/ D[2] < F[2] /\ D[1] = F[1]
        \/ D[3] < F[3] /\ D[1] = F[1] /\ D[2] = F[2]
  <2>1. /\ \A j \in 1 .. 1 - 1 : D[j] = F[j]
        /\ (\A j \in 1 .. 2 - 1 : D[j] = F[j]) <=> D[1] = F[1]
        /\ (\A j \in 1 .. 3 - 1 : D[j] = F[j]) <=> D[1] = F[1] /\ D[2] = F[2]
    OBVIOUS
  <2>2. \A i \in 1 .. 3 : i = 1 \/ i = 2 \/ i = 3
    OBVIOUS
  <2> QED BY <2>1, <2>2
<1> QED BY <1>1, <1>2, <1>3 DEF Before

LEMMA BetterOrders ==
  ASSUME NEW E, Entries(E)
  PROVE  /\ \A d \in E : ~Better(d, d)
         /\ \A d, e \in E : d # e => Better(d, e) \/ Better(e, d)
         /\ \A d, e \in E : Better(d, e) => ~Better(e, d)
         /\ \A d, e, f \in E : Better(d, e) /\ Better(e, f) => Better(d, f)
<1>1. \A d, e \in E : Better(d, e) <=> Before(d, e)
  BY BetterIsBefore
<1>2. \A d \in E : ~Before(d, d)
  BY DEF Entries, Before
<1>3. \A d, e \in E : d # e => Before(d, e) \/ Before(e, d)
  BY DEF Entries, Before
<1>4. \A d, e \in E : Before(d, e) => ~Before(e, d)
  BY DEF Entries, Before
<1>5. \A d, e, f \in E : Before(d, e) /\ Before(e, f) => Before(d, f)
  BY DEF Entries, Before
<1> QED BY <1>1, <1>2, <1>3, <1>4, <1>5

----------------------------------------------------------------------------
(* Admission, one entry after the other: the fold's recursion and its      *)
(* solution.                                                               *)
Admission(ranked, g, S) ==
  [s \in SUBSET S |-> IF s = {} THEN <<>> ELSE Admit(g[s \ {Max(s)}], ranked[Max(s)])]

Admits(g, ranked, S) == g = Admission(ranked, g, S)
Admitted(ranked, S) == CHOOSE g : g = Admission(ranked, g, S)

LEMMA FoldIsAdmitted ==
  ASSUME NEW ranked
  PROVE  FoldLeft(Admit, <<>>, ranked) = Admitted(ranked, DOMAIN ranked)[DOMAIN ranked]
BY DEF FoldLeft, MapThenFoldSet, Admitted, Admission

LEMMA LargestIn ==
  ASSUME NEW n \in Nat, NEW s \in SUBSET (1 .. n), s # {}
  PROVE  Max(s) \in s /\ s \ {Max(s)} # s
<1>1. IsFiniteSet(1 .. n) /\ s \in SUBSET Nat
  BY FS_Interval
<1>2. IsFiniteSet(s)
  BY <1>1, FS_Subset
<1> QED BY <1>1, <1>2, LargestNumber

LEMMA AdmissionsAgree ==
  ASSUME NEW n \in Nat, NEW ranked, NEW S \in SUBSET (1 .. n), NEW T \in SUBSET S,
         NEW g, Admits(g, ranked, S), NEW h, Admits(h, ranked, T)
  PROVE  \A U \in SUBSET T : g[U] = h[U]
<1> DEFINE G == {U \in SUBSET T : g[U] = h[U]}
<1>1. IsFiniteSet(T)
  <2>1. IsFiniteSet(1 .. n) /\ T \in SUBSET (1 .. n)
    BY FS_Interval
  <2> QED BY <2>1, FS_Subset
<1>2. ASSUME NEW U \in SUBSET T, \A W \in SUBSET U : W # U => W \in G
      PROVE  U \in G
  <2>1. CASE U = {}
    <3>1. g[U] = <<>> /\ h[U] = <<>>
      BY <2>1 DEF Admits, Admission
    <3> QED BY <3>1
  <2>2. CASE U # {}
    <3> DEFINE W == U \ {Max(U)}
    <3>1. g[W] = h[W]
      BY <1>2, <2>2, LargestIn
    <3>2. g[U] = Admit(g[W], ranked[Max(U)]) /\ h[U] = Admit(h[W], ranked[Max(U)])
      BY <2>2 DEF Admits, Admission
    <3> QED BY <3>1, <3>2
  <2> QED BY <2>1, <2>2
<1>3. \A U \in SUBSET T : U \in G
  <2> HIDE DEF G
  <2> QED BY <1>1, <1>2, SubsetInduction
<1> QED BY <1>3

LEMMA AdmissionExists ==
  ASSUME NEW n \in Nat, NEW ranked
  PROVE  \E g : g = Admission(ranked, g, 1 .. n)
<1> DEFINE S == 1 .. n
           G == {T \in SUBSET S : \E g : g = Admission(ranked, g, T)}
<1>1. ASSUME NEW T \in SUBSET S, \A U \in SUBSET T : U # T => U \in G
      PROVE  T \in G
  <2> DEFINE less(s) == s \ {Max(s)}
             part == [s \in SUBSET T |->
               IF s = {} THEN <<>>
               ELSE Admit(Admitted(ranked, less(s))[less(s)], ranked[Max(s)])]
  <2>1. ASSUME NEW U \in SUBSET T, U # T
        PROVE  Admitted(ranked, U) = Admission(ranked, Admitted(ranked, U), U)
    <3>1. \E g : g = Admission(ranked, g, U)
      BY <1>1, <2>1
    <3> QED BY <3>1, Zenon DEF Admitted
  <2>2. ASSUME NEW s \in SUBSET T, s # T
        PROVE  part[s] = Admitted(ranked, s)[s]
    <3>1. CASE s = {}
      <4>1. Admitted(ranked, s)[s] = <<>>
        BY <2>1, <2>2, <3>1 DEF Admission
      <4> QED BY <3>1, <4>1
    <3>2. CASE s # {}
      <4> DEFINE w == less(s)
      <4>1. w \in SUBSET T /\ w # T /\ w \in SUBSET s
        BY <2>2
      <4>2. Admitted(ranked, s) = Admission(ranked, Admitted(ranked, s), s)
        BY <2>1, <2>2
      <4>3. Admitted(ranked, s)[w] = Admitted(ranked, w)[w]
        <5>1. Admits(Admitted(ranked, w), ranked, w) /\ Admits(Admitted(ranked, s), ranked, s)
          BY <2>1, <4>1, <4>2 DEF Admits
        <5>2. s \in SUBSET (1 .. n)
          OBVIOUS
        <5> HIDE DEF w, less
        <5> DEFINE g == Admitted(ranked, s)
                   h == Admitted(ranked, w)
        <5>3. Admits(g, ranked, s) /\ Admits(h, ranked, w) /\ w \in SUBSET s
          BY <4>1, <5>1
        <5> HIDE DEF g, h
        <5>4. g[w] = h[w]
          BY <5>2, <5>3, AdmissionsAgree
        <5> QED BY <5>4 DEF g, h
      <4>4. Admitted(ranked, s)[s] = Admit(Admitted(ranked, s)[w], ranked[Max(s)])
        BY <3>2, <4>2 DEF Admission
      <4>5. part[s] = Admit(Admitted(ranked, w)[w], ranked[Max(s)])
        BY <3>2
      <4> QED BY <4>3, <4>4, <4>5
    <3> QED BY <3>1, <3>2
  <2>3. part = Admission(ranked, part, T)
    <3>1. ASSUME NEW s \in SUBSET T, s # {}
          PROVE  part[s] = Admit(part[less(s)], ranked[Max(s)])
      <4>1. less(s) \in SUBSET T /\ less(s) # T
        BY <3>1, LargestIn
      <4>2. part[less(s)] = Admitted(ranked, less(s))[less(s)]
        <5> HIDE DEF part, less
        <5> QED BY <2>2, <4>1
      <4> QED BY <3>1, <4>2
    <3>2. \A s \in SUBSET T : part[s] = Admission(ranked, part, T)[s]
      BY <3>1 DEF Admission
    <3> QED BY <3>2 DEF Admission
  <2> HIDE DEF part
  <2> QED BY <2>3
<1>2. IsFiniteSet(S)
  BY FS_Interval
<1>3. \A T \in SUBSET S : T \in G
  <2> HIDE DEF G, S
  <2> QED BY <1>1, <1>2, SubsetInduction
<1> QED BY <1>3

(* What has been taken after each of the ranked entries.                   *)
LEMMA FoldSteps ==
  ASSUME NEW n \in Nat, NEW ranked, DOMAIN ranked = 1 .. n
  PROVE  \E taken : /\ taken[0] = <<>> /\ taken[n] = FoldLeft(Admit, <<>>, ranked)
                    /\ \A k \in 1 .. n : taken[k] = Admit(taken[k - 1], ranked[k])
<1> DEFINE g == Admitted(ranked, 1 .. n)
           taken == [k \in 0 .. n |-> g[1 .. k]]
<1>1. g = Admission(ranked, g, 1 .. n)
  <2>1. \E h : h = Admission(ranked, h, 1 .. n)
    BY AdmissionExists
  <2> QED BY <2>1, Zenon DEF Admitted
<1> HIDE DEF g
<1>2. taken[0] = <<>>
  <2>1. 1 .. 0 = {} /\ 1 .. 0 \in SUBSET (1 .. n)
    OBVIOUS
  <2>2. g[1 .. 0] = <<>>
    BY <1>1, <2>1 DEF Admission
  <2> QED BY <2>2
<1>3. taken[n] = FoldLeft(Admit, <<>>, ranked)
  BY FoldIsAdmitted DEF g
<1>4. ASSUME NEW k \in 1 .. n PROVE taken[k] = Admit(taken[k - 1], ranked[k])
  <2> DEFINE s == 1 .. k
  <2>1. s \in SUBSET (1 .. n) /\ s # {} /\ k \in s /\ \A i \in s : i <= k /\ i \in Int
    OBVIOUS
  <2>2. Max(s) = k
    <3>1. \A x \in s : (\A y \in s : x >= y) => x = k
      BY <2>1
    <3>2. \A y \in s : k >= y
      BY <2>1
    <3> HIDE DEF s
    <3> QED BY <2>1, <3>1, <3>2 DEF Max
  <2>3. s \ {k} = 1 .. k - 1
    OBVIOUS
  <2> HIDE DEF s
  <2>4. g[s] = Admit(g[s \ {Max(s)}], ranked[Max(s)])
    BY <1>1, <2>1 DEF Admission
  <2>5. g[s] = Admit(g[1 .. k - 1], ranked[k])
    BY <2>2, <2>3, <2>4
  <2>6. taken[k - 1] = g[1 .. k - 1]
    <3>1. k - 1 \in 0 .. n
      OBVIOUS
    <3> QED BY <3>1
  <2> QED BY <2>5, <2>6 DEF s
<1> HIDE DEF taken
<1> QED BY <1>2, <1>3, <1>4

----------------------------------------------------------------------------
(* In a set that is ordered, those with fewer than n better ones are n of  *)
(* it at least, where it has as many.                                      *)
LEMMA EnoughAreForemost ==
  ASSUME NEW E, Entries(E), NEW C \in SUBSET E, NEW n \in Nat, n <= Cardinality(C)
  PROVE  n <= Cardinality({c \in C : Cardinality({e \in C : Better(e, c)}) < n})
<1> DEFINE R == {p \in C \X C : p[1] = p[2] \/ Better(p[1], p[2])}
           place == Placing(C, R)
           F == {c \in C : Cardinality({e \in C : Better(e, c)}) < n}
<1>1. IsFiniteSet(C)
  BY FS_Subset DEF Entries
<1>2. \A d, e \in C : <<d, e>> \in R <=> d = e \/ Better(d, e)
  OBVIOUS
<1>3. /\ \A d, e \in C : d # e => Better(d, e) \/ Better(e, d)
      /\ \A d, e \in C : Better(d, e) => ~Better(e, d)
      /\ \A d, e, f \in C : Better(d, e) /\ Better(e, f) => Better(d, f)
      /\ \A d \in C : ~Better(d, d)
  BY BetterOrders
<1>4. /\ Cardinality(C) \in Nat
      /\ place \in [C -> 1 .. Cardinality(C)]
      /\ \A p \in 1 .. Cardinality(C) : \E c \in C : place[c] = p
  <2> HIDE DEF R
  <2>1. /\ \A i, j \in C : <<i, j>> \in R \/ <<j, i>> \in R
        /\ \A i, j \in C : <<i, j>> \in R /\ <<j, i>> \in R => i = j
        /\ \A i, j, k \in C : <<i, j>> \in R /\ <<j, k>> \in R => <<i, k>> \in R
    BY <1>2, <1>3
  <2> QED BY <1>1, <2>1, Places
<1>5. ASSUME NEW c \in C
      PROVE  /\ Cardinality({e \in C : Better(e, c)}) \in Nat
             /\ place[c] = Cardinality({e \in C : Better(e, c)}) + 1
  <2> DEFINE B == {e \in C : Better(e, c)}
  <2>1. {e \in C : <<e, c>> \in R} = B \cup {c} /\ c \notin B
    BY <1>2, <1>3
  <2>2. IsFiniteSet(B)
    BY <1>1, FS_Subset
  <2>3. place[c] = Cardinality(B \cup {c})
    BY <2>1 DEF Placing
  <2> HIDE DEF B
  <2>4. Cardinality(B \cup {c}) = Cardinality(B) + 1 /\ Cardinality(B) \in Nat
    BY <2>1, <2>2, FS_AddElement, FS_CardinalityType
  <2> QED BY <2>3, <2>4 DEF B
<1> HIDE DEF R, place
<1>6. \A p \in 1 .. n : \E c \in F : place[c] = p
  <2> SUFFICES ASSUME NEW p \in 1 .. n PROVE \E c \in F : place[c] = p
    OBVIOUS
  <2>1. PICK c \in C : place[c] = p
    BY <1>4
  <2>2. Cardinality({e \in C : Better(e, c)}) < n
    BY <1>5, <2>1
  <2> QED BY <2>1, <2>2
<1>7. IsFiniteSet(F)
  BY <1>1, FS_Subset
<1> DEFINE f == [c \in F |-> place[c]]
<1>8. f \in Surjection(F, 1 .. n)
  <2>1. \A c \in F : place[c] \in 1 .. n
    BY <1>4, <1>5
  <2> HIDE DEF F
  <2> QED BY <1>6, <2>1 DEF Surjection
<1> HIDE DEF f, F
<1>9. Cardinality(1 .. n) <= Cardinality(F)
  BY <1>7, <1>8, FS_Surjection
<1>10. Cardinality(1 .. n) = n
  BY FS_Interval
<1> QED BY <1>9, <1>10 DEF F

(* So a class that turns somebody away is full of better ones.             *)
LEMMA ClassIsFull ==
  ASSUME NEW E, Entries(E), NEW C \in SUBSET E, NEW n \in Nat, n <= Cardinality(C),
         NEW T \in SUBSET E, \A c \in C : Cardinality({e \in C : Better(e, c)}) < n => c \in T
  PROVE  n <= Cardinality(T)
<1> DEFINE F == {c \in C : Cardinality({e \in C : Better(e, c)}) < n}
<1>1. n <= Cardinality(F)
  BY EnoughAreForemost
<1>2. F \in SUBSET T
  OBVIOUS
<1>3. IsFiniteSet(T)
  BY FS_Subset DEF Entries
<1> HIDE DEF F
<1>4. Cardinality(F) <= Cardinality(T) /\ IsFiniteSet(F)
  BY <1>2, <1>3, FS_Subset
<1>5. Cardinality(F) \in Nat /\ Cardinality(T) \in Nat
  BY <1>3, <1>4, FS_CardinalityType
<1> QED BY <1>1, <1>4, <1>5

Instrument(d) == d.candidate.instrument
Sector(d) == d.candidate.sector

(* What the three limits say, one after the other.                         *)
LEMMA InstrumentLimit ==
  ASSUME NEW E, NEW d \in E
  PROVE  d \in OfInstruments(E) <=>
           Cardinality({e \in E : Instrument(e) = Instrument(d) /\ Better(e, d)})
             < Policy.rule.instrumentLimit
BY DEF OfInstruments, Foremost, Instrument

LEMMA SectorLimit ==
  ASSUME NEW X, NEW d \in X
  PROVE  d \in OfSectors(X) <=>
           \/ Policy.rule.sectorLimit = NoLimit
           \/ Cardinality({e \in X : /\ Sector(e) = Sector(d) /\ Sector(d) # NoSector
                                     /\ Better(e, d)})
                < Policy.rule.sectorLimit
BY DEF OfSectors, Foremost, Sector

LEMMA CapacityLimit ==
  ASSUME NEW E, NEW d \in OfSectors(OfInstruments(E))
  PROVE  d \in Best(E) <=>
           Cardinality({e \in OfSectors(OfInstruments(E)) : Better(e, d)}) < Policy.maxEntries
<1>1. {e \in OfSectors(OfInstruments(E)) : TRUE /\ Better(e, d)} =
        {e \in OfSectors(OfInstruments(E)) : Better(e, d)}
  OBVIOUS
<1> QED BY <1>1 DEF Best, Foremost

LEMMA Nested ==
  ASSUME NEW E
  PROVE  /\ Best(E) \subseteq OfSectors(OfInstruments(E))
         /\ OfSectors(OfInstruments(E)) \subseteq OfInstruments(E)
         /\ OfInstruments(E) \subseteq E
BY DEF Best, OfSectors, OfInstruments, Foremost

----------------------------------------------------------------------------
(* What stands before d when all that are better have been decided, and    *)
(* the limits that turn d away then.                                       *)
Ahead(E, d) == {e \in Best(E) : Better(e, d)}

TurnedAway(E, d) ==
  \/ Policy.maxEntries <= Cardinality(Ahead(E, d))
  \/ Policy.rule.instrumentLimit <=
       Cardinality({e \in Ahead(E, d) : Instrument(e) = Instrument(d)})
  \/ /\ Policy.rule.sectorLimit # NoLimit /\ Sector(d) # NoSector
     /\ Policy.rule.sectorLimit <= Cardinality({e \in Ahead(E, d) : Sector(e) = Sector(d)})

LEMMA PartIsCounted ==
  ASSUME NEW E, Entries(E), NEW C \in SUBSET E
  PROVE  IsFiniteSet(C) /\ Cardinality(C) \in Nat
<1>1. IsFiniteSet(C)
  BY FS_Subset DEF Entries
<1> QED BY <1>1, FS_CardinalityType

LEMMA RuleLimits ==
  ASSUME Policy.rule # NoRule
  PROVE  /\ Policy.maxEntries \in Nat \ {0} /\ Policy.rule.instrumentLimit \in Nat \ {0}
         /\ Policy.rule.sectorLimit # NoLimit => Policy.rule.sectorLimit \in Nat \ {0}
BY RouterAssumption

LEMMA CapacityFull ==
  ASSUME NEW E, Entries(E), Policy.rule # NoRule, NEW d \in E,
         NEW f \in OfSectors(OfInstruments(E)), f \notin Best(E), f = d \/ Better(f, d)
  PROVE  TurnedAway(E, d)
<1> DEFINE X == OfSectors(OfInstruments(E))
           C == {e \in X : Better(e, f)}
           n == Policy.maxEntries
<1>1. X \subseteq E /\ C \in SUBSET E
  BY Nested
<1>2. n <= Cardinality(C) /\ n \in Nat
  <2>1. ~(Cardinality(C) < n)
    BY CapacityLimit
  <2>2. Cardinality(C) \in Nat /\ n \in Nat
    <3> HIDE DEF C
    <3> QED BY <1>1, PartIsCounted, RuleLimits
  <2> HIDE DEF C, n
  <2> QED BY <2>1, <2>2
<1>3. ASSUME NEW c \in C, Cardinality({e \in C : Better(e, c)}) < n
      PROVE  c \in Ahead(E, d)
  <2>1. Better(c, d)
    BY <1>1, BetterOrders
  <2>2. {e \in X : Better(e, c)} = {e \in C : Better(e, c)}
    BY <1>1, BetterOrders
  <2>3. c \in Best(E)
    BY <1>3, <2>2, CapacityLimit
  <2> QED BY <2>1, <2>3 DEF Ahead
<1>4. Ahead(E, d) \in SUBSET E
  BY Nested DEF Ahead
<1> HIDE DEF C, n
<1>5. n <= Cardinality(Ahead(E, d))
  BY <1>1, <1>2, <1>3, <1>4, ClassIsFull
<1> QED BY <1>5 DEF TurnedAway, n

LEMMA SectorFull ==
  ASSUME NEW E, Entries(E), Policy.rule # NoRule, NEW d \in E,
         NEW e \in OfInstruments(E), e \notin OfSectors(OfInstruments(E)),
         e = d \/ Better(e, d), Instrument(e) = Instrument(d)
  PROVE  TurnedAway(E, d)
<1> DEFINE X == OfInstruments(E)
           C == {x \in X : (Sector(x) = Sector(e) /\ Sector(e) # NoSector) /\ Better(x, e)}
           n == Policy.rule.sectorLimit
           T == {x \in Ahead(E, d) : Sector(x) = Sector(d)}
<1>1. X \subseteq E /\ C \in SUBSET E /\ T \in SUBSET E
  BY Nested DEF Ahead
<1>2. n # NoLimit /\ n \in Nat \ {0} /\ n <= Cardinality(C)
  <2>1. n # NoLimit /\ ~(Cardinality(C) < n)
    BY SectorLimit
  <2>2. Cardinality(C) \in Nat /\ n \in Nat \ {0}
    <3> HIDE DEF C
    <3> QED BY <1>1, <2>1, PartIsCounted, RuleLimits
  <2> HIDE DEF C, n
  <2> QED BY <2>1, <2>2
<1>3. Sector(e) # NoSector /\ Sector(d) = Sector(e)
  <2>1. C # {}
    <3> HIDE DEF C, n
    <3> QED BY <1>2, FS_EmptySet
  <2>2. Sector(d) = Sector(e)
    BY <1>1 DEF Entries, Sector, Instrument
  <2> QED BY <2>1, <2>2
<1>4. CASE \E f \in C : f \in OfSectors(X) /\ f \notin Best(E)
  <2>1. PICK f \in C : f \in OfSectors(X) /\ f \notin Best(E)
    BY <1>4
  <2>2. Better(f, d)
    BY <1>1, <2>1, BetterOrders
  <2> QED BY <2>1, <2>2, CapacityFull
<1>5. CASE \A f \in C : f \in OfSectors(X) => f \in Best(E)
  <2>1. ASSUME NEW c \in C, Cardinality({x \in C : Better(x, c)}) < n
        PROVE  c \in T
    <3>1. Better(c, d)
      BY <1>1, BetterOrders
    <3>2. {x \in X : (Sector(x) = Sector(c) /\ Sector(c) # NoSector) /\ Better(x, c)} =
            {x \in C : Better(x, c)}
      BY <1>1, BetterOrders
    <3>3. c \in OfSectors(X)
      BY <2>1, <3>2, SectorLimit
    <3> QED BY <1>3, <1>5, <3>1, <3>3 DEF Ahead
  <2> HIDE DEF C, n, T
  <2>2. n <= Cardinality(T)
    BY <1>1, <1>2, <2>1, ClassIsFull
  <2> QED BY <1>2, <1>3, <2>2 DEF TurnedAway, n, T
<1> QED BY <1>4, <1>5

LEMMA InstrumentFull ==
  ASSUME NEW E, Entries(E), Policy.rule # NoRule, NEW d \in E, d \notin OfInstruments(E)
  PROVE  TurnedAway(E, d)
<1> DEFINE C == {x \in E : Instrument(x) = Instrument(d) /\ Better(x, d)}
           n == Policy.rule.instrumentLimit
           T == {x \in Ahead(E, d) : Instrument(x) = Instrument(d)}
<1>1. C \in SUBSET E /\ T \in SUBSET E
  BY Nested DEF Ahead
<1>2. n \in Nat /\ n <= Cardinality(C)
  <2>1. ~(Cardinality(C) < n)
    BY InstrumentLimit
  <2>2. Cardinality(C) \in Nat /\ n \in Nat
    <3> HIDE DEF C
    <3> QED BY <1>1, PartIsCounted, RuleLimits
  <2> HIDE DEF C, n
  <2> QED BY <2>1, <2>2
<1>3. CASE \E e \in C : e \in OfInstruments(E) /\ e \notin Best(E)
  <2>1. PICK e \in C : e \in OfInstruments(E) /\ e \notin Best(E)
    BY <1>3
  <2> QED BY <2>1, SectorFull, CapacityFull
<1>4. CASE \A e \in C : e \in OfInstruments(E) => e \in Best(E)
  <2>1. ASSUME NEW c \in C, Cardinality({x \in C : Better(x, c)}) < n
        PROVE  c \in T
    <3>1. {x \in E : Instrument(x) = Instrument(c) /\ Better(x, c)} = {x \in C : Better(x, c)}
      BY BetterOrders
    <3>2. c \in OfInstruments(E)
      BY <2>1, <3>1, InstrumentLimit
    <3> QED BY <1>4, <3>2 DEF Ahead
  <2> HIDE DEF C, n, T
  <2>2. n <= Cardinality(T)
    BY <1>1, <1>2, <2>1, ClassIsFull
  <2> QED BY <2>2 DEF TurnedAway, n, T
<1> QED BY <1>3, <1>4

(* An entry is among the best exactly when the best that are better than   *)
(* it leave it room under each limit.                                      *)
LEMMA BestAreLetIn ==
  ASSUME NEW E, Entries(E), Policy.rule # NoRule, NEW d \in E
  PROVE  d \in Best(E) <=> ~TurnedAway(E, d)
<1>1. ASSUME d \notin Best(E) PROVE TurnedAway(E, d)
  BY <1>1, InstrumentFull, SectorFull, CapacityFull
<1>2. ASSUME d \in Best(E) PROVE ~TurnedAway(E, d)
  <2> DEFINE X == OfInstruments(E)
             Y == OfSectors(X)
             A == {e \in Y : Better(e, d)}
             B == {e \in E : Instrument(e) = Instrument(d) /\ Better(e, d)}
             C == {e \in X : (Sector(e) = Sector(d) /\ Sector(d) # NoSector) /\ Better(e, d)}
  <2>1. d \in X /\ d \in Y /\ X \subseteq E /\ Y \subseteq X /\ Best(E) \subseteq Y
    BY <1>2, Nested
  <2>2. /\ Cardinality(A) < Policy.maxEntries
        /\ Cardinality(B) < Policy.rule.instrumentLimit
        /\ Policy.rule.sectorLimit # NoLimit => Cardinality(C) < Policy.rule.sectorLimit
    BY <1>2, <2>1, CapacityLimit, InstrumentLimit, SectorLimit
  <2> DEFINE I == {e \in Ahead(E, d) : Instrument(e) = Instrument(d)}
             S == {e \in Ahead(E, d) : Sector(e) = Sector(d)}
  <2>3. /\ Ahead(E, d) \in SUBSET A /\ I \in SUBSET B
        /\ Sector(d) # NoSector => S \in SUBSET C
        /\ A \in SUBSET E /\ B \in SUBSET E /\ C \in SUBSET E
        /\ Ahead(E, d) \in SUBSET E /\ I \in SUBSET E /\ S \in SUBSET E
    BY <2>1 DEF Ahead
  <2> HIDE DEF A, B, C, I, S, X, Y
  <2>4. /\ IsFiniteSet(A) /\ IsFiniteSet(B) /\ IsFiniteSet(C)
        /\ Cardinality(A) \in Nat /\ Cardinality(B) \in Nat /\ Cardinality(C) \in Nat
        /\ Cardinality(Ahead(E, d)) \in Nat /\ Cardinality(I) \in Nat /\ Cardinality(S) \in Nat
    BY <2>3, PartIsCounted
  <2>5. /\ Cardinality(Ahead(E, d)) <= Cardinality(A)
        /\ Cardinality(I) <= Cardinality(B)
        /\ Sector(d) # NoSector => Cardinality(S) <= Cardinality(C)
    BY <2>3, <2>4, FS_Subset
  <2>6. /\ Policy.maxEntries \in Nat /\ Policy.rule.instrumentLimit \in Nat
        /\ Policy.rule.sectorLimit # NoLimit => Policy.rule.sectorLimit \in Nat
    BY RuleLimits
  <2>7. /\ ~(Policy.maxEntries <= Cardinality(Ahead(E, d)))
        /\ ~(Policy.rule.instrumentLimit <= Cardinality(I))
        /\ Policy.rule.sectorLimit # NoLimit /\ Sector(d) # NoSector =>
             ~(Policy.rule.sectorLimit <= Cardinality(S))
    BY <2>2, <2>4, <2>5, <2>6
  <2> QED BY <2>7 DEF TurnedAway, I, S
<1> QED BY <1>1, <1>2

LEMMA CountedIs ==
  ASSUME NEW taken, NEW n \in Nat, DOMAIN taken = 1 .. n,
         \A i, j \in 1 .. n : taken[i] = taken[j] => i = j, NEW Q \in SUBSET Range(taken)
  PROVE  Cardinality({i \in DOMAIN taken : taken[i] \in Q}) = Cardinality(Q)
<1> DEFINE I == {i \in 1 .. n : taken[i] \in Q}
           f == [i \in I |-> taken[i]]
<1>1. f \in Bijection(I, Q)
  <2>1. \A q \in Q : \E i \in I : taken[i] = q
    BY DEF Range
  <2>2. f \in Injection(I, Q)
    BY DEF Injection, IsInjective
  <2>3. f \in Surjection(I, Q)
    BY <2>1 DEF Surjection
  <2> QED BY <2>2, <2>3 DEF Bijection
<1>2. IsFiniteSet(I)
  <2>1. IsFiniteSet(1 .. n)
    BY FS_Interval
  <2> QED BY <2>1, FS_Subset
<1> HIDE DEF f, I
<1>3. Cardinality(I) = Cardinality(Q)
  BY <1>1, <1>2, FS_Bijection DEF ExistsBijection
<1> QED BY <1>3 DEF I

LEMMA IdsCounted ==
  ASSUME NEW E, Entries(E), NEW T \in SUBSET E
  PROVE  Cardinality({t.id : t \in T}) = Cardinality(T)
<1> DEFINE Q == {t.id : t \in T}
           f == [t \in T |-> t.id]
<1>1. f \in Bijection(T, Q)
  <2>1. f \in Injection(T, Q)
    BY DEF Injection, IsInjective, Entries
  <2>2. f \in Surjection(T, Q)
    BY DEF Surjection
  <2> QED BY <2>1, <2>2 DEF Bijection
<1>2. IsFiniteSet(T)
  BY FS_Subset DEF Entries
<1> HIDE DEF f, Q
<1>3. Cardinality(T) = Cardinality(Q)
  BY <1>1, <1>2, FS_Bijection DEF ExistsBijection
<1> QED BY <1>3 DEF Q

----------------------------------------------------------------------------
(* Admit turns an entry away by these limits, counting what it has taken.  *)
Taken(taken, E) ==
  /\ taken \in Seq(E) /\ DOMAIN taken = 1 .. Len(taken) /\ Len(taken) \in Nat
  /\ \A i, j \in DOMAIN taken : taken[i] = taken[j] => i = j

LEMMA AdmitIs ==
  ASSUME NEW E, Entries(E), NEW d \in E, NEW taken, Taken(taken, E), Range(taken) = Ahead(E, d),
         Policy.rule # NoRule
  PROVE  Admit(taken, d) = IF TurnedAway(E, d) THEN taken ELSE Append(taken, d)
<1> DEFINE I == {e \in Ahead(E, d) : Instrument(e) = Instrument(d)}
           S == {e \in Ahead(E, d) : Sector(e) = Sector(d)}
           CI == {i \in DOMAIN taken : taken[i].candidate["instrument"] = d.candidate["instrument"]}
           CS == {i \in DOMAIN taken : taken[i].candidate["sector"] = d.candidate["sector"]}
           ids == {t.id : t \in Range(taken)}
           full == \/ Cardinality(ids) >= Policy.maxEntries
                   \/ Cardinality(CI) >= Policy.rule.instrumentLimit
                   \/ /\ Policy.rule.sectorLimit # NoLimit /\ d.candidate.sector # NoSector
                      /\ Cardinality(CS) >= Policy.rule.sectorLimit
<1>1. Admit(taken, d) = IF full THEN taken ELSE Append(taken, d)
  BY DEF Admit
<1>2. \A i \in DOMAIN taken : taken[i] \in Ahead(E, d)
  BY DEF Range
<1>3. Cardinality(CI) = Cardinality(I)
  <2>1. CI = {i \in DOMAIN taken : taken[i] \in I}
    BY <1>2 DEF Instrument
  <2>2. I \in SUBSET Range(taken)
    OBVIOUS
  <2> HIDE DEF I, CI
  <2> QED BY <2>1, <2>2, CountedIs DEF Taken
<1>4. Cardinality(CS) = Cardinality(S)
  <2>1. CS = {i \in DOMAIN taken : taken[i] \in S}
    BY <1>2 DEF Sector
  <2>2. S \in SUBSET Range(taken)
    OBVIOUS
  <2> HIDE DEF S, CS
  <2> QED BY <2>1, <2>2, CountedIs DEF Taken
<1>5. Ahead(E, d) \in SUBSET E /\ I \in SUBSET E /\ S \in SUBSET E
  BY Nested DEF Ahead
<1>6. Cardinality(ids) = Cardinality(Ahead(E, d))
  BY <1>5, IdsCounted
<1> HIDE DEF CI, CS, ids, I, S
<1>7. /\ Cardinality(Ahead(E, d)) \in Nat /\ Cardinality(I) \in Nat /\ Cardinality(S) \in Nat
      /\ Policy.maxEntries \in Nat /\ Policy.rule.instrumentLimit \in Nat
      /\ Policy.rule.sectorLimit # NoLimit => Policy.rule.sectorLimit \in Nat
  BY <1>5, PartIsCounted, RuleLimits
<1>8. full <=> \/ Policy.maxEntries <= Cardinality(Ahead(E, d))
               \/ Policy.rule.instrumentLimit <= Cardinality(I)
               \/ /\ Policy.rule.sectorLimit # NoLimit /\ Sector(d) # NoSector
                  /\ Policy.rule.sectorLimit <= Cardinality(S)
  BY <1>3, <1>4, <1>6, <1>7 DEF Sector
<1>9. full <=> TurnedAway(E, d)
  BY <1>8 DEF TurnedAway, I, S
<1> HIDE DEF full
<1> QED BY <1>1, <1>9

(* An entry that comes again finds its instrument taken.                   *)
LEMMA AdmitAgain ==
  ASSUME NEW E, NEW d, NEW taken, Taken(taken, E), d \in Range(taken),
         Policy.rule.instrumentLimit = 1
  PROVE  Admit(taken, d) = taken
<1> DEFINE C == {i \in DOMAIN taken : taken[i].candidate["instrument"] = d.candidate["instrument"]}
<1>1. IsFiniteSet(C)
  <2>1. IsFiniteSet(1 .. Len(taken)) /\ C \in SUBSET (1 .. Len(taken))
    BY FS_Interval DEF Taken
  <2> HIDE DEF C
  <2> QED BY <2>1, FS_Subset
<1>2. C # {}
  BY DEF Range
<1>3. Cardinality(C) >= Policy.rule.instrumentLimit
  <2> HIDE DEF C
  <2> QED BY <1>1, <1>2, FS_EmptySet, FS_CardinalityType
<1> QED BY <1>3 DEF Admit

LEMMA AppendTaken ==
  ASSUME NEW E, NEW taken, Taken(taken, E), NEW d \in E, d \notin Range(taken)
  PROVE  Taken(Append(taken, d), E) /\ Range(Append(taken, d)) = Range(taken) \cup {d}
<1> DEFINE n == Len(taken)
           t == Append(taken, d)
<1>1. /\ n \in Nat /\ taken \in Seq(E) /\ DOMAIN taken = 1 .. n
      /\ t \in Seq(E) /\ Len(t) = n + 1 /\ t[n + 1] = d /\ \A i \in 1 .. n : t[i] = taken[i]
  BY AppendProperties DEF Taken
<1>2. DOMAIN t = 1 .. n + 1 /\ \A i \in 1 .. n + 1 : i \in 1 .. n \/ i = n + 1
  BY <1>1
<1>3. \A i \in 1 .. n : taken[i] # d
  BY <1>1 DEF Range
<1> HIDE DEF n, t
<1>4. \A i, j \in 1 .. n + 1 : t[i] = t[j] => i = j
  BY <1>1, <1>2, <1>3 DEF Taken
<1>5. Range(t) = Range(taken) \cup {d}
  <2>1. n + 1 \in 1 .. n + 1 /\ \A i \in 1 .. n : i \in 1 .. n + 1
    BY <1>1
  <2> QED BY <1>1, <1>2, <2>1 DEF Range
<1>6. n + 1 \in Nat
  BY <1>1
<1> QED BY <1>1, <1>2, <1>4, <1>5, <1>6 DEF Taken, t

(* The ranked entries: those that come before one are better or the same,  *)
(* and all that are better come before it.                                 *)
Ranking(ranked, n, E) ==
  /\ DOMAIN ranked = 1 .. n /\ Range(ranked) = E
  /\ \A p, q \in 1 .. n : p < q => ~Better(ranked[q], ranked[p])
  /\ Policy.rule.instrumentLimit = 1 \/ \A p, q \in 1 .. n : ranked[p] = ranked[q] => p = q

First(ranked, k) == {ranked[p] : p \in 1 .. k}

LEMMA BetterComeFirst ==
  ASSUME NEW E, Entries(E), NEW n \in Nat, NEW ranked, Ranking(ranked, n, E), NEW k \in 1 .. n
  PROVE  /\ \A e \in E : Better(e, ranked[k]) => e \in First(ranked, k - 1)
         /\ \A e \in First(ranked, k - 1) : e \in E /\ (Better(e, ranked[k]) \/ e = ranked[k])
<1>1. ranked[k] \in E /\ \A p \in 1 .. k - 1 : p \in 1 .. n /\ p < k /\ ranked[p] \in E
  BY DEF Ranking, Range
<1>2. ASSUME NEW e \in E, Better(e, ranked[k]) PROVE e \in First(ranked, k - 1)
  <2>1. PICK p \in 1 .. n : e = ranked[p]
    BY DEF Ranking, Range
  <2>2. p # k /\ ~(k < p)
    BY <1>1, <1>2, <2>1, BetterOrders DEF Ranking
  <2>3. p \in 1 .. k - 1
    BY <2>2
  <2> QED BY <2>1, <2>3 DEF First
<1>3. ASSUME NEW e \in First(ranked, k - 1)
      PROVE  e \in E /\ (Better(e, ranked[k]) \/ e = ranked[k])
  <2>1. PICK p \in 1 .. k - 1 : e = ranked[p]
    BY DEF First
  <2>2. e \in E /\ ~Better(ranked[k], e)
    BY <1>1, <2>1 DEF Ranking
  <2> QED BY <1>1, <2>2, BetterOrders
<1> QED BY <1>2, <1>3

TakenFirst(taken, ranked, k, E) ==
  Taken(taken, E) /\ Range(taken) = Best(E) \cap First(ranked, k)

LEMMA OneMoreTaken ==
  ASSUME NEW E, Entries(E), NEW n \in Nat, NEW ranked, Ranking(ranked, n, E), NEW k \in 1 .. n,
         Policy.rule # NoRule, NEW taken, TakenFirst(taken, ranked, k - 1, E)
  PROVE  TakenFirst(Admit(taken, ranked[k]), ranked, k, E)
<1> DEFINE d == ranked[k]
<1>1. d \in E
  BY DEF Ranking, Range
<1>2. First(ranked, k) = First(ranked, k - 1) \cup {d}
  <2>1. \A p \in 1 .. k : p \in 1 .. k - 1 \/ p = k
    OBVIOUS
  <2>2. k \in 1 .. k /\ \A p \in 1 .. k - 1 : p \in 1 .. k
    OBVIOUS
  <2> QED BY <2>1, <2>2 DEF First
<1> HIDE DEF d
<1>3. CASE d \in Range(taken)
  <2>1. Policy.rule.instrumentLimit = 1
    <3>1. PICK p \in 1 .. k - 1 : ranked[p] = d
      BY <1>3 DEF TakenFirst, First
    <3>2. p \in 1 .. n /\ p # k
      OBVIOUS
    <3> QED BY <3>1, <3>2 DEF Ranking, d
  <2>2. Admit(taken, d) = taken
    BY <1>3, <2>1, AdmitAgain DEF TakenFirst
  <2> QED BY <1>2, <1>3, <2>2 DEF TakenFirst, d
<1>4. CASE d \notin Range(taken)
  <2>1. Range(taken) = Ahead(E, d)
    <3>1. \A e \in E : Better(e, d) => e \in First(ranked, k - 1) /\ e # d
      BY <1>1, BetterComeFirst, BetterOrders DEF d
    <3>2. \A e \in First(ranked, k - 1) : Better(e, d) \/ e = d
      BY BetterComeFirst DEF d
    <3>3. Best(E) \subseteq E
      BY Nested
    <3> QED BY <1>4, <3>1, <3>2, <3>3 DEF TakenFirst, Ahead
  <2>2. Admit(taken, d) = IF TurnedAway(E, d) THEN taken ELSE Append(taken, d)
    BY <1>1, <2>1, AdmitIs DEF TakenFirst
  <2>3. d \in Best(E) <=> ~TurnedAway(E, d)
    BY <1>1, BestAreLetIn
  <2>4. CASE TurnedAway(E, d)
    BY <1>2, <2>2, <2>3, <2>4 DEF TakenFirst, d
  <2>5. CASE ~TurnedAway(E, d)
    <3>1. Taken(Append(taken, d), E) /\ Range(Append(taken, d)) = Range(taken) \cup {d}
      BY <1>1, <1>4, AppendTaken DEF TakenFirst
    <3>2. Range(Append(taken, d)) = Best(E) \cap First(ranked, k)
      BY <1>2, <2>3, <2>5, <3>1 DEF TakenFirst
    <3> QED BY <2>2, <2>5, <3>1, <3>2 DEF TakenFirst, d
  <2> QED BY <2>4, <2>5
<1> QED BY <1>3, <1>4

(* What is taken in the end are the best.                                  *)
LEMMA TakenAreTheBest ==
  ASSUME NEW E, Entries(E), NEW n \in Nat, NEW ranked, Ranking(ranked, n, E),
         Policy.rule # NoRule
  PROVE  Range(FoldLeft(Admit, <<>>, ranked)) = Best(E)
<1>1. PICK taken : /\ taken[0] = <<>> /\ taken[n] = FoldLeft(Admit, <<>>, ranked)
                   /\ \A k \in 1 .. n : taken[k] = Admit(taken[k - 1], ranked[k])
  BY FoldSteps DEF Ranking
<1> DEFINE Bad == {k \in 0 .. n : ~TakenFirst(taken[k], ranked, k, E)}
<1>2. Bad = {}
  <2> SUFFICES ASSUME Bad # {} PROVE FALSE
    OBVIOUS
  <2> DEFINE k == Min(Bad)
  <2>1. k \in Bad /\ \A j \in Bad : k <= j
    <3>1. Bad \in SUBSET Nat
      OBVIOUS
    <3> HIDE DEF Bad
    <3> QED BY <3>1, SmallestNumber
  <2>2. k \in 0 .. n /\ ~TakenFirst(taken[k], ranked, k, E)
    BY <2>1
  <2>3. \A j \in 0 .. n : j < k => TakenFirst(taken[j], ranked, j, E)
    BY <2>1, <2>2
  <2> HIDE DEF k, Bad
  <2>4. TakenFirst(taken[0], ranked, 0, E)
    <3>1. <<>> \in Seq(E) /\ DOMAIN <<>> = 1 .. Len(<<>>) /\ Len(<<>>) = 0 /\ DOMAIN <<>> = {}
      OBVIOUS
    <3>2. First(ranked, 0) = {} /\ Range(<<>>) = {}
      BY <3>1 DEF First, Range
    <3> QED BY <1>1, <3>1, <3>2 DEF TakenFirst, Taken
  <2>5. k \in 1 .. n /\ k - 1 \in 0 .. n /\ k - 1 < k
    BY <2>2, <2>4
  <2>6. TakenFirst(taken[k], ranked, k, E)
    BY <1>1, <2>3, <2>5, OneMoreTaken
  <2> QED BY <2>2, <2>6
<1>3. TakenFirst(taken[n], ranked, n, E)
  <2>1. n \in 0 .. n /\ n \notin Bad
    BY <1>2
  <2> QED BY <2>1
<1>4. First(ranked, n) = E /\ Best(E) \subseteq E
  BY Nested DEF First, Ranking, Range
<1> QED BY <1>1, <1>3, <1>4 DEF TakenFirst

----------------------------------------------------------------------------
(* The decisions of a cohort, before its capacity is looked at.            *)
EnteringPlaces(cohort) == {i \in 1 .. Len(cohort) : Enters(Evaluate(cohort[i]))}

LEMMA EvaluateIsDecided ==
  ASSUME NEW c
  PROVE  \E playbook, kind, reasons, class :
           Evaluate(c) = Decided(c, playbook, kind, reasons, class)
BY Zenon DEF Evaluate

LEMMA RejectionIs ==
  ASSUME NEW c, NEW reason
  PROVE  LET r == CapacityRejection(Evaluate(c), reason)
         IN  ~Enters(r) /\ r.candidate = Evaluate(c).candidate /\ r.id = Evaluate(c).id
<1>1. PICK playbook, kind, reasons, class :
        Evaluate(c) = Decided(c, playbook, kind, reasons, class)
  BY EvaluateIsDecided
<1> QED BY <1>1 DEF Decided, CapacityRejection, Enters

LEMMA CandidateIs ==
  ASSUME NEW cohort \in Cohorts, NEW i \in 1 .. Len(cohort)
  PROVE  /\ Evaluate(cohort[i]).candidate.id = cohort[i].id /\ cohort[i].id \in Int
         /\ Enters(Evaluate(cohort[i])) =>
              /\ Evaluate(cohort[i]).candidate = cohort[i]
              /\ cohort[i].duplicate = FALSE /\ cohort[i].priority \in Int
<1> DEFINE c == cohort[i]
<1>1. /\ c.id \in Int /\ c.priority \in Int /\ c.duplicate \in BOOLEAN
      /\ "id" \in DOMAIN c /\ c = [c EXCEPT !.duplicate = c.duplicate]
  BY RouterAssumption DEF Range
<1> HIDE DEF c
<1>2. Evaluate(c).candidate = [c EXCEPT !.duplicate = FALSE]
  BY EvaluatedAs
<1>3. Evaluate(c).candidate.id = c.id
  BY <1>1, <1>2
<1>4. Enters(Evaluate(c)) => c.duplicate = FALSE
  <2>1. c.duplicate \in BOOLEAN
    BY <1>1
  <2>2. \A x : x.duplicate \in BOOLEAN => (Enters(Evaluate(x)) => x.duplicate = FALSE)
    BY EntersAs
  <2> QED BY <2>1, <2>2
<1>5. Enters(Evaluate(c)) => Evaluate(c).candidate = c
  BY <1>1, <1>2, <1>4
<1> QED BY <1>1, <1>3, <1>4, <1>5 DEF c

LEMMA EvaluatedIs ==
  ASSUME NEW cohort \in Cohorts
  PROVE  /\ Len(cohort) \in Nat /\ DOMAIN Evaluated(cohort) = 1 .. Len(cohort)
         /\ \A i \in 1 .. Len(cohort) : Evaluated(cohort)[i] = Evaluate(cohort[i])
         /\ Eligible(Evaluated(cohort)) = Picked(Evaluated(cohort), EnteringPlaces(cohort))
<1>1. Len(cohort) \in Nat /\ DOMAIN cohort = 1 .. Len(cohort)
  BY RouterAssumption
<1>2. /\ DOMAIN Evaluated(cohort) = 1 .. Len(cohort)
      /\ \A i \in 1 .. Len(cohort) : Evaluated(cohort)[i] = Evaluate(cohort[i])
  BY <1>1 DEF Evaluated
<1>3. {i \in DOMAIN Evaluated(cohort) : Enters(Evaluated(cohort)[i])} = EnteringPlaces(cohort)
  BY <1>2 DEF EnteringPlaces
<1> QED BY <1>1, <1>2, <1>3 DEF Eligible

Entering(cohort) == {Evaluate(cohort[i]) : i \in EnteringPlaces(cohort)}

LEMMA EligibleIs ==
  ASSUME NEW cohort \in Cohorts
  PROVE  LET s == Eligible(Evaluated(cohort))
             n == Cardinality(EnteringPlaces(cohort))
         IN  /\ n \in Nat /\ Len(s) = n /\ DOMAIN s = 1 .. n /\ Range(s) = Entering(cohort)
             /\ \A k \in 1 .. n : /\ Nth(EnteringPlaces(cohort), k) \in EnteringPlaces(cohort)
                                  /\ s[k] = Evaluate(cohort[Nth(EnteringPlaces(cohort), k)])
             /\ \A k, l \in 1 .. n :
                  Nth(EnteringPlaces(cohort), k) = Nth(EnteringPlaces(cohort), l) => k = l
<1> DEFINE C == EnteringPlaces(cohort)
           D == Evaluated(cohort)
           s == Eligible(D)
           n == Cardinality(C)
<1>1. /\ Len(cohort) \in Nat /\ DOMAIN D = 1 .. Len(cohort) /\ C \in SUBSET (1 .. Len(cohort))
      /\ \A i \in C : D[i] = Evaluate(cohort[i])
      /\ s = Picked(D, C)
  BY EvaluatedIs DEF EnteringPlaces
<1> HIDE DEF C, D, s
<1>2. /\ n \in Nat /\ Len(Picked(D, C)) = n /\ DOMAIN Picked(D, C) = 1 .. n
      /\ \A k \in 1 .. n : Nth(C, k) \in C /\ Picked(D, C)[k] = D[Nth(C, k)]
      /\ \A k, l \in 1 .. n : Nth(C, k) = Nth(C, l) => k = l
  BY <1>1, PickedIs
<1>3. Range(Picked(D, C)) = {D[i] : i \in C}
  BY <1>1, PickedRange
<1>4. {D[i] : i \in C} = {Evaluate(cohort[i]) : i \in C}
  BY <1>1
<1>5. Range(s) = Entering(cohort)
  BY <1>1, <1>3, <1>4 DEF Entering, C
<1> QED BY <1>1, <1>2, <1>5 DEF C, D, s

LEMMA EnteringAreEntries ==
  ASSUME CohortsAreNamed, NEW cohort \in Cohorts, Policy.rule # NoRule
  PROVE  Entries(Entering(cohort))
<1> DEFINE C == EnteringPlaces(cohort)
           E == Entering(cohort)
<1>1. Len(cohort) \in Nat /\ DOMAIN cohort = 1 .. Len(cohort) /\ C \in SUBSET (1 .. Len(cohort))
  BY RouterAssumption DEF EnteringPlaces
<1>2. IsFiniteSet(E)
  <2>1. IsFiniteSet(1 .. Len(cohort))
    BY <1>1, FS_Interval
  <2>2. IsFiniteSet(C)
    BY <1>1, <2>1, FS_Subset
  <2> DEFINE f == [i \in C |-> Evaluate(cohort[i])]
  <2>3. {f[i] : i \in C} = E
    BY DEF Entering
  <2> HIDE DEF f, C, E
  <2>4. IsFiniteSet({f[i] : i \in C})
    BY <2>2, FiniteImage
  <2> QED BY <2>3, <2>4
<1>3. \A i \in C : /\ Evaluate(cohort[i]).candidate = cohort[i] /\ cohort[i].duplicate = FALSE
                   /\ cohort[i].id \in Int /\ cohort[i].priority \in Int
  BY <1>1, CandidateIs DEF EnteringPlaces
<1>4. \A i \in C : Evaluate(cohort[i]).id =
                     <<cohort[i].id, Evaluate(cohort[i]).playbook, cohort[i].cutoff>>
  BY EvaluatedAs
<1>5. \A i, j \in C :
        /\ cohort[i].id = cohort[j].id => cohort[i] = cohort[j]
        /\ cohort[i].instrument = cohort[j].instrument => cohort[i].sector = cohort[j].sector
  BY <1>1, <1>3 DEF CohortsAreNamed
<1>6. \A d \in E : /\ RankOf(d.playbook) \in Int
                   /\ d.candidate.priority \in Int /\ d.candidate.id \in Int
  <2>1. \A b : RankOf(b) \in Int
    BY RouterAssumption, RankIsNumber
  <2> QED BY <1>3, <2>1 DEF Entering
<1> HIDE DEF C
<1>7. ASSUME NEW d \in E, NEW e \in E, d.candidate.id = e.candidate.id \/ d.id = e.id
      PROVE  d = e
  <2>1. PICK i \in C : d = Evaluate(cohort[i])
    BY DEF Entering, C
  <2>2. PICK j \in C : e = Evaluate(cohort[j])
    BY DEF Entering, C
  <2>3. cohort[i].id = cohort[j].id
    BY <1>3, <1>4, <1>7, <2>1, <2>2
  <2> QED BY <1>5, <2>1, <2>2, <2>3
<1>8. \A d, e \in E : d.candidate.instrument = e.candidate.instrument =>
                        d.candidate.sector = e.candidate.sector
  BY <1>3, <1>5 DEF Entering, C
<1> QED BY <1>2, <1>6, <1>7, <1>8 DEF Entries

(* The eligible, sorted by the rule, are ranked.                           *)
BeforeIn(E) == {p \in E \X E : Before(p[1], p[2])}

LEMMA RuleRanks ==
  ASSUME CohortsAreNamed, NEW cohort \in Cohorts, Policy.rule # NoRule
  PROVE  LET s == Eligible(Evaluated(cohort))
         IN  Ranking(Sorted(s, BeforeIn(Range(s))), Cardinality(EnteringPlaces(cohort)),
                     Entering(cohort))
<1> DEFINE C == EnteringPlaces(cohort)
           s == Eligible(Evaluated(cohort))
           n == Cardinality(C)
           E == Entering(cohort)
           before == BeforeIn(E)
           t == Sorted(s, before)
<1>1. /\ n \in Nat /\ DOMAIN s = 1 .. n /\ Range(s) = E
      /\ \A k \in 1 .. n : Nth(C, k) \in C /\ s[k] = Evaluate(cohort[Nth(C, k)])
      /\ \A k, l \in 1 .. n : Nth(C, k) = Nth(C, l) => k = l
  BY EligibleIs
<1>2. Entries(E)
  BY EnteringAreEntries
<1>3. \A d, e \in E : <<d, e>> \in before <=> Before(d, e)
  BY DEF BeforeIn
<1> HIDE DEF C, s, n, E, before, t
<1>4. WeakOrder(before, Range(s))
  <2>1. /\ \A d, e \in E : Before(d, e) => ~Before(e, d)
        /\ \A d, e, f \in E : Before(d, e) => Before(d, f) \/ Before(f, e)
    BY <1>2 DEF Entries, Before
  <2> QED BY <1>1, <1>3, <2>1 DEF WeakOrder
<1>5. /\ DOMAIN t = 1 .. n
      /\ \A p, q \in 1 .. n : p < q => <<t[q], t[p]>> \notin before
      /\ \A p \in 1 .. n : /\ PlacedAt(p, s, before) \in 1 .. n
                           /\ t[p] = s[PlacedAt(p, s, before)]
      /\ \A p, q \in 1 .. n : PlacedAt(p, s, before) = PlacedAt(q, s, before) => p = q
  BY <1>1, <1>4, SortedIs DEF WeakOrder, t
<1>6. Range(t) = E
  BY <1>1, <1>4, SortedRange DEF t
<1>7. \A p, q \in 1 .. n : p < q => ~Better(t[q], t[p])
  <2>1. \A p \in 1 .. n : t[p] \in E
    BY <1>5, <1>6 DEF Range
  <2> QED BY <1>2, <1>3, <1>5, <2>1, BetterIsBefore
<1>8. ASSUME Policy.rule.instrumentLimit # 1, NEW p \in 1 .. n, NEW q \in 1 .. n, t[p] = t[q]
      PROVE  p = q
  <2> DEFINE i == Nth(C, PlacedAt(p, s, before))
             j == Nth(C, PlacedAt(q, s, before))
  <2>1. i \in C /\ j \in C /\ t[p] = Evaluate(cohort[i]) /\ t[q] = Evaluate(cohort[j])
    BY <1>1, <1>5
  <2>2. i = j => p = q
    BY <1>1, <1>5
  <2> HIDE DEF i, j
  <2>3. i \in 1 .. Len(cohort) /\ j \in 1 .. Len(cohort) /\ DOMAIN cohort = 1 .. Len(cohort)
    BY <2>1, RouterAssumption DEF C, EnteringPlaces
  <2>4. /\ Evaluate(cohort[i]).candidate = cohort[i] /\ Evaluate(cohort[j]).candidate = cohort[j]
        /\ cohort[i].duplicate = FALSE /\ cohort[j].duplicate = FALSE
    BY <2>1, <2>3, CandidateIs DEF C, EnteringPlaces
  <2>5. Policy.rule.instrumentLimit > 1
    BY <1>8, RuleLimits
  <2>6. cohort[i].id = cohort[j].id
    BY <1>8, <2>1, <2>4
  <2> QED BY <2>2, <2>3, <2>4, <2>5, <2>6 DEF CohortsAreNamed
<1> QED BY <1>1, <1>5, <1>6, <1>7, <1>8 DEF Ranking, C, s, n, E, before, t

----------------------------------------------------------------------------
TakenOf(cohort) ==
  LET s == Eligible(Evaluated(cohort)) IN FoldLeft(Admit, <<>>, Sorted(s, BeforeIn(Range(s))))

(* Whether a candidate that may enter is let in.                           *)
LetIn(cohort, d) ==
  LET s == Eligible(Evaluated(cohort))
  IN  \/ Len(s) <= Policy.maxEntries
      \/ /\ Policy.rule # NoRule /\ \A e \in Range(s) : RankOf(e.playbook) # 0
         /\ d.id \in {t.id : t \in Range(TakenOf(cohort))}

LEMMA ResolvedIs ==
  ASSUME NEW cohort \in Cohorts, NEW i \in 1 .. Len(cohort)
  PROVE  LET d == Evaluate(cohort[i])
             r == Resolved(Evaluated(cohort))[i]
         IN  /\ r.id = d.id /\ r.candidate = d.candidate
             /\ Enters(r) <=> Enters(d) /\ LetIn(cohort, d)
             /\ Enters(r) => r = d
<1> DEFINE D == Evaluated(cohort)
           s == Eligible(D)
           d == Evaluate(cohort[i])
           r == Resolved(D)[i]
           ids == {t.id : t \in Range(TakenOf(cohort))}
           rejects(reason) == IF Enters(d) THEN CapacityRejection(d, reason) ELSE d
           unranked == \E e \in Range(s) : RankOf(e.playbook) = 0
<1>1. i \in DOMAIN D /\ D[i] = d
  BY EvaluatedIs
<1>2. r = IF Len(s) <= Policy.maxEntries THEN d
          ELSE IF Policy.rule = NoRule THEN rejects("CAPACITY_RULE_MISSING")
          ELSE IF unranked THEN rejects("CAPACITY_PRIORITY_MISSING")
          ELSE IF d.id \in ids THEN d
          ELSE rejects("CAPACITY_REJECTED")
  <2> DEFINE taken == FoldLeft(Admit, <<>>,
                        Sorted(s, {p \in Range(s) \X Range(s) : Before(p[1], p[2])}))
             reject(reason) == IF Enters(D[i]) THEN CapacityRejection(D[i], reason) ELSE D[i]
  <2>1. taken = TakenOf(cohort)
    BY DEF TakenOf, BeforeIn
  <2> HIDE DEF taken, s, D, d
  <2>2. r = IF Len(s) <= Policy.maxEntries THEN D[i]
          ELSE IF Policy.rule = NoRule THEN reject("CAPACITY_RULE_MISSING")
          ELSE IF unranked THEN reject("CAPACITY_PRIORITY_MISSING")
          ELSE IF D[i].id \in {t.id : t \in Range(taken)} THEN D[i]
          ELSE reject("CAPACITY_REJECTED")
    BY <1>1, Zenon DEF Resolved, taken, s
  <2> QED BY <1>1, <2>1, <2>2
<1>3. \A reason : /\ ~Enters(CapacityRejection(d, reason))
                  /\ CapacityRejection(d, reason).candidate = d.candidate
                  /\ CapacityRejection(d, reason).id = d.id
  BY RejectionIs
<1>4. LetIn(cohort, d) <=> \/ Len(s) <= Policy.maxEntries
                           \/ Policy.rule # NoRule /\ ~unranked /\ d.id \in ids
  BY DEF LetIn
<1> HIDE DEF d, s, r, ids, unranked, D
<1>5. CASE r = d /\ (LetIn(cohort, d) \/ ~Enters(d))
  BY <1>5 DEF d, r, D
<1>6. CASE Enters(d) /\ ~LetIn(cohort, d) /\ \E reason : r = CapacityRejection(d, reason)
  BY <1>3, <1>6 DEF d, r, D
<1> QED BY <1>2, <1>4, <1>5, <1>6

(* A batch is one decision for each candidate.                             *)
LEMMA BatchIs ==
  ASSUME NEW cohort \in Cohorts
  PROVE  /\ DOMAIN Batches[cohort] = 1 .. Len(cohort) /\ Len(cohort) \in Nat
         /\ Range(Batches[cohort]) = {Resolved(Evaluated(cohort))[i] : i \in 1 .. Len(cohort)}
<1> DEFINE resolved == Resolved(Evaluated(cohort))
           before == {p \in Range(resolved) \X Range(resolved) :
                        p[1].candidate.id < p[2].candidate.id}
           n == Len(cohort)
<1>1. DOMAIN resolved = 1 .. n /\ n \in Nat
  <2>1. \A decisions : DOMAIN Resolved(decisions) = DOMAIN decisions
    BY DEF Resolved
  <2> QED BY <2>1, EvaluatedIs
<1>2. \A i \in 1 .. n : resolved[i].candidate.id \in Int
  <2>1. \A i \in 1 .. n : resolved[i].candidate = Evaluate(cohort[i]).candidate
    BY ResolvedIs
  <2>2. \A i \in 1 .. n : Evaluate(cohort[i]).candidate.id \in Int
    BY CandidateIs
  <2> HIDE DEF resolved
  <2> QED BY <2>1, <2>2
<1>3. Batches[cohort] = Sorted(resolved, before)
  BY DEF Batches, RouteBatch
<1> HIDE DEF resolved, n
<1>4. \A a \in Range(resolved) : a.candidate.id \in Int
  BY <1>1, <1>2 DEF Range
<1>5. \A a, b \in Range(resolved) : <<a, b>> \in before <=> a.candidate.id < b.candidate.id
  OBVIOUS
<1> HIDE DEF before
<1>6. WeakOrder(before, Range(resolved))
  BY <1>4, <1>5 DEF WeakOrder
<1>7. DOMAIN Sorted(resolved, before) = 1 .. n
  BY <1>1, <1>6, SortedIs DEF WeakOrder
<1>8. Range(Sorted(resolved, before)) = Range(resolved)
  BY <1>1, <1>6, SortedRange DEF WeakOrder
<1>9. Range(resolved) = {resolved[i] : i \in 1 .. n}
  BY <1>1 DEF Range
<1> QED BY <1>1, <1>3, <1>7, <1>8, <1>9 DEF resolved, n

(* The entries among the decisions of a batch are the expected ones.       *)
LEMMA RoutedIs ==
  ASSUME CohortsAreNamed, NEW cohort \in Cohorts
  PROVE  {d \in Range(Batches[cohort]) : Enters(d)} = Expected[cohort]
<1> DEFINE s == Eligible(Evaluated(cohort))
           E == Entering(cohort)
           C == EnteringPlaces(cohort)
           R(i) == Resolved(Evaluated(cohort))[i]
           ids == {t.id : t \in Range(TakenOf(cohort))}
           unranked == \E e \in E : RankOf(e.playbook) = 0
           entered == {d \in Range(Batches[cohort]) : Enters(d)}
<1>1. Range(s) = E
  BY EligibleIs
<1>2. E = {Evaluate(cohort[i]) : i \in {j \in 1 .. Len(cohort) : Enters(Evaluate(cohort[j]))}}
  BY DEF Entering, EnteringPlaces
<1>3. Range(Batches[cohort]) = {R(i) : i \in 1 .. Len(cohort)}
  BY BatchIs
<1>4. \A i \in 1 .. Len(cohort) :
        /\ Enters(R(i)) <=> Enters(Evaluate(cohort[i])) /\ LetIn(cohort, Evaluate(cohort[i]))
        /\ Enters(R(i)) => R(i) = Evaluate(cohort[i])
  BY ResolvedIs
<1> HIDE DEF R
<1>5. entered = {d \in E : LetIn(cohort, d)}
  BY <1>2, <1>3, <1>4
<1>6. \A d : LetIn(cohort, d) <=> \/ Len(s) <= Policy.maxEntries
                                  \/ Policy.rule # NoRule /\ ~unranked /\ d.id \in ids
  BY <1>1 DEF LetIn
<1>7. Expected[cohort] = IF Len(s) <= Policy.maxEntries THEN E
                         ELSE IF Policy.rule = NoRule \/ unranked THEN {} ELSE Best(E)
  <2> HIDE DEF E, s
  <2>1. Expected[cohort] = IF Len(s) <= Policy.maxEntries THEN Range(s)
          ELSE IF Policy.rule = NoRule \/ \E d \in Range(s) : RankOf(d.playbook) = 0 THEN {}
          ELSE Best(Range(s))
    BY DEF Expected, s
  <2> QED BY <1>1, <2>1
<1>8. ASSUME Policy.rule # NoRule PROVE {d \in E : d.id \in ids} = Best(E)
  <2>1. Entries(E)
    BY <1>8, EnteringAreEntries
  <2>2. Ranking(Sorted(s, BeforeIn(Range(s))), Cardinality(C), E) /\ Cardinality(C) \in Nat
    BY <1>8, RuleRanks, EligibleIs
  <2>3. Range(TakenOf(cohort)) = Best(E)
    <3> HIDE DEF C, E, s
    <3>1. Range(FoldLeft(Admit, <<>>, Sorted(s, BeforeIn(Range(s))))) = Best(E)
      BY <1>8, <2>1, <2>2, TakenAreTheBest
    <3> QED BY <3>1 DEF TakenOf, s
  <2>4. Best(E) \subseteq E
    BY DEF Best, OfSectors, OfInstruments, Foremost
  <2>5. ids = {t.id : t \in Best(E)}
    BY <2>3
  <2> HIDE DEF E, ids
  <2> QED BY <2>1, <2>4, <2>5 DEF Entries
<1> HIDE DEF E, s, ids, unranked, entered
<1>9. CASE Len(s) <= Policy.maxEntries
  BY <1>5, <1>6, <1>7, <1>9 DEF entered
<1>10. CASE ~(Len(s) <= Policy.maxEntries) /\ (Policy.rule = NoRule \/ unranked)
  BY <1>5, <1>6, <1>7, <1>10 DEF entered
<1>11. CASE ~(Len(s) <= Policy.maxEntries) /\ Policy.rule # NoRule /\ ~unranked
  BY <1>5, <1>6, <1>7, <1>8, <1>11 DEF entered
<1> QED BY <1>9, <1>10, <1>11 DEF entered

----------------------------------------------------------------------------
----------------------------------------------------------------------------
(* The router.  FileForm: the file is a sequence of lines, and one without *)
(* its newline is there.                                                   *)
Lines(f) == f = [i \in 1 .. Len(f) |-> f[i]] /\ Len(f) \in Nat

FileForm ==
  /\ Lines(file) /\ (~newline => file # <<>>)
  /\ \A r \in returned : r.sequence \in Nat
  /\ ReturnedIsKept

LEMMA LinesAreSeq ==
  ASSUME NEW f, Lines(f)
  PROVE  f \in Seq(Range(f)) /\ DOMAIN f = 1 .. Len(f)
BY DEF Lines, Range

LEMMA SeqAreLines ==
  ASSUME NEW S, NEW f \in Seq(S)
  PROVE  Lines(f)
BY DEF Lines

(* The new records are a sequence, numbered from the end of the file: they *)
(* have the decisions that it has not, each of them once.                  *)
LEMMA NewRecordsForm ==
  ASSUME NEW cohort \in Cohorts
  PROVE  LET batch == Batches[cohort]
             new == NewRecords(batch)
         IN  /\ Lines(new) /\ \A k \in 1 .. Len(new) : new[k].sequence = Len(file) + k
             /\ \A k \in 1 .. Len(new) :
                  new[k].decision \in Range(batch) /\ Recorded(new[k].decision) = {}
             /\ \A d \in Range(batch) :
                  Recorded(d) = {} => \E k \in 1 .. Len(new) : new[k].decision = d
<1> DEFINE batch == Batches[cohort]
           chosen == {i \in DOMAIN batch : /\ Recorded(batch[i]) = {}
                                           /\ \A j \in 1 .. i - 1 : batch[j] # batch[i]}
           fresh == Picked(batch, chosen)
           n == Cardinality(chosen)
           new == NewRecords(batch)
<1>1. DOMAIN batch = 1 .. Len(cohort) /\ Len(cohort) \in Nat
  BY BatchIs
<1>2. new = [k \in DOMAIN fresh |-> [sequence |-> Len(file) + k, decision |-> fresh[k]]]
  BY DEF NewRecords
<1>3. \A i \in chosen : i \in 1 .. Len(cohort) /\ batch[i] \in Range(batch) /\ Recorded(batch[i]) = {}
  BY <1>1 DEF Range
<1>4. ASSUME NEW d \in Range(batch), Recorded(d) = {} PROVE \E i \in chosen : batch[i] = d
  <2> DEFINE places == {i \in 1 .. Len(cohort) : batch[i] = d}
  <2>1. places # {} /\ places \in SUBSET Nat
    BY <1>1 DEF Range
  <2> DEFINE i == Min(places)
  <2>2. i \in places /\ \A j \in places : i <= j
    <3> HIDE DEF places
    <3> QED BY <2>1, SmallestNumber
  <2> HIDE DEF i, batch
  <2>3. ASSUME NEW j \in 1 .. i - 1 PROVE batch[j] # d
    <3>1. j \in 1 .. Len(cohort) /\ ~(i <= j)
      BY <1>1, <2>2
    <3> QED BY <2>2, <3>1
  <2>4. i \in DOMAIN batch /\ batch[i] = d
    BY <1>1, <2>2
  <2>5. i \in chosen
    BY <1>4, <2>3, <2>4
  <2> QED BY <2>4, <2>5
<1> HIDE DEF new, batch, chosen, fresh
<1>5. /\ n \in Nat /\ DOMAIN fresh = 1 .. n
      /\ \A k \in 1 .. n : Nth(chosen, k) \in chosen /\ fresh[k] = batch[Nth(chosen, k)]
      /\ \A i \in chosen : \E k \in 1 .. n : Nth(chosen, k) = i
  <2>1. chosen \in SUBSET (1 .. Len(cohort))
    BY <1>3
  <2> QED BY <1>1, <2>1, PickedIs DEF fresh
<1> HIDE DEF n
<1>6. /\ Len(new) = n /\ DOMAIN new = 1 .. n /\ new = [k \in 1 .. n |-> new[k]]
      /\ \A k \in 1 .. n : new[k].sequence = Len(file) + k /\ new[k].decision = fresh[k]
  BY <1>2, <1>5
<1>7. ASSUME NEW k \in 1 .. n
      PROVE  new[k].decision \in Range(batch) /\ Recorded(new[k].decision) = {}
  <2>1. new[k].decision = batch[Nth(chosen, k)] /\ Nth(chosen, k) \in chosen
    BY <1>5, <1>6
  <2> QED BY <1>3, <2>1
<1>8. \A d \in Range(batch) : Recorded(d) = {} => \E k \in 1 .. n : new[k].decision = d
  BY <1>4, <1>5, <1>6
<1> QED BY <1>5, <1>6, <1>7, <1>8 DEF Lines, new, batch

(* Lines that are written: onto what is there, or onto the last line.      *)
LEMMA FileGrows ==
  ASSUME FileForm, NEW lines, Lines(lines)
  PROVE  LET f == FileWith(lines)
         IN  /\ Lines(f) /\ (lines # <<>> => f # <<>>) /\ (lines = <<>> => f = file)
             /\ \A i \in DOMAIN file : i < Len(file) \/ newline => i \in DOMAIN f /\ f[i] = file[i]
             /\ ~newline /\ lines # <<>> =>
                  Len(file) \in DOMAIN f /\ f[Len(file)] = Joined
             /\ newline => \A k \in 1 .. Len(lines) :
                  Len(file) + k \in DOMAIN f /\ f[Len(file) + k] = lines[k]
             /\ Range(f) \subseteq Range(file) \cup Range(lines) \cup {Joined}
<1> DEFINE f == FileWith(lines)
<1>1. /\ file \in Seq(Range(file)) /\ DOMAIN file = 1 .. Len(file)
      /\ lines \in Seq(Range(lines)) /\ DOMAIN lines = 1 .. Len(lines)
  BY LinesAreSeq DEF FileForm
<1> DEFINE S == Range(file) \cup Range(lines) \cup {Joined}
<1>2. file \in Seq(S) /\ lines \in Seq(S) /\ Joined \in S
  BY <1>1 DEF Lines, FileForm
<1>3. \A g \in Seq(S) : Range(g) \subseteq Range(file) \cup Range(lines) \cup {Joined}
  BY DEF Range
<1> HIDE DEF S
<1>4. CASE newline \/ lines = <<>>
  <2>1. f = file \o lines
    BY <1>4 DEF FileWith
  <2>2. /\ f \in Seq(S) /\ Len(f) = Len(file) + Len(lines)
        /\ \A i \in 1 .. Len(f) : f[i] = IF i <= Len(file) THEN file[i] ELSE lines[i - Len(file)]
    BY <1>2, <2>1, ConcatProperties
  <2>3. /\ Lines(f) /\ Len(file) \in Nat /\ Len(lines) \in Nat
        /\ Range(f) \subseteq Range(file) \cup Range(lines) \cup {Joined}
    BY <1>2, <1>3, <2>2, SeqAreLines DEF Lines
  <2>4. lines = <<>> => f = file
    BY <1>2, <2>1
  <2>5. lines # <<>> => f # <<>>
    BY <1>2, <2>2, <2>3
  <2> HIDE DEF f
  <2>6. \A i \in DOMAIN file : i \in DOMAIN f /\ f[i] = file[i]
    BY <1>1, <2>2, <2>3 DEF Lines
  <2>7. \A k \in 1 .. Len(lines) : Len(file) + k \in DOMAIN f /\ f[Len(file) + k] = lines[k]
    BY <2>2, <2>3 DEF Lines
  <2> QED BY <1>4, <2>3, <2>4, <2>5, <2>6, <2>7 DEF f
<1>5. CASE ~newline /\ lines # <<>>
  <2> DEFINE g == Front(file) \o <<Joined>>
  <2>1. f = g \o Tail(lines)
    BY <1>5 DEF FileWith
  <2>2. file # <<>> /\ Len(file) \in Nat \ {0}
    BY <1>2, <1>5 DEF FileForm
  <2>3. /\ Front(file) \in Seq(S) /\ Len(Front(file)) = Len(file) - 1
        /\ \A i \in 1 .. Len(file) - 1 : Front(file)[i] = file[i]
    <3>1. \A i \in 1 .. Len(file) - 1 : file[i] \in S
      BY <1>2, <2>2
    <3>2. 1 \in Int /\ Len(file) - 1 \in Int
      BY <2>2
    <3>3. /\ SubSeq(file, 1, Len(file) - 1) \in Seq(S)
          /\ Len(SubSeq(file, 1, Len(file) - 1)) =
               IF 1 <= Len(file) - 1 THEN Len(file) - 1 - 1 + 1 ELSE 0
          /\ \A i \in 1 .. Len(file) - 1 - 1 + 1 :
               SubSeq(file, 1, Len(file) - 1)[i] = file[1 + i - 1]
      BY <3>1, <3>2, SubSeqProperties
    <3>4. Len(file) - 1 - 1 + 1 = Len(file) - 1 /\ \A i \in 1 .. Len(file) - 1 : 1 + i - 1 = i
      BY <2>2
    <3> QED BY <2>2, <3>3, <3>4 DEF Front
  <2>4. <<Joined>> \in Seq(S) /\ Len(<<Joined>>) = 1 /\ <<Joined>>[1] = Joined
    BY <1>2
  <2>5. /\ g \in Seq(S) /\ Len(g) = Len(file)
        /\ \A i \in 1 .. Len(file) - 1 : g[i] = file[i]
        /\ g[Len(file)] = Joined
    BY <2>2, <2>3, <2>4, ConcatProperties
  <2>6. Tail(lines) \in Seq(S)
    BY <1>2, <1>5
  <2> HIDE DEF g, f
  <2>7. /\ f \in Seq(S) /\ Len(f) \in Nat /\ Len(file) <= Len(f)
        /\ \A i \in 1 .. Len(file) : f[i] = g[i]
    BY <2>1, <2>2, <2>5, <2>6, ConcatProperties
  <2>8. /\ Lines(f) /\ DOMAIN f = 1 .. Len(f) /\ f # <<>>
        /\ Range(f) \subseteq Range(file) \cup Range(lines) \cup {Joined}
    BY <1>3, <2>2, <2>7, SeqAreLines
  <2>9. \A i \in DOMAIN file : i < Len(file) => i \in DOMAIN f /\ f[i] = file[i]
    BY <1>1, <2>2, <2>5, <2>7, <2>8
  <2>10. Len(file) \in DOMAIN f /\ f[Len(file)] = Joined
    BY <2>2, <2>5, <2>7, <2>8
  <2> QED BY <1>5, <2>8, <2>9, <2>10 DEF f
<1> QED BY <1>4, <1>5

(* The last line without its newline was written, or is the old one; what  *)
(* is returned was there or is written.                                    *)
Ends(lines) == ~newline' => ~newline \/ lines # <<>>
Returns(R, lines) ==
  /\ returned' = returned \cup R
  /\ \A r \in R : \/ r \in Range(file)
                 \/ \E k \in 1 .. Len(lines) : r = lines[k] /\ r.sequence = Len(file) + k

(* A write to a file that can be read keeps what was returned, and what it *)
(* returns itself.                                                         *)
LEMMA WriteKeeps ==
  ASSUME FileForm, Readable, NEW lines, Lines(lines), file' = FileWith(lines),
         Ends(lines), NEW R, Returns(R, lines)
  PROVE  FileForm'
<1> DEFINE f == FileWith(lines)
<1>1. /\ Lines(f) /\ (lines # <<>> => f # <<>>) /\ (lines = <<>> => f = file)
      /\ \A i \in DOMAIN file : i < Len(file) \/ newline => i \in DOMAIN f /\ f[i] = file[i]
      /\ ~newline /\ lines # <<>> => Len(file) \in DOMAIN f /\ f[Len(file)] = Joined
      /\ newline => \A k \in 1 .. Len(lines) :
           Len(file) + k \in DOMAIN f /\ f[Len(file) + k] = lines[k]
  BY FileGrows
<1> HIDE DEF f
<1>2. file' = f
  BY DEF f
<1>3. /\ DOMAIN file = 1 .. Len(file) /\ Len(file) \in Nat
      /\ Len(lines) \in Nat /\ (lines = <<>> => Len(lines) = 0)
      /\ file \in Seq(Range(file))
  BY LinesAreSeq DEF FileForm, Lines
<1>4. Lines(file') /\ (~newline' => file' # <<>>)
  BY <1>1, <1>2 DEF FileForm, Ends
<1> DEFINE Kept(r) == r.sequence \in DOMAIN file /\ file[r.sequence] = r
           Clear(r) == \A i \in DOMAIN f : f[i] = Joined => i > r.sequence
<1>5. \A r \in returned : Kept(r)
  BY DEF FileForm, ReturnedIsKept, Readable, IsRecord
<1>6. \A r \in Range(file) : Kept(r)
  BY DEF Range, Readable
<1>7. ASSUME NEW r, Kept(r), Clear(r)
      PROVE  r.sequence \in DOMAIN f /\ f[r.sequence] = r
  <2> DEFINE i == r.sequence
  <2>1. i \in DOMAIN file /\ file[i] = r /\ i \in Nat /\ i <= Len(file)
    BY <1>3, <1>7
  <2>2. CASE i < Len(file) \/ newline
    BY <1>1, <2>1, <2>2
  <2>3. CASE i = Len(file) /\ ~newline
    <3>1. lines = <<>>
      <4>1. ~(Len(file) > i)
        BY <1>3, <2>3
      <4> QED BY <1>1, <1>7, <2>3, <4>1
    <3> QED BY <1>1, <2>1, <3>1
  <2> QED BY <1>3, <2>1, <2>2, <2>3
<1>8. ASSUME NEW r, NEW k \in 1 .. Len(lines), r = lines[k], r.sequence = Len(file) + k, Clear(r)
      PROVE  r.sequence \in DOMAIN f /\ f[r.sequence] = r
  <2>1. CASE newline
    BY <1>1, <1>8, <2>1
  <2>2. CASE ~newline
    <3>1. lines # <<>> /\ ~(Len(file) > r.sequence)
      BY <1>3, <1>8
    <3> QED BY <1>1, <1>8, <2>2, <3>1
  <2> QED BY <2>1, <2>2
<1>9. \A r \in returned' : r.sequence \in Nat
  <2>1. \A r : Kept(r) => r.sequence \in Nat
    BY <1>3
  <2>2. \A k \in 1 .. Len(lines) : Len(file) + k \in Nat
    BY <1>3
  <2> HIDE DEF Kept
  <2> QED BY <1>5, <1>6, <2>1, <2>2 DEF Returns
<1>10. \A r \in returned' : Clear(r) => r.sequence \in DOMAIN f /\ f[r.sequence] = r
  <2> HIDE DEF Kept, Clear
  <2> QED BY <1>5, <1>6, <1>7, <1>8 DEF Returns
<1>11. ReturnedIsKept'
  BY <1>2, <1>10 DEF ReturnedIsKept
<1> QED BY <1>4, <1>9, <1>11 DEF FileForm

LEMMA ReturnsNothing ==
  ASSUME FileForm, Readable, NEW lines, Lines(lines), file' = FileWith(lines),
         Ends(lines), returned' = returned
  PROVE  FileForm'
<1>1. Returns({}, lines)
  BY DEF Returns
<1> QED BY <1>1, WriteKeeps

LEMMA AppendAllKeeps ==
  ASSUME FileForm, NEW cohort \in Cohorts, AppendAll(cohort)
  PROVE  FileForm'
<1> DEFINE batch == Batches[cohort]
           new == NewRecords(batch)
           old == UNION {Recorded(d) : d \in Range(batch)}
           R == Range(new) \cup old
<1>1. Lines(new) /\ \A k \in 1 .. Len(new) : new[k].sequence = Len(file) + k
  BY NewRecordsForm
<1>2. /\ Readable /\ file' = FileWith(new) /\ newline' = (newline \/ new # <<>>)
      /\ returned' = returned \cup Range(new) \cup old
  BY DEF AppendAll
<1>3. \A r \in old : r \in Range(file)
  BY DEF Recorded
<1> HIDE DEF old, new
<1>4. returned' = returned \cup R
  BY <1>2
<1>5. \A r \in Range(new) : \E k \in 1 .. Len(new) : r = new[k] /\ r.sequence = Len(file) + k
  BY <1>1 DEF Lines, Range
<1>6. Returns(R, new)
  BY <1>3, <1>4, <1>5 DEF Returns
<1>7. Ends(new)
  BY <1>2 DEF Ends
<1> HIDE DEF R
<1> QED BY <1>1, <1>2, <1>6, <1>7, WriteKeeps

LEMMA AppendBreaksKeeps ==
  ASSUME FileForm, NEW cohort \in Cohorts, AppendBreaks(cohort)
  PROVE  FileForm'
<1> DEFINE new == NewRecords(Batches[cohort])
<1>1. Lines(new)
  BY NewRecordsForm
<1>2. Readable /\ returned' = returned
  BY DEF AppendBreaks
<1>3. PICK k \in 0 .. Len(new) :
        LET whole == SubSeq(new, 1, k)
        IN  \/ file' = FileWith(whole) /\ newline' = (newline \/ k > 0)
            \/ k > 0 /\ file' = FileWith(whole) /\ newline' = FALSE
            \/ k < Len(new) /\ file' = FileWith(Append(whole, Torn)) /\ newline' = FALSE
  BY DEF AppendBreaks
<1> HIDE DEF new
<1> DEFINE S == Range(new) \cup {Torn}
           whole == SubSeq(new, 1, k)
<1>4. Len(new) \in Nat /\ k \in Nat /\ \A i \in 1 .. k : new[i] \in S
  BY <1>1, LinesAreSeq DEF Lines, Range
<1> HIDE DEF S
<1>5. whole \in Seq(S) /\ Len(whole) = k
  BY <1>4, SubSeqProperties
<1>6. CASE file' = FileWith(whole) /\ (~newline' => ~newline \/ k > 0)
  <2> HIDE DEF whole
  <2>1. Lines(whole)
    BY <1>5, SeqAreLines
  <2>2. whole = <<>> => k = 0
    BY <1>5
  <2>3. Ends(whole)
    BY <1>6, <2>2 DEF Ends
  <2> QED BY <1>2, <1>6, <2>1, <2>3, ReturnsNothing
<1>7. CASE file' = FileWith(Append(whole, Torn)) /\ newline' = FALSE
  <2>1. Torn \in S
    BY DEF S
  <2> HIDE DEF whole
  <2>2. Append(whole, Torn) \in Seq(S) /\ Append(whole, Torn) # <<>>
    BY <1>5, <2>1, AppendProperties
  <2>3. Lines(Append(whole, Torn))
    BY <2>2, SeqAreLines
  <2>4. Ends(Append(whole, Torn))
    BY <2>2 DEF Ends
  <2> QED BY <1>2, <1>7, <2>3, <2>4, ReturnsNothing
<1>8. \/ file' = FileWith(whole) /\ newline' = (newline \/ k > 0)
      \/ k > 0 /\ file' = FileWith(whole) /\ newline' = FALSE
      \/ file' = FileWith(Append(whole, Torn)) /\ newline' = FALSE
  BY <1>3
<1> HIDE DEF whole
<1> QED BY <1>6, <1>7, <1>8

----------------------------------------------------------------------------
(* What was returned, and for whom.  RoutedForm: of a cohort that was      *)
(* answered each decision was returned, whatever is returned or can be     *)
(* read in the file was decided for a cohort, and an id has one decision.  *)
Known(d) == \E cohort \in Cohorts : d \in Range(Batches[cohort])
Answered(cohort) == \A d \in Range(Batches[cohort]) : \E r \in returned : r.decision = d

RoutedForm ==
  /\ routed \subseteq Cohorts /\ \A cohort \in routed : Answered(cohort)
  /\ \A r \in returned \cup (Range(file) \ {Torn, Joined}) : Known(r.decision)
  /\ \A r, s \in returned : r.decision.id = s.decision.id => r.decision = s.decision

(* In a file that can be read an id is there once, and so is whatever was  *)
(* returned.                                                               *)
LEMMA ReadableIs ==
  ASSUME FileForm, Readable
  PROVE  /\ returned \subseteq Range(file) /\ Range(file) \cap {Torn, Joined} = {}
         /\ \A r, s \in Range(file) : r.decision.id = s.decision.id => r = s
<1>1. DOMAIN file = 1 .. Len(file) /\ Len(file) \in Nat
  BY LinesAreSeq DEF FileForm, Lines
<1>2. Range(file) \cap {Torn, Joined} = {}
  BY DEF Readable, IsRecord, Range
<1>3. returned \subseteq Range(file)
  BY DEF FileForm, ReturnedIsKept, Readable, IsRecord, Range
<1>4. ASSUME NEW i \in DOMAIN file, NEW j \in DOMAIN file, file[i].decision.id = file[j].decision.id
      PROVE  i = j
  <2>1. CASE j < i
    BY <1>1, <1>4, <2>1 DEF Readable
  <2>2. CASE i < j
    BY <1>1, <1>4, <2>2 DEF Readable
  <2> QED BY <1>1, <2>1, <2>2
<1>5. \A r, s \in Range(file) : r.decision.id = s.decision.id => r = s
  BY <1>4 DEF Range
<1> QED BY <1>2, <1>3, <1>5

LEMMA AppendAllRoutes ==
  ASSUME FileForm, RoutedForm, NEW cohort \in Cohorts, AppendAll(cohort)
  PROVE  RoutedForm'
<1> DEFINE batch == Batches[cohort]
           new == NewRecords(batch)
           old == UNION {Recorded(d) : d \in Range(batch)}
<1>1. /\ Readable /\ ~Conflicts(batch) /\ file' = FileWith(new) /\ routed' = routed \cup {cohort}
      /\ returned' = returned \cup Range(new) \cup old
  BY DEF AppendAll
<1>2. /\ returned \subseteq Range(file) /\ Range(file) \cap {Torn, Joined} = {}
      /\ \A r, s \in Range(file) : r.decision.id = s.decision.id => r = s
  BY <1>1, ReadableIs
<1>3. /\ Lines(new)
      /\ \A k \in 1 .. Len(new) : new[k].decision \in Range(batch) /\ Recorded(new[k].decision) = {}
      /\ \A d \in Range(batch) : Recorded(d) = {} => \E k \in 1 .. Len(new) : new[k].decision = d
  BY NewRecordsForm
<1>4. \A d \in Range(batch) : Recorded(d) \subseteq Range(file) /\ Recorded(d) \subseteq old
  BY DEF Recorded
<1>5. old \subseteq Range(file)
  BY <1>4
<1>6. /\ \A d \in Range(batch) : \A r \in Recorded(d) : r.decision = d
      /\ \A d, e \in Range(batch) : d.id = e.id => d = e
  <2>1. DOMAIN batch = 1 .. Len(cohort) /\ Len(cohort) \in Nat
    BY BatchIs
  <2> HIDE DEF batch
  <2>2. \A d \in Range(batch) : \A r \in Recorded(d) : r.decision = d
    BY <1>1 DEF Conflicts, Range
  <2>3. ASSUME NEW i \in DOMAIN batch, NEW j \in DOMAIN batch, batch[i].id = batch[j].id
        PROVE  batch[i] = batch[j]
    <3>1. \A k \in DOMAIN batch : \A l \in 1 .. k - 1 : batch[l].id = batch[k].id => batch[l] = batch[k]
      BY <1>1 DEF Conflicts
    <3>2. i = j \/ i \in 1 .. j - 1 \/ j \in 1 .. i - 1
      BY <2>1
    <3> QED BY <2>3, <3>1, <3>2
  <2>4. \A d, e \in Range(batch) : d.id = e.id => d = e
    BY <2>3 DEF Range
  <2> QED BY <2>2, <2>4
<1>7. \A d : Recorded(d) = {} <=> \A r \in Range(file) : r.decision.id # d.id
  BY DEF Recorded
<1>8. DOMAIN new = 1 .. Len(new) /\ Range(new) = {new[k] : k \in 1 .. Len(new)}
  BY <1>3, LinesAreSeq DEF Range
<1> HIDE DEF new, old, batch
<1>9. \A r \in Range(new) : r.decision \in Range(batch) /\ Recorded(r.decision) = {}
  BY <1>3, <1>8
<1>10. returned' \subseteq Range(file) \cup Range(new)
  BY <1>1, <1>2, <1>5
<1>11. Answered(cohort)'
  <2> SUFFICES ASSUME NEW d \in Range(batch) PROVE \E r \in returned' : r.decision = d
    BY DEF Answered, batch
  <2>1. CASE Recorded(d) = {}
    BY <1>1, <1>3, <1>8, <2>1
  <2>2. CASE Recorded(d) # {}
    BY <1>1, <1>4, <1>6, <2>2
  <2> QED BY <2>1, <2>2
<1>12. \A c \in routed : Answered(c)'
  BY <1>1 DEF RoutedForm, Answered
<1>13. \A r \in Range(file) \cup Range(new) : Known(r.decision)
  BY <1>2, <1>9 DEF RoutedForm, Known, batch
<1>14. Range(file') \subseteq Range(file) \cup Range(new) \cup {Joined}
  BY <1>1, <1>3, FileGrows
<1>15. \A r \in returned' \cup (Range(file') \ {Torn, Joined}) : Known(r.decision)
  BY <1>10, <1>13, <1>14
<1>16. \A r, s \in Range(file) \cup Range(new) : r.decision.id = s.decision.id => r.decision = s.decision
  <2>1. \A r \in Range(new) : \A s \in Range(file) : s.decision.id # r.decision.id
    BY <1>7, <1>9
  <2> QED BY <1>2, <1>6, <1>9, <2>1
<1>17. \A r, s \in returned' : r.decision.id = s.decision.id => r.decision = s.decision
  BY <1>10, <1>16
<1>18. routed' \subseteq Cohorts /\ \A c \in routed' : Answered(c)'
  BY <1>1, <1>11, <1>12 DEF RoutedForm
<1> QED BY <1>15, <1>17, <1>18 DEF RoutedForm, Known

LEMMA AppendBreaksRoutes ==
  ASSUME FileForm, RoutedForm, NEW cohort \in Cohorts, AppendBreaks(cohort)
  PROVE  RoutedForm'
<1> DEFINE new == NewRecords(Batches[cohort])
           S == Range(new) \cup {Torn}
<1>1. UNCHANGED <<returned, routed>>
  BY DEF AppendBreaks
<1>2. PICK k \in 0 .. Len(new) :
        LET whole == SubSeq(new, 1, k)
        IN  file' = FileWith(whole) \/ file' = FileWith(Append(whole, Torn))
  BY DEF AppendBreaks
<1>3. /\ Lines(new)
      /\ \A i \in 1 .. Len(new) : new[i].decision \in Range(Batches[cohort])
  BY NewRecordsForm
<1> HIDE DEF new
<1>4. Len(new) \in Nat /\ k \in Nat /\ \A i \in 1 .. k : new[i] \in S
  BY <1>3, LinesAreSeq DEF Lines, Range
<1>5. \A r \in Range(new) : Known(r.decision)
  BY <1>3, LinesAreSeq DEF Range, Known
<1> HIDE DEF S
<1>6. SubSeq(new, 1, k) \in Seq(S)
  BY <1>4, SubSeqProperties
<1>7. Torn \in S
  BY DEF S
<1>8. PICK lines \in Seq(S) : file' = FileWith(lines)
  BY <1>2, <1>6, <1>7, AppendProperties
<1>9. Lines(lines) /\ Range(lines) \subseteq S
  BY SeqAreLines DEF Range
<1>10. Range(file') \subseteq Range(file) \cup S \cup {Joined}
  BY <1>8, <1>9, FileGrows
<1>11. \A r \in returned \cup (Range(file') \ {Torn, Joined}) : Known(r.decision)
  BY <1>5, <1>10 DEF S, RoutedForm
<1> QED BY <1>1, <1>11 DEF RoutedForm, Known, Answered

(* What has the id of an entry of the cohort is that entry.                *)
LEMMA RoutedAreTheBest ==
  ASSUME CohortsAreNamed, RoutedForm, NEW cohort \in routed
  PROVE  {d \in {r.decision : r \in {s \in returned : Enters(s.decision)}} :
            d.candidate \in Range(cohort)} = Expected[cohort]
<1> DEFINE entered == {d \in Range(Batches[cohort]) : Enters(d)}
           R(c, i) == Resolved(Evaluated(c))[i]
<1>1. cohort \in Cohorts /\ Answered(cohort)
  BY DEF RoutedForm
<1>2. \A c \in Cohorts : \A i \in 1 .. Len(c) :
        /\ R(c, i).id = Evaluate(c[i]).id
        /\ Enters(R(c, i)) =>
             R(c, i) = Evaluate(c[i]) /\ Evaluate(c[i]).candidate = c[i]
  BY ResolvedIs, CandidateIs
<1>3. \A c \in Cohorts : /\ DOMAIN c = 1 .. Len(c)
                         /\ Range(Batches[c]) = {R(c, i) : i \in 1 .. Len(c)}
  BY BatchIs, RouterAssumption
<1> HIDE DEF R
<1>4. ASSUME NEW d \in entered
      PROVE  d.candidate \in Range(cohort) /\ \E r \in returned : r.decision = d /\ Enters(r.decision)
  <2>1. PICK i \in 1 .. Len(cohort) : d = R(cohort, i)
    BY <1>1, <1>3
  <2>2. d.candidate = cohort[i] /\ i \in DOMAIN cohort
    BY <1>1, <1>2, <1>3, <2>1
  <2> QED BY <1>1, <2>2 DEF Answered, Range
<1>5. ASSUME NEW r \in returned, Enters(r.decision), r.decision.candidate \in Range(cohort)
      PROVE  r.decision \in entered
  <2> DEFINE d == r.decision
  <2>1. PICK c \in Cohorts : d \in Range(Batches[c])
    BY DEF RoutedForm, Known
  <2>2. PICK j \in 1 .. Len(c) : d = R(c, j)
    BY <1>3, <2>1
  <2>3. d = Evaluate(c[j]) /\ d.candidate = c[j]
    BY <1>2, <1>5, <2>2
  <2>4. PICK i \in 1 .. Len(cohort) : d.candidate = cohort[i]
    BY <1>1, <1>3, <1>5 DEF Range
  <2>5. R(cohort, i).id = d.id
    BY <1>1, <1>2, <2>3, <2>4
  <2>6. PICK s \in returned : s.decision = R(cohort, i)
    BY <1>1, <1>3 DEF Answered
  <2>7. d = R(cohort, i)
    BY <2>5, <2>6 DEF RoutedForm
  <2> QED BY <1>1, <1>3, <1>5, <2>7
<1>6. entered = Expected[cohort]
  BY <1>1, RoutedIs
<1> HIDE DEF entered
<1> QED BY <1>4, <1>5, <1>6

----------------------------------------------------------------------------
(* The file and what was returned from it.                                 *)
RouterInv == FileForm /\ RoutedForm

LEMMA RouterInitInv == RouterInit => RouterInv
BY DEF RouterInit, RouterInv, FileForm, RoutedForm, Lines, ReturnedIsKept, Range

LEMMA RouterNextInv == RouterInv /\ [RouterNext]_routerVars => RouterInv'
<1> SUFFICES ASSUME RouterInv, [RouterNext]_routerVars PROVE RouterInv'
  OBVIOUS
<1>1. FileForm /\ RoutedForm
  BY DEF RouterInv
<1>2. CASE UNCHANGED routerVars
  BY <1>1, <1>2 DEF routerVars, RouterInv, FileForm, RoutedForm, ReturnedIsKept, Known, Answered
<1>3. ASSUME NEW cohort \in Cohorts, AppendAll(cohort) PROVE RouterInv'
  BY <1>1, <1>3, AppendAllKeeps, AppendAllRoutes DEF RouterInv
<1>4. ASSUME NEW cohort \in Cohorts, AppendBreaks(cohort) PROVE RouterInv'
  BY <1>1, <1>4, AppendBreaksKeeps, AppendBreaksRoutes DEF RouterInv
<1> QED BY <1>2, <1>3, <1>4 DEF RouterNext

(* The form of the file, and of what was returned, is kept by every append *)
(* and every broken one.                                                   *)
THEOREM RouterSafe == RouterSpec => []RouterInv
BY RouterInitInv, RouterNextInv, PTL DEF RouterSpec

(* What append_all has returned stays in the file.                         *)
THEOREM RouterKeeps == RouterSpec => []ReturnedIsKept
<1>1. RouterInv => ReturnedIsKept
  BY DEF RouterInv, FileForm
<1> QED BY <1>1, RouterSafe, PTL

(* The entries the ledger has of a cohort are the best of it, as many as   *)
(* the rule's limits let in, when candidates are known by their ids.       *)
THEOREM RouterEntersTheBest ==
  ASSUME CohortsAreNamed
  PROVE  RouterSpec => []EntriesAreTheBest
<1>1. RouterInv => EntriesAreTheBest
  BY RoutedAreTheBest DEF RouterInv, EntriesAreTheBest
<1> QED BY <1>1, RouterSafe, PTL
=============================================================================
