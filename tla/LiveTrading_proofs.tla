------------------------- MODULE LiveTrading_proofs -------------------------
(***************************************************************************)
(* oms-live, for any orders, symbols and faults: what it records is what   *)
(* the broker filled, and a closeout that says it is clear is.             *)
(*                                                                         *)
(* The broker's log only grows, and a task that has sent an order has one  *)
(* place of it to itself until its trade is recorded.  Only the stream     *)
(* works on messages, so what it found out about a message before it sent  *)
(* the order still holds when it records the fill.                         *)
(*                                                                         *)
(* Rows follow trades for another reason: the broker accepts no sale of    *)
(* more than is free, and every task asks to sell at least the whole row,  *)
(* so that one sale at a time can be accepted.                             *)
(***************************************************************************)
EXTENDS LiveTrading, SequenceTheorems, SumTheorems

Fields(r, F) == r = [f \in F |-> r[f]]
Ids == Nat \cup {Exit}
Sale == [id : {Exit}, symbol : Symbols, side : {"SELL"}, qty : Nat \ {0}]
Sending == [ order : Ids, symbol : Symbols, side : {"BUY", "SELL"}, qty : Nat \ {0},
             cum : Nat, working : BOOLEAN ]

(* How the broker's log goes on.                                           *)
Grown(B, C) ==
  /\ C \in Seq(Sending) /\ DOMAIN B \subseteq DOMAIN C
  /\ \A i \in DOMAIN B : /\ C[i].order = B[i].order /\ C[i].symbol = B[i].symbol
                         /\ C[i].side = B[i].side /\ B[i].cum <= C[i].cum

Same(b, id, s, side) == b.order = id /\ b.symbol = s /\ b.side = side

(* A task between its order and the record of its fill.                    *)
Placed(j) == j.pc \in {"poll", "cancel", "read", "insert"}

JobForm(w, j) ==
  /\ Fields(j, {"pc", "order", "existing", "sent", "fill", "seen"})
  /\ j.existing \in Int
  /\ w = "closeout" => j.pc \in {"idle", "pnl", "add"}
  /\ Placed(j) \/ j.pc \in {"send", "write"} =>
       j.order \in IF w = "stream" THEN Order \cup Sale ELSE Sale
  /\ j.pc = "check" => j.order \in Order
  /\ j.pc \in {"read", "insert", "write"} => j.fill \in Nat

JobFits(j, B, T) ==
  /\ Placed(j) =>
       /\ j.sent \in DOMAIN B /\ Same(B[j.sent], j.order.id, j.order.symbol, j.order.side)
       /\ \A t \in T : t.sent # j.sent
  /\ j.pc \in {"read", "insert"} => j.fill <= B[j.sent].cum
  /\ (Placed(j) \/ j.pc = "send") /\ j.order.id # Exit => \A t \in T : t.order # j.order.id

JobsInv(J, B, T) ==
  /\ J = [w \in Tasks |-> J[w]]
  /\ \A w \in Tasks : JobForm(w, J[w]) /\ JobFits(J[w], B, T)
  /\ \A w, v \in Tasks : Placed(J[w]) /\ Placed(J[v]) /\ J[w].sent = J[v].sent => w = v

TradesInv(B, T) ==
  /\ \A t \in T : /\ t.sent \in DOMAIN B /\ Same(B[t.sent], t.order, t.symbol, t.side)
                  /\ t.qty \in Nat /\ t.qty <= B[t.sent].cum
  /\ \A t, u \in T : t.sent = u.sent \/ (t.order # Exit /\ t.order = u.order) => t = u

(* What the broker filled, as a sum over its log, and what the closeout    *)
(* may conclude from it.                                                   *)
CumOf(B) == [i \in DOMAIN B |-> B[i].cum]
Filled(B, s, side) ==
  SumOver(CumOf(B), {i \in DOMAIN B : B[i].symbol = s /\ B[i].side = side})

CloseoutInv(c, B) ==
  /\ Fields(c, {"at", "listed", "bought", "result"})
  /\ c.listed \in [Symbols -> Int] /\ c.bought \in [Symbols -> Int]
  /\ \A s \in Symbols : c.bought[s] <= Filled(B, s, "BUY")
  /\ c.at = "ended" /\ c.result \in {"clear", "empty"} =>
       \A s \in Symbols : Filled(B, s, "SELL") >= Opening[s] + c.bought[s]

BatchInv(b) == Fields(b, {"todo", "done"}) /\ b.todo \subseteq Orders

LiveInv ==
  /\ broker \in Seq(Sending)
  /\ position \in [Symbols -> Int] /\ cache \in [Symbols -> Int]
  /\ BatchInv(batch)
  /\ JobsInv(job, broker, trades) /\ TradesInv(broker, trades)
  /\ CloseoutInv(closeout, broker)

----------------------------------------------------------------------------
(* The broker's log.                                                       *)

LEMMA LogDomain ==
  ASSUME NEW B \in Seq(Sending)
  PROVE  /\ Len(B) \in Nat /\ DOMAIN B = 1 .. Len(B) /\ IsFiniteSet(DOMAIN B)
         /\ \A i \in DOMAIN B : B[i] \in Sending /\ CumOf(B)[i] = B[i].cum /\ B[i].cum \in Nat
<1>1. Len(B) \in Nat /\ DOMAIN B = 1 .. Len(B) /\ \A i \in DOMAIN B : B[i] \in Sending
  BY LenProperties
<1>2. IsFiniteSet(DOMAIN B)
  BY <1>1, FS_Interval
<1> QED BY <1>1, <1>2 DEF CumOf, Sending

LEMMA LogStays ==
  ASSUME NEW B \in Seq(Sending)
  PROVE  Grown(B, B)
BY LogDomain DEF Grown

LEMMA LogChanges ==
  ASSUME NEW B \in Seq(Sending), NEW i \in DOMAIN B, NEW b \in Sending,
         Same(b, B[i].order, B[i].symbol, B[i].side), B[i].cum <= b.cum
  PROVE  Grown(B, [B EXCEPT ![i] = b])
<1> DEFINE C == [B EXCEPT ![i] = b]
<1>1. /\ DOMAIN B = 1 .. Len(B)
      /\ \A k \in DOMAIN B : B[k].cum \in Nat
  BY LogDomain
<1>2. C \in Seq(Sending)
  BY <1>1, ExceptSeq
<1>3. DOMAIN C = DOMAIN B /\ C[i] = b /\ \A k \in DOMAIN B : k # i => C[k] = B[k]
  OBVIOUS
<1> HIDE DEF C
<1>4. \A k \in DOMAIN B : B[k].cum <= C[k].cum
  BY <1>1, <1>3
<1>5. Grown(B, C)
  BY <1>2, <1>3, <1>4 DEF Grown, Same
<1> QED BY <1>5 DEF C

(* An order at the broker is filled further, or is ended.                  *)
LEMMA SendingGoesOn ==
  ASSUME NEW b \in Sending, NEW c \in Nat, b.cum <= c, NEW x \in BOOLEAN
  PROVE  /\ [b EXCEPT !.cum = c, !.working = x] \in Sending
         /\ Same([b EXCEPT !.cum = c, !.working = x], b.order, b.symbol, b.side)
         /\ b.cum <= [b EXCEPT !.cum = c, !.working = x].cum
<1> DEFINE e == [b EXCEPT !.cum = c]
           d == [e EXCEPT !.working = x]
<1>1. e \in Sending /\ e.order = b.order /\ e.symbol = b.symbol /\ e.side = b.side /\ e.cum = c
  BY DEF Sending
<1> HIDE DEF e
<1>2. d \in Sending /\ d.order = e.order /\ d.symbol = e.symbol /\ d.side = e.side /\ d.cum = e.cum
  BY <1>1 DEF Sending
<1>3. d = [b EXCEPT !.cum = c, !.working = x]
  BY DEF e
<1> HIDE DEF d
<1> QED BY <1>1, <1>2, <1>3 DEF Same

LEMMA SendingEnds ==
  ASSUME NEW b \in Sending
  PROVE  /\ [b EXCEPT !.working = FALSE] \in Sending
         /\ Same([b EXCEPT !.working = FALSE], b.order, b.symbol, b.side)
         /\ b.cum <= [b EXCEPT !.working = FALSE].cum
<1>1. [b EXCEPT !.working = FALSE] = [b EXCEPT !.cum = b.cum, !.working = FALSE]
  BY DEF Sending
<1>2. b.cum \in Nat /\ b.cum <= b.cum
  BY DEF Sending
<1> QED BY <1>1, <1>2, SendingGoesOn

LEMMA LogAppends ==
  ASSUME NEW B \in Seq(Sending), NEW b \in Sending
  PROVE  /\ Grown(B, Append(B, b)) /\ Append(B, b)[Len(B) + 1] = b
         /\ Len(B) + 1 \in DOMAIN Append(B, b) /\ Len(B) + 1 \notin DOMAIN B
<1>1. /\ Len(B) \in Nat /\ DOMAIN B = 1 .. Len(B) /\ \A k \in DOMAIN B : B[k].cum \in Nat
  BY LogDomain
<1>2. /\ Append(B, b) \in Seq(Sending) /\ DOMAIN Append(B, b) = 1 .. (Len(B) + 1)
      /\ Append(B, b)[Len(B) + 1] = b /\ \A k \in DOMAIN B : Append(B, b)[k] = B[k]
  BY <1>1, AppendProperties, LenProperties
<1> QED BY <1>1, <1>2 DEF Grown

LEMMA FilledGrows ==
  ASSUME NEW B \in Seq(Sending), NEW C, Grown(B, C), NEW s, NEW side
  PROVE  /\ Filled(B, s, side) \in Int /\ Filled(C, s, side) \in Int
         /\ Filled(B, s, side) <= Filled(C, s, side)
<1> DEFINE f == CumOf(B)
           g == CumOf(C)
           D == DOMAIN C
           P == {i \in DOMAIN B : B[i].symbol = s /\ B[i].side = side}
           Q == {i \in DOMAIN C : C[i].symbol = s /\ C[i].side = side}
           gP == [i \in D |-> IF i \in P THEN g[i] ELSE 0]
           gQ == [i \in D |-> IF i \in Q THEN g[i] ELSE 0]
<1>1. C \in Seq(Sending) /\ DOMAIN B \subseteq D
  BY DEF Grown
<1>2. /\ IsFiniteSet(D) /\ IsFiniteSet(DOMAIN B)
      /\ \A i \in D : g[i] = C[i].cum /\ g[i] \in Nat
      /\ \A i \in DOMAIN B : f[i] = B[i].cum /\ f[i] \in Nat
  BY <1>1, LogDomain
<1>3. P \in SUBSET Q /\ Q \in SUBSET D /\ P \in SUBSET DOMAIN B
      /\ \A i \in P : f[i] <= g[i]
  BY <1>1, <1>2 DEF Grown
<1>4. IsFiniteSet(P) /\ IsFiniteSet(Q)
  BY <1>2, <1>3, FS_Subset
<1>5. \A i \in D : /\ g[i] \in Int /\ gP[i] \in Int /\ gQ[i] \in Int /\ gP[i] <= gQ[i]
  BY <1>2, <1>3
<1>6. \A i \in P : f[i] \in Int /\ g[i] \in Int
  BY <1>1, <1>2, <1>3
<1>7. \A i \in Q : g[i] \in Int
  BY <1>2, <1>3
<1>8. Filled(B, s, side) = SumOver(f, P) /\ Filled(C, s, side) = SumOver(g, Q)
  BY DEF Filled
<1> HIDE DEF f, g, D, P, Q
<1>9. SumOver(g, P) = SumOver(gP, D) /\ SumOver(g, Q) = SumOver(gQ, D)
  <2>1. P \in SUBSET D /\ Q \in SUBSET D /\ IsFiniteSet(D) /\ \A i \in D : g[i] \in Int
    BY <1>2, <1>3, <1>5
  <2>2. SumOver(g, P) = SumOver(gP, D)
    BY <2>1, SumWhere
  <2>3. SumOver(g, Q) = SumOver(gQ, D)
    BY <2>1, SumWhere
  <2> QED BY <2>2, <2>3
<1> HIDE DEF gP, gQ
<1>10. SumOver(gP, D) <= SumOver(gQ, D)
  BY <1>2, <1>5, SumAtMost
<1>11. SumOver(f, P) <= SumOver(g, P)
  BY <1>3, <1>4, <1>6, SumAtMost
<1>12. SumOver(f, P) \in Int /\ SumOver(g, P) \in Int /\ SumOver(g, Q) \in Int
  BY <1>4, <1>6, <1>7, SumInt
<1> QED BY <1>8, <1>9, <1>10, <1>11, <1>12

LEMMA CumsAreSum ==
  ASSUME NEW B, NEW S \in SUBSET DOMAIN B
  PROVE  MapThenSumSet(LAMBDA i : B[i].cum, S) = SumOver(CumOf(B), S)
<1> DEFINE f == CumOf(B)
           weighed(h) == [s \in SUBSET S |->
             IF s = {} THEN 0 ELSE B[Chosen(s)].cum + h[s \ {Chosen(s)}]]
<1>1. MapThenSumSet(LAMBDA i : B[i].cum, S) = (CHOOSE h : h = weighed(h))[S]
  BY DEF MapThenSumSet, MapThenFoldSet, Chosen
<1>2. \A h : weighed(h) = PartialSums(f, h, S)
  BY ChosenIn DEF PartialSums, CumOf
<1>3. (CHOOSE h : h = weighed(h)) = Solution(f, S)
  <2> HIDE DEF weighed, f
  <2> QED BY <1>2, Zenon DEF Solution
<1> QED BY <1>1, <1>3, SumIsSolution

LEMMA FilledIs ==
  ASSUME NEW s, NEW side
  PROVE  FilledOf(s, side) = Filled(broker, s, side)
<1>1. SentFor(s, side) \in SUBSET DOMAIN broker
  BY DEF SentFor
<1>2. FilledOf(s, side) = SumOver(CumOf(broker), SentFor(s, side))
  BY <1>1, CumsAreSum DEF FilledOf
<1> QED BY <1>2 DEF Filled, SentFor

----------------------------------------------------------------------------
(* Tasks that go on as they are, or leave the broker; the log grows.       *)
LEMMA FitsGrown ==
  ASSUME NEW B \in Seq(Sending), NEW C, Grown(B, C), NEW T, NEW w, NEW j, JobForm(w, j),
         JobFits(j, B, T)
  PROVE  JobFits(j, C, T)
<1>1. \A i \in DOMAIN B : B[i].cum \in Nat
  BY LogDomain
<1>2. \A i \in DOMAIN C : C[i].cum \in Nat
  BY LogDomain DEF Grown
<1>3. Placed(j) => /\ j.sent \in DOMAIN C
                   /\ Same(C[j.sent], j.order.id, j.order.symbol, j.order.side)
                   /\ \A t \in T : t.sent # j.sent
  BY DEF JobFits, Grown, Same
<1>4. j.pc \in {"read", "insert"} => j.fill <= C[j.sent].cum
  <2> SUFFICES ASSUME j.pc \in {"read", "insert"} PROVE j.fill <= C[j.sent].cum
    OBVIOUS
  <2>1. j.sent \in DOMAIN B /\ j.sent \in DOMAIN C /\ j.fill \in Nat /\ j.fill <= B[j.sent].cum
        /\ B[j.sent].cum <= C[j.sent].cum
    BY <1>3 DEF Placed, JobForm, JobFits, Grown
  <2> QED BY <1>1, <1>2, <2>1
<1> QED BY <1>3, <1>4 DEF JobFits

LEMMA TradesGrown ==
  ASSUME NEW B \in Seq(Sending), NEW C, Grown(B, C), NEW T, TradesInv(B, T)
  PROVE  TradesInv(C, T)
<1>1. \A i \in DOMAIN B : B[i].cum \in Nat
  BY LogDomain
<1>2. \A i \in DOMAIN C : C[i].cum \in Nat
  BY LogDomain DEF Grown
<1>3. ASSUME NEW t \in T
      PROVE  /\ t.sent \in DOMAIN C /\ Same(C[t.sent], t.order, t.symbol, t.side)
             /\ t.qty \in Nat /\ t.qty <= C[t.sent].cum
  <2>1. t.sent \in DOMAIN B /\ t.sent \in DOMAIN C /\ t.qty \in Nat /\ t.qty <= B[t.sent].cum
        /\ B[t.sent].cum <= C[t.sent].cum
    BY DEF TradesInv, Grown
  <2>2. Same(C[t.sent], t.order, t.symbol, t.side)
    BY <2>1 DEF TradesInv, Grown, Same
  <2>3. t.qty <= C[t.sent].cum
    <3>1. B[t.sent].cum \in Nat /\ C[t.sent].cum \in Nat
      BY <1>1, <1>2, <2>1
    <3> QED BY <2>1, <3>1
  <2> QED BY <2>1, <2>2, <2>3
<1> QED BY <1>3 DEF TradesInv

LEMMA CloseoutGrown ==
  ASSUME NEW B \in Seq(Sending), NEW C, Grown(B, C), NEW c, CloseoutInv(c, B)
  PROVE  CloseoutInv(c, C)
<1>1. ASSUME NEW s \in Symbols
      PROVE  /\ c.bought[s] <= Filled(C, s, "BUY")
             /\ c.at = "ended" /\ c.result \in {"clear", "empty"} =>
                  Filled(C, s, "SELL") >= Opening[s] + c.bought[s]
  <2>1. c.bought[s] \in Int /\ Opening[s] \in Int
    BY LiveAssumption DEF CloseoutInv
  <2>2. /\ Filled(B, s, "BUY") \in Int /\ Filled(C, s, "BUY") \in Int
        /\ Filled(B, s, "BUY") <= Filled(C, s, "BUY")
    BY FilledGrows
  <2>3. /\ Filled(B, s, "SELL") \in Int /\ Filled(C, s, "SELL") \in Int
        /\ Filled(B, s, "SELL") <= Filled(C, s, "SELL")
    BY FilledGrows
  <2>4. /\ c.bought[s] <= Filled(B, s, "BUY")
        /\ c.at = "ended" /\ c.result \in {"clear", "empty"} =>
             Filled(B, s, "SELL") >= Opening[s] + c.bought[s]
    BY DEF CloseoutInv
  <2> QED BY <2>1, <2>2, <2>3, <2>4
<1> QED BY <1>1 DEF CloseoutInv

LEMMA JobsMove ==
  ASSUME LiveInv, Grown(broker, broker'), trades' = trades, job' = [w \in Tasks |-> job'[w]],
         \A w \in Tasks : /\ JobForm(w, job'[w]) /\ JobFits(job'[w], broker, trades)
                          /\ Placed(job'[w]) => Placed(job[w]) /\ job'[w].sent = job[w].sent
  PROVE  JobsInv(job', broker', trades') /\ TradesInv(broker', trades')
<1>1. broker \in Seq(Sending)
  BY DEF LiveInv
<1>2. \A w \in Tasks : JobFits(job'[w], broker', trades)
  BY <1>1, FitsGrown
<1>3. TradesInv(broker', trades)
  BY <1>1, TradesGrown DEF LiveInv
<1>4. \A w, v \in Tasks : Placed(job'[w]) /\ Placed(job'[v]) /\ job'[w].sent = job'[v].sent => w = v
  BY DEF LiveInv, JobsInv
<1> QED BY <1>2, <1>3, <1>4 DEF JobsInv

LEMMA OneMoves ==
  ASSUME LiveInv, Grown(broker, broker'), trades' = trades, NEW w \in Tasks, NEW j,
         job' = [job EXCEPT ![w] = j], JobForm(w, j), JobFits(j, broker, trades),
         Placed(j) => Placed(job[w]) /\ j.sent = job[w].sent
  PROVE  JobsInv(job', broker', trades') /\ TradesInv(broker', trades')
<1>1. /\ job = [v \in Tasks |-> job[v]]
      /\ \A v \in Tasks : JobForm(v, job[v]) /\ JobFits(job[v], broker, trades)
  BY DEF LiveInv, JobsInv
<1>2. job' = [v \in Tasks |-> job'[v]] /\ job'[w] = j /\ \A v \in Tasks : v # w => job'[v] = job[v]
  BY <1>1
<1>3. \A v \in Tasks : /\ JobForm(v, job'[v]) /\ JobFits(job'[v], broker, trades)
                       /\ Placed(job'[v]) => Placed(job[v]) /\ job'[v].sent = job[v].sent
  BY <1>1, <1>2
<1> QED BY <1>2, <1>3, JobsMove

LEMMA LiveParts ==
  ASSUME LiveInv, Grown(broker, broker'), CloseoutInv(closeout', broker),
         position' \in [Symbols -> Int], cache' \in [Symbols -> Int], BatchInv(batch'),
         JobsInv(job', broker', trades'), TradesInv(broker', trades')
  PROVE  LiveInv'
<1>1. broker \in Seq(Sending) /\ broker' \in Seq(Sending)
  BY DEF LiveInv, Grown
<1>2. CloseoutInv(closeout', broker')
  BY <1>1, CloseoutGrown
<1> QED BY <1>1, <1>2 DEF LiveInv

LEMMA CloseoutGoes ==
  ASSUME LiveInv, NEW at, NEW l \in [Symbols -> Int], NEW r,
         at # "ended" \/ r \notin {"clear", "empty"}
  PROVE  /\ at # "ended" => /\ CloseoutInv([closeout EXCEPT !.at = at], broker)
                            /\ CloseoutInv([closeout EXCEPT !.at = at, !.listed = l], broker)
         /\ CloseoutInv([closeout EXCEPT !.at = at, !.result = r], broker)
BY DEF LiveInv, CloseoutInv, Fields

LEMMA CloseoutEnds ==
  ASSUME LiveInv, NEW r, r \notin {"clear", "empty"}, End(r)
  PROVE  CloseoutInv(closeout', broker)
<1>1. closeout.listed \in [Symbols -> Int]
  BY DEF LiveInv, CloseoutInv
<1> QED BY <1>1, CloseoutGoes DEF End

LEMMA CloseoutReaches ==
  ASSUME LiveInv, NEW at, at # "ended",
         Reach(at) \/ closeout' = [closeout EXCEPT !.at = at, !.listed = position]
  PROVE  CloseoutInv(closeout', broker)
<1>1. position \in [Symbols -> Int]
  BY DEF LiveInv
<1>2. /\ CloseoutInv([closeout EXCEPT !.at = at], broker)
      /\ CloseoutInv([closeout EXCEPT !.at = at, !.listed = position], broker)
  BY <1>1, CloseoutGoes
<1> QED BY <1>2 DEF Reach

(* A task at rest, or done with its order.                                 *)
Quiet(w, j) == JobForm(w, j) /\ ~Placed(j) /\ j.pc # "send"

LEMMA ReturnMoves ==
  ASSUME LiveInv, NEW w \in Tasks, NEW outcome \in {"skipped", "no_fill", "failed", "filled"},
         Return(w, outcome)
  PROVE  /\ \E j : job' = [job EXCEPT ![w] = j] /\ Quiet(w, j)
         /\ cache' \in [Symbols -> Int] /\ BatchInv(batch') /\ CloseoutInv(closeout', broker)
<1>1. \E j : job' = [job EXCEPT ![w] = j] /\ Quiet(w, j)
  <2>1. JobForm(w, job[w])
    BY DEF LiveInv, JobsInv
  <2>2. w \in Symbols => w # "closeout" /\ w # "stream"
    BY LiveAssumption
  <2>3. CASE w \in Symbols
    <3> DEFINE j == [job[w] EXCEPT !.pc = outcome]
    <3>1. Quiet(w, j)
      BY <2>1, <2>2, <2>3 DEF Quiet, JobForm, Placed, Fields
    <3>2. job' = [job EXCEPT ![w] = j]
      BY <2>3 DEF Return, Go
    <3> QED BY <3>1, <3>2
  <2>4. CASE w \notin Symbols
    <3>1. Quiet(w, Idle) /\ (w = "stream" => Quiet(w, [Idle EXCEPT !.pc = "batch"]))
      BY DEF Quiet, JobForm, Placed, Idle, Fields
    <3>2. \/ job' = [job EXCEPT ![w] = Idle]
          \/ w = "stream" /\ job' = [job EXCEPT ![w] = [Idle EXCEPT !.pc = "batch"]]
      BY <2>4 DEF Return, Go
    <3> QED BY <3>1, <3>2
  <2> QED BY <2>3, <2>4
<1>2. cache' \in [Symbols -> Int]
  <2>1. cache \in [Symbols -> Int]
    BY DEF LiveInv
  <2>2. cache' = cache \/ cache' = [cache EXCEPT ![job[w].order.symbol] = 0]
    BY DEF Return
  <2> QED BY <2>1, <2>2
<1>3. BatchInv(batch')
  BY DEF LiveInv, BatchInv, Fields, Return
<1>4. CloseoutInv(closeout', broker)
  <2>1. CloseoutInv([closeout EXCEPT !.at = "recheck"], broker)
    BY CloseoutGoes DEF LiveInv, CloseoutInv
  <2> QED BY <2>1 DEF LiveInv, Return
<1> QED BY <1>1, <1>2, <1>3, <1>4

LEMMA QuietFits == ASSUME NEW w, NEW j, Quiet(w, j), NEW B, NEW T PROVE JobFits(j, B, T)
BY DEF Quiet, JobFits, Placed

LEMMA ReturnInv ==
  ASSUME LiveInv, NEW w \in Tasks, NEW outcome \in {"skipped", "no_fill", "failed", "filled"},
         Return(w, outcome), Grown(broker, broker'), trades' = trades,
         position' \in [Symbols -> Int]
  PROVE  LiveInv'
<1>1. PICK j : job' = [job EXCEPT ![w] = j] /\ Quiet(w, j)
  BY ReturnMoves
<1>2. cache' \in [Symbols -> Int] /\ BatchInv(batch') /\ CloseoutInv(closeout', broker)
  BY ReturnMoves
<1>3. JobForm(w, j) /\ JobFits(j, broker, trades) /\ ~Placed(j)
  BY <1>1, QuietFits DEF Quiet
<1>4. JobsInv(job', broker', trades') /\ TradesInv(broker', trades')
  BY <1>1, <1>3, OneMoves
<1> QED BY <1>2, <1>4, LiveParts

LEMMA DieMoves ==
  ASSUME LiveInv, NEW flushed, NEW unwritten, Die(flushed, unwritten)
  PROVE  /\ job' = [w \in Tasks |-> job'[w]] /\ \A w \in Tasks : Quiet(w, job'[w])
         /\ cache' \in [Symbols -> Int] /\ BatchInv(batch') /\ CloseoutInv(closeout', broker)
<1>1. job' = [w \in Tasks |-> Idle]
  BY DEF Die
<1>2. \A w \in Tasks : Quiet(w, Idle)
  BY DEF Quiet, JobForm, Placed, Idle, Fields
<1>3. CloseoutInv(closeout', broker)
  <2>1. CloseoutInv([closeout EXCEPT !.at = "ended", !.result = "interrupted"], broker)
    BY CloseoutGoes DEF LiveInv, CloseoutInv
  <2> QED BY <2>1 DEF Die, Interrupted, LiveInv
<1>4. cache' \in [Symbols -> Int] /\ BatchInv(batch')
  BY DEF Die, BatchInv, NoBatch, Fields
<1> QED BY <1>1, <1>2, <1>3, <1>4

LEMMA DieInv ==
  ASSUME LiveInv, NEW flushed, NEW unwritten, Die(flushed, unwritten),
         Grown(broker, broker'), trades' = trades, position' \in [Symbols -> Int]
  PROVE  LiveInv'
<1>1. /\ job' = [w \in Tasks |-> job'[w]] /\ \A w \in Tasks : Quiet(w, job'[w])
      /\ cache' \in [Symbols -> Int] /\ BatchInv(batch') /\ CloseoutInv(closeout', broker)
  BY DieMoves
<1>2. \A w \in Tasks : JobForm(w, job'[w]) /\ JobFits(job'[w], broker, trades) /\ ~Placed(job'[w])
  BY <1>1, QuietFits DEF Quiet
<1>3. JobsInv(job', broker', trades') /\ TradesInv(broker', trades')
  BY <1>1, <1>2, JobsMove
<1> QED BY <1>1, <1>3, LiveParts

LEMMA BreakInv ==
  ASSUME LiveInv, NEW w \in Tasks, NEW unwritten, Break(w, unwritten),
         Grown(broker, broker'), trades' = trades, position' \in [Symbols -> Int]
  PROVE  LiveInv'
BY ReturnInv, DieInv DEF Break

LEMMA GoInv ==
  ASSUME LiveInv, NEW w \in Tasks, NEW j, Go(w, j), JobForm(w, j), JobFits(j, broker, trades),
         Placed(j) => Placed(job[w]) /\ j.sent = job[w].sent,
         Grown(broker, broker'), trades' = trades, position' \in [Symbols -> Int],
         BatchInv(batch'), UNCHANGED <<cache, closeout>>
  PROVE  LiveInv'
<1>1. JobsInv(job', broker', trades') /\ TradesInv(broker', trades')
  BY OneMoves DEF Go
<1>2. cache' \in [Symbols -> Int] /\ CloseoutInv(closeout', broker)
  BY DEF LiveInv
<1> QED BY <1>1, <1>2, LiveParts

(* No task moves.                                                          *)
LEMMA StillInv ==
  ASSUME LiveInv, job' = job, trades' = trades, Grown(broker, broker'),
         position' \in [Symbols -> Int], cache' \in [Symbols -> Int], BatchInv(batch'),
         CloseoutInv(closeout', broker)
  PROVE  LiveInv'
<1>1. JobsInv(job', broker', trades') /\ TradesInv(broker', trades')
  BY JobsMove DEF LiveInv, JobsInv
<1> QED BY <1>1, LiveParts

----------------------------------------------------------------------------
LEMMA TaskFacts ==
  ASSUME LiveInv
  PROVE  /\ broker \in Seq(Sending) /\ Grown(broker, broker) /\ position \in [Symbols -> Int]
         /\ cache \in [Symbols -> Int] /\ BatchInv(batch) /\ CloseoutInv(closeout, broker)
         /\ "stream" \in Tasks /\ "closeout" \in Tasks /\ Symbols \subseteq Tasks
         /\ \A w \in Tasks : JobForm(w, job[w]) /\ JobFits(job[w], broker, trades)
BY LogStays DEF LiveInv, JobsInv, Tasks

(* The topic and the batches of the stream.                                *)
LEMMA BatchesInv ==
  ASSUME LiveInv,
         \/ \E o \in Orders : Issue(o) \/ Take(o)
         \/ \E S \in SUBSET Orders : Pull(S)
         \/ Acknowledge
  PROVE  LiveInv'
<1>1. ASSUME NEW o \in Orders, Issue(o)
      PROVE  LiveInv'
  BY <1>1, TaskFacts, StillInv DEF Issue, tableVars, processVars
<1>2. ASSUME NEW o \in Orders, Take(o)
      PROVE  LiveInv'
  <2> DEFINE j == [Idle EXCEPT !.pc = "check", !.order = o]
  <2>1. Go("stream", j) /\ JobForm("stream", j) /\ JobFits(j, broker, trades) /\ ~Placed(j)
    <3>1. Go("stream", j) /\ o \in Order
      BY <1>2, LiveAssumption DEF Take
    <3>2. j.pc = "check" /\ j.order = o /\ j.existing = 0
      BY DEF Idle
    <3>3. Fields(j, {"pc", "order", "existing", "sent", "fill", "seen"})
      BY DEF Idle, Fields
    <3> HIDE DEF j
    <3>4. ~Placed(j) /\ JobFits(j, broker, trades)
      BY <3>2 DEF Placed, JobFits
    <3> QED BY <3>1, <3>2, <3>3, <3>4 DEF JobForm
  <2>2. BatchInv(batch')
    BY <1>2, TaskFacts DEF Take, BatchInv, Fields
  <2>3. UNCHANGED <<broker, trades, position, cache, closeout>>
    BY <1>2 DEF Take, tableVars
  <2> HIDE DEF j
  <2> QED BY <2>1, <2>2, <2>3, TaskFacts, GoInv
<1>3. ASSUME NEW S \in SUBSET Orders, Pull(S)
      PROVE  LiveInv'
  <2> DEFINE j == [Idle EXCEPT !.pc = "batch"]
  <2>1. Go("stream", j) /\ JobForm("stream", j) /\ JobFits(j, broker, trades) /\ ~Placed(j)
    BY <1>3 DEF Pull, JobForm, JobFits, Placed, Idle, Fields
  <2>2. BatchInv(batch')
    BY <1>3 DEF Pull, BatchInv, Fields
  <2>3. UNCHANGED <<broker, trades, position, cache, closeout>>
    BY <1>3 DEF Pull, tableVars
  <2> HIDE DEF j
  <2> QED BY <2>1, <2>2, <2>3, TaskFacts, GoInv
<1>4. CASE Acknowledge
  <2>1. Go("stream", Idle) /\ JobForm("stream", Idle) /\ JobFits(Idle, broker, trades)
        /\ ~Placed(Idle)
    BY <1>4 DEF Acknowledge, JobForm, JobFits, Placed, Idle, Fields
  <2>2. BatchInv(batch')
    BY <1>4 DEF Acknowledge, BatchInv, NoBatch, Fields
  <2>3. UNCHANGED <<broker, trades, position, cache, closeout>>
    BY <1>4 DEF Acknowledge, tableVars
  <2> QED BY <2>1, <2>2, <2>3, TaskFacts, GoInv
<1> QED BY <1>1, <1>2, <1>3, <1>4

(* Only the stream checks, and what it finds unrecorded has no trade.      *)
LEMMA CheckInv == ASSUME LiveInv, Check PROVE LiveInv'
<1> DEFINE o == job["stream"].order
           j == [job["stream"] EXCEPT !.pc = "send"]
<1>1. UNCHANGED <<broker, trades, position>>
  BY DEF Check, tableVars
<1>2. /\ Grown(broker, broker') /\ position' \in [Symbols -> Int] /\ "stream" \in Tasks
      /\ BatchInv(batch)
  BY <1>1, TaskFacts
<1>3. CASE Return("stream", "skipped") \/ Break("stream", {})
  BY <1>1, <1>2, <1>3, ReturnInv, BreakInv
<1>4. CASE ~Recorded(o) /\ Go("stream", j) /\ UNCHANGED <<batch, cache, closeout>>
  <2>1. JobForm("stream", job["stream"]) /\ job["stream"].pc = "check"
    BY TaskFacts DEF Check, At
  <2>2. JobForm("stream", j) /\ j.pc = "send" /\ j.order = o
    BY <2>1 DEF JobForm, Placed, Fields
  <2>3. JobFits(j, broker, trades) /\ ~Placed(j)
    BY <1>4, <2>2 DEF JobFits, Placed, Recorded
  <2> HIDE DEF j
  <2> QED BY <1>1, <1>2, <1>4, <2>2, <2>3, GoInv
<1> QED BY <1>3, <1>4 DEF Check

(* An order that the broker accepts has a new place in its log.            *)
LEMMA AcceptGrows ==
  ASSUME LiveInv, NEW w \in Tasks, job[w].pc = "send", Accept(job[w].order)
  PROVE  /\ Grown(broker, broker') /\ Len(broker) + 1 \in DOMAIN broker'
         /\ Len(broker) + 1 \notin DOMAIN broker
         /\ Same(broker'[Len(broker) + 1], job[w].order.id, job[w].order.symbol, job[w].order.side)
<1> DEFINE o == job[w].order
           b == [order |-> o.id, symbol |-> o.symbol, side |-> o.side, qty |-> o.qty,
                 cum |-> 0, working |-> TRUE]
<1>1. o \in Order \cup Sale /\ broker \in Seq(Sending)
  BY TaskFacts DEF JobForm
<1>2. b \in Sending /\ broker' = Append(broker, b) /\ Same(b, o.id, o.symbol, o.side)
  BY <1>1 DEF Sending, Order, Sale, Ids, Accept, Same
<1> HIDE DEF b
<1> QED BY <1>1, <1>2, LogAppends

LEMMA SendInv == ASSUME LiveInv, NEW w \in Tasks, Send(w) PROVE LiveInv'
<1> DEFINE n == Len(broker) + 1
           j == [job[w] EXCEPT !.pc = "poll", !.sent = n]
<1>1. /\ Grown(broker, broker') /\ n \in DOMAIN broker' /\ n \notin DOMAIN broker
      /\ Same(broker'[n], job[w].order.id, job[w].order.symbol, job[w].order.side)
  BY AcceptGrows DEF Send, At
<1>2. /\ JobForm(w, job[w]) /\ JobFits(job[w], broker, trades) /\ job[w].pc = "send"
      /\ job' = [job EXCEPT ![w] = j] /\ trades' = trades
  BY TaskFacts DEF Send, At, Go, tableVars
<1>3. /\ JobForm(w, j) /\ j.pc = "poll" /\ j.sent = n /\ j.order = job[w].order
  BY <1>2 DEF JobForm, Placed, Fields
<1>4. \A t \in trades : t.sent \in DOMAIN broker
  BY DEF LiveInv, TradesInv
<1>5. JobFits(j, broker', trades)
  BY <1>1, <1>2, <1>3, <1>4 DEF JobFits, Placed
<1> HIDE DEF j, n
<1>6. job = [v \in Tasks |-> job[v]] /\ job' = [v \in Tasks |-> job'[v]] /\ job'[w] = j
      /\ \A v \in Tasks : v # w => job'[v] = job[v]
  <2>1. job = [v \in Tasks |-> job[v]]
    BY DEF LiveInv, JobsInv
  <2> QED BY <1>2, <2>1
<1>7. \A v \in Tasks : JobForm(v, job'[v]) /\ JobFits(job'[v], broker', trades)
  <2> TAKE v \in Tasks
  <2>1. JobForm(v, job[v]) /\ JobFits(job[v], broker, trades) /\ broker \in Seq(Sending)
    BY TaskFacts
  <2>2. JobFits(job[v], broker', trades)
    BY <1>1, <2>1, FitsGrown
  <2> QED BY <1>3, <1>5, <1>6, <2>1, <2>2
<1>8. \A u, v \in Tasks : Placed(job'[u]) /\ Placed(job'[v]) /\ job'[u].sent = job'[v].sent => u = v
  <2>1. \A v \in Tasks : v # w /\ Placed(job'[v]) => job'[v].sent \in DOMAIN broker
    BY <1>6, TaskFacts DEF JobFits
  <2>2. \A u, v \in Tasks : u # w /\ v # w /\ Placed(job'[u]) /\ Placed(job'[v])
                            /\ job'[u].sent = job'[v].sent => u = v
    BY <1>6 DEF LiveInv, JobsInv
  <2> QED BY <1>1, <1>3, <1>6, <2>1, <2>2
<1>9. JobsInv(job', broker', trades') /\ TradesInv(broker', trades')
  <2>1. TradesInv(broker', trades)
    BY <1>1, TaskFacts, TradesGrown DEF LiveInv
  <2> QED BY <1>2, <1>6, <1>7, <1>8, <2>1 DEF JobsInv
<1>10. UNCHANGED <<position, cache, batch, closeout>>
  BY DEF Send, tableVars
<1> QED BY <1>1, <1>9, <1>10, TaskFacts, LiveParts

LEMMA SendsNothingInv ==
  ASSUME LiveInv, NEW w \in Tasks, SendRejected(w) \/ SendUnanswered(w)
  PROVE  LiveInv'
<1>1. trades' = trades /\ position' = position
  BY DEF SendRejected, SendUnanswered, tableVars
<1>2. Grown(broker, broker')
  <2>1. CASE SendRejected(w)
    BY <2>1, TaskFacts DEF SendRejected
  <2>2. CASE SendUnanswered(w)
    BY <2>2, TaskFacts, AcceptGrows DEF SendUnanswered, At
  <2> QED BY <2>1, <2>2
<1>3. Return(w, "no_fill") \/ Die({}, {})
  BY DEF SendRejected, SendUnanswered
<1> QED BY <1>1, <1>2, <1>3, TaskFacts, ReturnInv, DieInv

LEMMA PollInv ==
  ASSUME LiveInv, NEW w \in Tasks, Poll(w) \/ PollTimesOut(w)
  PROVE  LiveInv'
<1>1. UNCHANGED <<broker, trades, position>>
  BY DEF Poll, PollTimesOut, tableVars
<1>2. /\ JobForm(w, job[w]) /\ JobFits(job[w], broker, trades) /\ job[w].pc = "poll"
      /\ job[w].sent \in DOMAIN broker /\ broker[job[w].sent].cum \in Nat
  <2>1. JobForm(w, job[w]) /\ JobFits(job[w], broker, trades) /\ job[w].pc = "poll"
    BY TaskFacts DEF Poll, PollTimesOut, At
  <2>2. job[w].sent \in DOMAIN broker
    BY <2>1 DEF JobFits, Placed
  <2> QED BY <2>1, <2>2, TaskFacts, LogDomain
<1>3. CASE Return(w, "no_fill")
  BY <1>1, <1>3, TaskFacts, ReturnInv
<1>4. ASSUME NEW pc \in {"read", "insert"},
             Go(w, [job[w] EXCEPT !.fill = broker[job[w].sent].cum, !.pc = pc]),
             UNCHANGED <<batch, cache, closeout>>
      PROVE  LiveInv'
  <2> DEFINE j == [job[w] EXCEPT !.fill = broker[job[w].sent].cum, !.pc = pc]
  <2>1. JobForm(w, j) /\ j.pc = pc /\ j.sent = job[w].sent /\ j.order = job[w].order
        /\ j.fill = broker[job[w].sent].cum
    BY <1>2 DEF JobForm, Placed, Fields
  <2>2. Placed(j) /\ Placed(job[w])
    BY <1>2, <2>1 DEF Placed
  <2>3. JobFits(j, broker, trades)
    BY <1>2, <2>1, <2>2 DEF JobFits
  <2> HIDE DEF j
  <2> QED BY <1>1, <1>4, <2>1, <2>2, <2>3, TaskFacts, GoInv DEF j
<1>5. CASE PollTimesOut(w)
  <2> DEFINE j == [job[w] EXCEPT !.pc = "cancel"]
  <2>1. JobForm(w, j) /\ j.pc = "cancel" /\ j.sent = job[w].sent /\ j.order = job[w].order
    BY <1>2 DEF JobForm, Placed, Fields
  <2>2. Placed(j) /\ Placed(job[w])
    BY <1>2, <2>1 DEF Placed
  <2>3. JobFits(j, broker, trades)
    BY <1>2, <2>1, <2>2 DEF JobFits
  <2>4. Go(w, j) /\ UNCHANGED <<batch, cache, closeout>>
    BY <1>5 DEF PollTimesOut
  <2> HIDE DEF j
  <2> QED BY <1>1, <2>1, <2>2, <2>3, <2>4, TaskFacts, GoInv
<1> QED BY <1>3, <1>4, <1>5 DEF Poll

LEMMA CancelInv == ASSUME LiveInv, NEW w \in Tasks, Cancel(w) PROVE LiveInv'
<1> DEFINE i == job[w].sent
<1>1. i \in DOMAIN broker /\ broker[i] \in Sending /\ broker \in Seq(Sending)
  <2>1. i \in DOMAIN broker
    BY TaskFacts DEF Cancel, At, JobFits, Placed
  <2> QED BY <2>1, TaskFacts, LogDomain
<1>2. Grown(broker, broker')
  <2> DEFINE b == [broker[i] EXCEPT !.working = FALSE]
  <2>1. b \in Sending /\ Same(b, broker[i].order, broker[i].symbol, broker[i].side)
        /\ broker[i].cum <= b.cum
    BY <1>1, SendingEnds
  <2>2. broker' = broker \/ broker' = [broker EXCEPT ![i] = b]
    BY <1>1 DEF Cancel
  <2> HIDE DEF b
  <2> QED BY <1>1, <2>1, <2>2, TaskFacts, LogChanges
<1>3. Return(w, "no_fill") /\ trades' = trades /\ position' = position
  BY DEF Cancel, tableVars
<1> QED BY <1>2, <1>3, TaskFacts, ReturnInv

LEMMA BrokerInv ==
  ASSUME LiveInv, NEW i \in DOMAIN broker,
         BrokerEnds(i) \/ \E n \in 1 .. broker[i].qty : BrokerFills(i, n)
  PROVE  LiveInv'
<1>1. broker[i] \in Sending /\ broker \in Seq(Sending)
  BY TaskFacts, LogDomain
<1>2. \E b \in Sending : /\ broker' = [broker EXCEPT ![i] = b] /\ broker[i].cum <= b.cum
                         /\ Same(b, broker[i].order, broker[i].symbol, broker[i].side)
  <2>1. CASE BrokerEnds(i)
    <3> DEFINE b == [broker[i] EXCEPT !.working = FALSE]
    <3>1. b \in Sending /\ Same(b, broker[i].order, broker[i].symbol, broker[i].side)
          /\ broker[i].cum <= b.cum
      BY <1>1, SendingEnds
    <3>2. broker' = [broker EXCEPT ![i] = b]
      BY <1>1, <2>1 DEF BrokerEnds
    <3> QED BY <3>1, <3>2
  <2>2. ASSUME NEW n \in 1 .. broker[i].qty, BrokerFills(i, n)
        PROVE  \E b \in Sending : /\ broker' = [broker EXCEPT ![i] = b] /\ broker[i].cum <= b.cum
                                  /\ Same(b, broker[i].order, broker[i].symbol, broker[i].side)
    <3> DEFINE c == broker[i].cum + n
               x == broker[i].cum + n < broker[i].qty
               b == [broker[i] EXCEPT !.cum = c, !.working = x]
    <3>1. c \in Nat /\ broker[i].cum <= c /\ x \in BOOLEAN
      BY <1>1 DEF Sending
    <3>2. b \in Sending /\ Same(b, broker[i].order, broker[i].symbol, broker[i].side)
          /\ broker[i].cum <= b.cum
      <4> HIDE DEF c, x
      <4> QED BY <1>1, <3>1, SendingGoesOn
    <3>3. broker' = [broker EXCEPT ![i] = b]
      BY <1>1, <2>2 DEF BrokerFills
    <3> HIDE DEF b
    <3> QED BY <3>2, <3>3
  <2> QED BY <2>1, <2>2
<1>3. Grown(broker, broker')
  BY <1>1, <1>2, LogChanges
<1>4. job' = job /\ UNCHANGED <<trades, position, cache, batch, closeout>>
  BY DEF BrokerEnds, BrokerFills, tableVars, processVars
<1> QED BY <1>3, <1>4, TaskFacts, StillInv

LEMMA ReadPositionInv == ASSUME LiveInv, ReadPosition PROVE LiveInv'
<1> DEFINE o == job["stream"].order
           k == [job["stream"] EXCEPT !.existing = position[o.symbol]]
           j == [k EXCEPT !.pc = "insert"]
<1>1. UNCHANGED <<broker, trades, position>>
  BY DEF ReadPosition, tableVars
<1>2. CASE Return("stream", "no_fill") \/ Break("stream", {})
  BY <1>1, <1>2, TaskFacts, ReturnInv, BreakInv
<1>3. CASE Go("stream", j) /\ UNCHANGED <<batch, cache, closeout>>
  <2>1. /\ JobForm("stream", job["stream"]) /\ JobFits(job["stream"], broker, trades)
        /\ job["stream"].pc = "read"
    BY TaskFacts DEF ReadPosition, At
  <2>2. position[o.symbol] \in Int
    <3>1. o.symbol \in Symbols
      BY <2>1 DEF JobForm, Placed, Order, Sale
    <3> QED BY <3>1, TaskFacts
  <2>3. JobForm("stream", j) /\ j.pc = "insert" /\ j.sent = job["stream"].sent
        /\ j.order = job["stream"].order /\ j.fill = job["stream"].fill
    BY <2>1, <2>2 DEF JobForm, Placed, Fields
  <2>4. Placed(j) /\ Placed(job["stream"])
    BY <2>1, <2>3 DEF Placed
  <2>5. JobFits(j, broker, trades)
    BY <2>1, <2>3, <2>4 DEF JobFits
  <2> HIDE DEF j
  <2> QED BY <1>1, <1>3, <2>3, <2>4, <2>5, TaskFacts, GoInv
<1> QED BY <1>2, <1>3 DEF ReadPosition

----------------------------------------------------------------------------
(* The trade of a fill is recorded: the place of its order has no trade    *)
(* yet, and no other task works on the same message.                       *)
LEMMA RecordsTrade ==
  ASSUME LiveInv, NEW w \in Tasks, At(w, "insert"), trades' = trades \cup {TradeOf(w)},
         broker' = broker, job' = [v \in Tasks |-> job'[v]], Quiet(w, job'[w]),
         \A v \in Tasks : v # w => job'[v] = job[v] \/ Quiet(v, job'[v])
  PROVE  JobsInv(job', broker', trades') /\ TradesInv(broker', trades')
<1> DEFINE t == TradeOf(w)
           i == job[w].sent
<1>1. /\ Placed(job[w]) /\ job[w].pc = "insert"
      /\ JobForm(w, job[w]) /\ JobFits(job[w], broker, trades)
  BY TaskFacts DEF At, Placed
<1>2. /\ t.sent = i /\ t.order = job[w].order.id /\ t.symbol = job[w].order.symbol
      /\ t.side = job[w].order.side /\ t.qty = job[w].fill
  BY DEF TradeOf
<1>3. /\ i \in DOMAIN broker /\ Same(broker[i], t.order, t.symbol, t.side)
      /\ t.qty \in Nat /\ t.qty <= broker[i].cum
      /\ \A u \in trades : u.sent # i /\ (t.order # Exit => u.order # t.order)
  BY <1>1, <1>2 DEF JobForm, JobFits
<1> HIDE DEF t
<1>4. trades' = trades \cup {t}
  BY DEF t
<1>5. TradesInv(broker', trades')
  <2>1. TradesInv(broker, trades)
    BY DEF LiveInv
  <2>2. \A u \in trades : u.sent # t.sent /\ (t.order # Exit => u.order # t.order)
    BY <1>2, <1>3
  <2> QED BY <1>2, <1>3, <1>4, <2>1, <2>2 DEF TradesInv
<1>6. ASSUME NEW v \in Tasks, v # w, job'[v] = job[v]
      PROVE  JobForm(v, job'[v]) /\ JobFits(job'[v], broker, trades')
  <2>1. JobForm(v, job[v]) /\ JobFits(job[v], broker, trades)
    BY TaskFacts
  <2>2. Placed(job[v]) => job[v].sent # i
    BY <1>1, <1>6 DEF LiveInv, JobsInv
  <2>3. Placed(job[v]) \/ job[v].pc = "send" =>
          job[v].order.id = Exit \/ t.order # job[v].order.id
    <3>1. CASE v = "stream"
      BY <1>1, <1>2, <1>6, <3>1 DEF JobForm, Sale
    <3>2. CASE v # "stream"
      BY <2>1, <3>2 DEF JobForm, Sale
    <3> QED BY <3>1, <3>2
  <2> QED BY <1>2, <1>4, <1>6, <2>1, <2>2, <2>3 DEF JobFits
<1>7. \A v \in Tasks : JobForm(v, job'[v]) /\ JobFits(job'[v], broker, trades')
  BY <1>6, QuietFits DEF Quiet
<1>8. \A u, v \in Tasks : Placed(job'[u]) /\ Placed(job'[v]) /\ job'[u].sent = job'[v].sent => u = v
  BY DEF Quiet, LiveInv, JobsInv
<1> QED BY <1>5, <1>7, <1>8 DEF JobsInv

LEMMA InsertTradeInv == ASSUME LiveInv, NEW w \in Tasks, InsertTrade(w) PROVE LiveInv'
<1>1. /\ At(w, "insert") /\ broker' = broker /\ position' = position
      /\ job = [v \in Tasks |-> job[v]] /\ Grown(broker, broker')
      /\ position' \in [Symbols -> Int]
  BY TaskFacts DEF InsertTrade, LiveInv, JobsInv
<1>2. CASE trades' = trades /\ Break(w, {})
  BY <1>1, <1>2, BreakInv
<1>3. CASE trades' = trades \cup {TradeOf(w)} /\ Go(w, [job[w] EXCEPT !.pc = "write"])
           /\ UNCHANGED <<batch, cache, closeout>>
  <2> DEFINE j == [job[w] EXCEPT !.pc = "write"]
  <2>1. JobForm(w, job[w]) /\ job[w].pc = "insert"
    BY <1>1, TaskFacts DEF At
  <2>2. Quiet(w, j)
    BY <2>1 DEF Quiet, JobForm, Placed, Fields
  <2>3. job' = [v \in Tasks |-> job'[v]] /\ job'[w] = j /\ \A v \in Tasks : v # w => job'[v] = job[v]
    BY <1>1, <1>3 DEF Go
  <2> HIDE DEF j
  <2>4. JobsInv(job', broker', trades') /\ TradesInv(broker', trades')
    BY <1>1, <1>3, <2>2, <2>3, RecordsTrade
  <2> QED BY <1>1, <1>3, <2>4, TaskFacts, LiveParts
<1>4. CASE trades' = trades \cup {TradeOf(w)} /\ Return(w, "failed")
  <2>1. PICK j : job' = [job EXCEPT ![w] = j] /\ Quiet(w, j)
    BY <1>4, ReturnMoves
  <2>2. job' = [v \in Tasks |-> job'[v]] /\ job'[w] = j /\ \A v \in Tasks : v # w => job'[v] = job[v]
    BY <1>1, <2>1
  <2>3. JobsInv(job', broker', trades') /\ TradesInv(broker', trades')
    BY <1>1, <1>4, <2>1, <2>2, RecordsTrade
  <2>4. cache' \in [Symbols -> Int] /\ BatchInv(batch') /\ CloseoutInv(closeout', broker)
    BY <1>4, ReturnMoves
  <2> QED BY <1>1, <2>3, <2>4, LiveParts
<1>5. ASSUME trades' = trades \cup {TradeOf(w)}, NEW flushed, Die(flushed, {job[w].order.symbol})
      PROVE  LiveInv'
  <2>1. /\ job' = [v \in Tasks |-> job'[v]] /\ \A v \in Tasks : Quiet(v, job'[v])
        /\ cache' \in [Symbols -> Int] /\ BatchInv(batch') /\ CloseoutInv(closeout', broker)
    BY <1>5, DieMoves
  <2>2. JobsInv(job', broker', trades') /\ TradesInv(broker', trades')
    BY <1>1, <1>5, <2>1, RecordsTrade
  <2> QED BY <1>1, <2>1, <2>2, LiveParts
<1> QED BY <1>2, <1>3, <1>4, <1>5 DEF InsertTrade, Break

(* A task goes on without an order at the broker.                          *)
LEMMA QuietInv ==
  ASSUME LiveInv, NEW w \in Tasks, NEW j, Go(w, j), Quiet(w, j), broker' = broker,
         trades' = trades, position' \in [Symbols -> Int], UNCHANGED <<batch, cache, closeout>>
  PROVE  LiveInv'
<1>1. JobForm(w, j) /\ JobFits(j, broker, trades) /\ ~Placed(j)
  BY QuietFits DEF Quiet
<1>2. Grown(broker, broker') /\ BatchInv(batch')
  BY TaskFacts
<1> QED BY <1>1, <1>2, GoInv

LEMMA WritePositionInv == ASSUME LiveInv, NEW w \in Tasks, WritePosition(w) PROVE LiveInv'
<1>1. JobForm(w, job[w]) /\ job[w].pc = "write" /\ broker' = broker /\ trades' = trades
  BY TaskFacts DEF WritePosition, At
<1>2. position' \in [Symbols -> Int]
  <2>1. NewQuantity(w) \in Int
    BY <1>1 DEF NewQuantity, JobForm
  <2>2. position' = position \/ WriteRow(w)
    BY DEF WritePosition
  <2> QED BY <2>1, <2>2, TaskFacts DEF WriteRow
<1>3. CASE Written(w)
  <2>1. CASE Return(w, "filled")
    BY <1>1, <1>2, <2>1, TaskFacts, ReturnInv
  <2>2. CASE w = "stream" /\ Go(w, [job[w] EXCEPT !.pc = "pnl"]) /\ UNCHANGED <<batch, cache, closeout>>
    <3>1. Quiet(w, [job[w] EXCEPT !.pc = "pnl"])
      BY <1>1 DEF Quiet, JobForm, Placed, Fields
    <3> QED BY <1>1, <1>2, <2>2, <3>1, QuietInv
  <2> QED BY <1>3, <2>1, <2>2 DEF Written
<1>4. ASSUME NEW unwritten, Break(w, unwritten)
      PROVE  LiveInv'
  BY <1>1, <1>2, <1>4, TaskFacts, BreakInv
<1> QED BY <1>3, <1>4 DEF WritePosition

LEMMA ProfitInv ==
  ASSUME LiveInv, NEW w \in Tasks, ReadProfit(w) \/ AddProfit(w)
  PROVE  LiveInv'
<1>1. /\ JobForm(w, job[w]) /\ job[w].pc \in {"pnl", "add"} /\ broker' = broker
      /\ trades' = trades /\ position' = position /\ Grown(broker, broker')
      /\ position' \in [Symbols -> Int]
  BY TaskFacts DEF ReadProfit, AddProfit, At, tableVars
<1>2. Quiet(w, [job[w] EXCEPT !.pc = "add", !.seen = profit])
  BY <1>1 DEF Quiet, JobForm, Placed, Fields
<1>3. Quiet(w, [job[w] EXCEPT !.pc = "pnl"])
  BY <1>1 DEF Quiet, JobForm, Placed, Fields
<1>4. CASE ReadProfit(w)
  BY <1>1, <1>2, <1>4, QuietInv, BreakInv DEF ReadProfit
<1>5. CASE AddProfit(w)
  BY <1>1, <1>3, <1>5, QuietInv, ReturnInv, BreakInv DEF AddProfit
<1> QED BY <1>4, <1>5

----------------------------------------------------------------------------
(* Exits, and the closeout.                                                *)
LEMMA SaleForm ==
  ASSUME NEW w \in Tasks, w # "closeout", NEW s \in Symbols, NEW q \in Int, q > 0, NEW B, NEW T
  PROVE  JobForm(w, SaleOf(s, q)) /\ JobFits(SaleOf(s, q), B, T) /\ ~Placed(SaleOf(s, q))
<1> DEFINE j == SaleOf(s, q)
           o == [id |-> Exit, symbol |-> s, side |-> "SELL", qty |-> q]
<1>1. j.pc = "send" /\ j.existing = q /\ j.order = o
  BY DEF SaleOf, Idle
<1>2. Fields(j, {"pc", "order", "existing", "sent", "fill", "seen"})
  BY DEF SaleOf, Idle, Fields
<1>3. o \in Sale /\ o.id = Exit
  BY DEF Sale
<1> HIDE DEF j, o
<1>4. JobForm(w, j) /\ JobFits(j, B, T) /\ ~Placed(j)
  BY <1>1, <1>2, <1>3 DEF JobForm, JobFits, Placed
<1> QED BY <1>4 DEF j

LEMMA StopInv ==
  ASSUME LiveInv, RefreshCache \/ \E s \in Symbols : StopExit(s)
  PROVE  LiveInv'
<1>1. CASE RefreshCache
  BY <1>1, TaskFacts, StillInv DEF RefreshCache, tableVars
<1>2. ASSUME NEW s \in Symbols, StopExit(s)
      PROVE  LiveInv'
  <2>1. cache[s] \in Int /\ cache[s] > 0 /\ UNCHANGED <<broker, trades, position, batch, cache, closeout>>
    BY <1>2, TaskFacts DEF StopExit, tableVars
  <2>2. /\ JobForm("stream", SaleOf(s, cache[s])) /\ JobFits(SaleOf(s, cache[s]), broker, trades)
        /\ ~Placed(SaleOf(s, cache[s])) /\ Go("stream", SaleOf(s, cache[s]))
    BY <1>2, <2>1, TaskFacts, SaleForm DEF StopExit
  <2> QED BY <2>1, <2>2, TaskFacts, GoInv
<1> QED BY <1>1, <1>2

LEMMA CooldownInv ==
  ASSUME LiveInv, \E key \in pending : CooldownEnds(key)
  PROVE  LiveInv'
BY TaskFacts, StillInv DEF CooldownEnds, tableVars

LEMMA CrashInv == ASSUME LiveInv, Crash \/ Restart PROVE LiveInv'
<1>1. UNCHANGED <<broker, trades, position>>
  BY DEF Crash, Restart, tableVars
<1>2. CASE Crash
  BY <1>1, <1>2, TaskFacts, DieInv DEF Crash
<1>3. CASE Restart
  <2>1. CloseoutInv(closeout', broker)
    BY <1>3, TaskFacts, CloseoutEnds DEF Restart
  <2> QED BY <1>1, <1>3, <2>1, TaskFacts, StillInv DEF Restart
<1> QED BY <1>2, <1>3

LEMMA FiresInv == ASSUME LiveInv, CloseoutFires PROVE LiveInv'
<1>1. job' = job /\ UNCHANGED <<broker, trades, position, cache, batch>>
  BY DEF CloseoutFires, closeoutKeeps, tableVars
<1>2. CloseoutInv(closeout', broker)
  BY CloseoutEnds, CloseoutReaches DEF CloseoutFires
<1> QED BY <1>1, <1>2, TaskFacts, StillInv

LEMMA ListsInv == ASSUME LiveInv, CloseoutLists PROVE LiveInv'
<1>1. UNCHANGED <<broker, trades, position>>
  BY DEF CloseoutLists, tableVars
<1>2. CASE Die({}, {})
  BY <1>1, <1>2, TaskFacts, DieInv
<1>3. CASE /\ closeout' = [closeout EXCEPT !.at = "precheck", !.listed = position]
           /\ UNCHANGED <<job, batch, cache>>
  BY <1>1, <1>3, TaskFacts, CloseoutReaches, StillInv
<1> QED BY <1>2, <1>3 DEF CloseoutLists

(* What the broker holds, from its log.                                    *)
LEMMA HoldingIs ==
  ASSUME LiveInv, NEW s \in Symbols
  PROVE  /\ Filled(broker, s, "BUY") \in Int /\ Filled(broker, s, "SELL") \in Int
         /\ Opening[s] \in Nat
         /\ Holding(s) = Opening[s] + Filled(broker, s, "BUY") - Filled(broker, s, "SELL")
BY TaskFacts, FilledGrows, FilledIs, LiveAssumption DEF Holding

(* The closeout notes what was bought; where it has nothing to do, the     *)
(* shares of the day's opening and the bought ones were sold.              *)
LEMMA PrecheckNotes ==
  ASSUME LiveInv, Precheck
  PROVE  CloseoutInv(closeout', broker)
<1> DEFINE bought == [s \in Symbols |-> FilledOf(s, "BUY")]
           listed == closeout.listed
<1>1. CASE Reach("halt")
  BY <1>1, CloseoutReaches
<1>2. ASSUME NEW at, NEW result,
             closeout' = [closeout EXCEPT !.bought = bought, !.at = at, !.result = result],
             at = "ended" => (\A s \in Symbols : Holding(s) = listed[s]) /\ Flat(listed)
      PROVE  CloseoutInv(closeout', broker)
  <2>1. CloseoutInv(closeout, broker)
    BY TaskFacts
  <2>2. \A s \in Symbols : bought[s] = Filled(broker, s, "BUY") /\ bought[s] \in Int
    BY HoldingIs, FilledIs
  <2>3. bought \in [Symbols -> Int]
    BY <2>2
  <2> HIDE DEF bought
  <2>4. /\ closeout'.at = at /\ closeout'.listed = listed /\ closeout'.bought = bought
        /\ Fields(closeout', {"at", "listed", "bought", "result"})
    BY <1>2, <2>1 DEF CloseoutInv, Fields
  <2>5. ASSUME NEW s \in Symbols
        PROVE  /\ bought[s] <= Filled(broker, s, "BUY")
               /\ at = "ended" => Filled(broker, s, "SELL") >= Opening[s] + bought[s]
    <3>1. at = "ended" => Holding(s) = 0
      BY <1>2 DEF Flat
    <3> QED BY <2>2, <3>1, HoldingIs
  <2> QED BY <2>1, <2>3, <2>4, <2>5 DEF CloseoutInv
<1>3. ASSUME closeout' = [closeout EXCEPT
                 !.bought = bought,
                 !.at = IF \E s \in Symbols : Holding(s) # listed[s] THEN "halt"
                        ELSE IF Flat(listed) THEN "ended" ELSE "selling",
                 !.result = IF Flat(listed) THEN "empty" ELSE "none"]
      PROVE  CloseoutInv(closeout', broker)
  <2> DEFINE at == IF \E s \in Symbols : Holding(s) # listed[s] THEN "halt"
                   ELSE IF Flat(listed) THEN "ended" ELSE "selling"
             result == IF Flat(listed) THEN "empty" ELSE "none"
  <2>1. closeout' = [closeout EXCEPT !.bought = bought, !.at = at, !.result = result]
    BY <1>3
  <2>2. at = "ended" => (\A s \in Symbols : Holding(s) = listed[s]) /\ Flat(listed)
    OBVIOUS
  <2> HIDE DEF at, result
  <2> QED BY <1>2, <2>1, <2>2
<1> QED BY <1>1, <1>3 DEF Precheck

LEMMA PrecheckInv == ASSUME LiveInv, Precheck PROVE LiveInv'
<1>1. UNCHANGED <<broker, trades, position, cache, batch>>
  BY DEF Precheck, closeoutKeeps, tableVars
<1>2. CloseoutInv(closeout', broker)
  BY PrecheckNotes
<1>3. CASE job' = job
  BY <1>1, <1>2, <1>3, TaskFacts, StillInv
<1>4. CASE job' = [w \in Tasks |->
                 IF w \in Symbols /\ closeout'.at = "selling" /\ closeout.listed[w] > 0
                 THEN SaleOf(w, closeout.listed[w]) ELSE job[w]]
  <2>1. job' = [w \in Tasks |-> job'[w]]
    BY <1>4
  <2>2. ASSUME NEW w \in Tasks
        PROVE  /\ JobForm(w, job'[w]) /\ JobFits(job'[w], broker, trades)
               /\ (Placed(job'[w]) => Placed(job[w]) /\ job'[w].sent = job[w].sent)
    <3>1. CASE job'[w] = job[w]
      BY <3>1, TaskFacts
    <3>2. CASE w \in Symbols /\ closeout.listed[w] > 0 /\ job'[w] = SaleOf(w, closeout.listed[w])
      <4>1. w # "closeout" /\ closeout.listed[w] \in Int
        BY <3>2, TaskFacts, LiveAssumption DEF CloseoutInv
      <4> QED BY <3>2, <4>1, SaleForm
    <3> QED BY <1>4, <3>1, <3>2
  <2>3. JobsInv(job', broker', trades') /\ TradesInv(broker', trades')
    BY <1>1, <2>1, <2>2, TaskFacts, JobsMove
  <2> QED BY <1>1, <1>2, <2>3, TaskFacts, LiveParts
<1> QED BY <1>3, <1>4 DEF Precheck

LEMMA GatherInv == ASSUME LiveInv, Gather PROVE LiveInv'
<1> DEFINE total == MapThenSumSet(LAMBDA s : job[s].fill, {s \in Symbols : job[s].pc = "filled"})
<1>1. UNCHANGED <<broker, trades, position, cache, batch>>
  BY DEF Gather, closeoutKeeps, tableVars
<1>2. CloseoutInv(closeout', broker)
  <2>1. Reach("profit") \/ Reach("recheck")
    BY DEF Gather
  <2> QED BY <2>1, CloseoutReaches
<1>3. job' = [w \in Tasks |->
           IF w \in Symbols THEN Idle
           ELSE IF w = "closeout" /\ total > 0 THEN [Idle EXCEPT !.pc = "pnl", !.fill = total]
           ELSE job[w]]
  BY DEF Gather
<1> HIDE DEF total
<1>4. job' = [w \in Tasks |-> job'[w]]
  BY <1>3
<1>5. ASSUME NEW w \in Tasks
      PROVE  /\ JobForm(w, job'[w]) /\ JobFits(job'[w], broker, trades)
             /\ Placed(job'[w]) => Placed(job[w]) /\ job'[w].sent = job[w].sent
  <2>1. CASE job'[w] = job[w]
    BY <2>1, TaskFacts
  <2>2. CASE job'[w] = Idle \/ job'[w] = [Idle EXCEPT !.pc = "pnl", !.fill = total]
    <3>1. Quiet(w, Idle)
      BY DEF Quiet, JobForm, Placed, Idle, Fields
    <3>2. Quiet(w, [Idle EXCEPT !.pc = "pnl", !.fill = total])
      <4> DEFINE j == [Idle EXCEPT !.pc = "pnl", !.fill = total]
      <4>1. j.pc = "pnl" /\ j.existing = 0
        BY DEF Idle
      <4>2. Fields(j, {"pc", "order", "existing", "sent", "fill", "seen"})
        BY DEF Idle, Fields
      <4> HIDE DEF j
      <4>3. Quiet(w, j)
        BY <4>1, <4>2 DEF Quiet, JobForm, Placed
      <4> QED BY <4>3 DEF j
    <3> QED BY <2>2, <3>1, <3>2, QuietFits DEF Quiet
  <2> QED BY <1>3, <2>1, <2>2
<1>6. JobsInv(job', broker', trades') /\ TradesInv(broker', trades')
  BY <1>1, <1>4, <1>5, TaskFacts, JobsMove
<1> QED BY <1>1, <1>2, <1>6, TaskFacts, LiveParts

(* The second look, and the stop of trading.                               *)
LEMMA ChecksInv ==
  ASSUME LiveInv, Recheck \/ Postcheck \/ Halt
  PROVE  LiveInv'
<1>1. job' = job /\ UNCHANGED <<broker, trades, position, cache, batch>>
  BY DEF Recheck, Postcheck, Halt, closeoutKeeps, tableVars
<1>2. CloseoutInv(closeout', broker)
  <2>1. CASE Recheck
    BY <2>1, CloseoutEnds, CloseoutReaches DEF Recheck
  <2>2. CASE Halt
    BY <2>2, CloseoutEnds DEF Halt
  <2>3. CASE End("clear") /\ Flat([s \in Symbols |-> Holding(s)])
    <3>1. CloseoutInv(closeout, broker)
      BY TaskFacts
    <3>2. /\ closeout'.listed = closeout.listed /\ closeout'.bought = closeout.bought
          /\ Fields(closeout', {"at", "listed", "bought", "result"})
      BY <2>3, <3>1 DEF End, CloseoutInv, Fields
    <3>3. ASSUME NEW s \in Symbols
          PROVE  Filled(broker, s, "SELL") >= Opening[s] + closeout.bought[s]
      <4>1. closeout.bought[s] \in Int /\ closeout.bought[s] <= Filled(broker, s, "BUY")
        BY <3>1 DEF CloseoutInv
      <4>2. Holding(s) = 0
        BY <2>3 DEF Flat
      <4> QED BY <4>1, <4>2, HoldingIs
    <3> QED BY <3>1, <3>2, <3>3 DEF CloseoutInv
  <2>4. Postcheck => \/ Reach("halt") \/ End("blind")
                     \/ End("clear") /\ Flat([s \in Symbols |-> Holding(s)])
    BY DEF Postcheck
  <2>5. CASE Reach("halt") \/ End("blind")
    BY <2>5, CloseoutEnds, CloseoutReaches
  <2> QED BY <2>1, <2>2, <2>3, <2>4, <2>5
<1> QED BY <1>1, <1>2, TaskFacts, StillInv

----------------------------------------------------------------------------
LEMMA NextLive == ASSUME LiveInv, [Next]_liveVars PROVE LiveInv'
<1>1. ASSUME NEW w \in Tasks, Working(w)
      PROVE  LiveInv'
  BY <1>1, SendInv, SendsNothingInv, PollInv, CancelInv, InsertTradeInv, WritePositionInv,
     ProfitInv DEF Working
<1>2. CASE Stream
  BY <1>1, <1>2, TaskFacts, BatchesInv, CheckInv, ReadPositionInv DEF Stream
<1>3. CASE CloseoutRun
  BY <1>3, ListsInv, PrecheckInv, GatherInv, ChecksInv DEF CloseoutRun
<1>4. CASE Environment
  BY <1>4, BatchesInv, BrokerInv, CooldownInv, CrashInv DEF Environment
<1>5. CASE UNCHANGED liveVars
  BY <1>5, TaskFacts, StillInv DEF liveVars, tableVars, processVars
<1> QED BY <1>1, <1>2, <1>3, <1>4, <1>5, BatchesInv, StopInv, FiresInv, CrashInv DEF Next

LEMMA InitLive == Init => LiveInv
<1> SUFFICES ASSUME Init PROVE LiveInv
  OBVIOUS
<1>1. broker = <<>> /\ broker \in Seq(Sending) /\ DOMAIN broker = {}
  BY DEF Init
<1>2. \A w \in Tasks : job[w] = Idle /\ Quiet(w, job[w])
  BY DEF Init, Quiet, JobForm, Placed, Idle, Fields
<1>3. JobsInv(job, broker, trades)
  BY <1>2, QuietFits DEF Init, JobsInv, Quiet
<1>4. TradesInv(broker, trades)
  BY DEF Init, TradesInv
<1>5. \A s, side : Filled(broker, s, side) = 0
  <2> TAKE s, side
  <2>1. {i \in DOMAIN broker : broker[i].symbol = s /\ broker[i].side = side} = {}
    BY <1>1
  <2> QED BY <2>1, SumEmpty DEF Filled
<1>6. CloseoutInv(closeout, broker)
  BY <1>5 DEF Init, CloseoutInv, Nothing, Fields
<1>7. BatchInv(batch) /\ position \in [Symbols -> Int] /\ cache \in [Symbols -> Int]
  BY LiveAssumption DEF Init, BatchInv, NoBatch, Fields, Nothing
<1> QED BY <1>1, <1>3, <1>4, <1>6, <1>7 DEF LiveInv

(* Every task has its own place in the broker's log and every trade too,   *)
(* whatever is delivered again, however polls and fills fall together,     *)
(* through crashes, and the closeout's figures agree with the log.         *)
THEOREM LiveSafe == Spec => []LiveInv
<1> QED BY InitLive, NextLive, PTL DEF Spec

(* A trade in trades_live is what its own order at the broker filled, at   *)
(* least; no order of the broker and no message is recorded twice.         *)
THEOREM LiveTradesFilled == Spec => []TradesWereFilled
<1>1. LiveInv => TradesWereFilled
  BY DEF LiveInv, TradesInv, TradesWereFilled, Same
<1> QED BY <1>1, LiveSafe, PTL

(* After a closeout that reports that nothing is left, or that there was   *)
(* nothing, the broker holds nothing but what was bought since its first   *)
(* look, whatever the stream and the closeout's own tasks sold meanwhile.  *)
THEOREM LiveFlatOrHalted == Spec => []FlatOrHalted
<1>1. LiveInv => FlatOrHalted
  <2> SUFFICES ASSUME LiveInv, closeout.result \in {"clear", "empty"}, closeout.at = "ended",
                      NEW s \in Symbols
               PROVE  Holding(s) <= FilledOf(s, "BUY") - closeout.bought[s]
    BY DEF FlatOrHalted
  <2>1. closeout.bought[s] \in Int
        /\ Filled(broker, s, "SELL") >= Opening[s] + closeout.bought[s]
    BY DEF LiveInv, CloseoutInv
  <2>2. FilledOf(s, "BUY") = Filled(broker, s, "BUY")
    BY FilledIs
  <2> QED BY <2>1, <2>2, HoldingIs
<1> QED BY <1>1, LiveSafe, PTL

----------------------------------------------------------------------------
(* The rows and their trades.                                              *)
(*                                                                         *)
(* A symbol is bought once at most and its purchase is recorded in full,   *)
(* or it is none of those the property is about.  Until the row of the     *)
(* purchase is written nobody knows of shares to sell.  From then on every *)
(* sale, asked for, decided on, cached or listed, is of no less than the   *)
(* row, and the row is no less than what the trades leave: the broker can  *)
(* then accept one sale only as long as no other one may still be filled.  *)
Waits(w) == job[w].pc \in {"check", "send"}
Writes(w) == job[w].pc = "write"
Active(w) == Waits(w) \/ Placed(job[w]) \/ Writes(w)
On(w, s) == Active(w) /\ job[w].order.symbol = s

JobBase(w) ==
  LET j == job[w]
  IN  /\ j.sent # 0 => /\ j.sent \in DOMAIN broker
                       /\ Same(broker[j.sent], j.order.id, j.order.symbol, j.order.side)
                       /\ j.order.side = "BUY" => Placed(j) \/ Writes(w)
      /\ Waits(w) => j.sent = 0
      /\ Writes(w) => TradeOf(w) \in trades
      /\ Active(w) => IF j.order.id = Exit THEN j.existing = j.order.qty ELSE j.order \in issued
      /\ j.pc = "read" => j.order.id # Exit
      /\ j.pc \in {"read", "insert", "write"} => j.fill > 0

(* The closeout's tasks work on orders while it sells, and only then.      *)
Apart ==
  /\ closeout.at # "selling" => \A w \in Symbols : ~Active(w)
  /\ job["closeout"].pc # "idle" => closeout.at = "profit"

BaseInv ==
  /\ IsFiniteSet(trades) /\ batch.todo \subseteq issued /\ issued \subseteq Orders
  /\ \A i \in DOMAIN broker : broker[i].cum <= broker[i].qty
  /\ \A w \in Tasks : JobBase(w)
  /\ Apart

Booked(s, side) == {t \in trades : t.symbol = s /\ t.side = side}
Left(s) == Opening[s] + Bought(s) - Sold(s)
OneBuy(s) == \A i, k \in SentFor(s, "BUY") : i = k
Regular(s) == s \in Symbols \ torn /\ ~Unrecorded(s) /\ OneBuy(s)

(* Nothing of the symbol is known before its purchase is written.          *)
Blank(s) ==
  /\ Opening[s] = 0 /\ position[s] = 0 /\ cache[s] = 0 /\ closeout.listed[s] = 0
  /\ \A o \in issued : o.symbol = s => o.side = "BUY"
  /\ \A w \in Tasks : On(w, s) => /\ job[w].order.side = "BUY"
                                  /\ job[w].pc \in {"insert", "write"} => job[w].existing = 0
  /\ Booked(s, "SELL") = {}
  /\ Booked(s, "BUY") # {} => \E w \in Tasks : Writes(w) /\ On(w, s)

(* A sale that is filled or may be, and is not recorded in full.           *)
Selling(w, s) ==
  /\ On(w, s)
  /\ \/ Writes(w)
     \/ Placed(job[w]) /\ (broker[job[w].sent].working \/ broker[job[w].sent].cum > 0)

(* It is of the row, and the row is what the trades leave, but for a sale  *)
(* with its trade recorded and its row not yet written.                    *)
SellsAll(w, s) ==
  /\ position[s] = IF Writes(w) THEN Left(s) + job[w].fill ELSE Left(s)
  /\ IF Writes(w) THEN job[w].existing = position[s] ELSE job[w].order.qty = position[s]
  /\ job[w].pc = "insert" => job[w].existing = position[s]

Begun(s) ==
  IF Opening[s] > 0
  THEN SentFor(s, "BUY") = {} /\ \A o \in issued : o.symbol = s => o.side = "SELL"
  ELSE Booked(s, "BUY") # {}

NoLess(s) ==
  /\ cache[s] = 0 \/ cache[s] >= position[s]
  /\ closeout.listed[s] = 0 \/ closeout.listed[s] >= position[s]
  /\ \A o \in issued : o.symbol = s /\ o.side = "SELL" => o.qty >= position[s]
  /\ \A w \in Tasks : On(w, s) /\ Waits(w) /\ job[w].order.side = "SELL" =>
       job[w].order.qty >= position[s]

Owned(s) ==
  /\ Begun(s) /\ NoLess(s)
  /\ \A w \in Tasks : On(w, s) /\ ~Waits(w) => job[w].order.side = "SELL"
  /\ \A w \in Tasks : Selling(w, s) => SellsAll(w, s)
  /\ \A w, v \in Tasks : Selling(w, s) /\ Selling(v, s) => w = v
  /\ (\A w \in Tasks : ~(Writes(w) /\ On(w, s))) => position[s] = Left(s)

Traced(s) == Blank(s) \/ Owned(s)
RowsInv == LiveInv /\ BaseInv /\ \A s \in Symbols : Regular(s) => Traced(s)

----------------------------------------------------------------------------
(* What was sold and what may still be.                                    *)
Rests == [i \in DOMAIN broker |-> broker[i].qty - broker[i].cum]

LEMMA RestsAreSum ==
  ASSUME NEW S \in SUBSET DOMAIN broker
  PROVE  MapThenSumSet(LAMBDA i : broker[i].qty - broker[i].cum, S) = SumOver(Rests, S)
<1> DEFINE f == Rests
           weighed(h) == [s \in SUBSET S |->
             IF s = {} THEN 0
             ELSE (broker[Chosen(s)].qty - broker[Chosen(s)].cum) + h[s \ {Chosen(s)}]]
<1>1. MapThenSumSet(LAMBDA i : broker[i].qty - broker[i].cum, S) = (CHOOSE h : h = weighed(h))[S]
  BY DEF MapThenSumSet, MapThenFoldSet, Chosen
<1>2. \A h : weighed(h) = PartialSums(f, h, S)
  BY ChosenIn DEF PartialSums, Rests
<1>3. (CHOOSE h : h = weighed(h)) = Solution(f, S)
  <2> HIDE DEF weighed, f
  <2> QED BY <1>2, Zenon DEF Solution
<1> QED BY <1>1, <1>3, SumIsSolution

QtyOf == [t \in trades |-> t.qty]

LEMMA BookedFacts ==
  ASSUME LiveInv, BaseInv, NEW s, NEW side
  PROVE  /\ Booked(s, side) \in SUBSET trades /\ IsFiniteSet(Booked(s, side))
         /\ \A t \in Booked(s, side) : /\ t.qty \in Nat /\ QtyOf[t] = t.qty
                                       /\ t.sent \in SentFor(s, side) /\ t.sent \in DOMAIN broker
                                       /\ t.qty <= broker[t.sent].cum
         /\ MapThenSumSet(LAMBDA t : t.qty, Booked(s, side)) = SumOver(QtyOf, Booked(s, side))
         /\ SumOver(QtyOf, Booked(s, side)) \in Nat
<1>1. Booked(s, side) \in SUBSET trades /\ IsFiniteSet(Booked(s, side))
  <2>1. Booked(s, side) \in SUBSET trades /\ IsFiniteSet(trades)
    BY DEF Booked, BaseInv
  <2> QED BY <2>1, FS_Subset
<1>2. ASSUME NEW t \in Booked(s, side)
      PROVE  /\ t.qty \in Nat /\ QtyOf[t] = t.qty
             /\ t.sent \in SentFor(s, side) /\ t.sent \in DOMAIN broker
             /\ t.qty <= broker[t.sent].cum
  BY DEF Booked, QtyOf, LiveInv, TradesInv, SentFor, Same
<1>3. MapThenSumSet(LAMBDA t : t.qty, Booked(s, side)) = SumOver(QtyOf, Booked(s, side))
  BY <1>1, SumOfQuantities DEF QtyOf
<1>4. SumOver(QtyOf, Booked(s, side)) \in Nat
  <2>1. \A t \in Booked(s, side) : QtyOf[t] \in Nat
    BY <1>2
  <2> QED BY <1>1, <2>1, SumPart
<1> QED BY <1>1, <1>2, <1>3, <1>4

LEMMA LeftIs ==
  ASSUME LiveInv, BaseInv, NEW s \in Symbols
  PROVE  /\ Bought(s) = SumOver(QtyOf, Booked(s, "BUY")) /\ Bought(s) \in Nat
         /\ Sold(s) = SumOver(QtyOf, Booked(s, "SELL")) /\ Sold(s) \in Nat
         /\ Left(s) = Opening[s] + Bought(s) - Sold(s) /\ Left(s) \in Int /\ Opening[s] \in Nat
         /\ position[s] \in Int
<1>1. Bought(s) = SumOver(QtyOf, Booked(s, "BUY")) /\ Bought(s) \in Nat
  <2>1. Bought(s) = MapThenSumSet(LAMBDA t : t.qty, Booked(s, "BUY"))
    BY Zenon DEF Bought, Booked
  <2> QED BY <2>1, BookedFacts
<1>2. Sold(s) = SumOver(QtyOf, Booked(s, "SELL")) /\ Sold(s) \in Nat
  <2>1. Sold(s) = MapThenSumSet(LAMBDA t : t.qty, Booked(s, "SELL"))
    BY Zenon DEF Sold, Booked
  <2> QED BY <2>1, BookedFacts
<1>3. Opening[s] \in Nat /\ position[s] \in Int
  BY LiveAssumption, TaskFacts
<1> QED BY <1>1, <1>2, <1>3 DEF Left

(* No booked trade, no shares of it; one, its own.                         *)
LEMMA NoneBooked ==
  ASSUME LiveInv, BaseInv, NEW s \in Symbols
  PROVE  /\ Booked(s, "BUY") = {} => Bought(s) = 0
         /\ Booked(s, "SELL") = {} => Sold(s) = 0
BY LeftIs, SumEmpty

LEMMA OneBooked ==
  ASSUME LiveInv, BaseInv, NEW s \in Symbols, OneBuy(s), NEW t \in Booked(s, "BUY")
  PROVE  Bought(s) = t.qty
<1>1. \A u \in Booked(s, "BUY") : u = t
  <2>1. \A u \in Booked(s, "BUY") : u.sent = t.sent
    BY BookedFacts DEF OneBuy
  <2> QED BY <2>1 DEF Booked, LiveInv, TradesInv
<1>2. Booked(s, "BUY") = {t}
  BY <1>1
<1>3. QtyOf[t] = t.qty /\ t.qty \in Int
  <2>1. QtyOf[t] = t.qty /\ t.qty \in Nat
    BY BookedFacts
  <2> QED BY <2>1
<1> QED BY <1>2, <1>3, LeftIs, SumSingle

(* What was bought is recorded.                                            *)
LEMMA BoughtAll ==
  ASSUME LiveInv, BaseInv, NEW s, Regular(s), Owned(s)
  PROVE  FilledOf(s, "BUY") <= Bought(s)
<1>0. s \in Symbols /\ Opening[s] \in Nat
  BY LiveAssumption DEF Regular
<1>1. FilledOf(s, "BUY") = SumOver(CumOf(broker), SentFor(s, "BUY"))
  BY FilledIs DEF Filled, SentFor
<1>2. CASE Opening[s] > 0
  <2>1. FilledOf(s, "BUY") = 0
    BY <1>1, <1>2, SumEmpty DEF Owned, Begun
  <2> QED BY <1>0, <2>1, LeftIs
<1>3. CASE ~(Opening[s] > 0)
  <2>1. PICK t \in Booked(s, "BUY") : TRUE
    BY <1>3 DEF Owned, Begun
  <2> DEFINE i == t.sent
  <2>2. i \in SentFor(s, "BUY") /\ i \in DOMAIN broker /\ t.qty \in Nat /\ t.qty <= broker[i].cum
    BY BookedFacts
  <2>3. SentFor(s, "BUY") = {i}
    BY <2>2 DEF Regular, OneBuy
  <2>4. broker[i].cum \in Nat /\ CumOf(broker)[i] = broker[i].cum
    BY <2>2, TaskFacts, LogDomain
  <2>5. FilledOf(s, "BUY") = broker[i].cum
    BY <1>1, <2>3, <2>4, SumSingle
  <2>6. Bought(s) = t.qty
    BY <1>0, OneBooked DEF Regular
  <2>7. \A w \in Tasks : job[w].sent # i
    <3> SUFFICES ASSUME NEW w \in Tasks, job[w].sent = i PROVE FALSE
      OBVIOUS
    <3>1. i # 0
      <4>1. DOMAIN broker = 1 .. Len(broker) /\ Len(broker) \in Nat
        BY TaskFacts, LogDomain
      <4> QED BY <2>2, <4>1
    <3>2. JobBase(w) /\ broker[i].symbol = s /\ broker[i].side = "BUY"
      BY <2>2 DEF BaseInv, SentFor
    <3>3. job[w].order.symbol = s /\ job[w].order.side = "BUY" /\ (Placed(job[w]) \/ Writes(w))
      BY <3>1, <3>2 DEF JobBase, Same
    <3>4. On(w, s) /\ ~Waits(w)
      BY <3>3 DEF On, Active, Waits, Writes, Placed
    <3> QED BY <3>3, <3>4 DEF Owned
  <2>8. t.qty < broker[i].cum => FALSE
    <3> SUFFICES ASSUME t.qty < broker[i].cum PROVE FALSE
      OBVIOUS
    <3>1. \A u \in trades : u.sent = i => u = t
      BY DEF Booked, LiveInv, TradesInv
    <3>2. broker[i].cum > 0
      BY <2>2, <2>4
    <3>3. Unrecorded(s)
      BY <2>2, <2>7, <3>1, <3>2 DEF Unrecorded
    <3> QED BY <3>3 DEF Regular
  <2> QED BY <2>2, <2>4, <2>5, <2>6, <2>8
<1> QED BY <1>2, <1>3

(* The broker lets nobody sell what an unrecorded sale may take.           *)
LEMMA FreeIsLeft ==
  ASSUME LiveInv, BaseInv, NEW s, Regular(s), Owned(s)
  PROVE  /\ Free(s) \in Int /\ Free(s) <= Left(s)
         /\ \A m \in SentFor(s, "SELL") :
              /\ \A t \in trades : t.sent # m
              /\ broker[m].working \/ broker[m].cum > 0
              => Free(s) < Left(s)
<1> DEFINE D == DOMAIN broker
           S == SentFor(s, "SELL")
           W == {i \in S : broker[i].working}
           f == CumOf(broker)
           P == Booked(s, "SELL")
           h == [t \in P |-> t.sent]
           p == [t \in P |-> broker[t.sent].cum]
           I == {h[t] : t \in P}
<1>1. /\ s \in Symbols /\ IsFiniteSet(D)
      /\ \A i \in D : /\ broker[i] \in Sending /\ f[i] = broker[i].cum /\ f[i] \in Nat
                      /\ broker[i].qty \in Nat /\ broker[i].qty > 0
                      /\ Rests[i] = broker[i].qty - f[i] /\ Rests[i] \in Nat
  <2>1. \A i \in D : broker[i] \in Sending /\ f[i] = broker[i].cum /\ f[i] \in Nat
    BY TaskFacts, LogDomain
  <2>2. \A i \in D : broker[i].qty \in Nat /\ broker[i].qty > 0 /\ broker[i].cum <= broker[i].qty
    BY <2>1 DEF Sending, BaseInv
  <2> QED BY <2>1, <2>2, TaskFacts, LogDomain DEF Regular, Rests
<1>2. S \in SUBSET D /\ W \in SUBSET S /\ W \in SUBSET D /\ IsFiniteSet(S) /\ IsFiniteSet(W)
  <2>1. S \in SUBSET D /\ W \in SUBSET S /\ W \in SUBSET D
    BY DEF SentFor
  <2> QED BY <1>1, <2>1, FS_Subset
<1>3. /\ Free(s) = (Opening[s] + FilledOf(s, "BUY") - SumOver(f, S)) - SumOver(Rests, W)
      /\ FilledOf(s, "BUY") \in Int
  <2>1. FilledOf(s, "SELL") = SumOver(f, S)
    BY FilledIs DEF Filled, SentFor
  <2>2. MapThenSumSet(LAMBDA i : broker[i].qty - broker[i].cum, W) = SumOver(Rests, W)
    BY <1>2, RestsAreSum
  <2>3. FilledOf(s, "BUY") \in Int
    BY <1>1, HoldingIs, FilledIs
  <2>4. Free(s) = Holding(s) - MapThenSumSet(LAMBDA i : broker[i].qty - broker[i].cum, W)
    BY Zenon DEF Free
  <2>5. Free(s) = Holding(s) - SumOver(Rests, W)
    BY <2>2, <2>4, Zenon
  <2>6. Holding(s) = Opening[s] + FilledOf(s, "BUY") - SumOver(f, S)
    BY <2>1, Zenon DEF Holding
  <2> QED BY <2>3, <2>5, <2>6, Zenon
<1>4. /\ I \in SUBSET S /\ IsFiniteSet(I)
      /\ Sold(s) <= SumOver(f, I)
  <2>1. I \in SUBSET S
    BY BookedFacts
  <2>2. IsFiniteSet(I)
    BY <1>2, <2>1, FS_Subset
  <2>3. IsFiniteSet(P) /\ Sold(s) = SumOver(QtyOf, P)
    BY <1>1, BookedFacts, LeftIs
  <2>4. \A t \in P : QtyOf[t] \in Int /\ p[t] \in Int /\ QtyOf[t] <= p[t] /\ f[h[t]] = p[t]
    <3>1. \A t \in P : t.sent \in D /\ t.qty \in Nat /\ QtyOf[t] = t.qty /\ t.qty <= broker[t.sent].cum
      BY BookedFacts
    <3> QED BY <1>1, <3>1
  <2>5. \A t, u \in P : h[t] = h[u] => t = u
    BY DEF Booked, LiveInv, TradesInv
  <2> HIDE DEF p, h, f, P
  <2>6. SumOver(p, P) = SumOver(f, {h[t] : t \in P})
    BY <2>3, <2>4, <2>5, SumImage
  <2>7. SumOver(QtyOf, P) <= SumOver(p, P)
    BY <2>3, <2>4, SumAtMost
  <2> QED BY <2>1, <2>2, <2>3, <2>6, <2>7
<1>5. /\ SumOver(f, S) \in Nat /\ SumOver(f, I) \in Nat /\ SumOver(f, I) <= SumOver(f, S)
      /\ SumOver(Rests, W) \in Nat
  <2>1. (\A i \in S : f[i] \in Nat) /\ (\A i \in W : Rests[i] \in Nat)
    BY <1>1, <1>2
  <2> HIDE DEF f, S, W, I
  <2> QED BY <1>2, <1>4, <2>1, SumPart
<1>6. /\ Opening[s] \in Nat /\ Bought(s) \in Nat /\ Sold(s) \in Nat
      /\ Left(s) = Opening[s] + Bought(s) - Sold(s) /\ FilledOf(s, "BUY") <= Bought(s)
  BY <1>1, LeftIs, BoughtAll
<1>7. Free(s) \in Int /\ Free(s) <= Left(s)
  <2> HIDE DEF f, S, W, I
  <2> QED BY <1>3, <1>4, <1>5, <1>6
<1>8. ASSUME NEW m \in S, \A t \in trades : t.sent # m, broker[m].working \/ broker[m].cum > 0
      PROVE  Free(s) < Left(s)
  <2>1. m \notin I /\ m \in D /\ I \cup {m} \in SUBSET S
    BY <1>2, <1>4, <1>8 DEF Booked
  <2>2. f[m] \in Nat /\ f[m] = broker[m].cum /\ \A i \in I \cup {m} : f[i] \in Int
    BY <1>1, <1>2, <1>4, <2>1
  <2>3. SumOver(f, I) + f[m] <= SumOver(f, S)
    <3> HIDE DEF f, I, S
    <3>1. SumOver(f, I \cup {m}) = SumOver(f, I) + f[m]
      BY <1>4, <2>1, <2>2, SumAdd
    <3>2. SumOver(f, I \cup {m}) <= SumOver(f, S)
      <4>1. \A i \in S : f[i] \in Nat
        BY <1>1, <1>2
      <4> QED BY <1>2, <2>1, <4>1, SumPart
    <3> QED BY <3>1, <3>2
  <2>4. CASE broker[m].cum > 0
    <3> HIDE DEF f, S, W, I
    <3> QED BY <1>3, <1>4, <1>5, <1>6, <2>2, <2>3, <2>4
  <2>5. CASE broker[m].working /\ ~(broker[m].cum > 0)
    <3>1. m \in W /\ {m} \in SUBSET W /\ Rests[m] \in Nat /\ Rests[m] > 0
      BY <1>1, <2>1, <2>2, <2>5
    <3>2. SumOver(Rests, {m}) = Rests[m]
      BY <3>1, SumSingle
    <3>3. SumOver(Rests, {m}) <= SumOver(Rests, W)
      <4>1. \A i \in W : Rests[i] \in Nat
        BY <1>1, <1>2
      <4> HIDE DEF W
      <4> QED BY <1>2, <3>1, <4>1, SumPart
    <3> HIDE DEF f, S, W, I
    <3> QED BY <1>3, <1>4, <1>5, <1>6, <2>2, <2>3, <3>1, <3>2, <3>3
  <2> QED BY <1>8, <2>4, <2>5
<1> QED BY <1>7, <1>8

(* So when a sale of no less than the row is accepted, it is of the row,   *)
(* the row is what the trades leave, and no other sale is under way.       *)
LEMMA AcceptedAlone ==
  ASSUME LiveInv, BaseInv, NEW s, Regular(s), Owned(s), NEW q \in Int,
         q >= position[s], q <= Free(s)
  PROVE  position[s] = Left(s) /\ q = position[s] /\ \A w \in Tasks : ~Selling(w, s)
<1>1. /\ s \in Symbols /\ Left(s) \in Int /\ position[s] \in Int /\ Free(s) \in Int
      /\ Free(s) <= Left(s)
  BY LeftIs, FreeIsLeft DEF Regular
<1>2. \A w \in Tasks : ~(Writes(w) /\ On(w, s))
  <2> SUFFICES ASSUME NEW w \in Tasks, Writes(w), On(w, s) PROVE FALSE
    OBVIOUS
  <2>1. position[s] = Left(s) + job[w].fill
    BY DEF Selling, Owned, SellsAll
  <2>2. job[w].fill \in Int /\ job[w].fill > 0
    BY TaskFacts DEF JobForm, Writes, BaseInv, JobBase
  <2> QED BY <1>1, <2>1, <2>2
<1>3. position[s] = Left(s)
  BY <1>2 DEF Owned
<1>4. ASSUME NEW w \in Tasks, Selling(w, s)
      PROVE  FALSE
  <2>1. /\ On(w, s) /\ Placed(job[w])
        /\ broker[job[w].sent].working \/ broker[job[w].sent].cum > 0
    BY <1>2, <1>4 DEF Selling
  <2>2. job[w].order.symbol = s /\ job[w].order.side = "SELL"
    BY <2>1 DEF On, Owned, Waits, Placed
  <2>3. job[w].sent \in SentFor(s, "SELL") /\ \A t \in trades : t.sent # job[w].sent
    BY <2>1, <2>2, TaskFacts DEF JobFits, Same, SentFor
  <2>4. Free(s) < Left(s)
    BY <2>1, <2>3, FreeIsLeft
  <2> QED BY <1>1, <1>3, <2>4
<1> QED BY <1>1, <1>3, <1>4

----------------------------------------------------------------------------
(* What a step may do to a task that is not at the broker, in the trades   *)
(* or at its row.                                                          *)
Stays(w) == job'[w] = job[w]

Leaves(w) ==
  /\ ~Active(w)'
  /\ \/ job'[w].sent = 0
     \/ /\ job'[w].order = job[w].order /\ job'[w].sent = job[w].sent
        /\ job[w].order.side # "BUY"

Queues(w) ==
  LET o == job'[w].order
  IN  /\ ~Writes(w) /\ Waits(w)' /\ job'[w].sent = 0
      /\ \/ o \in issued /\ o.id # Exit
         \/ /\ o.id = Exit /\ o.side = "SELL" /\ job'[w].existing = o.qty /\ o.qty > 0
            /\ o.qty = cache[o.symbol] \/ o.qty = closeout.listed[o.symbol]

Handles(w) ==
  /\ Placed(job[w]) /\ Placed(job'[w])
  /\ job'[w].order = job[w].order /\ job'[w].sent = job[w].sent
  /\ IF job[w].order.id = Exit THEN job'[w].existing = job[w].existing /\ job'[w].pc # "read"
     ELSE job'[w].pc = "insert" => job'[w].existing = position[job[w].order.symbol]
  /\ job'[w].pc \in {"read", "insert"} => job'[w].fill > 0

Moves(w) == Stays(w) \/ Leaves(w) \/ Queues(w) \/ Handles(w)

LEMMA MovesBase ==
  ASSUME LiveInv, BaseInv, NEW w \in Tasks, Moves(w), Grown(broker, broker'),
         trades \subseteq trades', issued \subseteq issued'
  PROVE  JobBase(w)'
<1>1. JobBase(w) /\ issued \subseteq Orders
  BY DEF BaseInv
<1>2. ASSUME job'[w].sent = job[w].sent, job'[w].order = job[w].order, job[w].sent # 0
      PROVE  /\ job'[w].sent \in DOMAIN broker'
             /\ Same(broker'[job'[w].sent], job'[w].order.id, job'[w].order.symbol, job'[w].order.side)
  BY <1>1, <1>2 DEF JobBase, Grown, Same
<1>3. CASE Stays(w)
  <2>1. /\ job'[w] = job[w] /\ TradeOf(w)' = TradeOf(w) /\ (Writes(w)' <=> Writes(w))
        /\ (Active(w)' <=> Active(w)) /\ (Waits(w)' <=> Waits(w))
    BY <1>3 DEF Stays, TradeOf, Writes, Active, Waits
  <2> QED BY <1>1, <1>2, <2>1 DEF JobBase
<1>4. CASE Leaves(w)
  <2>1. ~Active(w)' /\ ~Waits(w)' /\ ~Writes(w)' /\ ~(job'[w].pc \in {"read", "insert", "write"})
    BY <1>4 DEF Leaves, Active, Writes, Placed
  <2>2. CASE job'[w].sent = 0
    BY <2>1, <2>2 DEF JobBase
  <2>3. CASE /\ job'[w].order = job[w].order /\ job'[w].sent = job[w].sent
             /\ job[w].order.side # "BUY"
    BY <1>2, <2>1, <2>3 DEF JobBase
  <2> QED BY <1>4, <2>2, <2>3 DEF Leaves
<1>5. CASE Queues(w)
  <2>1. ~Writes(w)' /\ ~(job'[w].pc \in {"read", "insert", "write"}) /\ job'[w].sent = 0
    BY <1>5 DEF Queues, Waits, Writes
  <2>2. IF job'[w].order.id = Exit THEN job'[w].existing = job'[w].order.qty
        ELSE job'[w].order \in issued'
    BY <1>5 DEF Queues
  <2> QED BY <2>1, <2>2 DEF JobBase
<1>6. CASE Handles(w)
  <2>1. /\ Placed(job[w]) /\ Placed(job'[w]) /\ Active(w) /\ ~Writes(w)' /\ ~Waits(w)'
        /\ job'[w].order = job[w].order /\ job'[w].sent = job[w].sent
    BY <1>6 DEF Handles, Active, Placed, Writes, Waits
  <2>2. IF job'[w].order.id = Exit THEN job'[w].existing = job'[w].order.qty
        ELSE job'[w].order \in issued'
    BY <1>1, <1>6, <2>1 DEF Handles, JobBase
  <2>3. job'[w].pc \in {"read", "insert", "write"} => job'[w].fill > 0
    BY <1>6, <2>1 DEF Handles, Writes
  <2>4. job'[w].pc = "read" => job'[w].order.id # Exit
    BY <1>6, <2>1 DEF Handles
  <2> QED BY <1>2, <2>1, <2>2, <2>3, <2>4 DEF JobBase
<1> QED BY <1>3, <1>4, <1>5, <1>6 DEF Moves

(* What is irregular stays so.                                             *)
Goes ==
  /\ Grown(broker, broker') /\ torn \subseteq torn'
  /\ \A t \in trades' \ trades : \E w \in Tasks : t.sent = job[w].sent
  /\ \A w \in Tasks : \/ job'[w].sent = 0 \/ job'[w].sent = job[w].sent
                      \/ job'[w].sent \notin DOMAIN broker

LEMMA RegularBefore ==
  ASSUME LiveInv, Goes, NEW s, Regular(s)'
  PROVE  Regular(s)
<1>1. s \in Symbols \ torn
  BY DEF Regular, Goes
<1>2. SentFor(s, "BUY") \subseteq SentFor(s, "BUY")'
  BY DEF Goes, Grown, SentFor
<1>3. OneBuy(s)
  BY <1>2 DEF Regular, OneBuy
<1>4. ASSUME Unrecorded(s) PROVE FALSE
  <2>1. PICK i \in SentFor(s, "BUY") : /\ \A w \in Tasks : job[w].sent # i
                                       /\ \A t \in trades : t.sent = i => t.qty < broker[i].cum
                                       /\ broker[i].cum > 0
    BY <1>4 DEF Unrecorded
  <2>2. /\ i \in DOMAIN broker /\ i # 0 /\ broker[i].cum \in Nat /\ broker'[i].cum \in Nat
        /\ broker[i].cum <= broker'[i].cum
    <3>1. i \in DOMAIN broker /\ i \in DOMAIN broker'
      BY DEF SentFor, Goes, Grown
    <3>2. /\ DOMAIN broker = 1 .. Len(broker) /\ Len(broker) \in Nat /\ broker[i].cum \in Nat
      BY <3>1, TaskFacts, LogDomain
    <3>3. broker'[i].cum \in Nat
      BY <3>1, LogDomain DEF Goes, Grown
    <3> QED BY <3>1, <3>2, <3>3 DEF Goes, Grown
  <2>3. \A w \in Tasks : job'[w].sent # i
    BY <2>1, <2>2 DEF Goes
  <2>4. \A t \in trades' : t.sent = i => t.qty < broker'[i].cum
    <3> SUFFICES ASSUME NEW t \in trades', t.sent = i PROVE t.qty < broker'[i].cum
      OBVIOUS
    <3>1. t \in trades
      BY <2>1 DEF Goes
    <3>2. t.qty \in Nat /\ t.qty < broker[i].cum
      BY <2>1, <3>1 DEF LiveInv, TradesInv
    <3> QED BY <2>2, <3>2
  <2>5. broker'[i].cum > 0
    BY <2>1, <2>2
  <2>6. Unrecorded(s)'
    BY <1>2, <2>3, <2>4, <2>5 DEF Unrecorded
  <2> QED BY <2>6 DEF Regular
<1> QED BY <1>1, <1>3, <1>4 DEF Regular

(* A step that leaves the row and the trades of a symbol alone, accepts no *)
(* order for it and lets no task forget a row it was about to write.       *)
Offers(s) ==
  \A o \in issued' \ issued : o.symbol = s =>
    IF o.side = "BUY" THEN position[s] = 0 /\ Booked(s, "SELL") = {} ELSE position[s] = o.qty

Knows(s) ==
  /\ cache'[s] \in {0, cache[s], position[s]}
  /\ closeout'.listed[s] \in {closeout.listed[s], position[s]}

FillsOnly(i) ==
  /\ i \in DOMAIN broker
  /\ broker'[i].working \/ broker'[i].cum > 0 => broker[i].working \/ broker[i].cum > 0

Calm(s) ==
  /\ position'[s] = position[s] /\ Offers(s) /\ Knows(s)
  /\ Booked(s, "BUY")' = Booked(s, "BUY") /\ Booked(s, "SELL")' = Booked(s, "SELL")
  /\ \A i \in DOMAIN broker' : broker'[i].symbol = s => FillsOnly(i)
  /\ \A w \in Tasks : On(w, s)' => Stays(w) \/ Queues(w) \/ Handles(w)
  /\ \A w \in Tasks : Writes(w) /\ On(w, s) => Stays(w)

LEMMA SharesNext ==
  ASSUME NEW s
  PROVE  /\ Bought(s)' = MapThenSumSet(LAMBDA t : t.qty, Booked(s, "BUY")')
         /\ Sold(s)' = MapThenSumSet(LAMBDA t : t.qty, Booked(s, "SELL")')
BY DEF Bought, Sold, Booked, MapThenSumSet, MapThenFoldSet

LEMMA LeftStays ==
  ASSUME NEW s, Booked(s, "BUY")' = Booked(s, "BUY"), Booked(s, "SELL")' = Booked(s, "SELL")
  PROVE  Left(s)' = Left(s)
<1>1. Bought(s)' = Bought(s)
  <2>1. Bought(s) = MapThenSumSet(LAMBDA t : t.qty, Booked(s, "BUY"))
    BY Zenon DEF Bought, Booked
  <2> QED BY <2>1, SharesNext, Zenon
<1>2. Sold(s)' = Sold(s)
  <2>1. Sold(s) = MapThenSumSet(LAMBDA t : t.qty, Booked(s, "SELL"))
    BY Zenon DEF Sold, Booked
  <2> QED BY <2>1, SharesNext, Zenon
<1> QED BY <1>1, <1>2 DEF Left

LEMMA CalmJobs ==
  ASSUME NEW s, Calm(s), NEW w \in Tasks, On(w, s)'
  PROVE  \/ Stays(w) /\ On(w, s) /\ (Waits(w)' <=> Waits(w)) /\ (Writes(w)' <=> Writes(w))
         \/ Queues(w) /\ Waits(w)' /\ ~Writes(w)' /\ ~Placed(job'[w])
         \/ Handles(w) /\ On(w, s) /\ ~Waits(w) /\ ~Waits(w)' /\ ~Writes(w) /\ ~Writes(w)'
<1>1. Stays(w) \/ Queues(w) \/ Handles(w)
  BY DEF Calm
<1>2. CASE Stays(w)
  BY <1>2 DEF Stays, On, Active, Waits, Writes
<1>3. CASE Queues(w)
  BY <1>3 DEF Queues, Waits, Writes, Placed
<1>4. CASE Handles(w)
  BY <1>4 DEF Handles, On, Active, Waits, Writes, Placed
<1> QED BY <1>1, <1>2, <1>3, <1>4

LEMMA CalmBlank ==
  ASSUME LiveInv, BaseInv, BaseInv', NEW s \in Symbols, Calm(s), Blank(s)
  PROVE  Blank(s)'
<1>1. /\ Opening[s] = 0 /\ position'[s] = 0 /\ cache'[s] = 0 /\ closeout'.listed[s] = 0
      /\ Booked(s, "SELL")' = {}
  BY DEF Calm, Blank, Knows
<1>2. ASSUME NEW o \in issued', o.symbol = s
      PROVE  o.side = "BUY"
  <2>1. o \in Order
    BY LiveAssumption DEF BaseInv
  <2>2. CASE o \in issued
    BY <1>2, <2>2 DEF Blank
  <2>3. CASE o \notin issued
    BY <1>2, <2>1, <2>3 DEF Calm, Offers, Blank, Order
  <2> QED BY <2>2, <2>3
<1>3. ASSUME NEW w \in Tasks, On(w, s)'
      PROVE  /\ job'[w].order.side = "BUY"
             /\ job'[w].pc \in {"insert", "write"} => job'[w].existing = 0
  <2>1. CASE Stays(w) /\ On(w, s)
    BY <2>1 DEF Stays, Blank
  <2>2. CASE Queues(w)
    <3>1. job'[w].order \in issued
      <4>1. job'[w].order.symbol = s
        BY <1>3 DEF On
      <4> QED BY <2>2, <4>1 DEF Queues, Blank
    <3>2. job'[w].order \in issued' \/ job'[w].order.side = "BUY"
      BY <1>3, <3>1 DEF Blank, On
    <3>3. job'[w].order.side = "BUY"
      BY <1>3, <3>1 DEF Blank, On
    <3> QED BY <2>2, <3>3 DEF Queues, Waits
  <2>3. CASE Handles(w) /\ On(w, s) /\ ~Writes(w)'
    <3>1. job'[w].order = job[w].order /\ job[w].order.side = "BUY" /\ Placed(job[w])
      BY <2>3 DEF Handles, Blank
    <3>2. job[w].order.id # Exit
      <4>1. job[w].order \in Order \cup Sale
        BY <3>1, TaskFacts DEF JobForm
      <4> QED BY <3>1, <4>1, LiveAssumption DEF Order, Sale
    <3>3. job'[w].pc = "insert" => job'[w].existing = 0
      BY <2>3, <3>2 DEF Handles, On, Blank
    <3> QED BY <2>3, <3>1, <3>3 DEF Writes
  <2> QED BY <1>3, <2>1, <2>2, <2>3, CalmJobs
<1>4. Booked(s, "BUY")' # {} => \E w \in Tasks : Writes(w)' /\ On(w, s)'
  <2> SUFFICES ASSUME Booked(s, "BUY")' # {} PROVE \E w \in Tasks : Writes(w)' /\ On(w, s)'
    OBVIOUS
  <2>1. PICK w \in Tasks : Writes(w) /\ On(w, s)
    BY DEF Calm, Blank
  <2>2. Stays(w)
    BY <2>1 DEF Calm
  <2> QED BY <2>1, <2>2 DEF Stays, Writes, On, Active
<1> QED BY <1>1, <1>2, <1>3, <1>4 DEF Blank

LEMMA CalmBegun ==
  ASSUME LiveInv, BaseInv, BaseInv', NEW s \in Symbols, Grown(broker, broker'), Calm(s), Owned(s)
  PROVE  Begun(s)'
<1>1. CASE ~(Opening[s] > 0)
  BY <1>1 DEF Owned, Begun, Calm
<1>2. CASE Opening[s] > 0
  <2>1. SentFor(s, "BUY") = {} /\ \A o \in issued : o.symbol = s => o.side = "SELL"
    BY <1>2 DEF Owned, Begun
  <2>2. SentFor(s, "BUY")' = {}
    <3> SUFFICES ASSUME NEW i \in SentFor(s, "BUY")' PROVE FALSE
      OBVIOUS
    <3>1. i \in DOMAIN broker' /\ broker'[i].symbol = s /\ broker'[i].side = "BUY"
      BY DEF SentFor
    <3>2. i \in DOMAIN broker
      BY <3>1 DEF Calm, FillsOnly
    <3> QED BY <2>1, <3>1, <3>2 DEF Grown, SentFor
  <2>3. ASSUME NEW o \in issued', o.symbol = s
        PROVE  o.side = "SELL"
    <3>1. CASE o \in issued
      BY <2>1, <2>3, <3>1
    <3>2. CASE o \notin issued
      <4>1. o \in Order
        BY LiveAssumption DEF BaseInv
      <4> SUFFICES ASSUME o.side = "BUY" PROVE FALSE
        BY <4>1 DEF Order
      <4>2. position[s] = 0 /\ Booked(s, "SELL") = {}
        BY <2>3, <3>2 DEF Calm, Offers
      <4>3. \A w \in Tasks : ~(Writes(w) /\ On(w, s))
        <5> SUFFICES ASSUME NEW w \in Tasks, Writes(w), On(w, s) PROVE FALSE
          OBVIOUS
        <5>1. TradeOf(w) \in trades
          BY DEF BaseInv, JobBase
        <5>2. job[w].order.side = "SELL" /\ job[w].order.symbol = s
          BY DEF Owned, Waits, Writes, On
        <5>3. TradeOf(w) \in Booked(s, "SELL")
          BY <5>1, <5>2 DEF TradeOf, Booked
        <5> QED BY <4>2, <5>3
      <4>4. Booked(s, "BUY") = {}
        BY <2>1, BookedFacts
      <4>5. position[s] = Left(s) /\ Bought(s) = 0 /\ Sold(s) = 0
        BY <4>2, <4>3, <4>4, NoneBooked DEF Owned
      <4> QED BY <1>2, <4>2, <4>5, LeftIs
    <3> QED BY <3>1, <3>2
  <2> QED BY <1>2, <2>2, <2>3 DEF Begun
<1> QED BY <1>1, <1>2

LEMMA CalmNoLess ==
  ASSUME LiveInv, BaseInv, NEW s \in Symbols, Calm(s), Owned(s)
  PROVE  NoLess(s)'
<1>1. position'[s] = position[s] /\ position[s] \in Int /\ NoLess(s)
  BY LeftIs DEF Calm, Owned
<1>2. cache'[s] = 0 \/ cache'[s] >= position[s]
  BY <1>1 DEF Calm, Knows, NoLess
<1>3. closeout'.listed[s] = 0 \/ closeout'.listed[s] >= position[s]
  BY <1>1 DEF Calm, Knows, NoLess
<1>4. \A o \in issued' : o.symbol = s /\ o.side = "SELL" => o.qty >= position[s]
  BY <1>1 DEF Calm, Offers, NoLess
<1>5. ASSUME NEW w \in Tasks, On(w, s)', Waits(w)', job'[w].order.side = "SELL"
      PROVE  job'[w].order.qty >= position[s]
  <2>1. CASE Stays(w) /\ On(w, s) /\ Waits(w)
    BY <1>1, <1>5, <2>1 DEF Stays, NoLess
  <2>2. CASE Queues(w)
    <3>1. job'[w].order.symbol = s
      BY <1>5 DEF On
    <3>2. CASE job'[w].order \in issued
      BY <1>1, <1>5, <3>1, <3>2 DEF NoLess
    <3>3. CASE /\ job'[w].order.qty > 0
               /\ job'[w].order.qty = cache[s] \/ job'[w].order.qty = closeout.listed[s]
      BY <1>1, <3>3 DEF NoLess
    <3> QED BY <2>2, <3>1, <3>2, <3>3 DEF Queues
  <2> QED BY <1>5, <2>1, <2>2, CalmJobs
<1> QED BY <1>1, <1>2, <1>3, <1>4, <1>5 DEF NoLess

LEMMA CalmSelling ==
  ASSUME LiveInv, BaseInv, BaseInv', NEW s \in Symbols, Grown(broker, broker'), Calm(s),
         Owned(s), NEW w \in Tasks, Selling(w, s)'
  PROVE  Selling(w, s) /\ SellsAll(w, s)'
<1>1. On(w, s)'
  BY DEF Selling
<1>2. Left(s)' = Left(s) /\ position'[s] = position[s]
  BY LeftStays DEF Calm
<1>3. ASSUME Placed(job[w]), On(w, s), Placed(job'[w]), job'[w].sent = job[w].sent, ~Writes(w)'
      PROVE  Selling(w, s)
  <2> DEFINE i == job[w].sent
  <2>1. i \in DOMAIN broker /\ broker[i].symbol = s
    BY <1>3, TaskFacts DEF JobFits, Same, On
  <2>2. broker'[i].working \/ broker'[i].cum > 0
    BY <1>3 DEF Selling
  <2>3. i \in DOMAIN broker' /\ broker'[i].symbol = s
    BY <2>1 DEF Grown
  <2>4. broker[i].working \/ broker[i].cum > 0
    BY <2>2, <2>3 DEF Calm, FillsOnly
  <2> QED BY <1>3, <2>4 DEF Selling
<1>4. CASE Stays(w) /\ On(w, s) /\ (Waits(w)' <=> Waits(w)) /\ (Writes(w)' <=> Writes(w))
  <2>1. Selling(w, s)
    <3>1. CASE Writes(w)
      BY <1>4, <3>1 DEF Selling
    <3>2. CASE ~Writes(w)
      BY <1>3, <1>4, <3>2 DEF Selling, Stays
    <3> QED BY <3>1, <3>2
  <2>2. SellsAll(w, s)
    BY <2>1 DEF Owned
  <2> QED BY <1>2, <1>4, <2>1, <2>2 DEF SellsAll, Stays
<1>5. CASE Handles(w) /\ On(w, s) /\ ~Waits(w) /\ ~Waits(w)' /\ ~Writes(w) /\ ~Writes(w)'
  <2>1. Selling(w, s)
    BY <1>3, <1>5 DEF Handles
  <2>2. SellsAll(w, s)
    BY <2>1 DEF Owned
  <2>3. position[s] = Left(s) /\ job[w].order.qty = position[s]
    BY <1>5, <2>2 DEF SellsAll
  <2>4. job'[w].order = job[w].order /\ job[w].order.symbol = s
    BY <1>5 DEF Handles, On
  <2>5. job'[w].pc = "insert" => job'[w].existing = position[s]
    <3>1. CASE job[w].order.id # Exit
      BY <1>5, <2>4, <3>1 DEF Handles
    <3>2. CASE job[w].order.id = Exit
      <4>1. JobBase(w)' /\ Active(w)'
        BY <1>1 DEF BaseInv, On
      <4>2. job'[w].existing = job'[w].order.qty
        BY <2>4, <3>2, <4>1 DEF JobBase
      <4> QED BY <2>3, <2>4, <4>2
    <3> QED BY <3>1, <3>2
  <2> QED BY <1>2, <1>5, <2>1, <2>3, <2>4, <2>5 DEF SellsAll
<1>6. CASE Queues(w) /\ Waits(w)' /\ ~Writes(w)' /\ ~Placed(job'[w])
  BY <1>6 DEF Selling
<1> QED BY <1>1, <1>4, <1>5, <1>6, CalmJobs

LEMMA CalmTraced ==
  ASSUME LiveInv, BaseInv, BaseInv', NEW s \in Symbols, Grown(broker, broker'), Calm(s), Traced(s)
  PROVE  Traced(s)'
<1>1. CASE Blank(s)
  BY <1>1, CalmBlank DEF Traced
<1>2. CASE Owned(s)
  <2>1. Begun(s)' /\ NoLess(s)'
    BY <1>2, CalmBegun, CalmNoLess
  <2>2. ASSUME NEW w \in Tasks, On(w, s)', ~Waits(w)'
        PROVE  job'[w].order.side = "SELL"
    BY <1>2, <2>2, CalmJobs DEF Owned, Stays, Handles
  <2>3. \A w \in Tasks : Selling(w, s)' => Selling(w, s) /\ SellsAll(w, s)'
    BY <1>2, CalmSelling
  <2>4. (\A w \in Tasks : ~(Writes(w)' /\ On(w, s)')) => position'[s] = Left(s)'
    <3> SUFFICES ASSUME \A w \in Tasks : ~(Writes(w)' /\ On(w, s)') PROVE position'[s] = Left(s)'
      OBVIOUS
    <3>1. \A w \in Tasks : ~(Writes(w) /\ On(w, s))
      <4> SUFFICES ASSUME NEW w \in Tasks, Writes(w), On(w, s) PROVE FALSE
        OBVIOUS
      <4>1. Stays(w)
        BY DEF Calm
      <4> QED BY <4>1 DEF Stays, Writes, On, Active
    <3>2. position[s] = Left(s)
      BY <1>2, <3>1 DEF Owned
    <3> QED BY <3>2, LeftStays DEF Calm
  <2>5. \A w, v \in Tasks : Selling(w, s)' /\ Selling(v, s)' => w = v
    BY <1>2, <2>3 DEF Owned
  <2>6. Owned(s)'
    BY <2>1, <2>2, <2>3, <2>4, <2>5 DEF Owned
  <2> QED BY <2>6 DEF Traced
<1> QED BY <1>1, <1>2 DEF Traced

JobsCalm ==
  /\ torn \subseteq torn' /\ batch'.todo \subseteq issued' /\ Apart'
  /\ \A w \in Tasks : Moves(w) /\ (Writes(w) => Stays(w) \/ job[w].order.symbol \in torn')
  /\ \A s \in Symbols : Knows(s)

AllCalm ==
  /\ trades' = trades /\ position' = position /\ JobsCalm
  /\ Grown(broker, broker')
  /\ \A i \in DOMAIN broker' : FillsOnly(i) /\ broker'[i].cum <= broker'[i].qty
  /\ issued \subseteq issued' /\ issued' \subseteq Orders
  /\ \A s \in Symbols : Offers(s)

LEMMA MovesGo ==
  ASSUME NEW w, Moves(w)
  PROVE  job'[w].sent = 0 \/ job'[w].sent = job[w].sent
BY DEF Moves, Stays, Leaves, Queues, Handles

LEMMA CalmRows ==
  ASSUME RowsInv, LiveInv', AllCalm
  PROVE  RowsInv'
<1>1. LiveInv /\ BaseInv
  BY DEF RowsInv
<1>2. BaseInv'
  <2>1. \A w \in Tasks : JobBase(w)'
    BY <1>1, MovesBase DEF AllCalm, JobsCalm
  <2> QED BY <1>1, <2>1 DEF BaseInv, AllCalm, JobsCalm
<1>3. Goes
  BY MovesGo DEF AllCalm, JobsCalm, Goes
<1>4. ASSUME NEW s \in Symbols, Regular(s)'
      PROVE  Traced(s)'
  <2>1. Traced(s) /\ s \notin torn'
    BY <1>1, <1>3, <1>4, RegularBefore DEF RowsInv, Regular
  <2>2. \A w \in Tasks : On(w, s)' => Stays(w) \/ Queues(w) \/ Handles(w)
    BY DEF AllCalm, JobsCalm, Moves, Leaves, On
  <2>3. \A w \in Tasks : Writes(w) /\ On(w, s) => Stays(w)
    BY <2>1 DEF AllCalm, JobsCalm, On
  <2>4. Booked(s, "BUY")' = Booked(s, "BUY") /\ Booked(s, "SELL")' = Booked(s, "SELL")
    BY DEF AllCalm, Booked
  <2>5. Calm(s)
    BY <2>2, <2>3, <2>4 DEF AllCalm, JobsCalm, Calm
  <2> QED BY <1>1, <1>2, <2>1, <2>5, CalmTraced DEF AllCalm
<1> QED BY <1>2, <1>4 DEF RowsInv

(* The tables and the broker's log stay as they are.                       *)
LEMMA JobsRows ==
  ASSUME RowsInv, LiveInv', JobsCalm, UNCHANGED <<broker, trades, position, issued>>
  PROVE  RowsInv'
<1>1. AllCalm
  BY TaskFacts DEF AllCalm, RowsInv, BaseInv, FillsOnly, Offers
<1> QED BY <1>1, CalmRows

----------------------------------------------------------------------------
LEMMA OthersStay ==
  ASSUME LiveInv, NEW w \in Tasks, NEW j, job' = [job EXCEPT ![w] = j]
  PROVE  job'[w] = j /\ \A v \in Tasks : v # w => Stays(v)
BY DEF LiveInv, JobsInv, Stays

LEMMA ApartStays ==
  ASSUME BaseInv, closeout' = closeout, job'["closeout"] = job["closeout"],
         \A w \in Symbols : Active(w)' => Active(w)
  PROVE  Apart'
BY DEF BaseInv, Apart

LEMMA ReturnCalm ==
  ASSUME LiveInv, BaseInv, NEW w \in Tasks,
         NEW outcome \in {"skipped", "no_fill", "failed", "filled"}, Return(w, outcome),
         w = "closeout" => job[w].pc # "idle"
  PROVE  /\ Leaves(w) /\ \A v \in Tasks : v # w => Stays(v)
         /\ batch'.todo = batch.todo /\ Apart'
         /\ \A s \in Symbols : cache'[s] \in {0, cache[s]} /\ closeout'.listed[s] = closeout.listed[s]
<1>1. w \in Symbols => w # "closeout" /\ w # "stream"
  BY LiveAssumption
<1>2. Leaves(w) /\ \A v \in Tasks : v # w => Stays(v)
  <2>1. CASE w \in Symbols
    <3> DEFINE j == [job[w] EXCEPT !.pc = outcome]
    <3>1. job' = [job EXCEPT ![w] = j]
      BY <2>1 DEF Return, Go
    <3>2. JobForm(w, job[w]) /\ JobBase(w)
      BY TaskFacts DEF BaseInv
    <3>3. j.pc = outcome /\ j.order = job[w].order /\ j.sent = job[w].sent
      BY <3>2 DEF JobForm, Fields
    <3> HIDE DEF j
    <3>4. job'[w] = j /\ \A v \in Tasks : v # w => Stays(v)
      BY <3>1, OthersStay
    <3>5. ~Active(w)'
      BY <3>3, <3>4 DEF Active, Waits, Writes, Placed
    <3>6. job[w].sent = 0 \/ job[w].order.side # "BUY"
      <4>1. Placed(job[w]) \/ Writes(w) => job[w].order.side = "SELL"
        BY <1>1, <2>1, <3>2 DEF JobForm, Writes, Sale
      <4> QED BY <3>2, <4>1 DEF JobBase
    <3> QED BY <3>3, <3>4, <3>5, <3>6 DEF Leaves
  <2>2. CASE w \notin Symbols
    <3>1. PICK j \in {Idle, [Idle EXCEPT !.pc = "batch"]} : job' = [job EXCEPT ![w] = j]
      BY <2>2 DEF Return, Go
    <3>2. j.pc \in {"idle", "batch"} /\ j.sent = 0
      BY DEF Idle
    <3>3. job'[w] = j /\ \A v \in Tasks : v # w => Stays(v)
      BY <3>1, OthersStay
    <3> QED BY <3>2, <3>3 DEF Leaves, Active, Waits, Writes, Placed
  <2> QED BY <2>1, <2>2
<1>3. batch'.todo = batch.todo
  BY DEF Return, LiveInv, BatchInv, Fields
<1>4. ASSUME NEW s \in Symbols
      PROVE  cache'[s] \in {0, cache[s]} /\ closeout'.listed[s] = closeout.listed[s]
  <2>1. cache \in [Symbols -> Int] /\ Fields(closeout, {"at", "listed", "bought", "result"})
    BY DEF LiveInv, CloseoutInv
  <2>2. cache' = cache \/ cache' = [cache EXCEPT ![job[w].order.symbol] = 0]
    BY DEF Return
  <2>3. closeout' = closeout \/ closeout' = [closeout EXCEPT !.at = "recheck"]
    BY DEF Return
  <2>4. closeout'.listed = closeout.listed
    BY <2>1, <2>3 DEF Fields
  <2> QED BY <2>1, <2>2, <2>4
<1>5. Apart'
  <2>0. Symbols \subseteq Tasks /\ "closeout" \in Tasks /\ "closeout" \notin Symbols
    BY TaskFacts, LiveAssumption
  <2>1. \A v \in Symbols : Active(v)' => Active(v)
    BY <1>2, <2>0 DEF Leaves, Stays, Active, Waits, Writes
  <2>2. CASE w # "closeout"
    BY <1>2, <2>0, <2>1, <2>2, ApartStays DEF Return, Stays
  <2>3. CASE w = "closeout"
    <3>1. closeout.at = "profit" /\ \A v \in Symbols : ~Active(v)
      BY <2>3 DEF BaseInv, Apart
    <3>2. job'["closeout"] = Idle
      BY <2>0, <2>3 DEF Return, Go, LiveInv, JobsInv
    <3>3. job'["closeout"].pc = "idle"
      BY <3>2 DEF Idle
    <3> QED BY <2>1, <3>1, <3>3 DEF Apart
  <2> QED BY <2>2, <2>3
<1> QED BY <1>2, <1>3, <1>4, <1>5

LEMMA DieCalm ==
  ASSUME LiveInv, BaseInv, NEW flushed, NEW unwritten, Die(flushed, unwritten)
  PROVE  /\ torn \cup unwritten \subseteq torn'
         /\ \A w \in Tasks : Leaves(w) /\ (Writes(w) => job[w].order.symbol \in torn')
         /\ batch'.todo = {} /\ Apart'
         /\ \A s \in Symbols : cache'[s] = 0 /\ closeout'.listed[s] = closeout.listed[s]
<1>1. \A w \in Tasks : job'[w] = Idle
  BY DEF Die
<1>2. Idle.pc = "idle" /\ Idle.sent = 0 /\ NoBatch.todo = {}
  BY DEF Idle, NoBatch
<1>3. \A w \in Tasks : Leaves(w) /\ ~Active(w)'
  BY <1>1, <1>2 DEF Leaves, Active, Waits, Writes, Placed
<1>4. Apart'
  BY <1>1, <1>2, <1>3, TaskFacts DEF Apart
<1>5. closeout'.listed = closeout.listed
  BY DEF Die, Interrupted, LiveInv, CloseoutInv, Fields
<1> QED BY <1>2, <1>3, <1>4, <1>5 DEF Die, Writes

LEMMA BreakCalm ==
  ASSUME LiveInv, BaseInv, issued' = issued, NEW w \in Tasks, NEW unwritten,
         Break(w, unwritten), w = "closeout" => job[w].pc # "idle",
         Writes(w) => job[w].order.symbol \in unwritten
  PROVE  JobsCalm
<1>1. batch.todo \subseteq issued
  BY DEF BaseInv
<1>2. CASE Return(w, "failed") /\ torn' = torn \cup unwritten
  BY <1>1, <1>2, ReturnCalm DEF JobsCalm, Moves, Knows
<1>3. ASSUME NEW flushed, Die(flushed, unwritten) PROVE JobsCalm
  BY <1>3, DieCalm DEF JobsCalm, Moves, Knows
<1> QED BY <1>2, <1>3 DEF Break

LEMMA ReturnJobs ==
  ASSUME LiveInv, BaseInv, issued' = issued, NEW w \in Tasks,
         NEW outcome \in {"skipped", "no_fill", "failed", "filled"}, Return(w, outcome),
         w = "closeout" => job[w].pc # "idle", ~Writes(w), torn' = torn
  PROVE  JobsCalm
BY ReturnCalm DEF JobsCalm, Moves, Knows, BaseInv

LEMMA DieJobs ==
  ASSUME LiveInv, BaseInv, NEW flushed, NEW unwritten, Die(flushed, unwritten)
  PROVE  JobsCalm
BY DieCalm DEF JobsCalm, Moves, Knows

(* One task goes on.                                                       *)
LEMMA GoCalm ==
  ASSUME LiveInv, BaseInv, NEW w \in Tasks, NEW j, Go(w, j), Moves(w), ~Writes(w),
         w = "closeout" => closeout.at = "profit",
         w \in Symbols => (Active(w)' => Active(w)),
         UNCHANGED <<cache, closeout, torn>>, batch'.todo \subseteq issued'
  PROVE  JobsCalm
<1>1. job'[w] = j /\ \A v \in Tasks : v # w => Stays(v)
  BY OthersStay DEF Go
<1>2. Apart'
  <2>1. Symbols \subseteq Tasks /\ "closeout" \in Tasks /\ "closeout" \notin Symbols
    BY TaskFacts, LiveAssumption
  <2>2. \A v \in Symbols : Active(v)' => Active(v)
    BY <1>1, <2>1 DEF Stays, Active, Waits, Writes
  <2>3. CASE w # "closeout"
    BY <1>1, <2>1, <2>2, <2>3, ApartStays DEF Stays
  <2>4. CASE w = "closeout"
    BY <2>2, <2>4 DEF BaseInv, Apart
  <2> QED BY <2>3, <2>4
<1> QED BY <1>1, <1>2 DEF JobsCalm, Moves, Knows

(* No task goes on.                                                        *)
LEMMA StillCalm ==
  ASSUME LiveInv, BaseInv, job' = job, closeout' = closeout, torn' = torn,
         batch'.todo \subseteq issued', \A s \in Symbols : cache'[s] \in {cache[s], position[s]}
  PROVE  JobsCalm
<1>1. Apart'
  BY ApartStays DEF Active, Waits, Writes
<1> QED BY <1>1 DEF JobsCalm, Moves, Stays, Knows

----------------------------------------------------------------------------
(* The broker fills and ends orders.                                       *)
LEMMA LogCalm ==
  ASSUME LiveInv, BaseInv, NEW i \in DOMAIN broker, NEW b \in Sending,
         Same(b, broker[i].order, broker[i].symbol, broker[i].side),
         broker[i].cum <= b.cum, b.cum <= b.qty,
         b.working \/ b.cum > 0 => broker[i].working \/ broker[i].cum > 0,
         broker' = [broker EXCEPT ![i] = b]
  PROVE  /\ Grown(broker, broker')
         /\ \A k \in DOMAIN broker' : FillsOnly(k) /\ broker'[k].cum <= broker'[k].qty
<1>1. Grown(broker, broker')
  BY TaskFacts, LogChanges
<1>2. DOMAIN broker' = DOMAIN broker /\ broker'[i] = b
      /\ \A k \in DOMAIN broker : k # i => broker'[k] = broker[k]
  OBVIOUS
<1> QED BY <1>1, <1>2 DEF FillsOnly, BaseInv

LEMMA EndedCalm ==
  ASSUME LiveInv, BaseInv, NEW i \in DOMAIN broker,
         broker' = [broker EXCEPT ![i].working = FALSE]
  PROVE  /\ Grown(broker, broker')
         /\ \A k \in DOMAIN broker' : FillsOnly(k) /\ broker'[k].cum <= broker'[k].qty
<1> DEFINE b == [broker[i] EXCEPT !.working = FALSE]
<1>1. broker[i] \in Sending
  BY TaskFacts, LogDomain
<1>2. b \in Sending /\ Same(b, broker[i].order, broker[i].symbol, broker[i].side)
      /\ broker[i].cum <= b.cum /\ broker' = [broker EXCEPT ![i] = b]
  BY <1>1, SendingEnds
<1>3. b.cum = broker[i].cum /\ b.qty = broker[i].qty /\ ~b.working
  BY <1>1 DEF Sending
<1>4. b.cum <= b.qty
  BY <1>3 DEF BaseInv
<1> HIDE DEF b
<1> QED BY <1>2, <1>3, <1>4, LogCalm

LEMMA BrokerRows ==
  ASSUME RowsInv, LiveInv', NEW i \in DOMAIN broker,
         BrokerEnds(i) \/ \E n \in 1 .. broker[i].qty : BrokerFills(i, n)
  PROVE  RowsInv'
<1>1. /\ LiveInv /\ BaseInv /\ broker[i] \in Sending /\ broker[i].cum \in Nat /\ broker[i].qty \in Nat
  <2>1. LiveInv /\ BaseInv
    BY DEF RowsInv
  <2>2. broker[i] \in Sending
    BY <2>1, TaskFacts, LogDomain
  <2> QED BY <2>1, <2>2 DEF Sending
<1>2. /\ Grown(broker, broker')
      /\ \A k \in DOMAIN broker' : FillsOnly(k) /\ broker'[k].cum <= broker'[k].qty
  <2>1. CASE BrokerEnds(i)
    BY <1>1, <2>1, EndedCalm DEF BrokerEnds
  <2>2. ASSUME NEW n \in 1 .. broker[i].qty, BrokerFills(i, n)
        PROVE  /\ Grown(broker, broker')
               /\ \A k \in DOMAIN broker' : FillsOnly(k) /\ broker'[k].cum <= broker'[k].qty
    <3> DEFINE c == broker[i].cum + n
               x == broker[i].cum + n < broker[i].qty
               b == [broker[i] EXCEPT !.cum = c, !.working = x]
    <3>1. /\ broker[i].working /\ n \in 1 .. broker[i].qty - broker[i].cum
          /\ broker' = [broker EXCEPT ![i] = b]
      BY <1>1, <2>2 DEF BrokerFills
    <3>2. c \in Nat /\ broker[i].cum <= c /\ c <= broker[i].qty /\ x \in BOOLEAN
      BY <1>1, <3>1
    <3> HIDE DEF c, x
    <3>3. b \in Sending /\ Same(b, broker[i].order, broker[i].symbol, broker[i].side)
          /\ broker[i].cum <= b.cum
      BY <1>1, <3>2, SendingGoesOn
    <3>4. b.qty = broker[i].qty /\ b.cum = c
      BY <1>1 DEF Sending
    <3> HIDE DEF b
    <3> QED BY <1>1, <3>1, <3>2, <3>3, <3>4, LogCalm
  <2> QED BY <2>1, <2>2
<1>3. job' = job /\ UNCHANGED <<trades, position, cache, batch, closeout, torn, issued>>
  BY DEF BrokerEnds, BrokerFills, tableVars, processVars
<1>4. JobsCalm
  BY <1>1, <1>3, StillCalm DEF BaseInv
<1> QED BY <1>1, <1>2, <1>3, <1>4, CalmRows DEF AllCalm, Offers, BaseInv

LEMMA CancelRows == ASSUME RowsInv, LiveInv', NEW w \in Tasks, Cancel(w) PROVE RowsInv'
<1>1. /\ LiveInv /\ BaseInv /\ job[w].pc = "cancel"
      /\ Return(w, "no_fill") /\ UNCHANGED <<trades, position, torn, issued>>
  BY DEF RowsInv, Cancel, At, tableVars
<1>2. job[w].sent \in DOMAIN broker
  BY <1>1, TaskFacts DEF JobFits, Placed
<1>3. JobsCalm
  BY <1>1, ReturnJobs DEF Writes
<1>4. /\ Grown(broker, broker')
      /\ \A k \in DOMAIN broker' : FillsOnly(k) /\ broker'[k].cum <= broker'[k].qty
  <2>1. CASE broker' = broker
    BY <1>1, <2>1, TaskFacts DEF FillsOnly, BaseInv
  <2>2. CASE broker' = [broker EXCEPT ![job[w].sent].working = FALSE]
    BY <1>1, <1>2, <2>2, EndedCalm
  <2> QED BY <2>1, <2>2 DEF Cancel
<1> QED BY <1>1, <1>3, <1>4, CalmRows DEF AllCalm, Offers, BaseInv

(* The topic, the batches and the checks of the stream.                    *)
LEMMA IssueRows == ASSUME RowsInv, LiveInv', NEW o \in Orders, Issue(o) PROVE RowsInv'
<1>1. /\ LiveInv /\ BaseInv /\ issued' = issued \cup {o}
      /\ job' = job /\ UNCHANGED <<broker, trades, position, cache, batch, closeout, torn>>
  BY DEF RowsInv, Issue, tableVars, processVars
<1>2. JobsCalm
  BY <1>1, StillCalm DEF BaseInv
<1>3. \A s \in Symbols : Offers(s)
  BY <1>1 DEF Issue, Offers, Booked
<1>4. AllCalm
  BY <1>1, <1>2, <1>3, TaskFacts DEF AllCalm, FillsOnly, BaseInv
<1> QED BY <1>4, CalmRows

LEMMA BatchesRows ==
  ASSUME RowsInv, LiveInv',
         \/ \E o \in Orders : Take(o)
         \/ \E S \in SUBSET Orders : Pull(S)
         \/ Acknowledge
  PROVE  RowsInv'
<1>1. /\ LiveInv /\ BaseInv /\ "stream" \in Tasks /\ "stream" \notin Symbols
      /\ UNCHANGED <<broker, trades, position, issued, cache, closeout, torn>>
      /\ job["stream"].pc \in {"idle", "batch"} /\ ~Writes("stream")
  BY TaskFacts, LiveAssumption DEF RowsInv, Take, Pull, Acknowledge, tableVars, At, Writes
<1>2. ASSUME NEW j, Go("stream", j), batch'.todo \subseteq issued, j.sent = 0,
             \/ j.pc \in {"idle", "batch"}
             \/ j.pc = "check" /\ j.order \in issued /\ j.order.id # Exit
      PROVE  RowsInv'
  <2>1. job'["stream"] = j
    BY <1>1, <1>2, OthersStay DEF Go
  <2>2. Moves("stream")
    BY <1>1, <1>2, <2>1 DEF Moves, Leaves, Queues, Active, Waits, Writes, Placed
  <2>3. JobsCalm
    BY <1>1, <1>2, <2>2, GoCalm
  <2> QED BY <1>1, <2>3, JobsRows
<1>3. ASSUME NEW o \in Orders, Take(o) PROVE RowsInv'
  <2> DEFINE j == [Idle EXCEPT !.pc = "check", !.order = o]
  <2>1. Go("stream", j) /\ j.sent = 0 /\ j.pc = "check" /\ j.order = o
    BY <1>3 DEF Take, Idle
  <2>2. o \in batch.todo /\ batch'.todo \subseteq batch.todo
    BY <1>1, <1>3 DEF Take, LiveInv, BatchInv, Fields
  <2>3. o.id # Exit
    BY LiveAssumption DEF Order
  <2> HIDE DEF j
  <2> QED BY <1>1, <1>2, <2>1, <2>2, <2>3 DEF BaseInv
<1>4. ASSUME NEW S \in SUBSET Orders, Pull(S) PROVE RowsInv'
  <2> DEFINE j == [Idle EXCEPT !.pc = "batch"]
  <2>1. Go("stream", j) /\ j.sent = 0 /\ j.pc = "batch" /\ batch'.todo \subseteq issued
    BY <1>4 DEF Pull, Idle
  <2> HIDE DEF j
  <2> QED BY <1>2, <2>1
<1>5. CASE Acknowledge
  <2>1. Go("stream", Idle) /\ Idle.sent = 0 /\ Idle.pc = "idle" /\ batch'.todo \subseteq issued
    BY <1>5 DEF Acknowledge, Idle, NoBatch
  <2> QED BY <1>2, <2>1
<1> QED BY <1>3, <1>4, <1>5

LEMMA CheckRows == ASSUME RowsInv, LiveInv', Check PROVE RowsInv'
<1> DEFINE j == [job["stream"] EXCEPT !.pc = "send"]
<1>1. /\ LiveInv /\ BaseInv /\ "stream" \in Tasks /\ "stream" \notin Symbols
      /\ UNCHANGED <<broker, trades, position, issued>>
      /\ job["stream"].pc = "check" /\ ~Writes("stream")
  BY TaskFacts, LiveAssumption DEF RowsInv, Check, tableVars, At, Writes
<1>2. CASE Return("stream", "skipped") /\ torn' = torn
  BY <1>1, <1>2, ReturnJobs, JobsRows
<1>3. CASE Break("stream", {})
  BY <1>1, <1>3, BreakCalm, JobsRows
<1>4. CASE Go("stream", j) /\ UNCHANGED <<batch, cache, closeout, torn>>
  <2>1. JobForm("stream", job["stream"]) /\ JobBase("stream")
    BY <1>1, TaskFacts DEF BaseInv
  <2>2. j.pc = "send" /\ j.order = job["stream"].order /\ j.sent = job["stream"].sent
    BY <2>1 DEF JobForm, Fields
  <2>3. j.order.id # Exit /\ j.order \in issued /\ j.sent = 0
    <3>1. job["stream"].order.id # Exit
      BY <1>1, <2>1, LiveAssumption DEF JobForm, Order
    <3> QED BY <1>1, <2>1, <2>2, <3>1 DEF JobBase, Active, Waits
  <2> HIDE DEF j
  <2>4. job'["stream"] = j
    BY <1>1, <1>4, OthersStay DEF Go
  <2>5. Moves("stream")
    BY <1>1, <2>2, <2>3, <2>4 DEF Moves, Queues, Waits
  <2>6. JobsCalm
    BY <1>1, <1>4, <2>5, GoCalm DEF BaseInv
  <2> QED BY <1>1, <2>6, JobsRows
<1> QED BY <1>2, <1>3, <1>4 DEF Check

LEMMA CooldownRows ==
  ASSUME RowsInv, LiveInv', \E key \in pending : CooldownEnds(key)
  PROVE  RowsInv'
BY StillCalm, JobsRows DEF CooldownEnds, tableVars, RowsInv, BaseInv

LEMMA StopRows ==
  ASSUME RowsInv, LiveInv', RefreshCache \/ \E s \in Symbols : StopExit(s)
  PROVE  RowsInv'
<1>1. /\ LiveInv /\ BaseInv /\ "stream" \in Tasks /\ "stream" \notin Symbols
      /\ UNCHANGED <<broker, trades, position, issued, batch, closeout, torn>>
      /\ job["stream"].pc = "idle"
  BY TaskFacts, LiveAssumption DEF RowsInv, RefreshCache, StopExit, tableVars, At
<1>2. CASE RefreshCache
  BY <1>1, <1>2, StillCalm, JobsRows DEF RefreshCache, BaseInv
<1>3. ASSUME NEW s \in Symbols, StopExit(s)
      PROVE  RowsInv'
  <2> DEFINE j == SaleOf(s, cache[s])
  <2>1. /\ j.pc = "send" /\ j.sent = 0 /\ j.order.id = Exit /\ j.order.symbol = s
        /\ j.order.side = "SELL" /\ j.order.qty = cache[s] /\ j.existing = cache[s]
    BY DEF SaleOf, Idle
  <2>2. Go("stream", j) /\ cache[s] > 0 /\ cache' = cache
    BY <1>3 DEF StopExit
  <2> HIDE DEF j
  <2>3. job'["stream"] = j
    BY <1>1, <2>2, OthersStay DEF Go
  <2>4. Moves("stream") /\ ~Writes("stream")
    BY <1>1, <2>1, <2>2, <2>3 DEF Moves, Queues, Waits, Writes
  <2>5. JobsCalm
    BY <1>1, <2>2, <2>4, GoCalm DEF BaseInv
  <2> QED BY <1>1, <2>5, JobsRows
<1> QED BY <1>2, <1>3

(* Orders that are not accepted, polls and reads.                          *)
LEMMA RejectedRows ==
  ASSUME RowsInv, LiveInv', NEW w \in Tasks,
         SendRejected(w) \/ (SendUnanswered(w) /\ broker' = broker)
  PROVE  RowsInv'
<1>1. /\ LiveInv /\ BaseInv /\ job[w].pc = "send"
      /\ UNCHANGED <<broker, trades, position, issued>>
      /\ \/ Return(w, "no_fill") /\ torn' = torn
         \/ Die({}, {})
  BY DEF RowsInv, SendRejected, SendUnanswered, tableVars, At
<1> QED BY <1>1, ReturnJobs, DieJobs, JobsRows DEF Writes

LEMMA PollRows ==
  ASSUME RowsInv, LiveInv', NEW w \in Tasks, Poll(w) \/ PollTimesOut(w)
  PROVE  RowsInv'
<1>1. /\ LiveInv /\ BaseInv /\ job[w].pc = "poll" /\ ~Writes(w) /\ Active(w)
      /\ UNCHANGED <<broker, trades, position, issued, torn>>
  BY DEF RowsInv, Poll, PollTimesOut, tableVars, At, Writes, Active, Placed
<1>2. /\ JobForm(w, job[w]) /\ job[w].sent \in DOMAIN broker
      /\ broker[job[w].sent].cum \in Nat /\ w # "closeout"
  <2>1. JobForm(w, job[w]) /\ job[w].sent \in DOMAIN broker
    BY <1>1, TaskFacts DEF JobFits, Placed
  <2> QED BY <1>1, <2>1, TaskFacts, LogDomain DEF JobForm
<1>3. CASE Return(w, "no_fill")
  BY <1>1, <1>3, ReturnJobs, JobsRows
<1>4. ASSUME NEW j, Go(w, j), UNCHANGED <<batch, cache, closeout>>, Placed(j),
             j.order = job[w].order, j.sent = job[w].sent, j.existing = job[w].existing,
             j.pc # "cancel" => j.fill > 0 /\ (IF Routed(w) THEN j.pc = "read" ELSE j.pc = "insert")
      PROVE  RowsInv'
  <2>1. job'[w] = j
    BY <1>1, <1>4, OthersStay DEF Go
  <2>2. Placed(job[w]) /\ (j.pc = "insert" => job[w].order.id = Exit)
        /\ (job[w].order.id = Exit => j.pc # "read")
    <3>1. Placed(job[w])
      BY <1>1 DEF Placed
    <3>2. ~Routed(w) => job[w].order.id = Exit
      BY <1>2, <3>1 DEF Routed, JobForm, Sale
    <3> QED BY <1>4, <3>1, <3>2 DEF Routed
  <2>3. Moves(w)
    BY <1>4, <2>1, <2>2 DEF Moves, Handles
  <2>4. JobsCalm
    BY <1>1, <1>2, <1>4, <2>3, GoCalm DEF BaseInv
  <2> QED BY <1>1, <2>4, JobsRows
<1>5. CASE PollTimesOut(w)
  <2> DEFINE j == [job[w] EXCEPT !.pc = "cancel"]
  <2>1. /\ Placed(j) /\ j.order = job[w].order /\ j.sent = job[w].sent
        /\ j.existing = job[w].existing /\ j.pc = "cancel"
    BY <1>2 DEF JobForm, Fields, Placed
  <2>2. Go(w, j) /\ UNCHANGED <<batch, cache, closeout>>
    BY <1>5 DEF PollTimesOut
  <2> HIDE DEF j
  <2> QED BY <1>4, <2>1, <2>2
<1>6. CASE Poll(w) /\ ~Return(w, "no_fill")
  <2> DEFINE pc == IF Routed(w) THEN "read" ELSE "insert"
             j == [job[w] EXCEPT !.fill = broker[job[w].sent].cum, !.pc = pc]
  <2>1. /\ Placed(j) /\ j.order = job[w].order /\ j.sent = job[w].sent
        /\ j.existing = job[w].existing /\ j.pc = pc /\ j.fill = broker[job[w].sent].cum
    BY <1>2 DEF JobForm, Fields, Placed
  <2>2. Go(w, j) /\ UNCHANGED <<batch, cache, closeout>> /\ broker[job[w].sent].cum # 0
    BY <1>6 DEF Poll
  <2>3. broker[job[w].sent].cum > 0
    BY <1>2, <2>2
  <2> HIDE DEF j
  <2> QED BY <1>4, <2>1, <2>2, <2>3
<1> QED BY <1>3, <1>5, <1>6

LEMMA ReadPositionRows == ASSUME RowsInv, LiveInv', ReadPosition PROVE RowsInv'
<1> DEFINE o == job["stream"].order
           k == [job["stream"] EXCEPT !.existing = position[o.symbol]]
           j == [k EXCEPT !.pc = "insert"]
<1>1. /\ LiveInv /\ BaseInv /\ job["stream"].pc = "read" /\ ~Writes("stream")
      /\ "stream" \in Tasks /\ "stream" \notin Symbols
      /\ UNCHANGED <<broker, trades, position, issued>>
  BY TaskFacts, LiveAssumption DEF RowsInv, ReadPosition, tableVars, At, Writes
<1>2. CASE Return("stream", "no_fill") /\ torn' = torn
  BY <1>1, <1>2, ReturnJobs, JobsRows
<1>3. CASE Break("stream", {})
  BY <1>1, <1>3, BreakCalm, JobsRows
<1>4. CASE Go("stream", j) /\ UNCHANGED <<batch, cache, closeout, torn>>
  <2>1. JobForm("stream", job["stream"]) /\ JobBase("stream")
    BY <1>1, TaskFacts DEF BaseInv
  <2>2. /\ j.pc = "insert" /\ j.order = o /\ j.sent = job["stream"].sent
        /\ j.fill = job["stream"].fill /\ j.existing = position[o.symbol]
    BY <2>1 DEF JobForm, Fields
  <2>3. j.fill > 0 /\ o.id # Exit
    BY <1>1, <2>1, <2>2 DEF JobBase
  <2> HIDE DEF j
  <2>4. job'["stream"] = j
    BY <1>1, <1>4, OthersStay DEF Go
  <2>5. Moves("stream")
    BY <1>1, <2>2, <2>3, <2>4 DEF Moves, Handles, Placed
  <2>6. JobsCalm
    BY <1>1, <1>4, <2>5, GoCalm DEF BaseInv
  <2> QED BY <1>1, <2>6, JobsRows
<1> QED BY <1>2, <1>3, <1>4 DEF ReadPosition

----------------------------------------------------------------------------
(* The profit, the closeout, crashes.                                      *)
LEMMA ProfitRows ==
  ASSUME RowsInv, LiveInv', NEW w \in Tasks, ReadProfit(w) \/ AddProfit(w)
  PROVE  RowsInv'
<1>1. /\ LiveInv /\ BaseInv /\ job[w].pc \in {"pnl", "add"} /\ ~Writes(w)
      /\ UNCHANGED <<broker, trades, position, issued>>
  BY DEF RowsInv, ReadProfit, AddProfit, tableVars, At, Writes
<1>2. CASE Return(w, "filled") /\ torn' = torn
  BY <1>1, <1>2, ReturnJobs, JobsRows
<1>3. CASE Break(w, {})
  BY <1>1, <1>3, BreakCalm, JobsRows
<1>4. ASSUME NEW j, Go(w, j), UNCHANGED <<batch, cache, closeout, torn>>,
             j.pc \in {"pnl", "add"}, j.order = job[w].order, j.sent = job[w].sent
      PROVE  RowsInv'
  <2>1. job'[w] = j
    BY <1>1, <1>4, OthersStay DEF Go
  <2>2. JobBase(w) /\ (w = "closeout" => closeout.at = "profit")
    BY <1>1 DEF BaseInv, Apart
  <2>3. ~Active(w)'
    BY <1>4, <2>1 DEF Active, Waits, Writes, Placed
  <2>4. Leaves(w)
    BY <1>1, <1>4, <2>1, <2>2, <2>3 DEF Leaves, JobBase, Placed
  <2>5. JobsCalm
    BY <1>1, <1>4, <2>2, <2>3, <2>4, GoCalm DEF Moves, BaseInv
  <2> QED BY <1>1, <2>5, JobsRows
<1>5. JobForm(w, job[w])
  BY <1>1, TaskFacts
<1>6. CASE /\ Go(w, [job[w] EXCEPT !.pc = "add", !.seen = profit])
           /\ UNCHANGED <<batch, cache, closeout, torn>>
  <2> DEFINE j == [job[w] EXCEPT !.pc = "add", !.seen = profit]
  <2>1. j.pc = "add" /\ j.order = job[w].order /\ j.sent = job[w].sent
    BY <1>5 DEF JobForm, Fields
  <2> HIDE DEF j
  <2> QED BY <1>4, <1>6, <2>1 DEF j
<1>7. CASE Go(w, [job[w] EXCEPT !.pc = "pnl"]) /\ UNCHANGED <<batch, cache, closeout, torn>>
  <2> DEFINE j == [job[w] EXCEPT !.pc = "pnl"]
  <2>1. j.pc = "pnl" /\ j.order = job[w].order /\ j.sent = job[w].sent
    BY <1>5 DEF JobForm, Fields
  <2> HIDE DEF j
  <2> QED BY <1>4, <1>7, <2>1 DEF j
<1> QED BY <1>2, <1>3, <1>6, <1>7 DEF ReadProfit, AddProfit

(* The closeout goes on, with the rows as it knew them or as they are.     *)
LEMMA CloseoutCalm ==
  ASSUME LiveInv, BaseInv, job' = job, closeout.at \notin {"selling", "profit"},
         closeout'.listed = closeout.listed \/ closeout'.listed = position,
         UNCHANGED <<cache, batch, torn, issued>>
  PROVE  JobsCalm
<1>1. (\A w \in Symbols : ~Active(w)) /\ job["closeout"].pc = "idle"
  BY DEF BaseInv, Apart
<1>2. Apart'
  BY <1>1 DEF Apart, Active, Waits, Writes
<1> QED BY <1>2 DEF JobsCalm, Moves, Stays, Knows, BaseInv

LEMMA CloseoutRows ==
  ASSUME RowsInv, LiveInv',
         CloseoutFires \/ CloseoutLists \/ Recheck \/ Postcheck \/ Halt \/ Crash \/ Restart
  PROVE  RowsInv'
<1>1. /\ LiveInv /\ BaseInv /\ Fields(closeout, {"at", "listed", "bought", "result"})
      /\ UNCHANGED <<broker, trades, position, issued>>
  BY DEF RowsInv, LiveInv, CloseoutInv, CloseoutFires, CloseoutLists, Recheck, Postcheck, Halt,
         Crash, Restart, tableVars, closeoutKeeps
<1>2. CASE Die({}, {})
  BY <1>1, <1>2, DieJobs, JobsRows
<1>3. CASE /\ job' = job /\ UNCHANGED <<cache, batch, torn>>
           /\ closeout.at \notin {"selling", "profit"}
           /\ \/ \E at : closeout' = [closeout EXCEPT !.at = at]
              \/ \E at : closeout' = [closeout EXCEPT !.at = at, !.listed = position]
              \/ \E result : closeout' = [closeout EXCEPT !.at = "ended", !.result = result]
  <2>1. closeout'.listed = closeout.listed \/ closeout'.listed = position
    BY <1>1, <1>3 DEF Fields
  <2> QED BY <1>1, <1>3, <2>1, CloseoutCalm, JobsRows
<1>4. CASE Restart /\ closeout' = closeout
  BY <1>1, <1>4, StillCalm, JobsRows DEF Restart, BaseInv
<1>5. CASE CloseoutFires
  BY <1>3, <1>5 DEF CloseoutFires, CloseoutAt, Reach, End, closeoutKeeps
<1>6. CASE CloseoutLists
  BY <1>2, <1>3, <1>6 DEF CloseoutLists, CloseoutAt
<1>7. CASE Recheck
  BY <1>3, <1>7 DEF Recheck, CloseoutAt, End, closeoutKeeps
<1>8. CASE Postcheck
  BY <1>3, <1>8 DEF Postcheck, CloseoutAt, Reach, End, closeoutKeeps
<1>9. CASE Halt
  BY <1>3, <1>9 DEF Halt, CloseoutAt, End, closeoutKeeps
<1>10. CASE Crash
  BY <1>2, <1>10 DEF Crash
<1>11. CASE Restart
  BY <1>3, <1>4, <1>11 DEF Restart, End
<1> QED BY <1>5, <1>6, <1>7, <1>8, <1>9, <1>10, <1>11

LEMMA PrecheckRows == ASSUME RowsInv, LiveInv', Precheck PROVE RowsInv'
<1> DEFINE bought == [s \in Symbols |-> FilledOf(s, "BUY")]
           listed == closeout.listed
           at == IF \E s \in Symbols : Holding(s) # listed[s] THEN "halt"
                 ELSE IF Flat(listed) THEN "ended" ELSE "selling"
           result == IF Flat(listed) THEN "empty" ELSE "none"
<1>1. /\ LiveInv /\ BaseInv /\ Fields(closeout, {"at", "listed", "bought", "result"})
      /\ UNCHANGED <<broker, trades, position, issued, cache, batch, torn>>
      /\ closeout.at = "precheck" /\ Symbols \subseteq Tasks /\ "closeout" \in Tasks
      /\ "closeout" \notin Symbols
  BY TaskFacts, LiveAssumption DEF RowsInv, LiveInv, CloseoutInv, Precheck, CloseoutAt, tableVars,
     closeoutKeeps
<1>2. CASE Reach("halt") /\ job' = job
  <2>1. closeout'.listed = closeout.listed
    BY <1>1, <1>2 DEF Reach, Fields
  <2> QED BY <1>1, <1>2, <2>1, CloseoutCalm, JobsRows
<1>3. CASE /\ closeout' = [closeout EXCEPT !.bought = bought, !.at = at, !.result = result]
           /\ job' = [w \in Tasks |->
                 IF w \in Symbols /\ closeout'.at = "selling" /\ listed[w] > 0
                 THEN SaleOf(w, listed[w]) ELSE job[w]]
  <2>1. closeout'.listed = listed /\ closeout'.at = at
    <3> HIDE DEF bought, at, result
    <3> QED BY <1>1, <1>3 DEF Fields
  <2>2. (\A w \in Symbols : ~Active(w)) /\ job["closeout"].pc = "idle"
    BY <1>1 DEF BaseInv, Apart
  <2>3. \A w \in Tasks : \/ Stays(w)
                         \/ /\ w \in Symbols /\ closeout'.at = "selling" /\ listed[w] > 0
                            /\ job'[w] = SaleOf(w, listed[w])
    BY <1>3 DEF Stays
  <2>4. \A w \in Tasks : Moves(w) /\ (Writes(w) => Stays(w))
    <3> SUFFICES ASSUME NEW w \in Tasks, ~Stays(w) PROVE Queues(w) /\ ~Writes(w)
      BY DEF Moves
    <3>1. w \in Symbols /\ listed[w] > 0 /\ job'[w] = SaleOf(w, listed[w])
      BY <2>3
    <3> DEFINE j == SaleOf(w, listed[w])
    <3>2. /\ j.pc = "send" /\ j.sent = 0 /\ j.order.id = Exit /\ j.order.symbol = w
          /\ j.order.side = "SELL" /\ j.order.qty = listed[w] /\ j.existing = listed[w]
      BY DEF SaleOf, Idle
    <3>3. ~Writes(w)
      BY <2>2, <3>1 DEF Active
    <3> HIDE DEF j
    <3> QED BY <3>1, <3>2, <3>3 DEF Queues, Waits, j
  <2>5. Apart'
    <3>1. closeout'.at # "selling" => \A w \in Symbols : ~Active(w)'
      BY <1>1, <2>2, <2>3 DEF Stays, Active, Waits, Writes
    <3>2. job'["closeout"] = job["closeout"]
      BY <1>1, <2>3 DEF Stays
    <3> QED BY <2>2, <3>1, <3>2 DEF Apart
  <2>6. JobsCalm
    BY <1>1, <2>1, <2>4, <2>5 DEF JobsCalm, Knows, BaseInv
  <2> QED BY <1>1, <2>6, JobsRows
<1> QED BY <1>2, <1>3 DEF Precheck

LEMMA GatherRows == ASSUME RowsInv, LiveInv', Gather PROVE RowsInv'
<1> DEFINE total == MapThenSumSet(LAMBDA s : job[s].fill, {s \in Symbols : job[s].pc = "filled"})
           at == IF total > 0 THEN "profit" ELSE "recheck"
<1>1. /\ LiveInv /\ BaseInv /\ Fields(closeout, {"at", "listed", "bought", "result"})
      /\ UNCHANGED <<broker, trades, position, issued, cache, batch, torn>>
      /\ closeout.at = "selling" /\ Symbols \subseteq Tasks /\ "closeout" \in Tasks
      /\ "closeout" \notin Symbols
      /\ \A s \in Symbols : job[s].pc \in {"idle", "filled", "no_fill", "failed"}
  BY TaskFacts, LiveAssumption DEF RowsInv, LiveInv, CloseoutInv, Gather, CloseoutAt, tableVars,
     closeoutKeeps
<1>2. /\ closeout' = [closeout EXCEPT !.at = at]
      /\ job' = [w \in Tasks |->
           IF w \in Symbols THEN Idle
           ELSE IF w = "closeout" /\ total > 0 THEN [Idle EXCEPT !.pc = "pnl", !.fill = total]
           ELSE job[w]]
  BY DEF Gather, Reach
<1>3. closeout'.listed = closeout.listed /\ closeout'.at = at
  <2> HIDE DEF at, total
  <2> QED BY <1>1, <1>2 DEF Fields
<1>4. job["closeout"].pc = "idle"
  BY <1>1 DEF BaseInv, Apart
<1> DEFINE j == [Idle EXCEPT !.pc = "pnl", !.fill = total]
<1> HIDE DEF total
<1>5. Idle.pc = "idle" /\ Idle.sent = 0 /\ j.pc = "pnl" /\ j.sent = 0
  BY DEF Idle
<1>6. \A w \in Tasks : \/ Stays(w) /\ w \notin Symbols
                       \/ w \in Symbols /\ job'[w] = Idle
                       \/ w = "closeout" /\ total > 0 /\ job'[w] = j
  BY <1>2 DEF Stays
<1> HIDE DEF j
<1>7. \A w \in Tasks : Moves(w) /\ (Writes(w) => Stays(w))
  BY <1>1, <1>4, <1>5, <1>6 DEF Moves, Leaves, Active, Waits, Writes, Placed
<1>8. Apart'
  <2>1. \A w \in Symbols : ~Active(w)'
    BY <1>1, <1>5, <1>6 DEF Active, Waits, Writes, Placed
  <2>2. job'["closeout"].pc # "idle" => closeout'.at = "profit"
    BY <1>1, <1>3, <1>4, <1>6 DEF Stays
  <2> QED BY <2>1, <2>2 DEF Apart
<1>9. JobsCalm
  BY <1>1, <1>3, <1>7, <1>8 DEF JobsCalm, Knows, BaseInv
<1> QED BY <1>1, <1>9, JobsRows

----------------------------------------------------------------------------
(* Accepted orders, recorded fills and written rows.  All other tasks stay *)
(* where they are, or the process ends.                                    *)
OthersCalm(w) ==
  /\ torn \subseteq torn' /\ batch'.todo \subseteq issued' /\ Apart'
  /\ \A v \in Tasks : v # w => /\ Stays(v) \/ Leaves(v)
                               /\ Writes(v) => Stays(v) \/ job[v].order.symbol \in torn'
  /\ \A s \in Symbols : Knows(s)

LEMMA JobsOthers ==
  ASSUME LiveInv, BaseInv, NEW w \in Tasks, issued' = issued,
         \/ /\ Return(w, "no_fill") \/ Return(w, "failed") \/ Return(w, "filled")
            /\ torn \subseteq torn' /\ (w = "closeout" => job[w].pc # "idle")
         \/ \E flushed, unwritten : Die(flushed, unwritten)
  PROVE  OthersCalm(w) /\ Leaves(w)
<1>1. ASSUME NEW outcome \in {"skipped", "no_fill", "failed", "filled"}, Return(w, outcome),
             torn \subseteq torn', w = "closeout" => job[w].pc # "idle"
      PROVE  OthersCalm(w) /\ Leaves(w)
  BY <1>1, ReturnCalm DEF OthersCalm, Knows, BaseInv
<1>2. ASSUME NEW flushed, NEW unwritten, Die(flushed, unwritten)
      PROVE  OthersCalm(w) /\ Leaves(w)
  BY <1>2, DieCalm DEF OthersCalm, Knows
<1> QED BY <1>1, <1>2

LEMMA GoOthers ==
  ASSUME LiveInv, BaseInv, NEW w \in Tasks, w # "closeout", NEW j, Go(w, j),
         w \in Symbols => (Active(w)' => Active(w)),
         UNCHANGED <<batch, cache, closeout, torn, issued>>
  PROVE  OthersCalm(w)
<1>1. job'[w] = j /\ \A v \in Tasks : v # w => Stays(v)
  BY OthersStay DEF Go
<1>2. Apart'
  <2>1. Symbols \subseteq Tasks /\ "closeout" \in Tasks
    BY TaskFacts
  <2>2. \A v \in Symbols : Active(v)' => Active(v)
    BY <1>1, <2>1 DEF Stays, Active, Waits, Writes
  <2> QED BY <1>1, <2>1, <2>2, ApartStays DEF Stays
<1> QED BY <1>1, <1>2 DEF OthersCalm, Knows, BaseInv

(* Another symbol does not notice.                                         *)
LEMMA OtherSymbol ==
  ASSUME LiveInv, BaseInv, BaseInv', NEW w \in Tasks, OthersCalm(w), NEW s \in Symbols,
         s \notin torn', Traced(s), ~On(w, s)', ~On(w, s), Grown(broker, broker'),
         issued' = issued, position'[s] = position[s],
         Booked(s, "BUY")' = Booked(s, "BUY"), Booked(s, "SELL")' = Booked(s, "SELL"),
         \A i \in DOMAIN broker' : broker'[i].symbol = s => FillsOnly(i)
  PROVE  Traced(s)'
<1>1. \A v \in Tasks : On(v, s)' => Stays(v)
  BY DEF OthersCalm, Leaves, On
<1>2. \A v \in Tasks : Writes(v) /\ On(v, s) => Stays(v)
  BY DEF OthersCalm, On
<1>3. Calm(s)
  BY <1>1, <1>2 DEF Calm, OthersCalm, Offers
<1> QED BY <1>3, CalmTraced

(* Its own symbol knows the other tasks as before.                         *)
LEMMA OwnSymbol ==
  ASSUME NEW w \in Tasks, OthersCalm(w), NEW s \in Symbols, s \notin torn'
  PROVE  /\ \A v \in Tasks : v # w /\ On(v, s)' =>
              /\ Stays(v) /\ On(v, s) /\ (Waits(v)' <=> Waits(v)) /\ (Writes(v)' <=> Writes(v))
         /\ \A v \in Tasks : v # w /\ On(v, s) /\ Writes(v) => On(v, s)' /\ Writes(v)'
         /\ Knows(s)
BY DEF OthersCalm, Stays, Leaves, On, Active, Waits, Writes

----------------------------------------------------------------------------
(* An order is accepted.                                                   *)
Sent(w) ==
  /\ job'[w].pc = "poll" /\ job'[w].order = job[w].order /\ job'[w].sent = Len(broker) + 1
  /\ job'[w].existing = job[w].existing

Accepted(w) ==
  /\ job[w].pc = "send" /\ Accepts(job[w].order) /\ Accept(job[w].order)
  /\ UNCHANGED <<trades, position, issued>>
  /\ OthersCalm(w) /\ (Sent(w) \/ Leaves(w))

LEMMA AcceptLog ==
  ASSUME LiveInv, BaseInv, NEW w \in Tasks, Accepted(w)
  PROVE  LET n == Len(broker) + 1
             o == job[w].order
         IN  /\ Grown(broker, broker') /\ n \notin DOMAIN broker
             /\ DOMAIN broker' = DOMAIN broker \cup {n}
             /\ \A i \in DOMAIN broker : broker'[i] = broker[i]
             /\ Same(broker'[n], o.id, o.symbol, o.side)
             /\ broker'[n].cum = 0 /\ broker'[n].qty = o.qty
             /\ o \in Order \cup Sale /\ (w # "stream" => o \in Sale)
             /\ w # "closeout" /\ o.symbol \in Symbols /\ o.qty \in Nat /\ o.qty > 0
<1> DEFINE n == Len(broker) + 1
           o == job[w].order
           b == [order |-> o.id, symbol |-> o.symbol, side |-> o.side, qty |-> o.qty,
                 cum |-> 0, working |-> TRUE]
<1>1. /\ o \in Order \cup Sale /\ (w # "stream" => o \in Sale) /\ w # "closeout"
      /\ broker \in Seq(Sending)
  BY TaskFacts DEF Accepted, JobForm
<1>2. /\ b \in Sending /\ broker' = Append(broker, b) /\ Same(b, o.id, o.symbol, o.side)
      /\ b.cum = 0 /\ b.qty = o.qty
      /\ o.symbol \in Symbols /\ o.qty \in Nat /\ o.qty > 0
  BY <1>1 DEF Sending, Order, Sale, Ids, Accepted, Accept, Same
<1> HIDE DEF b
<1>3. Grown(broker, broker') /\ n \notin DOMAIN broker /\ broker'[n] = b
  BY <1>1, <1>2, LogAppends
<1>4. DOMAIN broker' = DOMAIN broker \cup {n} /\ \A i \in DOMAIN broker : broker'[i] = broker[i]
  <2>1. DOMAIN broker = 1 .. Len(broker) /\ Len(broker) \in Nat
    BY <1>1, LogDomain
  <2>2. DOMAIN broker' = 1 .. (Len(broker) + 1) /\ \A i \in 1 .. Len(broker) : broker'[i] = broker[i]
    BY <1>1, <1>2, <2>1, AppendProperties, LenProperties
  <2> QED BY <2>1, <2>2
<1> QED BY <1>1, <1>2, <1>3, <1>4

LEMMA AcceptBase ==
  ASSUME LiveInv, BaseInv, NEW w \in Tasks, Accepted(w)
  PROVE  BaseInv' /\ Goes
<1> DEFINE n == Len(broker) + 1
           o == job[w].order
<1>1. /\ Grown(broker, broker') /\ n \notin DOMAIN broker /\ DOMAIN broker' = DOMAIN broker \cup {n}
      /\ \A i \in DOMAIN broker : broker'[i] = broker[i]
      /\ Same(broker'[n], o.id, o.symbol, o.side)
      /\ broker'[n].cum = 0 /\ broker'[n].qty = o.qty /\ o.qty \in Nat
  BY AcceptLog
<1>2. \A i \in DOMAIN broker' : broker'[i].cum <= broker'[i].qty
  BY <1>1 DEF BaseInv
<1>3. n # 0
  <2>1. Len(broker) \in Nat
    BY TaskFacts, LogDomain
  <2> QED BY <2>1
<1>4. \A v \in Tasks : v # w => JobBase(v)'
  BY <1>1, MovesBase DEF OthersCalm, Moves, Accepted
<1>5. JobBase(w)'
  <2>1. CASE Leaves(w)
    BY <1>1, <2>1, MovesBase DEF Moves, Accepted
  <2>2. CASE Sent(w)
    <3> HIDE DEF n
    <3>1. JobBase(w) /\ Active(w)
      BY DEF BaseInv, Accepted, Active, Waits
    <3>2. /\ job'[w].pc = "poll" /\ job'[w].order = o /\ job'[w].sent = n
          /\ job'[w].existing = job[w].existing /\ issued' = issued
      BY <2>2 DEF Sent, Accepted, n
    <3>3. Placed(job'[w]) /\ ~Waits(w)' /\ ~Writes(w)'
      BY <3>2 DEF Placed, Waits, Writes
    <3>4. IF job'[w].order.id = Exit THEN job'[w].existing = job'[w].order.qty
          ELSE job'[w].order \in issued'
      BY <3>1, <3>2 DEF JobBase
    <3> QED BY <1>1, <3>2, <3>3, <3>4 DEF JobBase
  <2> QED BY <2>1, <2>2 DEF Accepted
<1>6. BaseInv'
  BY <1>2, <1>4, <1>5 DEF BaseInv, Accepted, OthersCalm
<1>7. Goes
  <2>1. \A v \in Tasks : job'[v].sent = 0 \/ job'[v].sent = job[v].sent \/ job'[v].sent = n
    BY DEF Accepted, OthersCalm, Sent, Stays, Leaves
  <2> QED BY <1>1, <2>1 DEF Goes, Accepted, OthersCalm
<1> QED BY <1>6, <1>7

LEMMA AcceptBlank ==
  ASSUME LiveInv, BaseInv, NEW w \in Tasks, Accepted(w), NEW s \in Symbols,
         job[w].order.symbol = s, s \notin torn', Blank(s)
  PROVE  Blank(s)'
<1>1. On(w, s) /\ ~Writes(w)
  BY DEF On, Active, Waits, Writes, Accepted
<1>2. /\ Opening[s] = 0 /\ position'[s] = 0 /\ cache'[s] = 0 /\ closeout'.listed[s] = 0
      /\ Booked(s, "SELL")' = {} /\ issued' = issued
  BY DEF Accepted, OthersCalm, Knows, Blank, Booked
<1>3. ASSUME NEW v \in Tasks, On(v, s)'
      PROVE  /\ job'[v].order.side = "BUY"
             /\ job'[v].pc \in {"insert", "write"} => job'[v].existing = 0
  <2>1. CASE v # w
    BY <1>3, <2>1, OwnSymbol DEF Accepted, Stays, Blank
  <2>2. CASE v = w
    BY <1>1, <1>3, <2>2 DEF Accepted, Sent, Leaves, On, Blank
  <2> QED BY <2>1, <2>2
<1>4. Booked(s, "BUY")' # {} => \E v \in Tasks : Writes(v)' /\ On(v, s)'
  <2> SUFFICES ASSUME Booked(s, "BUY")' # {} PROVE \E v \in Tasks : Writes(v)' /\ On(v, s)'
    OBVIOUS
  <2>1. PICK v \in Tasks : Writes(v) /\ On(v, s)
    BY DEF Accepted, Blank, Booked
  <2> QED BY <1>1, <2>1, OwnSymbol DEF Accepted
<1> QED BY <1>2, <1>3, <1>4 DEF Blank

LEMMA AcceptSells ==
  ASSUME LiveInv, BaseInv, NEW w \in Tasks, Accepted(w), NEW s, Regular(s)',
         job[w].order.symbol = s, Owned(s)
  PROVE  job[w].order.side = "SELL"
<1> DEFINE n == Len(broker) + 1
           o == job[w].order
<1>1. /\ Grown(broker, broker') /\ n \notin DOMAIN broker /\ n \in DOMAIN broker'
      /\ Same(broker'[n], o.id, o.symbol, o.side) /\ o \in Order \cup Sale
  BY AcceptLog
<1> HIDE DEF n
<1> SUFFICES ASSUME o.side # "SELL" PROVE FALSE
  OBVIOUS
<1>2. o.side = "BUY" /\ o.id # Exit
  BY <1>1, LiveAssumption DEF Order, Sale
<1>3. CASE Opening[s] > 0
  <2>1. o \in issued
    BY <1>2 DEF BaseInv, JobBase, Accepted, Active, Waits
  <2> QED BY <1>2, <1>3, <2>1 DEF Owned, Begun
<1>4. CASE ~(Opening[s] > 0)
  <2>1. PICK t \in Booked(s, "BUY") : TRUE
    BY <1>4 DEF Owned, Begun
  <2>2. t.sent \in DOMAIN broker /\ t.sent \in SentFor(s, "BUY")
    BY BookedFacts
  <2>3. t.sent \in SentFor(s, "BUY")' /\ n \in SentFor(s, "BUY")'
    BY <1>1, <1>2, <2>2 DEF Grown, SentFor, Same
  <2> QED BY <1>1, <2>2, <2>3 DEF Regular, OneBuy
<1> QED BY <1>3, <1>4

LEMMA AcceptOwned ==
  ASSUME LiveInv, BaseInv, NEW w \in Tasks, Accepted(w), NEW s, Regular(s), Regular(s)',
         job[w].order.symbol = s, Owned(s)
  PROVE  Owned(s)'
<1> DEFINE n == Len(broker) + 1
           o == job[w].order
<1>1. /\ Grown(broker, broker') /\ n \notin DOMAIN broker /\ DOMAIN broker' = DOMAIN broker \cup {n}
      /\ \A i \in DOMAIN broker : broker'[i] = broker[i]
      /\ Same(broker'[n], o.id, o.symbol, o.side) /\ o.qty \in Nat
  BY AcceptLog
<1> HIDE DEF n
<1>2. o.side = "SELL" /\ s \in Symbols /\ s \notin torn'
  BY AcceptSells DEF Regular
<1>3. On(w, s) /\ Waits(w) /\ ~Writes(w)
  BY DEF On, Active, Waits, Writes, Accepted
<1>4. o.qty >= position[s] /\ o.qty <= Free(s)
  BY <1>2, <1>3 DEF Owned, NoLess, Accepted, Accepts
<1>5. position[s] = Left(s) /\ o.qty = position[s] /\ \A v \in Tasks : ~Selling(v, s)
  BY <1>1, <1>4, AcceptedAlone
<1>6. position' = position /\ trades' = trades /\ issued' = issued
  BY DEF Accepted
<1>7. Booked(s, "BUY")' = Booked(s, "BUY") /\ Booked(s, "SELL")' = Booked(s, "SELL")
  BY <1>6 DEF Booked
<1>8. Left(s)' = Left(s)
  BY <1>7, LeftStays
<1>9. \A v \in Tasks : v # w /\ On(v, s)' => Stays(v) /\ On(v, s) /\ (Waits(v)' <=> Waits(v))
                                             /\ (Writes(v)' <=> Writes(v))
  BY <1>2, OwnSymbol DEF Accepted
<1>10. On(w, s)' => /\ job'[w].pc = "poll" /\ job'[w].order = o /\ ~Waits(w)' /\ ~Writes(w)'
  BY DEF Accepted, Sent, Leaves, On, Waits, Writes
<1>11. Begun(s)'
  <2>1. SentFor(s, "BUY")' = SentFor(s, "BUY")
    BY <1>1, <1>2 DEF SentFor, Same
  <2> QED BY <1>6, <1>7, <2>1 DEF Owned, Begun
<1>12. NoLess(s)'
  <2>1. \A v \in Tasks : On(v, s)' /\ Waits(v)' /\ job'[v].order.side = "SELL" =>
          job'[v].order.qty >= position'[s]
    BY <1>6, <1>9, <1>10 DEF Owned, NoLess, Stays
  <2>2. position[s] \in Int /\ Knows(s)
    BY <1>2, LeftIs, OwnSymbol DEF Accepted
  <2>3. /\ cache'[s] = 0 \/ cache'[s] >= position[s]
        /\ closeout'.listed[s] = 0 \/ closeout'.listed[s] >= position[s]
    BY <2>2 DEF Owned, NoLess, Knows
  <2> QED BY <1>6, <2>1, <2>3 DEF Owned, NoLess
<1>13. ASSUME NEW v \in Tasks, On(v, s)', ~Waits(v)' PROVE job'[v].order.side = "SELL"
  BY <1>2, <1>9, <1>10, <1>13 DEF Owned, Stays
<1>14. ASSUME NEW v \in Tasks, Selling(v, s)' PROVE v = w
  <2> SUFFICES ASSUME v # w PROVE FALSE
    OBVIOUS
  <2>1. On(v, s) /\ Stays(v) /\ (Writes(v)' <=> Writes(v))
    BY <1>9, <1>14 DEF Selling
  <2>2. Placed(job[v]) => job[v].sent \in DOMAIN broker
    BY TaskFacts DEF JobFits
  <2>3. Selling(v, s)
    BY <1>1, <1>14, <2>1, <2>2 DEF Selling, Stays
  <2> QED BY <1>5, <2>3
<1>15. Selling(w, s)' => SellsAll(w, s)'
  BY <1>5, <1>6, <1>8, <1>10 DEF Selling, SellsAll
<1> QED BY <1>5, <1>6, <1>8, <1>11, <1>12, <1>13, <1>14, <1>15 DEF Owned

LEMMA AcceptRows == ASSUME RowsInv, LiveInv', NEW w \in Tasks, Accepted(w) PROVE RowsInv'
<1>1. LiveInv /\ BaseInv /\ BaseInv' /\ Goes
  BY AcceptBase DEF RowsInv
<1>2. ASSUME NEW s \in Symbols, Regular(s)'
      PROVE  Traced(s)'
  <2>1. Regular(s) /\ Traced(s) /\ s \notin torn'
    BY <1>1, <1>2, RegularBefore DEF RowsInv, Regular
  <2>2. CASE job[w].order.symbol = s
    BY <1>1, <1>2, <2>1, <2>2, AcceptBlank, AcceptOwned DEF Traced
  <2>3. CASE job[w].order.symbol # s
    <3>1. ~On(w, s) /\ ~On(w, s)'
      BY <2>3 DEF On, Accepted, Sent, Leaves
    <3>2. Booked(s, "BUY")' = Booked(s, "BUY") /\ Booked(s, "SELL")' = Booked(s, "SELL")
          /\ position' = position /\ issued' = issued /\ OthersCalm(w)
      BY DEF Booked, Accepted
    <3>3. \A i \in DOMAIN broker' : broker'[i].symbol = s => FillsOnly(i)
      BY <1>1, <2>3, AcceptLog DEF FillsOnly, Same
    <3>4. Grown(broker, broker')
      BY <1>1 DEF Goes
    <3> QED BY <1>1, <2>1, <3>1, <3>2, <3>3, <3>4, OtherSymbol
  <2> QED BY <2>2, <2>3
<1> QED BY <1>1, <1>2 DEF RowsInv

LEMMA SendRows ==
  ASSUME RowsInv, LiveInv', NEW w \in Tasks, Send(w) \/ SendUnanswered(w)
  PROVE  RowsInv'
<1>1. /\ LiveInv /\ BaseInv /\ job[w].pc = "send" /\ UNCHANGED <<trades, position, issued>>
      /\ JobForm(w, job[w])
  BY TaskFacts DEF RowsInv, Send, SendUnanswered, At, tableVars
<1>2. CASE Send(w)
  <2> DEFINE j == [job[w] EXCEPT !.pc = "poll", !.sent = Len(broker) + 1]
  <2>1. /\ j.pc = "poll" /\ j.order = job[w].order /\ j.sent = Len(broker) + 1
        /\ j.existing = job[w].existing
    BY <1>1 DEF JobForm, Fields
  <2>2. Go(w, j) /\ UNCHANGED <<batch, cache, closeout, torn, issued>>
    BY <1>1, <1>2 DEF Send
  <2> HIDE DEF j
  <2>3. job'[w] = j
    BY <1>1, <2>2, OthersStay DEF Go
  <2>4. w # "closeout" /\ Active(w)
    BY <1>1 DEF JobForm, Active, Waits
  <2>5. OthersCalm(w)
    BY <1>1, <2>2, <2>4, GoOthers
  <2>6. Sent(w)
    BY <2>1, <2>3 DEF Sent
  <2> QED BY <1>1, <1>2, <2>5, <2>6, AcceptRows DEF Accepted, Send
<1>3. CASE SendUnanswered(w)
  <2>1. CASE broker' = broker
    BY <1>3, <2>1, RejectedRows
  <2>2. CASE Accepts(job[w].order) /\ Accept(job[w].order)
    <3>1. OthersCalm(w) /\ Leaves(w)
      BY <1>1, <1>3, JobsOthers DEF SendUnanswered
    <3> QED BY <1>1, <2>2, <3>1, AcceptRows DEF Accepted
  <2> QED BY <1>3, <2>1, <2>2 DEF SendUnanswered
<1> QED BY <1>2, <1>3

----------------------------------------------------------------------------
(* A fill is recorded: its trade first, its row afterwards.                *)
Inserted(w) ==
  /\ job[w].pc = "insert" /\ trades' = trades \cup {TradeOf(w)}
  /\ UNCHANGED <<broker, position, issued>>
  /\ OthersCalm(w)
  /\ \/ /\ job'[w].pc = "write" /\ job'[w].order = job[w].order /\ job'[w].sent = job[w].sent
        /\ job'[w].fill = job[w].fill /\ job'[w].existing = job[w].existing
     \/ Leaves(w) /\ job[w].order.symbol \in torn'

LEMMA InsertBase ==
  ASSUME LiveInv, BaseInv, NEW w \in Tasks, Inserted(w)
  PROVE  BaseInv' /\ Goes
<1>1. Grown(broker, broker') /\ broker' = broker /\ issued' = issued /\ trades \subseteq trades'
  BY TaskFacts DEF Inserted
<1>2. \A v \in Tasks : v # w => JobBase(v)'
  BY <1>1, MovesBase DEF Inserted, OthersCalm, Moves
<1>3. JobBase(w)'
  <2>1. CASE Leaves(w)
    BY <1>1, <2>1, MovesBase DEF Moves
  <2>2. CASE ~Leaves(w)
    <3>1. /\ job'[w].pc = "write" /\ job'[w].order = job[w].order /\ job'[w].sent = job[w].sent
          /\ job'[w].fill = job[w].fill /\ job'[w].existing = job[w].existing
      BY <2>2 DEF Inserted
    <3>2. Writes(w)' /\ ~Waits(w)'
      BY <3>1 DEF Writes, Waits
    <3>3. TradeOf(w)' = TradeOf(w) /\ TradeOf(w) \in trades'
      BY <3>1 DEF TradeOf, Inserted
    <3>4. JobBase(w) /\ Active(w) /\ job[w].fill > 0
      BY DEF BaseInv, JobBase, Active, Placed, Inserted
    <3>5. IF job'[w].order.id = Exit THEN job'[w].existing = job'[w].order.qty
          ELSE job'[w].order \in issued'
      BY <1>1, <3>1, <3>4 DEF JobBase
    <3>6. job'[w].sent # 0 =>
            /\ job'[w].sent \in DOMAIN broker'
            /\ Same(broker'[job'[w].sent], job'[w].order.id, job'[w].order.symbol, job'[w].order.side)
      BY <1>1, <3>1, <3>4 DEF JobBase
    <3> QED BY <3>1, <3>2, <3>3, <3>4, <3>5, <3>6 DEF JobBase
  <2> QED BY <2>1, <2>2
<1>4. BaseInv'
  <2>1. IsFiniteSet(trades')
    BY FS_AddElement DEF BaseInv, Inserted
  <2> QED BY <1>1, <1>2, <1>3, <2>1 DEF BaseInv, Inserted, OthersCalm
<1>5. Goes
  <2>1. \A t \in trades' \ trades : t.sent = job[w].sent
    BY DEF Inserted, TradeOf
  <2>2. \A v \in Tasks : job'[v].sent = 0 \/ job'[v].sent = job[v].sent
    BY DEF Inserted, OthersCalm, Stays, Leaves
  <2> QED BY <1>1, <2>1, <2>2 DEF Goes, Inserted, OthersCalm
<1> QED BY <1>4, <1>5

LEMMA InsertBlank ==
  ASSUME LiveInv, BaseInv, NEW w \in Tasks, Inserted(w), NEW s \in Symbols,
         job[w].order.symbol = s, s \notin torn', Blank(s)
  PROVE  Blank(s)'
<1>1. On(w, s) /\ job[w].order.side = "BUY" /\ job[w].existing = 0
  BY DEF On, Active, Placed, Inserted, Blank
<1>2. /\ job'[w].pc = "write" /\ job'[w].order = job[w].order /\ job'[w].existing = 0
      /\ Writes(w)' /\ On(w, s)'
  BY <1>1 DEF Inserted, Writes, On, Active
<1>3. Booked(s, "SELL")' = {}
  <2>1. TradeOf(w).side = "BUY"
    BY <1>1 DEF TradeOf
  <2> QED BY <2>1 DEF Blank, Booked, Inserted
<1>4. /\ Opening[s] = 0 /\ position'[s] = 0 /\ cache'[s] = 0 /\ closeout'.listed[s] = 0
      /\ issued' = issued
  BY DEF Inserted, OthersCalm, Knows, Blank
<1>5. ASSUME NEW v \in Tasks, On(v, s)'
      PROVE  /\ job'[v].order.side = "BUY"
             /\ job'[v].pc \in {"insert", "write"} => job'[v].existing = 0
  <2>1. CASE v # w
    BY <1>5, <2>1, OwnSymbol DEF Inserted, Stays, Blank
  <2>2. CASE v = w
    BY <1>1, <1>2, <2>2
  <2> QED BY <2>1, <2>2
<1> QED BY <1>2, <1>3, <1>4, <1>5 DEF Blank

LEMMA InsertOwned ==
  ASSUME LiveInv, BaseInv, BaseInv', LiveInv', NEW w \in Tasks, Inserted(w), NEW s \in Symbols,
         job[w].order.symbol = s, s \notin torn', Owned(s)
  PROVE  Owned(s)'
<1> DEFINE t == TradeOf(w)
           P == Booked(s, "SELL")
<1>1. On(w, s) /\ ~Waits(w) /\ ~Writes(w) /\ Placed(job[w])
  BY DEF On, Active, Waits, Writes, Placed, Inserted
<1>2. job[w].order.side = "SELL"
  BY <1>1 DEF Owned
<1>3. /\ job[w].fill \in Nat /\ job[w].fill > 0 /\ broker[job[w].sent].cum > 0
      /\ \A u \in trades : u.sent # job[w].sent
  <2>1. JobForm(w, job[w]) /\ JobFits(job[w], broker, trades) /\ JobBase(w)
    BY TaskFacts DEF BaseInv
  <2>2. job[w].fill \in Nat /\ job[w].fill > 0
    BY <2>1 DEF JobForm, JobBase, Inserted
  <2>3. /\ job[w].sent \in DOMAIN broker /\ job[w].fill <= broker[job[w].sent].cum
        /\ \A u \in trades : u.sent # job[w].sent
    BY <1>1, <2>1 DEF JobFits, Inserted
  <2>4. broker[job[w].sent].cum \in Nat
    BY <2>3, TaskFacts, LogDomain
  <2> QED BY <2>2, <2>3, <2>4
<1>4. Selling(w, s) /\ SellsAll(w, s)
  BY <1>1, <1>3 DEF Selling, Owned
<1>5. position[s] = Left(s) /\ job[w].existing = position[s]
  BY <1>1, <1>4 DEF SellsAll, Inserted
<1>6. /\ job'[w].pc = "write" /\ job'[w].order = job[w].order /\ job'[w].existing = job[w].existing
      /\ job'[w].fill = job[w].fill /\ Writes(w)' /\ On(w, s)' /\ ~Waits(w)'
  BY DEF Inserted, Writes, On, Active, Waits
<1>7. position' = position /\ broker' = broker /\ issued' = issued /\ trades' = trades \cup {t}
  BY DEF Inserted
<1>8. Booked(s, "BUY")' = Booked(s, "BUY") /\ P' = P \cup {t} /\ t \notin P /\ t.qty = job[w].fill
  <2>1. t.side = "SELL" /\ t.symbol = s /\ t.sent = job[w].sent /\ t.qty = job[w].fill
    BY <1>2 DEF TradeOf
  <2> HIDE DEF t
  <2> QED BY <1>3, <1>7, <2>1 DEF Booked
<1>9. Left(s)' = Left(s) - job[w].fill
  <2>1. Bought(s)' = Bought(s)
    <3>1. Bought(s) = MapThenSumSet(LAMBDA u : u.qty, Booked(s, "BUY"))
      BY Zenon DEF Bought, Booked
    <3> QED BY <1>8, <3>1, SharesNext, Zenon
  <2> DEFINE T == P \cup {t}
             q == [u \in T |-> u.qty]
  <2>2. IsFiniteSet(P) /\ \A u \in P : u.qty \in Nat /\ QtyOf[u] = u.qty
    BY BookedFacts
  <2>3. IsFiniteSet(T)
    BY <2>2, FS_AddElement
  <2>4. Sold(s)' = SumOver(q, T)
    <3>1. Sold(s)' = MapThenSumSet(LAMBDA u : u.qty, T)
      BY <1>8, SharesNext, Zenon
    <3> QED BY <2>3, <3>1, SumOfQuantities
  <2>5. \A u \in T : q[u] \in Int
    BY <1>3, <1>8, <2>2
  <2>6. SumOver(q, T) = SumOver(q, P) + job[w].fill
    <3>1. q[t] = job[w].fill
      BY <1>8
    <3>2. SumOver(q, P \cup {t}) = SumOver(q, P) + q[t]
      <4> HIDE DEF q, P, t
      <4> QED BY <1>8, <2>2, <2>5, SumAdd
    <3> QED BY <3>1, <3>2
  <2>7. SumOver(q, P) = SumOver(QtyOf, P)
    <3>1. \A u \in P : q[u] = QtyOf[u] /\ q[u] \in Int
      BY <2>2, <2>5
    <3> HIDE DEF q, P
    <3> QED BY <2>2, <3>1, SumSame
  <2> HIDE DEF q, T, P
  <2>8. Sold(s)' = Sold(s) + job[w].fill
    <3>1. Sold(s) = SumOver(QtyOf, P)
      BY LeftIs DEF P
    <3> QED BY <2>4, <2>6, <2>7, <3>1
  <2>9. Opening[s] \in Nat /\ Bought(s) \in Nat /\ Sold(s) \in Nat
    BY LeftIs
  <2> QED BY <1>3, <2>1, <2>8, <2>9 DEF Left
<1>10. \A v \in Tasks : v # w /\ On(v, s)' => Stays(v) /\ On(v, s) /\ (Waits(v)' <=> Waits(v))
                                              /\ (Writes(v)' <=> Writes(v))
  BY OwnSymbol DEF Inserted
<1>11. Begun(s)'
  <2>1. SentFor(s, "BUY")' = SentFor(s, "BUY")
    BY <1>7 DEF SentFor
  <2> QED BY <1>7, <1>8, <2>1 DEF Owned, Begun
<1>12. NoLess(s)'
  <2>1. \A v \in Tasks : On(v, s)' /\ Waits(v)' /\ job'[v].order.side = "SELL" =>
          job'[v].order.qty >= position'[s]
    BY <1>6, <1>7, <1>10 DEF Owned, NoLess, Stays
  <2>2. position[s] \in Int /\ Knows(s)
    BY LeftIs, OwnSymbol DEF Inserted
  <2>3. /\ cache'[s] = 0 \/ cache'[s] >= position[s]
        /\ closeout'.listed[s] = 0 \/ closeout'.listed[s] >= position[s]
    BY <2>2 DEF Owned, NoLess, Knows
  <2> QED BY <1>7, <2>1, <2>3 DEF Owned, NoLess
<1>13. ASSUME NEW v \in Tasks, On(v, s)', ~Waits(v)' PROVE job'[v].order.side = "SELL"
  BY <1>2, <1>6, <1>10, <1>13 DEF Owned, Stays
<1>14. ASSUME NEW v \in Tasks, Selling(v, s)' PROVE v = w
  <2> SUFFICES ASSUME v # w PROVE FALSE
    OBVIOUS
  <2>1. On(v, s) /\ Stays(v) /\ (Writes(v)' <=> Writes(v))
    BY <1>10, <1>14 DEF Selling
  <2>2. Selling(v, s)
    BY <1>7, <1>14, <2>1 DEF Selling, Stays
  <2> QED BY <1>4, <2>2 DEF Owned
<1>15. SellsAll(w, s)'
  <2>1. position[s] \in Int /\ Left(s) \in Int /\ job[w].fill \in Int
    BY <1>3, LeftIs
  <2>2. position'[s] = Left(s)' + job'[w].fill
    BY <1>5, <1>6, <1>7, <1>9, <2>1
  <2> QED BY <1>5, <1>6, <1>7, <2>2 DEF SellsAll
<1> QED BY <1>6, <1>11, <1>12, <1>13, <1>14, <1>15 DEF Owned

LEMMA InsertedRows == ASSUME RowsInv, LiveInv', NEW w \in Tasks, Inserted(w) PROVE RowsInv'
<1>1. LiveInv /\ BaseInv /\ BaseInv' /\ Goes
  BY InsertBase DEF RowsInv
<1>2. ASSUME NEW s \in Symbols, Regular(s)'
      PROVE  Traced(s)'
  <2>1. Traced(s) /\ s \notin torn'
    BY <1>1, <1>2, RegularBefore DEF RowsInv, Regular
  <2>2. CASE job[w].order.symbol = s
    BY <1>1, <2>1, <2>2, InsertBlank, InsertOwned DEF Traced
  <2>3. CASE job[w].order.symbol # s
    <3>1. ~On(w, s) /\ ~On(w, s)'
      BY <2>3 DEF On, Inserted, Leaves
    <3>2. TradeOf(w).symbol # s
      BY <2>3 DEF TradeOf
    <3>3. Booked(s, "BUY")' = Booked(s, "BUY") /\ Booked(s, "SELL")' = Booked(s, "SELL")
      BY <3>2 DEF Booked, Inserted
    <3>4. position' = position /\ issued' = issued /\ OthersCalm(w) /\ Grown(broker, broker')
          /\ \A i \in DOMAIN broker' : FillsOnly(i)
      BY <1>1, TaskFacts DEF Inserted, FillsOnly
    <3> QED BY <1>1, <2>1, <3>1, <3>3, <3>4, OtherSymbol
  <2> QED BY <2>2, <2>3
<1> QED BY <1>1, <1>2 DEF RowsInv

LEMMA InsertRows == ASSUME RowsInv, LiveInv', NEW w \in Tasks, InsertTrade(w) PROVE RowsInv'
<1>1. /\ LiveInv /\ BaseInv /\ job[w].pc = "insert" /\ ~Writes(w) /\ Active(w) /\ w # "closeout"
      /\ UNCHANGED <<broker, position, issued>> /\ JobForm(w, job[w])
  <2>1. LiveInv /\ BaseInv /\ job[w].pc = "insert" /\ UNCHANGED <<broker, position, issued>>
    BY DEF RowsInv, InsertTrade, At
  <2> QED BY <2>1, TaskFacts DEF JobForm, Writes, Active, Placed
<1>2. CASE Break(w, {}) /\ trades' = trades
  BY <1>1, <1>2, BreakCalm, JobsRows
<1>3. CASE Break(w, {job[w].order.symbol}) /\ trades' = trades \cup {TradeOf(w)}
  <2>1. job[w].order.symbol \in torn'
    BY <1>3 DEF Break, Die
  <2>2. OthersCalm(w) /\ Leaves(w)
    <3>1. CASE Return(w, "failed") /\ torn \subseteq torn'
      BY <1>1, <3>1, JobsOthers
    <3>2. CASE \E flushed, unwritten : Die(flushed, unwritten)
      BY <1>1, <3>2, JobsOthers
    <3> QED BY <1>3, <3>1, <3>2 DEF Break
  <2> QED BY <1>1, <1>3, <2>1, <2>2, InsertedRows DEF Inserted
<1>4. CASE /\ Go(w, [job[w] EXCEPT !.pc = "write"]) /\ trades' = trades \cup {TradeOf(w)}
           /\ UNCHANGED <<batch, cache, closeout, torn>>
  <2> DEFINE j == [job[w] EXCEPT !.pc = "write"]
  <2>1. /\ j.pc = "write" /\ j.order = job[w].order /\ j.sent = job[w].sent
        /\ j.fill = job[w].fill /\ j.existing = job[w].existing
    BY <1>1 DEF JobForm, Fields
  <2>2. Go(w, j)
    BY <1>4
  <2> HIDE DEF j
  <2>3. job'[w] = j
    BY <1>1, <2>2, OthersStay DEF Go
  <2>4. OthersCalm(w)
    BY <1>1, <1>4, <2>2, GoOthers
  <2> QED BY <1>1, <1>4, <2>1, <2>3, <2>4, InsertedRows DEF Inserted
<1> QED BY <1>2, <1>3, <1>4 DEF InsertTrade

(* The row is written.                                                     *)
Wrote(w) ==
  /\ job[w].pc = "write" /\ WriteRow(w)
  /\ UNCHANGED <<broker, trades, issued>>
  /\ OthersCalm(w) /\ Leaves(w)

LEMMA WriteBase ==
  ASSUME LiveInv, BaseInv, NEW w \in Tasks, Wrote(w)
  PROVE  BaseInv' /\ Goes
<1>1. Grown(broker, broker') /\ broker' = broker /\ issued' = issued /\ trades' = trades
  BY TaskFacts DEF Wrote
<1>2. \A v \in Tasks : Moves(v)
  BY DEF Wrote, OthersCalm, Moves
<1>3. BaseInv'
  <2>1. \A v \in Tasks : JobBase(v)'
    BY <1>1, <1>2, MovesBase
  <2> QED BY <1>1, <2>1 DEF BaseInv, Wrote, OthersCalm
<1>4. Goes
  BY <1>1, <1>2, MovesGo DEF Goes, Wrote, OthersCalm
<1> QED BY <1>3, <1>4

LEMMA WriteFacts ==
  ASSUME LiveInv, BaseInv, NEW w \in Tasks, Wrote(w), NEW s \in Symbols, job[w].order.symbol = s,
         s \notin torn'
  PROVE  /\ Writes(w) /\ On(w, s) /\ ~On(w, s)' /\ TradeOf(w) \in trades
         /\ job[w].fill \in Nat /\ job[w].fill > 0
         /\ Booked(s, "BUY")' = Booked(s, "BUY") /\ Booked(s, "SELL")' = Booked(s, "SELL")
         /\ Left(s)' = Left(s)
         /\ \A v \in Tasks : On(v, s)' => /\ v # w /\ Stays(v) /\ On(v, s)
                                          /\ (Waits(v)' <=> Waits(v)) /\ (Writes(v)' <=> Writes(v))
         /\ Knows(s)
<1>1. Writes(w) /\ On(w, s) /\ ~On(w, s)'
  BY DEF Wrote, Writes, On, Active, Leaves
<1>2. TradeOf(w) \in trades /\ job[w].fill \in Nat /\ job[w].fill > 0
  BY <1>1, TaskFacts DEF BaseInv, JobBase, JobForm, Writes
<1>3. Booked(s, "BUY")' = Booked(s, "BUY") /\ Booked(s, "SELL")' = Booked(s, "SELL")
  BY DEF Wrote, Booked
<1>4. \A v \in Tasks : On(v, s)' => /\ v # w /\ Stays(v) /\ On(v, s)
                                    /\ (Waits(v)' <=> Waits(v)) /\ (Writes(v)' <=> Writes(v))
  BY <1>1, OwnSymbol DEF Wrote
<1> QED BY <1>1, <1>2, <1>3, <1>4, LeftStays, OwnSymbol DEF Wrote

(* The row of the purchase.                                                *)
LEMMA WriteBlank ==
  ASSUME LiveInv, BaseInv, NEW w \in Tasks, Wrote(w), NEW s \in Symbols, job[w].order.symbol = s,
         s \notin torn', OneBuy(s), Blank(s)
  PROVE  Owned(s)'
<1>1. /\ Writes(w) /\ On(w, s) /\ ~On(w, s)' /\ TradeOf(w) \in trades
      /\ job[w].fill \in Nat /\ job[w].fill > 0
      /\ Booked(s, "BUY")' = Booked(s, "BUY") /\ Left(s)' = Left(s)
      /\ \A v \in Tasks : On(v, s)' => /\ v # w /\ Stays(v) /\ On(v, s)
                                       /\ (Waits(v)' <=> Waits(v)) /\ (Writes(v)' <=> Writes(v))
      /\ Knows(s) /\ issued' = issued
  BY WriteFacts DEF Wrote
<1>2. job[w].order.side = "BUY" /\ job[w].existing = 0
  BY <1>1 DEF Blank, Writes
<1>3. TradeOf(w) \in Booked(s, "BUY") /\ TradeOf(w).qty = job[w].fill
  BY <1>1, <1>2 DEF TradeOf, Booked
<1>4. Left(s) = job[w].fill
  <2>1. Bought(s) = job[w].fill /\ Sold(s) = 0 /\ Opening[s] = 0
    BY <1>3, OneBooked, NoneBooked DEF Blank
  <2> QED BY <1>1, <2>1, LeftIs
<1>5. position'[s] = job[w].fill
  <2>1. ~PatchesNothing(w) /\ NewQuantity(w) = job[w].fill
    BY <1>1, <1>2 DEF PatchesNothing, NewQuantity
  <2> QED BY <2>1, TaskFacts DEF Wrote, WriteRow
<1>6. NoLess(s)'
  <2>1. cache'[s] = 0 /\ closeout'.listed[s] = 0 /\ \A o \in issued' : o.symbol = s => o.side = "BUY"
    BY <1>1 DEF Blank, Knows
  <2>2. \A v \in Tasks : On(v, s)' => job'[v].order.side = "BUY"
    BY <1>1 DEF Blank, Stays
  <2> QED BY <2>1, <2>2 DEF NoLess
<1>7. \A v \in Tasks : On(v, s)' => Waits(v)'
  <2> SUFFICES ASSUME NEW v \in Tasks, On(v, s)', ~Waits(v)' PROVE FALSE
    OBVIOUS
  <2>1. v # w /\ On(v, s) /\ ~Waits(v) /\ job[v].order.side = "BUY"
    BY <1>1 DEF Blank
  <2>2. \A u \in {v, w} : job[u].order.side = "BUY" /\ (Placed(job[u]) \/ Writes(u))
    BY <1>1, <1>2, <2>1 DEF On, Active
  <2>3. v = "stream" /\ w = "stream"
    BY <2>2, TaskFacts DEF JobForm, Writes, Sale
  <2> QED BY <2>1, <2>3
<1>8. \A v \in Tasks : ~Selling(v, s)'
  BY <1>7 DEF Selling, Waits, Writes, Placed
<1>9. Begun(s)' /\ position'[s] = Left(s)'
  BY <1>1, <1>3, <1>4, <1>5 DEF Begun, Blank
<1> QED BY <1>6, <1>7, <1>8, <1>9 DEF Owned

(* The row of a sale.                                                      *)
LEMMA WriteOwned ==
  ASSUME LiveInv, BaseInv, NEW w \in Tasks, Wrote(w), NEW s \in Symbols, job[w].order.symbol = s,
         s \notin torn', Owned(s)
  PROVE  Owned(s)'
<1>1. /\ Writes(w) /\ On(w, s) /\ ~On(w, s)'
      /\ job[w].fill \in Nat /\ job[w].fill > 0
      /\ Booked(s, "BUY")' = Booked(s, "BUY") /\ Left(s)' = Left(s)
      /\ \A v \in Tasks : On(v, s)' => /\ v # w /\ Stays(v) /\ On(v, s)
                                       /\ (Waits(v)' <=> Waits(v)) /\ (Writes(v)' <=> Writes(v))
      /\ Knows(s) /\ issued' = issued /\ broker' = broker
  BY WriteFacts DEF Wrote
<1>2. /\ job[w].order.side = "SELL" /\ Selling(w, s) /\ position[s] = Left(s) + job[w].fill
      /\ job[w].existing = position[s]
  <2>1. Selling(w, s) /\ ~Waits(w)
    BY <1>1 DEF Selling, Waits, Writes
  <2>2. SellsAll(w, s)
    BY <2>1 DEF Owned
  <2> QED BY <1>1, <2>1, <2>2 DEF Owned, SellsAll
<1>3. position[s] \in Int /\ Left(s) \in Int
  BY LeftIs
<1>4. position'[s] = Left(s) /\ position'[s] <= position[s]
  <2>1. ~PatchesNothing(w) /\ NewQuantity(w) = position[s] - job[w].fill
    BY <1>2 DEF PatchesNothing, NewQuantity
  <2>2. position'[s] = position[s] - job[w].fill
    BY <2>1, TaskFacts DEF Wrote, WriteRow
  <2> QED BY <1>1, <1>2, <1>3, <2>2
<1>5. NoLess(s)'
  <2>1. NoLess(s) /\ position'[s] \in Int
    BY <1>3, <1>4 DEF Owned
  <2>2. /\ cache \in [Symbols -> Int] /\ closeout.listed \in [Symbols -> Int]
        /\ \A o \in issued : o.qty \in Int
    <3>1. \A o \in issued : o \in Order
      BY LiveAssumption DEF BaseInv
    <3> QED BY <3>1, TaskFacts DEF CloseoutInv, Order
  <2>3. /\ cache'[s] = 0 \/ cache'[s] >= position'[s]
        /\ closeout'.listed[s] = 0 \/ closeout'.listed[s] >= position'[s]
    <3>1. /\ cache'[s] \in Int /\ (cache'[s] = 0 \/ cache'[s] >= position[s])
          /\ closeout'.listed[s] \in Int
          /\ closeout'.listed[s] = 0 \/ closeout'.listed[s] >= position[s]
      BY <1>1, <1>3, <2>1, <2>2 DEF Knows, NoLess
    <3> QED BY <1>3, <1>4, <2>1, <3>1
  <2>4. \A o \in issued' : o.symbol = s /\ o.side = "SELL" => o.qty >= position'[s]
    BY <1>1, <1>3, <1>4, <2>1, <2>2 DEF NoLess
  <2>5. ASSUME NEW v \in Tasks, On(v, s)', Waits(v)', job'[v].order.side = "SELL"
        PROVE  job'[v].order.qty >= position'[s]
    <3>1. job'[v] = job[v] /\ On(v, s) /\ Waits(v)
      BY <1>1, <2>5 DEF Stays
    <3>2. job[v].order.qty >= position[s]
      BY <2>1, <2>5, <3>1 DEF NoLess
    <3>3. job[v].order.qty \in Int
      <4>1. JobForm(v, job[v]) /\ job[v].pc \in {"check", "send"}
        BY <3>1, TaskFacts DEF Waits
      <4>2. job[v].order \in Order \cup Sale
        BY <4>1 DEF JobForm
      <4> QED BY <4>2 DEF Order, Sale
    <3> QED BY <1>3, <1>4, <2>1, <3>1, <3>2, <3>3
  <2> QED BY <2>3, <2>4, <2>5 DEF NoLess
<1>6. \A v \in Tasks : On(v, s)' /\ ~Waits(v)' => job'[v].order.side = "SELL"
  BY <1>1 DEF Owned, Stays
<1>7. \A v \in Tasks : ~Selling(v, s)'
  <2> SUFFICES ASSUME NEW v \in Tasks, Selling(v, s)' PROVE FALSE
    OBVIOUS
  <2>1. v # w /\ On(v, s) /\ Stays(v) /\ (Writes(v)' <=> Writes(v))
    BY <1>1 DEF Selling
  <2>2. Selling(v, s)
    BY <1>1, <2>1 DEF Selling, Stays
  <2> QED BY <1>2, <2>1, <2>2 DEF Owned
<1>8. Begun(s)'
  <2>1. SentFor(s, "BUY")' = SentFor(s, "BUY")
    BY <1>1 DEF SentFor
  <2> QED BY <1>1, <2>1 DEF Owned, Begun
<1> QED BY <1>1, <1>4, <1>5, <1>6, <1>7, <1>8 DEF Owned

LEMMA WroteRows == ASSUME RowsInv, LiveInv', NEW w \in Tasks, Wrote(w) PROVE RowsInv'
<1>1. LiveInv /\ BaseInv /\ BaseInv' /\ Goes
  BY WriteBase DEF RowsInv
<1>2. ASSUME NEW s \in Symbols, Regular(s)'
      PROVE  Traced(s)'
  <2>1. Traced(s) /\ s \notin torn' /\ OneBuy(s)
    BY <1>1, <1>2, RegularBefore DEF RowsInv, Regular
  <2>2. CASE job[w].order.symbol = s
    BY <1>1, <2>1, <2>2, WriteBlank, WriteOwned DEF Traced
  <2>3. CASE job[w].order.symbol # s
    <3>1. ~On(w, s) /\ ~On(w, s)'
      BY <2>3 DEF On, Wrote, Leaves
    <3>2. Booked(s, "BUY")' = Booked(s, "BUY") /\ Booked(s, "SELL")' = Booked(s, "SELL")
      BY DEF Booked, Wrote
    <3>3. position'[s] = position[s]
      BY <2>3, TaskFacts DEF Wrote, WriteRow
    <3>4. issued' = issued /\ OthersCalm(w) /\ Grown(broker, broker')
          /\ \A i \in DOMAIN broker' : FillsOnly(i)
      BY <1>1, TaskFacts DEF Wrote, FillsOnly
    <3> QED BY <1>1, <2>1, <3>1, <3>2, <3>3, <3>4, OtherSymbol
  <2> QED BY <2>2, <2>3
<1> QED BY <1>1, <1>2 DEF RowsInv

LEMMA WriteRows == ASSUME RowsInv, LiveInv', NEW w \in Tasks, WritePosition(w) PROVE RowsInv'
<1> DEFINE s == job[w].order.symbol
<1>1. /\ LiveInv /\ BaseInv /\ job[w].pc = "write" /\ w # "closeout" /\ JobForm(w, job[w])
      /\ UNCHANGED <<broker, trades, issued>>
  <2>1. LiveInv /\ BaseInv /\ job[w].pc = "write" /\ UNCHANGED <<broker, trades, issued>>
    BY DEF RowsInv, WritePosition, At
  <2> QED BY <2>1, TaskFacts DEF JobForm
<1>2. CASE Break(w, {s}) /\ position' = position
  <2>1. Writes(w) => s \in {s}
    OBVIOUS
  <2> QED BY <1>1, <1>2, <2>1, BreakCalm, JobsRows
<1>3. CASE WriteRow(w) /\ Break(w, {})
  <2>1. OthersCalm(w) /\ Leaves(w)
    <3>1. CASE Return(w, "failed") /\ torn \subseteq torn'
      BY <1>1, <3>1, JobsOthers
    <3>2. CASE \E flushed, unwritten : Die(flushed, unwritten)
      BY <1>1, <3>2, JobsOthers
    <3> QED BY <1>3, <3>1, <3>2 DEF Break
  <2> QED BY <1>1, <1>3, <2>1, WroteRows DEF Wrote
<1>4. CASE WriteRow(w) /\ Return(w, "filled") /\ torn' = torn
  <2>1. OthersCalm(w) /\ Leaves(w)
    BY <1>1, <1>4, JobsOthers
  <2> QED BY <1>1, <1>4, <2>1, WroteRows DEF Wrote
<1>5. CASE /\ WriteRow(w) /\ Go(w, [job[w] EXCEPT !.pc = "pnl"]) /\ job[w].order.side = "SELL"
           /\ w = "stream" /\ UNCHANGED <<batch, cache, closeout, torn>>
  <2> DEFINE j == [job[w] EXCEPT !.pc = "pnl"]
  <2>1. j.pc = "pnl" /\ j.order = job[w].order /\ j.sent = job[w].sent /\ Go(w, j)
    BY <1>1, <1>5 DEF JobForm, Fields
  <2> HIDE DEF j
  <2>2. job'[w] = j
    BY <1>1, <2>1, OthersStay DEF Go
  <2>3. Leaves(w)
    BY <1>5, <2>1, <2>2 DEF Leaves, Active, Waits, Writes, Placed
  <2>4. OthersCalm(w)
    BY <1>1, <1>5, <2>1, GoOthers, LiveAssumption
  <2> QED BY <1>1, <1>5, <2>3, <2>4, WroteRows DEF Wrote
<1> QED BY <1>2, <1>3, <1>4, <1>5 DEF WritePosition, Written

----------------------------------------------------------------------------
LEMMA NextRows == ASSUME RowsInv, [Next]_liveVars PROVE RowsInv'
<1>1. LiveInv /\ BaseInv /\ LiveInv'
  BY NextLive DEF RowsInv
<1>2. ASSUME NEW w \in Tasks, Working(w)
      PROVE  RowsInv'
  BY <1>1, <1>2, SendRows, RejectedRows, PollRows, CancelRows, InsertRows, WriteRows, ProfitRows
     DEF Working
<1>3. CASE Stream
  BY <1>1, <1>2, <1>3, TaskFacts, BatchesRows, CheckRows, ReadPositionRows DEF Stream
<1>4. CASE CloseoutRun
  BY <1>1, <1>4, CloseoutRows, PrecheckRows, GatherRows DEF CloseoutRun
<1>5. CASE Environment
  BY <1>1, <1>5, IssueRows, BrokerRows, CooldownRows, CloseoutRows DEF Environment
<1>6. CASE UNCHANGED liveVars
  <2>1. JobsCalm
    BY <1>1, <1>6, StillCalm DEF liveVars, tableVars, processVars, BaseInv
  <2> QED BY <1>1, <1>6, <2>1, JobsRows DEF liveVars, tableVars, processVars
<1> QED BY <1>1, <1>2, <1>3, <1>4, <1>5, <1>6, BatchesRows, StopRows, CloseoutRows DEF Next

LEMMA InitRows == Init => RowsInv
<1> SUFFICES ASSUME Init PROVE RowsInv
  OBVIOUS
<1>1. LiveInv
  BY InitLive
<1>2. /\ DOMAIN broker = {} /\ trades = {} /\ issued = {} /\ batch.todo = {}
      /\ position = Opening /\ closeout.at = "waiting"
      /\ \A s \in Symbols : cache[s] = 0 /\ closeout.listed[s] = 0
  BY DEF Init, NoBatch, Nothing
<1>3. \A w \in Tasks : ~Active(w) /\ job[w].pc = "idle" /\ job[w].sent = 0
  BY DEF Init, Idle, Active, Waits, Writes, Placed
<1>4. BaseInv
  <2>1. \A w \in Tasks : JobBase(w)
    BY <1>3 DEF JobBase, Waits, Writes, Active
  <2>2. Apart
    BY <1>1, <1>3, TaskFacts DEF Apart
  <2> QED BY <1>2, <2>1, <2>2, FS_EmptySet DEF BaseInv
<1>5. ASSUME NEW s \in Symbols
      PROVE  Traced(s)
  <2>1. Booked(s, "BUY") = {} /\ Booked(s, "SELL") = {} /\ SentFor(s, "BUY") = {}
    BY <1>2 DEF Booked, SentFor
  <2>2. \A w \in Tasks : ~On(w, s) /\ ~Selling(w, s)
    BY <1>3 DEF On, Selling
  <2>3. Opening[s] \in Nat /\ position[s] = Left(s)
    <3>1. Bought(s) = 0 /\ Sold(s) = 0
      BY <1>1, <1>4, <2>1, NoneBooked
    <3> QED BY <1>1, <1>2, <1>4, <3>1, LeftIs
  <2>4. CASE Opening[s] > 0
    BY <1>2, <2>1, <2>2, <2>3, <2>4 DEF Traced, Owned, Begun, NoLess
  <2>5. CASE Opening[s] = 0
    BY <1>2, <2>1, <2>2, <2>5 DEF Traced, Blank
  <2> QED BY <2>3, <2>4, <2>5
<1> QED BY <1>1, <1>4, <1>5 DEF RowsInv

(* The row of a symbol bought once at most is what its trades add up to,   *)
(* whatever the stream, the stop monitor and the closeout read, cached and *)
(* sold meanwhile, unless a fill is being recorded, a failure fell between *)
(* a trade and its row, or the service lost sight of a purchase.           *)
THEOREM LiveRowsFollow == Spec => []PositionsFollowTrades
<1>1. RowsInv => PositionsFollowTrades
  <2> SUFFICES ASSUME RowsInv, NEW s \in Symbols \ torn, ~Unrecorded(s), OneBuy(s),
                      \A w \in Tasks : job[w].pc = "write" => job[w].order.symbol # s
               PROVE  position[s] = Opening[s] + Bought(s) - Sold(s)
    BY DEF PositionsFollowTrades, OneBuy
  <2>1. /\ LiveInv /\ BaseInv /\ Traced(s) /\ \A w \in Tasks : ~(Writes(w) /\ On(w, s))
    BY DEF RowsInv, Regular, Writes, On
  <2>2. Left(s) = Opening[s] + Bought(s) - Sold(s)
    BY DEF Left
  <2>3. CASE Blank(s)
    <3>1. Bought(s) = 0 /\ Sold(s) = 0 /\ Opening[s] = 0 /\ position[s] = 0
      BY <2>1, <2>3, NoneBooked DEF Blank
    <3> QED BY <3>1
  <2>4. CASE Owned(s)
    BY <2>1, <2>2, <2>4 DEF Owned
  <2> QED BY <2>1, <2>3, <2>4 DEF Traced
<1>2. Spec => []RowsInv
  BY InitRows, NextRows, PTL DEF Spec
<1> QED BY <1>1, <1>2, PTL
=============================================================================
