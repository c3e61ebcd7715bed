------------------------- MODULE PaperLedger_proofs -------------------------
(***************************************************************************)
(* The paper ledger keeps its promises to any set of clients: what one     *)
(* call of each function preserves, whoever sends it, and the theorems     *)
(* about LedgerSpec that follow.                                           *)
(***************************************************************************)
EXTENDS LedgerClients, SumTheorems

(* The opening BUY of a row is booked when the row says it was opened, and *)
(* every trade descends from an opening BUY: with the table types, this is *)
(* inductive.                                                              *)
LedgerInv == LedgerTypeOK /\ NoDoubleFill /\ Lineage

LEMMA InitInv == LedgerInit => LedgerInv
  BY DEF LedgerInit, LedgerInv, LedgerTypeOK, NoDoubleFill, Lineage

----------------------------------------------------------------------------
(* Arithmetic of the average entry price.                                  *)

LEMMA ProductAtLeast ==
  ASSUME NEW a \in Nat \ {0}, NEW b \in Nat \ {0}
  PROVE  a * b \in Nat /\ a * b >= b
  BY SMT

LEMMA QuotientPositive ==
  ASSUME NEW a \in Nat, NEW b \in Nat \ {0}, a >= b
  PROVE  a \div b \in Nat \ {0}
  BY SMT

LEMMA PricesAreNumbers ==
  /\ \A x \in Prices : x \in Nat \ {0}
  /\ \A x \in Prices \cup {NoStop} : x \in Nat
<1>1. Prices \subseteq Nat \ {0}
  BY LedgerAssumption
<1> QED BY <1>1 DEF NoStop

LEMMA AveragePositive ==
  ASSUME NEW p \in Position, NEW req \in FillRequest
  PROVE  AverageEntry(p, req) \in Nat \ {0}
<1> DEFINE n    == p.qty + req.qty
           cost == p.entry * p.qty + req.price * req.qty
<1>1. p.qty \in Nat \ {0} /\ p.entry \in Nat \ {0}
  BY DEF Position
<1>2. req.qty \in Nat \ {0} /\ req.price \in Nat \ {0}
  BY LedgerAssumption DEF FillRequest
<1>3. p.entry * p.qty \in Nat /\ p.entry * p.qty >= p.qty
  BY <1>1, ProductAtLeast
<1>4. req.price * req.qty \in Nat /\ req.price * req.qty >= req.qty
  BY <1>2, ProductAtLeast
<1>5. 2 * cost + n \in Nat /\ 2 * n \in Nat \ {0} /\ 2 * cost + n >= 2 * n
  <2> HIDE DEF cost
  <2>1. cost \in Nat /\ cost >= n
    BY <1>1, <1>2, <1>3, <1>4 DEF cost
  <2>2. n \in Nat \ {0}
    BY <1>1, <1>2
  <2> HIDE DEF n
  <2> QED BY <2>1, <2>2
<1>6. (2 * cost + n) \div (2 * n) \in Nat \ {0}
  <2> HIDE DEF cost, n
  <2> QED BY <1>5, QuotientPositive
<1> QED BY <1>6 DEF AverageEntry

----------------------------------------------------------------------------
(* oms_paper_apply_fill.                                                   *)

LEMMA TradeTyped ==
  ASSUME NEW req \in FillRequest, LedgerTypeOK, RejectReason(req) = "none"
  PROVE  GenerationOf(req) \in TradeIds /\ TradeOf(req) \in Trade
<1>1. GenerationOf(req) \in TradeIds
  <2>1. CASE position[req.symbol] = NoPosition
    BY <2>1 DEF RejectReason, GenerationOf, FillRequest
  <2>2. CASE position[req.symbol] # NoPosition
    <3>1. position[req.symbol] \in Position
      BY <2>2 DEF LedgerTypeOK, FillRequest
    <3> QED BY <2>2, <3>1 DEF GenerationOf, Position
  <2> QED BY <2>1, <2>2
<1> QED BY <1>1 DEF TradeOf, Trade, FillRequest

LEMMA PositionTyped ==
  ASSUME NEW req \in FillRequest, LedgerTypeOK, RejectReason(req) = "none"
  PROVE  PositionAfter(req) \in Position \cup {NoPosition}
<1> DEFINE p == position[req.symbol]
<1>1. p \in Position \cup {NoPosition}
  BY DEF LedgerTypeOK, FillRequest
<1>2. req.qty \in Nat \ {0} /\ req.price \in Nat \ {0}
  BY LedgerAssumption DEF FillRequest
<1>3. CASE req.side = "BUY" /\ p = NoPosition
  <2>1. Opened(req) \in Position
    BY <1>2 DEF Opened, Position, FillRequest
  <2> QED BY <1>3, <2>1 DEF PositionAfter
<1>4. CASE req.side = "BUY" /\ p # NoPosition
  <2>1. p \in Position
    BY <1>1, <1>4
  <2>2. AverageEntry(p, req) \in Nat \ {0}
    BY <2>1, AveragePositive
  <2>3. p.qty + req.qty \in Nat \ {0}
    BY <1>2, <2>1 DEF Position
  <2> QED BY <1>4, <2>1, <2>2, <2>3 DEF PositionAfter, Position
<1>5. CASE req.side # "BUY"
  <2>1. p \in Position /\ req.qty <= p.qty
    BY <1>1, <1>2, <1>5 DEF RejectReason, Position
  <2>2. CASE req.qty = p.qty
    BY <1>5, <2>2 DEF PositionAfter
  <2>3. CASE req.qty # p.qty
    <3>1. p.qty - req.qty \in Nat \ {0}
      BY <1>2, <2>1, <2>3 DEF Position
    <3> QED BY <1>5, <2>1, <2>3, <3>1 DEF PositionAfter, Position
  <2> QED BY <2>2, <2>3
<1> QED BY <1>3, <1>4, <1>5

(* An applied fill is new: it repeats no identity, and its row and trade   *)
(* are the ones computed.                                                  *)
LEMMA Applied ==
  ASSUME NEW req \in FillRequest, ApplyFill(req), FillOutcome(req) = "applied"
  PROVE  /\ ~Repeated(req) /\ RejectReason(req) = "none"
         /\ position' = [position EXCEPT ![req.symbol] = PositionAfter(req)]
         /\ trades' = trades \cup {TradeOf(req)}
<1>1. ~Repeated(req)
  BY DEF FillOutcome, ReplayOutcome
<1>2. RejectReason(req) = "none"
  BY <1>1 DEF FillOutcome
<1> QED BY <1>1, <1>2 DEF ApplyFill

LEMMA FillKeepsTypes ==
  ASSUME NEW req \in FillRequest, LedgerTypeOK, ApplyFill(req)
  PROVE  LedgerTypeOK'
<1>1. CASE FillOutcome(req) # "applied"
  BY <1>1 DEF ApplyFill, ledgerVars, LedgerTypeOK
<1>2. CASE FillOutcome(req) = "applied"
  <2>1. PositionAfter(req) \in Position \cup {NoPosition}
    BY <1>2, Applied, PositionTyped
  <2>2. TradeOf(req) \in Trade
    BY <1>2, Applied, TradeTyped
  <2>3. position' \in [Symbols -> Position \cup {NoPosition}]
    BY <1>2, <2>1, Applied DEF LedgerTypeOK
  <2>4. trades' \subseteq Trade
    BY <1>2, <2>2, Applied DEF LedgerTypeOK
  <2> QED BY <2>3, <2>4 DEF LedgerTypeOK
<1> QED BY <1>1, <1>2

LEMMA FillKeepsNoDoubleFill ==
  ASSUME NEW req \in FillRequest, LedgerTypeOK, NoDoubleFill, ApplyFill(req)
  PROVE  NoDoubleFill'
<1>1. CASE FillOutcome(req) # "applied"
  BY <1>1 DEF ApplyFill, ledgerVars, NoDoubleFill
<1>2. CASE FillOutcome(req) = "applied"
  <2>1. ~Repeated(req) /\ trades' = trades \cup {TradeOf(req)}
    BY <1>2, Applied
  <2>2. \A t \in trades : /\ t.order # req.order /\ t.trade # req.trade
                          /\ req.signal # NoSignal => t.signal # req.signal
    BY <2>1 DEF Repeated, ByOrder, BySignal, ByTrade
  <2>3. /\ TradeOf(req).order = req.order /\ TradeOf(req).trade = req.trade
        /\ TradeOf(req).signal = req.signal
    BY DEF TradeOf
  <2> QED BY <2>1, <2>2, <2>3 DEF NoDoubleFill
<1> QED BY <1>1, <1>2

(* A fill books its trade in the generation of the row it changed: the one *)
(* it opened, or the one that was there.                                   *)
LEMMA FillKeepsLineage ==
  ASSUME NEW req \in FillRequest, LedgerTypeOK, Lineage, ApplyFill(req)
  PROVE  Lineage'
<1>1. CASE FillOutcome(req) # "applied"
  BY <1>1 DEF ApplyFill, ledgerVars, Lineage
<1>2. CASE FillOutcome(req) = "applied"
  <2> DEFINE p == position[req.symbol]
             t == TradeOf(req)
  <2>1. /\ position' = [position EXCEPT ![req.symbol] = PositionAfter(req)]
        /\ trades' = trades \cup {t} /\ RejectReason(req) = "none"
    BY <1>2, Applied
  <2>2. /\ p \in Position \cup {NoPosition} /\ req.symbol \in Symbols
        /\ position'[req.symbol] = PositionAfter(req)
        /\ \A s \in Symbols \ {req.symbol} : position'[s] = position[s]
    BY <2>1 DEF LedgerTypeOK, FillRequest
  <2>3. t.symbol = req.symbol
    BY DEF TradeOf
  <2>4. /\ \E u \in trades' : Opens(u, req.symbol, t.gen)
        /\ PositionAfter(req) # NoPosition =>
             \E u \in trades' : /\ Opens(u, req.symbol, PositionAfter(req).gen)
                                /\ u.executedAt = PositionAfter(req).openedAt
    <3>1. CASE p = NoPosition
      <4>1. req.side = "BUY"
        BY <2>1, <3>1 DEF RejectReason
      <4>2. Opens(t, req.symbol, req.trade) /\ t.gen = req.trade
              /\ t.executedAt = req.executedAt
        BY <3>1, <4>1 DEF Opens, TradeOf, GenerationOf
      <4>3. /\ PositionAfter(req).gen = req.trade
            /\ PositionAfter(req).openedAt = req.executedAt
        BY <3>1, <4>1 DEF PositionAfter, Opened
      <4> QED BY <2>1, <4>2, <4>3
    <3>2. CASE p # NoPosition
      <4>1. t.gen = p.gen
        BY <3>2 DEF TradeOf, GenerationOf
      <4>2. PositionAfter(req) # NoPosition =>
              PositionAfter(req).gen = p.gen /\ PositionAfter(req).openedAt = p.openedAt
        BY <2>2, <3>2 DEF PositionAfter, Position
      <4>3. PICK u \in trades : Opens(u, req.symbol, p.gen) /\ u.executedAt = p.openedAt
        BY <2>2, <3>2 DEF Lineage
      <4> QED BY <2>1, <4>1, <4>2, <4>3
    <3> QED BY <3>1, <3>2
  <2>5. \A u \in trades' : \E v \in trades' : Opens(v, u.symbol, u.gen)
    <3> TAKE u \in trades'
    <3>1. CASE u = t
      BY <2>3, <2>4, <3>1
    <3>2. CASE u \in trades
      BY <2>1, <3>2 DEF Lineage
    <3> QED BY <2>1, <3>1, <3>2
  <2>6. \A s \in Symbols : position'[s] # NoPosition =>
          \E u \in trades' : /\ Opens(u, s, position'[s].gen)
                             /\ u.executedAt = position'[s].openedAt
    <3> TAKE s \in Symbols
    <3> HAVE position'[s] # NoPosition
    <3>1. CASE s = req.symbol
      BY <2>2, <2>4, <3>1
    <3>2. CASE s # req.symbol
      <4>1. position'[s] = position[s]
        BY <2>2, <3>2
      <4> QED BY <2>1, <4>1 DEF Lineage
    <3> QED BY <3>1, <3>2
  <2> QED BY <2>5, <2>6 DEF Lineage
<1> QED BY <1>1, <1>2

LEMMA FillKeepsInv ==
  ASSUME NEW req \in FillRequest, LedgerInv, ApplyFill(req)
  PROVE  LedgerInv'
  BY FillKeepsTypes, FillKeepsNoDoubleFill, FillKeepsLineage DEF LedgerInv

----------------------------------------------------------------------------
(* oms_paper_update_stop_loss.                                             *)

LEMMA StopApplied ==
  ASSUME NEW r \in StopRequest, LedgerTypeOK, UpdateStopLoss(r)
  PROVE  /\ position[r.symbol] = NoPosition => position' = position
         /\ position[r.symbol] # NoPosition =>
              /\ position'[r.symbol] \in Position
              /\ position'[r.symbol].gen = position[r.symbol].gen
              /\ position'[r.symbol].openedAt = position[r.symbol].openedAt
              /\ position'[r.symbol].qty = position[r.symbol].qty
              /\ position'[r.symbol].stop >= position[r.symbol].stop
         /\ \A s \in Symbols \ {r.symbol} : position'[s] = position[s]
<1> DEFINE p == position[r.symbol]
<1>1. r.symbol \in Symbols /\ p \in Position \cup {NoPosition}
  BY DEF LedgerTypeOK, StopRequest
<1>2. /\ position' = [position EXCEPT ![r.symbol] = StopResult(r)]
      /\ position'[r.symbol] = StopResult(r)
      /\ \A s \in Symbols \ {r.symbol} : position'[s] = position[s]
  BY <1>1 DEF UpdateStopLoss, LedgerTypeOK
<1>3. CASE p = NoPosition
  <2>1. StopResult(r) = p
    BY <1>3 DEF StopResult, StopOutcome
  <2> QED BY <1>1, <1>2, <1>3, <2>1 DEF LedgerTypeOK
<1>4. CASE p # NoPosition
  <2>1. p \in Position /\ p.stop \in Nat /\ r.stop \in Prices /\ r.stop \in Nat \ {0}
    <3>1. p \in Position
      BY <1>1, <1>4
    <3>2. r.stop \in Prices /\ p.stop \in Prices \cup {NoStop}
      BY <3>1 DEF StopRequest, Position
    <3> QED BY <3>1, <3>2, PricesAreNumbers
  <2>2. CASE StopOutcome(r) = "applied"
    <3>1. StopResult(r) = [p EXCEPT !.stop = r.stop]
      BY <2>2 DEF StopResult
    <3>2. StopResult(r) \in Position /\ StopResult(r).stop = r.stop
      BY <2>1, <3>1 DEF Position
    <3>3. r.stop >= p.stop
      BY <1>4, <2>1, <2>2 DEF StopOutcome, NoStop
    <3> QED BY <1>2, <1>4, <2>1, <3>1, <3>2, <3>3 DEF Position
  <2>3. CASE StopOutcome(r) # "applied"
    <3>1. StopResult(r) = p
      BY <2>3 DEF StopResult
    <3> QED BY <1>2, <1>4, <2>1, <3>1
  <2> QED BY <2>2, <2>3
<1> QED BY <1>3, <1>4

LEMMA StopKeepsTypes ==
  ASSUME NEW r \in StopRequest, LedgerTypeOK, UpdateStopLoss(r)
  PROVE  LedgerTypeOK'
<1>1. position' = [position EXCEPT ![r.symbol] = StopResult(r)] /\ trades' = trades
  BY DEF UpdateStopLoss
<1>2. position'[r.symbol] \in Position \cup {NoPosition}
  BY <1>1, StopApplied DEF LedgerTypeOK, StopRequest
<1>3. position' \in [Symbols -> Position \cup {NoPosition}]
  BY <1>1, <1>2 DEF LedgerTypeOK
<1> QED BY <1>1, <1>3 DEF LedgerTypeOK

LEMMA StopKeepsInv ==
  ASSUME NEW r \in StopRequest, LedgerInv, UpdateStopLoss(r)
  PROVE  LedgerInv'
<1>1. LedgerTypeOK /\ NoDoubleFill /\ Lineage /\ trades' = trades
  BY DEF LedgerInv, UpdateStopLoss
<1>2. LedgerTypeOK'
  BY <1>1, StopKeepsTypes
<1>3. NoDoubleFill'
  BY <1>1 DEF NoDoubleFill
<1>4. Lineage'
  <2>1. \A s \in Symbols : position'[s] # NoPosition =>
          /\ position[s] # NoPosition /\ position'[s].gen = position[s].gen
          /\ position'[s].openedAt = position[s].openedAt
    BY <1>1, StopApplied DEF StopRequest
  <2> QED BY <1>1, <2>1 DEF Lineage
<1> QED BY <1>2, <1>3, <1>4 DEF LedgerInv

----------------------------------------------------------------------------
(* The books: with the finiteness of the table they make the conservation  *)
(* of shares and the bounds of the entry price inductive.                  *)
LedgerBooks ==
  LedgerInv /\ IsFiniteSet(trades) /\ Conserved /\ EntryBetweenBuys

LEMMA InitBooks == LedgerInit => LedgerBooks
  BY InitInv, FS_EmptySet DEF LedgerInit, LedgerBooks, Conserved, EntryBetweenBuys

(* What a set of trades says of a generation, as sums over a function that *)
(* does not depend on the state.                                           *)
QtyOf == [t \in Trade |-> t.qty]
Booked(T, side, s, g) == {t \in T : t.symbol = s /\ t.gen = g /\ t.side = side}
Net(T, s, g) ==
  SumOver(QtyOf, Booked(T, "BUY", s, g)) - SumOver(QtyOf, Booked(T, "SELL", s, g))

LEMMA SharesAreSums ==
  ASSUME LedgerTypeOK, NEW side, NEW s, NEW g
  PROVE  Shares(side, s, g) = SumOver(QtyOf, Booked(trades, side, s, g))
<1>1. Booked(trades, side, s, g) \in SUBSET Trade
  BY DEF LedgerTypeOK, Booked
<1> QED BY <1>1, SumOfQuantities DEF Shares, Booked, QtyOf

Balanced(T, pos) ==
  \A t \in T : Net(T, t.symbol, t.gen) =
    IF pos[t.symbol] # NoPosition /\ pos[t.symbol].gen = t.gen
    THEN pos[t.symbol].qty ELSE 0

LEMMA ConservedIsBalanced ==
  /\ LedgerTypeOK => (Conserved <=> Balanced(trades, position))
  /\ LedgerTypeOK' => (Conserved' <=> Balanced(trades', position'))
<1>1. ASSUME LedgerTypeOK PROVE Conserved <=> Balanced(trades, position)
  BY <1>1, SharesAreSums DEF Conserved, Balanced, Net
<1>2. ASSUME LedgerTypeOK' PROVE Conserved' <=> Balanced(trades', position')
  <2>1. ASSUME NEW side, NEW s, NEW g
        PROVE  Shares(side, s, g)' = SumOver(QtyOf, Booked(trades', side, s, g))
    <3>1. Booked(trades', side, s, g) \in SUBSET Trade
      BY <1>2 DEF LedgerTypeOK, Booked
    <3>2. MapThenSumSet(LAMBDA t : t.qty, Booked(trades', side, s, g))
            = SumOver(QtyOf, Booked(trades', side, s, g))
      BY <3>1, SumOfQuantities DEF QtyOf
    <3>3. Shares(side, s, g)'
            = MapThenSumSet(LAMBDA t : t.qty, Booked(trades', side, s, g))
      BY DEF Shares, Booked, MapThenSumSet, MapThenFoldSet
    <3> QED BY <3>2, <3>3
  <2> QED BY <2>1 DEF Conserved, Balanced, Net
<1> QED BY <1>1, <1>2

LEMMA TradeQuantities ==
  ASSUME NEW T \in SUBSET Trade
  PROVE  \A t \in T : QtyOf[t] \in Nat /\ QtyOf[t] = t.qty
<1>1. Quantities \subseteq Nat
  BY LedgerAssumption
<1> QED BY <1>1 DEF QtyOf, Trade

LEMMA NetIsNumber ==
  ASSUME NEW T \in SUBSET Trade, IsFiniteSet(T), NEW s, NEW g
  PROVE  Net(T, s, g) \in Int
<1>1. ASSUME NEW side PROVE SumOver(QtyOf, Booked(T, side, s, g)) \in Int
  <2>1. Booked(T, side, s, g) \in SUBSET T
    BY DEF Booked
  <2>2. IsFiniteSet(Booked(T, side, s, g))
    BY <2>1, FS_Subset
  <2>3. \A t \in Booked(T, side, s, g) : QtyOf[t] \in Int
    BY <2>1, TradeQuantities
  <2> QED BY <2>2, <2>3, SumInt
<1> QED BY <1>1 DEF Net

(* Booking a trade moves the net shares of its own generation only.        *)
LEMMA NetAfterTrade ==
  ASSUME NEW T \in SUBSET Trade, IsFiniteSet(T), NEW u \in Trade, u \notin T,
         NEW s, NEW g
  PROVE  Net(T \cup {u}, s, g) = Net(T, s, g) +
           (IF u.symbol = s /\ u.gen = g
            THEN IF u.side = "BUY" THEN u.qty ELSE -u.qty ELSE 0)
<1> DEFINE V == T \cup {u}
           Sum(X, side) == SumOver(QtyOf, Booked(X, side, s, g))
<1>1. V \in SUBSET Trade /\ u.qty \in Nat /\ u.side \in {"BUY", "SELL"}
  BY LedgerAssumption DEF Trade
<1>2. ASSUME NEW side
      PROVE  /\ Sum(T, side) \in Int
             /\ Sum(V, side) = IF u.symbol = s /\ u.gen = g /\ u.side = side
                               THEN Sum(T, side) + u.qty ELSE Sum(T, side)
  <2>1. IsFiniteSet(Booked(T, side, s, g)) /\ u \notin Booked(T, side, s, g)
    BY FS_Subset DEF Booked
  <2>2. \A t \in Booked(T, side, s, g) \cup {u} : QtyOf[t] \in Int
    BY <1>1, TradeQuantities DEF Booked
  <2>3. Sum(T, side) \in Int
    BY <2>1, <2>2, SumInt
  <2>4. CASE u.symbol = s /\ u.gen = g /\ u.side = side
    <3>1. Booked(V, side, s, g) = Booked(T, side, s, g) \cup {u}
      BY <2>4 DEF Booked
    <3>2. Sum(V, side) = Sum(T, side) + QtyOf[u]
      BY <2>1, <2>2, <3>1, SumAdd
    <3>3. QtyOf[u] = u.qty
      BY DEF QtyOf
    <3> QED BY <2>3, <2>4, <3>2, <3>3
  <2>5. CASE ~(u.symbol = s /\ u.gen = g /\ u.side = side)
    <3>1. Booked(V, side, s, g) = Booked(T, side, s, g)
      BY <2>5 DEF Booked
    <3> QED BY <2>3, <2>5, <3>1
  <2> QED BY <2>4, <2>5
<1>3. Net(V, s, g) = Sum(V, "BUY") - Sum(V, "SELL")
        /\ Net(T, s, g) = Sum(T, "BUY") - Sum(T, "SELL")
  BY DEF Net
<1> HIDE DEF Sum, V
<1>4. Net(V, s, g) = Net(T, s, g) +
           (IF u.symbol = s /\ u.gen = g
            THEN IF u.side = "BUY" THEN u.qty ELSE -u.qty ELSE 0)
  BY <1>1, <1>2, <1>3
<1> QED BY <1>4 DEF V

LEMMA FillKeepsConserved ==
  ASSUME NEW req \in FillRequest, LedgerInv, IsFiniteSet(trades), Conserved,
         ApplyFill(req)
  PROVE  IsFiniteSet(trades)' /\ Conserved'
<1> USE DEF LedgerInv
<1>1. CASE FillOutcome(req) # "applied"
  <2>1. trades' = trades /\ position' = position /\ LedgerTypeOK'
    BY <1>1, FillKeepsTypes DEF ApplyFill, ledgerVars
  <2> QED BY <2>1, ConservedIsBalanced
<1>2. CASE FillOutcome(req) = "applied"
  <2> DEFINE p == position[req.symbol]
             t == TradeOf(req)
             after == PositionAfter(req)
             held(q, g) == IF q # NoPosition /\ q.gen = g THEN q.qty ELSE 0
  <2>1. /\ position' = [position EXCEPT ![req.symbol] = after]
        /\ trades' = trades \cup {t} /\ RejectReason(req) = "none" /\ ~Repeated(req)
    BY <1>2, Applied
  <2>2. /\ p \in Position \cup {NoPosition} /\ req.symbol \in Symbols
        /\ position'[req.symbol] = after
        /\ \A s \in Symbols \ {req.symbol} : position'[s] = position[s]
    BY <2>1 DEF LedgerTypeOK, FillRequest
  <2>3. /\ t \in Trade /\ t \notin trades /\ t.symbol = req.symbol
        /\ t.qty = req.qty /\ t.side = req.side /\ t.gen = GenerationOf(req)
        /\ trades \in SUBSET Trade /\ req.qty \in Nat \ {0}
    <3>1. t \in Trade
      BY <2>1, TradeTyped
    <3>2. t \notin trades
      BY <2>1 DEF Repeated, ByOrder, TradeOf
    <3>3. req.qty \in Nat \ {0}
      BY LedgerAssumption DEF FillRequest
    <3> QED BY <3>1, <3>2, <3>3 DEF TradeOf, LedgerTypeOK
  <2>4. LedgerTypeOK'
    BY FillKeepsTypes
  <2>5. IsFiniteSet(trades')
    BY <2>1, FS_AddElement
  <2>6. \A u \in trades : Net(trades, u.symbol, u.gen) = held(position[u.symbol], u.gen)
    BY ConservedIsBalanced DEF Balanced
  <2>7. \A s, g : /\ Net(trades, s, g) \in Int
                  /\ Net(trades', s, g) = Net(trades, s, g) +
                       (IF req.symbol = s /\ t.gen = g
                        THEN IF req.side = "BUY" THEN req.qty ELSE -req.qty ELSE 0)
    BY <2>1, <2>3, NetAfterTrade, NetIsNumber
  <2>8. Net(trades', req.symbol, t.gen) = held(after, t.gen)
    <3>1. CASE p = NoPosition
      <4>1. req.side = "BUY"
        BY <2>1, <3>1 DEF RejectReason
      <4>2. t.gen = req.trade /\ after = Opened(req)
        BY <2>3, <3>1, <4>1 DEF GenerationOf, PositionAfter
      <4>3. \A u \in trades : u.gen # req.trade
        BY <2>1 DEF Lineage, Opens, Repeated, ByTrade
      <4>4. Booked(trades, "BUY", req.symbol, t.gen) = {}
              /\ Booked(trades, "SELL", req.symbol, t.gen) = {}
        BY <4>2, <4>3 DEF Booked
      <4>5. Net(trades, req.symbol, t.gen) = 0
        BY <4>4, SumEmpty DEF Net
      <4>6. Opened(req) # NoPosition /\ Opened(req).qty = req.qty /\ Opened(req).gen = t.gen
        <5>1. Opened(req) \in Position
          BY LedgerAssumption DEF Opened, Position, FillRequest
        <5> QED BY <4>2, <5>1, LedgerAssumption DEF Opened
      <4> QED BY <2>3, <2>7, <4>1, <4>2, <4>5, <4>6
    <3>2. CASE p # NoPosition
      <4>1. p \in Position /\ p.qty \in Nat \ {0} /\ t.gen = p.gen
        BY <2>2, <2>3, <3>2 DEF GenerationOf, Position
      <4>2. PICK u \in trades : u.symbol = req.symbol /\ u.gen = p.gen
        BY <2>2, <3>2 DEF Lineage, Opens
      <4>3. Net(trades, req.symbol, t.gen) = p.qty
        BY <2>6, <3>2, <4>1, <4>2
      <4>4. CASE req.side = "BUY"
        <5>1. after = [p EXCEPT !.qty = p.qty + req.qty, !.entry = AverageEntry(p, req)]
          BY <3>2, <4>4 DEF PositionAfter
        <5>2. AverageEntry(p, req) \in Nat \ {0}
          BY <4>1, AveragePositive
        <5>3. after \in Position /\ after.qty = p.qty + req.qty /\ after.gen = p.gen
          <6>1. p.qty + req.qty \in Nat \ {0}
            BY <2>3, <4>1
          <6> HIDE DEF after, p
          <6> QED BY <4>1, <5>1, <5>2, <6>1 DEF Position
        <5>4. after # NoPosition
          BY <5>3, LedgerAssumption
        <5> QED BY <2>3, <2>7, <4>1, <4>3, <4>4, <5>3, <5>4
      <4>5. CASE req.side # "BUY"
        <5>1. req.qty <= p.qty
          BY <2>1, <2>3, <3>2, <4>1, <4>5 DEF RejectReason
        <5>2. CASE req.qty = p.qty
          <6>1. after = NoPosition
            BY <4>5, <5>2 DEF PositionAfter
          <6> QED BY <2>3, <2>7, <4>1, <4>3, <4>5, <5>2, <6>1
        <5>3. CASE req.qty # p.qty
          <6>1. after = [p EXCEPT !.qty = p.qty - req.qty]
            BY <4>5, <5>3 DEF PositionAfter
          <6>2. after \in Position /\ after.qty = p.qty - req.qty /\ after.gen = p.gen
            BY <2>3, <4>1, <5>1, <5>3, <6>1 DEF Position
          <6>3. after # NoPosition
            BY <6>2, LedgerAssumption
          <6> QED BY <2>3, <2>7, <4>1, <4>3, <4>5, <6>2, <6>3
        <5> QED BY <5>2, <5>3
      <4> QED BY <4>4, <4>5
    <3> QED BY <3>1, <3>2
  <2>9. ASSUME NEW u \in trades, ~(u.symbol = req.symbol /\ u.gen = t.gen)
        PROVE  Net(trades', u.symbol, u.gen) = held(position'[u.symbol], u.gen)
    <3>1. Net(trades', u.symbol, u.gen) = Net(trades, u.symbol, u.gen)
      BY <2>7, <2>9
    <3>2. u.symbol \in Symbols
      BY <2>3 DEF Trade
    <3>3. CASE u.symbol # req.symbol
      BY <2>2, <2>6, <3>1, <3>2, <3>3
    <3>4. CASE u.symbol = req.symbol
      <4>1. after # NoPosition => after.gen = t.gen
        <5>1. CASE p = NoPosition
          BY <2>1, <2>3, <5>1 DEF RejectReason, GenerationOf, PositionAfter, Opened
        <5>2. CASE p # NoPosition
          <6>1. p \in Position /\ t.gen = p.gen
            BY <2>2, <2>3, <5>2 DEF GenerationOf
          <6> QED BY <5>2, <6>1 DEF PositionAfter, Position
        <5> QED BY <5>1, <5>2
      <4>2. p # NoPosition => p.gen = t.gen
        BY <2>3 DEF GenerationOf
      <4>3. held(p, u.gen) = 0 /\ held(after, u.gen) = 0
        BY <2>9, <3>4, <4>1, <4>2
      <4> QED BY <2>2, <2>6, <3>1, <3>4, <4>3
    <3> QED BY <3>3, <3>4
  <2>10. \A u \in trades' : Net(trades', u.symbol, u.gen) = held(position'[u.symbol], u.gen)
    <3> TAKE u \in trades'
    <3>1. CASE u.symbol = req.symbol /\ u.gen = t.gen
      BY <2>2, <2>8, <3>1
    <3>2. CASE ~(u.symbol = req.symbol /\ u.gen = t.gen)
      <4>1. u \in trades
        BY <2>1, <2>3, <3>2
      <4> QED BY <2>9, <3>2, <4>1
    <3> QED BY <3>1, <3>2
  <2>11. Conserved'
    BY <2>4, <2>10, ConservedIsBalanced DEF Balanced
  <2> QED BY <2>5, <2>11
<1> QED BY <1>1, <1>2

(* A stop update touches neither quantities nor generations nor entries.   *)
LEMMA StopKeepsRows ==
  ASSUME NEW r \in StopRequest, LedgerTypeOK, UpdateStopLoss(r), NEW s \in Symbols
  PROVE  /\ position'[s] = NoPosition <=> position[s] = NoPosition
         /\ position[s] # NoPosition =>
              /\ position'[s].gen = position[s].gen
              /\ position'[s].qty = position[s].qty
              /\ position'[s].entry = position[s].entry
<1>1. CASE s # r.symbol
  BY <1>1, StopApplied
<1>2. CASE s = r.symbol
  <2>1. position[s] \in Position \cup {NoPosition} /\ position'[s] = StopResult(r)
    BY <1>2 DEF UpdateStopLoss, LedgerTypeOK
  <2>2. CASE position[s] = NoPosition
    BY <1>2, <2>2, StopApplied
  <2>3. CASE position[s] # NoPosition
    <3>1. position'[s] \in Position
      BY <1>2, <2>3, StopApplied
    <3>2. position'[s].entry = position[s].entry
      BY <1>2, <2>1, <2>3 DEF StopResult, Position
    <3> QED BY <1>2, <2>3, <3>1, <3>2, StopApplied, LedgerAssumption
  <2> QED BY <2>2, <2>3
<1> QED BY <1>1, <1>2

LEMMA StopKeepsConserved ==
  ASSUME NEW r \in StopRequest, LedgerInv, IsFiniteSet(trades), Conserved,
         UpdateStopLoss(r)
  PROVE  IsFiniteSet(trades)' /\ Conserved'
<1>1. LedgerTypeOK /\ LedgerTypeOK' /\ trades' = trades
  BY StopKeepsInv DEF LedgerInv, UpdateStopLoss
<1>2. \A t \in trades : t.symbol \in Symbols
  BY <1>1 DEF LedgerTypeOK, Trade
<1>3. Balanced(trades', position')
  BY <1>1, <1>2, StopKeepsRows, ConservedIsBalanced DEF Balanced
<1> QED BY <1>1, <1>3, ConservedIsBalanced

----------------------------------------------------------------------------
(* The rounded average of two prices lies between them.                    *)
LEMMA ProductMonotone ==
  ASSUME NEW a \in Nat, NEW b \in Nat, NEW c \in Nat, a <= b
  PROVE  a * c \in Nat /\ b * c \in Nat /\ a * c <= b * c
<1>1. PICK d \in Nat : b = a + d
  <2>1. b - a \in Nat /\ b = a + (b - a)
    OBVIOUS
  <2> QED BY <2>1
<1>2. d * c \in Nat /\ a * c \in Nat
  OBVIOUS
<1>3. b * c = a * c + d * c
  BY <1>1
<1> QED BY <1>2, <1>3

LEMMA RoundedBounds ==
  ASSUME NEW m \in Nat, NEW k \in Nat, NEW n \in Nat \ {0}, NEW cost \in Nat,
         m * n <= cost, cost <= k * n
  PROVE  m <= (2 * cost + n) \div (2 * n) /\ (2 * cost + n) \div (2 * n) <= k
<1> DEFINE d == 2 * n
           q == (2 * cost + n) \div d
<1>1. d \in Nat \ {0} /\ m * n \in Nat /\ k * n \in Nat
  OBVIOUS
<1>2. q \in Nat /\ d * q <= 2 * cost + n /\ 2 * cost + n < d * q + d
  <2> HIDE DEF d
  <2> QED BY <1>1
<1> HIDE DEF q
<1>3. m <= q
  <2> SUFFICES ASSUME q + 1 <= m PROVE FALSE
    BY <1>2
  <2>1. (q + 1) * d <= m * d
    BY <1>1, <1>2, ProductMonotone
  <2>2. (q + 1) * d = d * q + d /\ m * d = 2 * (m * n)
    BY <1>1, <1>2
  <2>3. d * q \in Nat
    BY <1>1, <1>2
  <2> HIDE DEF d
  <2> QED BY <1>1, <1>2, <2>1, <2>2, <2>3
<1>4. q <= k
  <2> SUFFICES ASSUME k + 1 <= q PROVE FALSE
    BY <1>2
  <2>1. (k + 1) * d <= q * d
    BY <1>1, <1>2, ProductMonotone
  <2>2. (k + 1) * d = 2 * (k * n) + 2 * n /\ q * d = d * q
    BY <1>1, <1>2
  <2>3. d * q \in Nat
    BY <1>1, <1>2
  <2>4. 2 * (k * n) + 2 * n <= 2 * cost + n
    BY <1>1, <1>2, <2>1, <2>2, <2>3
  <2> QED BY <1>1, <2>4
<1> QED BY <1>3, <1>4 DEF q

LEMMA AverageBetween ==
  ASSUME NEW p \in Position, NEW req \in FillRequest,
         NEW m \in Nat, NEW k \in Nat,
         m <= p.entry, m <= req.price, p.entry <= k, req.price <= k
  PROVE  m <= AverageEntry(p, req) /\ AverageEntry(p, req) <= k
<1> DEFINE a == p.entry
           b == req.price
           x == p.qty
           y == req.qty
<1>1. a \in Nat /\ b \in Nat /\ x \in Nat \ {0} /\ y \in Nat \ {0}
  BY LedgerAssumption DEF Position, FillRequest
<1>2. m <= a /\ m <= b /\ a <= k /\ b <= k
  OBVIOUS
<1>3. AverageEntry(p, req) = (2 * (a * x + b * y) + (x + y)) \div (2 * (x + y))
  BY DEF AverageEntry
<1> HIDE DEF a, b, x, y
<1>4. m * x <= a * x /\ m * y <= b * y /\ a * x <= k * x /\ b * y <= k * y
  BY <1>1, <1>2, ProductMonotone
<1>5. m * (x + y) = m * x + m * y /\ k * (x + y) = k * x + k * y
  BY <1>1
<1>6. /\ m * x \in Nat /\ m * y \in Nat /\ a * x \in Nat /\ b * y \in Nat
      /\ k * x \in Nat /\ k * y \in Nat /\ x + y \in Nat \ {0}
  BY <1>1
<1>7. /\ a * x + b * y \in Nat
      /\ m * (x + y) <= a * x + b * y /\ a * x + b * y <= k * (x + y)
  BY <1>4, <1>5, <1>6
<1> DEFINE n == x + y
           cost == a * x + b * y
<1>8. AverageEntry(p, req) = (2 * cost + n) \div (2 * n)
  BY <1>3
<1>9. n \in Nat \ {0} /\ cost \in Nat /\ m * n <= cost /\ cost <= k * n
  BY <1>6, <1>7
<1> HIDE DEF n, cost
<1> QED BY <1>8, <1>9, RoundedBounds

(* The prices paid for a generation only grow in number, and the new entry *)
(* is averaged from the old one and a price that is now among them.        *)
PricesPaid(T, s, g) ==
  {t.price : t \in {u \in T : u.symbol = s /\ u.side = "BUY" /\ u.gen = g}}

LEMMA FillKeepsEntries ==
  ASSUME NEW req \in FillRequest, LedgerInv, EntryBetweenBuys, ApplyFill(req)
  PROVE  EntryBetweenBuys'
<1> USE DEF LedgerInv
<1>1. CASE FillOutcome(req) # "applied"
  BY <1>1 DEF ApplyFill, ledgerVars, EntryBetweenBuys
<1>2. CASE FillOutcome(req) = "applied"
  <2> DEFINE p == position[req.symbol]
             t == TradeOf(req)
             after == PositionAfter(req)
  <2>1. /\ position' = [position EXCEPT ![req.symbol] = after]
        /\ trades' = trades \cup {t} /\ RejectReason(req) = "none"
    BY <1>2, Applied
  <2>2. /\ p \in Position \cup {NoPosition} /\ req.symbol \in Symbols
        /\ position'[req.symbol] = after
        /\ \A s \in Symbols \ {req.symbol} : position'[s] = position[s]
    BY <2>1 DEF LedgerTypeOK, FillRequest
  <2>3. /\ t.symbol = req.symbol /\ t.side = req.side /\ t.price = req.price
        /\ t.gen = GenerationOf(req) /\ req.price \in Nat \ {0}
    BY LedgerAssumption DEF TradeOf, FillRequest
  <2>4. \A s, g : PricesPaid(trades, s, g) \subseteq PricesPaid(trades', s, g)
    BY <2>1 DEF PricesPaid
  <2> DEFINE Between(q, s, T) ==
               /\ \E x \in PricesPaid(T, s, q.gen) : x <= q.entry
               /\ \E x \in PricesPaid(T, s, q.gen) : q.entry <= x
  <2>5. \A s \in Symbols : position[s] # NoPosition => Between(position[s], s, trades)
    BY DEF EntryBetweenBuys, PricesPaid
  <2>6. after # NoPosition => Between(after, req.symbol, trades')
    <3> HAVE after # NoPosition
    <3>1. CASE p = NoPosition
      <4>1. req.side = "BUY" /\ after = Opened(req) /\ t.gen = req.trade
        BY <2>1, <2>3, <3>1 DEF RejectReason, PositionAfter, GenerationOf
      <4>2. after.gen = t.gen /\ after.entry = req.price
        BY <4>1 DEF Opened
      <4>3. req.price \in PricesPaid(trades', req.symbol, after.gen)
        BY <2>1, <2>3, <4>1, <4>2 DEF PricesPaid
      <4> QED BY <2>3, <4>2, <4>3
    <3>2. CASE p # NoPosition /\ req.side = "BUY"
      <4>1. p \in Position /\ p.entry \in Nat /\ t.gen = p.gen
        BY <2>2, <2>3, <3>2 DEF Position, GenerationOf
      <4>2. after.gen = p.gen /\ after.entry = AverageEntry(p, req)
        BY <3>2, <4>1 DEF PositionAfter, Position
      <4>3. AverageEntry(p, req) \in Nat
        BY <4>1, AveragePositive
      <4>4. PICK x \in PricesPaid(trades, req.symbol, p.gen),
                 y \in PricesPaid(trades, req.symbol, p.gen) :
                   x <= p.entry /\ p.entry <= y
        BY <2>2, <2>5, <3>2
      <4>5. x \in Nat /\ y \in Nat
        BY LedgerAssumption DEF PricesPaid, LedgerTypeOK, Trade
      <4>6. /\ req.price \in PricesPaid(trades', req.symbol, after.gen)
            /\ x \in PricesPaid(trades', req.symbol, after.gen)
            /\ y \in PricesPaid(trades', req.symbol, after.gen)
        BY <2>1, <2>3, <2>4, <3>2, <4>1, <4>2 DEF PricesPaid
      <4>7. /\ \E m \in {x, req.price} : m <= p.entry /\ m <= req.price
            /\ \E k \in {y, req.price} : p.entry <= k /\ req.price <= k
        BY <2>3, <4>1, <4>4, <4>5
      <4>8. PICK m \in {x, req.price} : m <= p.entry /\ m <= req.price
        BY <4>7
      <4>9. PICK k \in {y, req.price} : p.entry <= k /\ req.price <= k
        BY <4>7
      <4>10. m \in Nat /\ k \in Nat
        BY <2>3, <4>5
      <4>11. m <= AverageEntry(p, req) /\ AverageEntry(p, req) <= k
        <5> HIDE DEF p
        <5> QED BY <4>1, <4>8, <4>9, <4>10, AverageBetween
      <4> QED BY <4>2, <4>6, <4>11
    <3>3. CASE p # NoPosition /\ req.side # "BUY"
      <4>1. p \in Position
        BY <2>2, <3>3
      <4>2. after.gen = p.gen /\ after.entry = p.entry
        BY <3>3, <4>1 DEF PositionAfter, Position
      <4>3. Between(p, req.symbol, trades)
        BY <2>2, <2>5, <3>3
      <4> QED BY <2>4, <4>2, <4>3
    <3> QED BY <3>1, <3>2, <3>3
  <2>7. \A s \in Symbols : position'[s] # NoPosition =>
          Between(position'[s], s, trades')
    <3> TAKE s \in Symbols
    <3> HAVE position'[s] # NoPosition
    <3>1. CASE s = req.symbol
      BY <2>2, <2>6, <3>1
    <3>2. CASE s # req.symbol
      <4>1. position'[s] = position[s] /\ Between(position[s], s, trades)
        BY <2>2, <2>5, <3>2
      <4> QED BY <2>4, <4>1
    <3> QED BY <3>1, <3>2
  <2> QED BY <2>7 DEF EntryBetweenBuys, PricesPaid
<1> QED BY <1>1, <1>2

LEMMA FillKeepsBooks ==
  ASSUME NEW req \in FillRequest, LedgerBooks, ApplyFill(req)
  PROVE  LedgerBooks'
  BY FillKeepsInv, FillKeepsConserved, FillKeepsEntries DEF LedgerBooks

LEMMA StopKeepsBooks ==
  ASSUME NEW r \in StopRequest, LedgerBooks, UpdateStopLoss(r)
  PROVE  LedgerBooks'
<1>1. LedgerTypeOK /\ trades' = trades
  BY DEF LedgerBooks, LedgerInv, UpdateStopLoss
<1>2. EntryBetweenBuys'
  BY <1>1, StopKeepsRows DEF LedgerBooks, EntryBetweenBuys
<1> QED BY <1>2, StopKeepsInv, StopKeepsConserved DEF LedgerBooks

LEMMA StutterKeepsBooks ==
  ASSUME LedgerBooks, UNCHANGED ledgerVars
  PROVE  LedgerBooks'
<1>1. trades' = trades /\ position' = position /\ LedgerInv
  BY DEF ledgerVars, LedgerBooks
<1>2. LedgerInv'
  BY <1>1 DEF LedgerInv, LedgerTypeOK, NoDoubleFill, Lineage
<1>3. Conserved'
  BY <1>1, <1>2, ConservedIsBalanced DEF LedgerInv, LedgerBooks
<1>4. EntryBetweenBuys' /\ IsFiniteSet(trades')
  BY <1>1 DEF LedgerBooks, EntryBetweenBuys
<1> QED BY <1>2, <1>3, <1>4 DEF LedgerBooks

----------------------------------------------------------------------------
LEMMA NextKeepsInv == LedgerInv /\ [LedgerNext]_ledgerVars => LedgerInv'
<1> SUFFICES ASSUME LedgerInv, [LedgerNext]_ledgerVars
             PROVE  LedgerInv'
  OBVIOUS
<1>1. ASSUME NEW req \in Requests, ApplyFill(req)
      PROVE  LedgerInv'
  BY <1>1, RequestsAssumption, FillKeepsInv
<1>2. ASSUME NEW r \in StopRequests, UpdateStopLoss(r)
      PROVE  LedgerInv'
  BY <1>2, RequestsAssumption, StopKeepsInv
<1>3. CASE UNCHANGED ledgerVars
  BY <1>3 DEF ledgerVars, LedgerInv, LedgerTypeOK, NoDoubleFill, Lineage
<1> QED BY <1>1, <1>2, <1>3 DEF LedgerNext

(* The tables, their identities and their lineage, for every set of        *)
(* requests: oms_paper_apply_fill and oms_paper_update_stop_loss keep the  *)
(* inductive invariant.                                                    *)
THEOREM LedgerSafe == LedgerSpec => []LedgerInv
<1>1. LedgerInit => LedgerInv
  BY InitInv
<1>2. LedgerInv /\ [LedgerNext]_ledgerVars => LedgerInv'
  BY NextKeepsInv
<1> QED BY <1>1, <1>2, PTL DEF LedgerSpec

(* Every row has the columns the tables declare, with positive quantities  *)
(* and positive averaged entry prices.                                     *)
THEOREM LedgerTypes == LedgerSpec => []LedgerTypeOK
<1>1. LedgerInv => LedgerTypeOK
  BY DEF LedgerInv
<1> QED BY <1>1, LedgerSafe, PTL

(* No order, unified signal or fill attempt is ever committed twice.       *)
THEOREM LedgerNoDoubleFill == LedgerSpec => []NoDoubleFill
<1>1. LedgerInv => NoDoubleFill
  BY DEF LedgerInv
<1> QED BY <1>1, LedgerSafe, PTL

(* Every trade and every open row descends from the BUY that opened its    *)
(* generation, at the time the row carries.                                *)
THEOREM LedgerLineage == LedgerSpec => []Lineage
<1>1. LedgerInv => Lineage
  BY DEF LedgerInv
<1> QED BY <1>1, LedgerSafe, PTL

(* With the sums of the trades, and prices between those that were paid,   *)
(* for every set of requests.                                              *)
THEOREM LedgerBooksSafe == LedgerSpec => []LedgerBooks
<1>1. LedgerInit => LedgerBooks
  BY InitBooks
<1>2. LedgerBooks /\ [LedgerNext]_ledgerVars => LedgerBooks'
  <2> SUFFICES ASSUME LedgerBooks, [LedgerNext]_ledgerVars
               PROVE  LedgerBooks'
    OBVIOUS
  <2>1. ASSUME NEW req \in Requests, ApplyFill(req)
        PROVE  LedgerBooks'
    BY <2>1, RequestsAssumption, FillKeepsBooks
  <2>2. ASSUME NEW r \in StopRequests, UpdateStopLoss(r)
        PROVE  LedgerBooks'
    BY <2>2, RequestsAssumption, StopKeepsBooks
  <2>3. CASE UNCHANGED ledgerVars
    BY <2>3, StutterKeepsBooks
  <2> QED BY <2>1, <2>2, <2>3 DEF LedgerNext
<1> QED BY <1>1, <1>2, PTL DEF LedgerSpec

(* The rows and the trades never disagree: for every symbol the shares of  *)
(* the open row are those bought less those sold under its generation, and *)
(* every other generation was sold to the last share.                      *)
THEOREM LedgerConserved == LedgerSpec => []Conserved
<1>1. LedgerBooks => Conserved
  BY DEF LedgerBooks
<1> QED BY <1>1, LedgerBooksSafe, PTL

(* However often it was rounded, the average entry price of a row lies     *)
(* between the lowest and the highest price paid under its generation.     *)
THEOREM LedgerEntries == LedgerSpec => []EntryBetweenBuys
<1>1. LedgerBooks => EntryBetweenBuys
  BY DEF LedgerBooks
<1> QED BY <1>1, LedgerBooksSafe, PTL

----------------------------------------------------------------------------
(* A fill leaves the stop of a row it keeps alone.                         *)
LEMMA FillKeepsStops ==
  ASSUME NEW req \in FillRequest, LedgerTypeOK, ApplyFill(req),
         NEW s \in Symbols, position[s] # NoPosition, position'[s] # NoPosition
  PROVE  position'[s].stop = position[s].stop
<1>1. CASE FillOutcome(req) # "applied"
  BY <1>1 DEF ApplyFill, ledgerVars
<1>2. CASE FillOutcome(req) = "applied"
  <2>1. position' = [position EXCEPT ![req.symbol] = PositionAfter(req)]
    BY <1>2, Applied
  <2>2. CASE s # req.symbol
    BY <2>1, <2>2 DEF LedgerTypeOK
  <2>3. CASE s = req.symbol
    <3>1. position'[s] = PositionAfter(req) /\ position[s] \in Position
      BY <2>1, <2>3 DEF LedgerTypeOK
    <3> QED BY <2>3, <3>1 DEF PositionAfter, Position
  <2> QED BY <2>2, <2>3
<1> QED BY <1>1, <1>2

(* Whatever stop updates arrive, in whatever order, the stop of an open    *)
(* generation never falls.                                                 *)
THEOREM LedgerStopsOnlyRise == LedgerSpec => StopsOnlyRise
<1> DEFINE Rises(s) ==
      /\ position[s] # NoPosition
      /\ position'[s] # NoPosition
      /\ position'[s].gen = position[s].gen
      => position'[s].stop >= position[s].stop
<1>1. LedgerInv /\ [LedgerNext]_ledgerVars => [\A s \in Symbols : Rises(s)]_ledgerVars
  <2> SUFFICES ASSUME LedgerInv, LedgerNext, NEW s \in Symbols,
                      position[s] # NoPosition, position'[s] # NoPosition
               PROVE  position'[s].stop >= position[s].stop
    BY DEF ledgerVars
  <2>1. LedgerTypeOK /\ position[s].stop \in Nat
    <3>1. LedgerTypeOK /\ position[s] \in Position
      BY DEF LedgerInv, LedgerTypeOK
    <3>2. position[s].stop \in Prices \cup {NoStop}
      BY <3>1 DEF Position
    <3> QED BY <3>1, <3>2, PricesAreNumbers
  <2>2. ASSUME NEW req \in Requests, ApplyFill(req)
        PROVE  position'[s].stop >= position[s].stop
    <3>1. position'[s].stop = position[s].stop
      BY <2>1, <2>2, RequestsAssumption, FillKeepsStops
    <3> QED BY <2>1, <3>1
  <2>3. ASSUME NEW r \in StopRequests, UpdateStopLoss(r)
        PROVE  position'[s].stop >= position[s].stop
    <3>1. r \in StopRequest
      BY RequestsAssumption
    <3>2. CASE s = r.symbol
      BY <2>1, <2>3, <3>1, <3>2, StopApplied
    <3>3. CASE s # r.symbol
      <4>1. position'[s] = position[s]
        BY <2>1, <2>3, <3>1, <3>3, StopApplied
      <4> QED BY <2>1, <4>1
    <3> QED BY <3>2, <3>3
  <2> QED BY <2>2, <2>3 DEF LedgerNext
<1> QED BY <1>1, LedgerSafe, PTL DEF LedgerSpec, StopsOnlyRise

----------------------------------------------------------------------------
(* An applied fill is a purchase or a sale of the account.                 *)
LEMMA FillIsTransaction ==
  ASSUME NEW req \in FillRequest, LedgerTypeOK, ApplyFill(req),
         FillOutcome(req) = "applied"
  PROVE  /\ Account!Fills(req.order)
         /\ \/ Account!Buys(req.symbol, req.qty)
            \/ Account!Sells(req.symbol, req.qty)
<1> DEFINE h == [s \in Symbols |-> Held(s)]
           f == {t.order : t \in trades}
<1>1. /\ ~Repeated(req) /\ RejectReason(req) = "none"
      /\ position' = [position EXCEPT ![req.symbol] = PositionAfter(req)]
      /\ trades' = trades \cup {TradeOf(req)}
  BY Applied
<1>2. req.order \notin f
  BY <1>1 DEF Repeated, ByOrder
<1>3. f' = f \cup {req.order}
  <2>1. TradeOf(req).order = req.order
    BY DEF TradeOf
  <2>2. \A t \in trades' : t \in trades \/ t = TradeOf(req)
    BY <1>1
  <2>3. trades \subseteq trades' /\ TradeOf(req) \in trades'
    BY <1>1
  <2> QED BY <2>1, <2>2, <2>3
<1>4. /\ req.symbol \in Symbols /\ req.qty \in Nat \ {0}
      /\ req.side \in {"BUY", "SELL"}
  BY LedgerAssumption DEF FillRequest
<1>5. /\ position'[req.symbol] = PositionAfter(req)
      /\ \A s \in Symbols \ {req.symbol} : Held(s)' = Held(s)
  BY <1>1, <1>4 DEF LedgerTypeOK, Held
<1>6. h' = [h EXCEPT ![req.symbol] = Held(req.symbol)']
  BY <1>4, <1>5
<1>7. position[req.symbol] \in Position \cup {NoPosition}
  BY <1>4 DEF LedgerTypeOK
<1>8. NoPosition \notin Position
  BY LedgerAssumption
<1>9. PositionAfter(req) \in Position \cup {NoPosition}
  BY <1>1, PositionTyped
<1>10. CASE req.side = "BUY"
  <2>1. Held(req.symbol)' = h[req.symbol] + req.qty
    <3>1. CASE position[req.symbol] = NoPosition
      <4>1. PositionAfter(req) = Opened(req)
        BY <1>10, <3>1 DEF PositionAfter
      <4>2. Opened(req) \in Position /\ Opened(req).qty = req.qty
        BY <1>4, LedgerAssumption DEF Opened, Position, FillRequest
      <4> QED BY <1>4, <1>5, <1>8, <3>1, <4>1, <4>2 DEF Held
    <3>2. CASE position[req.symbol] # NoPosition
      <4>1. /\ PositionAfter(req).qty = position[req.symbol].qty + req.qty
            /\ PositionAfter(req) # NoPosition
        <5>1. position[req.symbol] \in Position
          BY <1>7, <3>2
        <5>2. AverageEntry(position[req.symbol], req) \in Nat \ {0}
          BY <5>1, AveragePositive
        <5>3. position[req.symbol].qty + req.qty \in Nat \ {0}
          BY <1>4, <5>1 DEF Position
        <5>4. /\ PositionAfter(req) \in Position
              /\ PositionAfter(req).qty = position[req.symbol].qty + req.qty
          BY <1>10, <3>2, <5>1, <5>2, <5>3 DEF PositionAfter, Position
        <5> QED BY <1>8, <5>4
      <4> QED BY <1>4, <1>5, <3>2, <4>1 DEF Held
    <3> QED BY <3>1, <3>2
  <2> QED BY <1>2, <1>3, <1>6, <2>1 DEF Account!Fills, Account!Buys
<1>11. CASE req.side = "SELL"
  <2>1. /\ position[req.symbol] \in Position
        /\ req.qty <= position[req.symbol].qty
    BY <1>1, <1>4, <1>7, <1>11 DEF RejectReason, Position
  <2>2. Held(req.symbol)' = h[req.symbol] - req.qty /\ req.qty <= h[req.symbol]
    <3>1. position[req.symbol] # NoPosition
      BY <1>8, <2>1
    <3>2. CASE req.qty = position[req.symbol].qty
      <4>1. PositionAfter(req) = NoPosition
        BY <1>11, <3>2 DEF PositionAfter
      <4> QED BY <1>4, <1>5, <2>1, <3>1, <3>2, <4>1 DEF Held
    <3>3. CASE req.qty # position[req.symbol].qty
      <4>1. PositionAfter(req) =
              [position[req.symbol] EXCEPT !.qty = position[req.symbol].qty - req.qty]
        BY <1>11, <3>3 DEF PositionAfter
      <4>2. position[req.symbol].qty \in Nat \ {0}
        BY <2>1 DEF Position
      <4>3. PositionAfter(req) \in Position
        BY <1>4, <2>1, <3>3, <4>1, <4>2 DEF Position
      <4>4. PositionAfter(req).qty = position[req.symbol].qty - req.qty
        BY <2>1, <4>1 DEF Position
      <4> QED BY <1>4, <1>5, <1>8, <2>1, <3>1, <4>3, <4>4 DEF Held
    <3> QED BY <3>2, <3>3
  <2> QED BY <1>2, <1>3, <1>6, <2>2 DEF Account!Fills, Account!Sells
<1> QED BY <1>4, <1>10, <1>11

(* The ledger is an account: whatever its clients send, each order moves   *)
(* one holding at most once and nothing is sold that is not held.          *)
THEOREM LedgerIsAccount == LedgerSpec => ImplementsAccount
<1>1. LedgerInit => Account!AccountInit
  BY DEF LedgerInit, Account!AccountInit, Held
<1>2. LedgerInv /\ [LedgerNext]_ledgerVars
        => [Account!AccountNext]_(Account!accountVars)
  <2> SUFFICES ASSUME LedgerInv, [LedgerNext]_ledgerVars
               PROVE  Account!AccountNext \/ UNCHANGED Account!accountVars
    BY DEF Account!accountVars
  <2>1. LedgerTypeOK
    BY DEF LedgerInv
  <2>2. ASSUME NEW req \in Requests, ApplyFill(req)
        PROVE  Account!AccountNext \/ UNCHANGED Account!accountVars
    <3>1. req \in FillRequest
      BY RequestsAssumption
    <3>2. CASE FillOutcome(req) = "applied"
      <4>1. req.symbol \in Symbols /\ req.order \in OrderIds /\ req.qty \in Quantities
        BY <3>1 DEF FillRequest
      <4> QED BY <2>1, <2>2, <3>1, <3>2, <4>1, FillIsTransaction DEF Account!AccountNext
    <3>3. CASE FillOutcome(req) # "applied"
      BY <2>2, <3>3 DEF ApplyFill, ledgerVars, Account!accountVars, Held
    <3> QED BY <3>2, <3>3
  <2>3. ASSUME NEW r \in StopRequests, UpdateStopLoss(r)
        PROVE  UNCHANGED Account!accountVars
    <3>1. r \in StopRequest
      BY RequestsAssumption
    <3>2. \A s \in Symbols : Held(s)' = Held(s)
      <4> TAKE s \in Symbols
      <4>1. NoPosition \notin Position
        BY LedgerAssumption
      <4>2. CASE s = r.symbol /\ position[s] # NoPosition
        <5>1. position'[s] # NoPosition /\ position'[s].qty = position[s].qty
          BY <2>1, <2>3, <3>1, <4>1, <4>2, StopApplied
        <5> QED BY <4>2, <5>1 DEF Held
      <4>3. CASE s # r.symbol \/ position[s] = NoPosition
        <5>1. position'[s] = position[s]
          BY <2>1, <2>3, <3>1, <4>3, StopApplied
        <5> QED BY <5>1 DEF Held
      <4> QED BY <4>2, <4>3
    <3>3. trades' = trades
      BY <2>3 DEF UpdateStopLoss
    <3> QED BY <3>2, <3>3 DEF Account!accountVars
  <2>4. CASE UNCHANGED ledgerVars
    BY <2>4 DEF ledgerVars, Account!accountVars, Held
  <2> QED BY <2>2, <2>3, <2>4 DEF LedgerNext
<1> QED BY <1>1, <1>2, LedgerSafe, PTL DEF LedgerSpec, ImplementsAccount, Account!AccountSpec
=============================================================================
