--------------------------- MODULE Signals_proofs ---------------------------
(***************************************************************************)
(* The way of a signal, from the features to the unified topic.            *)
(*                                                                         *)
(* What the strategies say is neither lost by strategy-rule nor invented   *)
(* by strategy-ai, for any features, rules and bounds on errors.  HandInv  *)
(* says of the message in hand what has become of its signals at each      *)
(* point, so that it can be acknowledged at the last; TriggersBacked says  *)
(* that a confident signal was on its topic before every trigger.          *)
(*                                                                         *)
(* No opinion is lost between the aggregator's two topics, for any set of  *)
(* signals, thresholds and number of errors.  AckedWasDecided says it of   *)
(* what is acknowledged; BatchKept says of the batch in hand what is true  *)
(* of it at each point of _emit.                                           *)
(***************************************************************************)
EXTENDS SignalPairing, StrategyStream, TLAPS

Ids == {f.id : f \in Features}

(* The two services' records; what they hold exists.                       *)
Shapes ==
  /\ offered \subseteq Ids /\ triggers \in Seq(Ids) /\ desk.todo \subseteq Ids
  /\ {"pc", "todo", "done", "now", "left", "made"} \subseteq DOMAIN desk

(* What was made of the message in hand, and how much of it is said.       *)
MadeOfNow ==
  /\ desk.now \in Ids /\ DOMAIN desk.made = DOMAIN Enabled
  /\ \A k \in DOMAIN Enabled :
       /\ desk.made[k].of = desk.now
       /\ Steady(Enabled[k]) =>
            desk.made[k] = SignalOf(Enabled[k], FeatureOf(desk.now), Blank)

HandInv ==
  desk.pc \in {"signals", "trigger", "logs"} =>
    /\ MadeOfNow
    /\ \A k \in Speaking(desk.made) \ desk.left : desk.made[k] \in signalsA
    /\ desk.pc # "signals" => desk.left = {}
    /\ desk.pc = "trigger" => Triggering
    /\ desk.pc = "logs" /\ Triggering => desk.now \in Elements(triggers)

Settled(i) ==
  \A k \in DOMAIN Enabled :
    LET s == SignalOf(Enabled[k], FeatureOf(i), Blank)
    IN  Steady(Enabled[k]) /\ s.action # "HOLD" =>
          /\ s \in signalsA /\ s \in strategyLogs
          /\ Confident(s) => i \in Elements(triggers)

AllSettled == \A i \in read \cup desk.done : Settled(i)

Backed(i) == \E a \in signalsA : a.of = i /\ Confident(a)
TriggersBacked == \A k \in DOMAIN triggers : Backed(triggers[k])

(* strategy-ai answers triggers that exist.                                *)
BenchInv ==
  /\ {"pc", "todo", "now", "answer"} \subseteq DOMAIN bench
  /\ bench.todo \subseteq DOMAIN triggers
  /\ bench.pc \in {"publish", "logs"} => bench.now \in DOMAIN triggers
AnswersOfTriggers == \A b \in signalsB : b.of \in Elements(triggers)

RuleInv == Shapes /\ HandInv /\ AllSettled /\ TriggersBacked
ModelInv == BenchInv /\ AnswersOfTriggers
StrategyInv == RuleInv /\ ModelInv

----------------------------------------------------------------------------
(* The operators.                                                          *)
LEMMA FeatureOfId == ASSUME NEW i \in Ids PROVE FeatureOf(i).id = i
BY DEF Ids, FeatureOf

LEMMA SteadyForgets ==
  ASSUME NEW rule, NEW f, NEW m, Steady(rule)
  PROVE  SignalOf(rule, f, m) = SignalOf(rule, f, Blank)
<1>1. CASE rule = "rsi_threshold"
  BY <1>1 DEF SignalOf, Says
<1>2. CASE rule = "bollinger_breakout" /\ ~Reclaim
  <2>1. Bollinger(f, m) = Bollinger(f, Blank)
    BY <1>2 DEF Bollinger, Reclaims
  <2>2. \A n : Says(rule, f, n) = Bollinger(f, n)
    BY <1>2 DEF Says
  <2> QED BY <2>1, <2>2 DEF SignalOf
<1> QED BY <1>1, <1>2 DEF Steady

LEMMA AppendedElements ==
  ASSUME NEW S, NEW q \in Seq(S), NEW x \in S
  PROVE  /\ Append(q, x) \in Seq(S)
         /\ DOMAIN q \subseteq DOMAIN Append(q, x)
         /\ \A k \in DOMAIN q : Append(q, x)[k] = q[k]
         /\ \A k \in DOMAIN Append(q, x) : k \in DOMAIN q \/ Append(q, x)[k] = x
         /\ Elements(Append(q, x)) = Elements(q) \cup {x}
<1>1. /\ Append(q, x) \in Seq(S)
      /\ DOMAIN q = 1 .. Len(q) /\ DOMAIN Append(q, x) = 1 .. Len(q) + 1
      /\ \A k \in 1 .. Len(q) : Append(q, x)[k] = q[k]
      /\ Append(q, x)[Len(q) + 1] = x /\ Len(q) \in Nat
  OBVIOUS
<1>2. \A k \in 1 .. Len(q) + 1 : k \in 1 .. Len(q) \/ k = Len(q) + 1
  BY <1>1
<1>3. 1 .. Len(q) \subseteq 1 .. Len(q) + 1 /\ Len(q) + 1 \in 1 .. Len(q) + 1
  BY <1>1
<1>4. Elements(Append(q, x)) \subseteq Elements(q) \cup {x}
  BY <1>1, <1>2 DEF Elements
<1>5. Elements(q) \cup {x} \subseteq Elements(Append(q, x))
  BY <1>1, <1>3 DEF Elements
<1> QED BY <1>1, <1>2, <1>3, <1>4, <1>5

----------------------------------------------------------------------------
(* Topics and logs only grow; what was settled or backed stays so.         *)
Grows ==
  /\ signalsA \subseteq signalsA' /\ strategyLogs \subseteq strategyLogs'
  /\ DOMAIN triggers \subseteq DOMAIN triggers'
  /\ \A k \in DOMAIN triggers : triggers'[k] = triggers[k]

LEMMA GrownElements == ASSUME Grows PROVE Elements(triggers) \subseteq Elements(triggers')
BY DEF Grows, Elements

LEMMA SettledStays == ASSUME Grows, NEW i, Settled(i) PROVE Settled(i)'
BY GrownElements DEF Grows, Settled

LEMMA BackedStays == ASSUME Grows, NEW i, Backed(i) PROVE Backed(i)'
BY DEF Grows, Backed

LEMMA RuleKeepsModel ==
  ASSUME ModelInv, Grows, modelVars' = modelVars PROVE ModelInv'
BY GrownElements DEF ModelInv, BenchInv, AnswersOfTriggers, Grows, modelVars

LEMMA ModelKeepsRules ==
  ASSUME RuleInv, ruleVars' = ruleVars, offered' = offered,
         strategyLogs \subseteq strategyLogs'
  PROVE  RuleInv' /\ Grows
<1>1. Grows
  BY DEF Grows, ruleVars
<1>2. AllSettled'
  BY <1>1, SettledStays DEF RuleInv, AllSettled, ruleVars
<1>3. TriggersBacked' /\ Shapes'
  BY DEF RuleInv, TriggersBacked, Backed, Shapes, ruleVars
<1>4. HandInv'
  BY DEF RuleInv, HandInv, MadeOfNow, Triggering, SignalsMade, ruleVars
<1> QED BY <1>1, <1>2, <1>3, <1>4 DEF RuleInv

LEMMA InitInv == StrategyInit => StrategyInv
<1> SUFFICES ASSUME StrategyInit PROVE StrategyInv
  OBVIOUS
<1>1. /\ offered \subseteq Ids /\ triggers = <<>> /\ read = {} /\ signalsB = {}
      /\ desk = AtRest /\ bench = Listening
  BY DEF StrategyInit, Ids
<1>2. triggers \in Seq(Ids) /\ DOMAIN triggers = {}
  BY <1>1
<1> QED BY <1>1, <1>2 DEF StrategyInv, RuleInv, ModelInv, Shapes, HandInv, AllSettled,
     TriggersBacked, BenchInv, AnswersOfTriggers, AtRest, Listening

----------------------------------------------------------------------------
(* The steps of strategy-rule that publish nothing.                        *)
LEMMA OnlyDesk ==
  ASSUME StrategyInv, offered' = offered, signalsA' = signalsA, triggers' = triggers,
         modelVars' = modelVars, strategyLogs' = strategyLogs,
         Shapes', HandInv', read' \cup desk'.done \subseteq read \cup desk.done
  PROVE  StrategyInv'
<1>1. Grows
  BY DEF Grows
<1>2. AllSettled'
  BY <1>1, SettledStays DEF StrategyInv, RuleInv, AllSettled
<1>3. TriggersBacked'
  BY DEF StrategyInv, RuleInv, TriggersBacked, Backed
<1> QED BY <1>1, <1>2, <1>3, RuleKeepsModel DEF StrategyInv, RuleInv

LEMMA PullFeaturesInv ==
  ASSUME StrategyInv, NEW S, PullFeatures(S) PROVE StrategyInv'
<1>1. /\ desk' = [pc |-> "next", todo |-> S, done |-> {}, now |-> 0, left |-> {},
                  made |-> <<>>]
      /\ S \subseteq Ids
  BY DEF PullFeatures, AtRest, StrategyInv, RuleInv, Shapes
<1>2. Shapes' /\ HandInv'
  BY <1>1 DEF PullFeatures, StrategyInv, RuleInv, Shapes, HandInv
<1>3. /\ offered' = offered /\ read' = read /\ signalsA' = signalsA /\ triggers' = triggers
      /\ modelVars' = modelVars /\ strategyLogs' = strategyLogs
  BY DEF PullFeatures
<1>4. read' \cup desk'.done \subseteq read \cup desk.done
  BY <1>1, <1>3
<1> QED BY <1>2, <1>3, <1>4, OnlyDesk

(* A message no rule speaks of is settled at once; of any other, what was  *)
(* made is what the rules say, and nothing of it is said yet.              *)
LEMMA EvaluateRulesInv ==
  ASSUME StrategyInv, NEW i \in desk.todo, EvaluateRules(i) PROVE StrategyInv'
<1> DEFINE f == FeatureOf(i)
           v == Judged(f, memory[f.symbol])
<1>1. i \in Ids /\ f.id = i
  BY FeatureOfId DEF StrategyInv, RuleInv, Shapes
<1>2. /\ DOMAIN v = DOMAIN Enabled
      /\ \A k \in DOMAIN Enabled : v[k] = SignalOf(Enabled[k], f, memory[f.symbol])
  BY DEF Judged
<1>3. ASSUME NEW k \in DOMAIN Enabled
      PROVE  /\ v[k].of = i
             /\ Steady(Enabled[k]) => v[k] = SignalOf(Enabled[k], f, Blank)
  <2>1. v[k].of = i
    <3>1. SignalOf(Enabled[k], f, memory[f.symbol]).of = f.id
      BY DEF SignalOf
    <3> QED BY <1>1, <1>2, <3>1
  <2>2. Steady(Enabled[k]) =>
          SignalOf(Enabled[k], f, memory[f.symbol]) = SignalOf(Enabled[k], f, Blank)
    BY SteadyForgets
  <2> QED BY <1>2, <2>1, <2>2
<1>4. /\ offered' = offered /\ read' = read /\ signalsA' = signalsA /\ triggers' = triggers
      /\ modelVars' = modelVars /\ strategyLogs' = strategyLogs
      /\ desk'.todo = desk.todo \ {i} /\ DOMAIN desk' = DOMAIN desk
      /\ Speaking(v) = {} => desk'.pc = "next" /\ desk'.done = desk.done \cup {i}
      /\ Speaking(v) # {} => /\ desk'.pc = "signals" /\ desk'.done = desk.done
                            /\ desk'.now = i /\ desk'.left = Speaking(v) /\ desk'.made = v
  <2> DEFINE d == [desk EXCEPT !.todo = @ \ {i}, !.now = i]
  <2>1. /\ DOMAIN d = DOMAIN desk /\ d.todo = desk.todo \ {i} /\ d.done = desk.done
        /\ d.now = i
        /\ {"pc", "todo", "done", "now", "left", "made"} \subseteq DOMAIN d
    BY DEF StrategyInv, RuleInv, Shapes
  <2>2. /\ desk' = IF Speaking(v) = {} THEN Handled(d)
                   ELSE [d EXCEPT !.pc = "signals", !.left = Speaking(v), !.made = v]
        /\ offered' = offered /\ read' = read /\ signalsA' = signalsA
        /\ triggers' = triggers /\ modelVars' = modelVars /\ strategyLogs' = strategyLogs
    BY Zenon DEF EvaluateRules
  <2> HIDE DEF d, v
  <2> QED BY <2>1, <2>2 DEF Handled
<1> HIDE DEF v
<1>5. Shapes'
  BY <1>4 DEF StrategyInv, RuleInv, Shapes
<1>6. HandInv'
  <2>1. CASE Speaking(v) = {}
    BY <1>4, <2>1 DEF HandInv
  <2>2. CASE Speaking(v) # {}
    <3>1. /\ desk'.pc = "signals" /\ desk'.now = i /\ desk'.left = Speaking(v)
          /\ desk'.made = v
      BY <1>4, <2>2
    <3>2. MadeOfNow'
      BY <1>1, <1>2, <1>3, <3>1 DEF MadeOfNow
    <3> QED BY <3>1, <3>2 DEF HandInv
  <2> QED BY <2>1, <2>2
<1>7. CASE Speaking(v) # {}
  BY <1>4, <1>5, <1>6, <1>7, OnlyDesk
<1>8. CASE Speaking(v) = {}
  <2>1. Settled(i)
    BY <1>2, <1>3, <1>8 DEF Settled, Speaking
  <2>2. Grows
    BY <1>4 DEF Grows
  <2>3. AllSettled'
    BY <1>4, <1>8, <2>1, <2>2, SettledStays DEF StrategyInv, RuleInv, AllSettled
  <2>4. TriggersBacked'
    BY <1>4 DEF StrategyInv, RuleInv, TriggersBacked, Backed
  <2> QED BY <1>4, <1>5, <1>6, <2>2, <2>3, <2>4, RuleKeepsModel DEF StrategyInv, RuleInv
<1> QED BY <1>7, <1>8

LEMMA AcknowledgeFeaturesInv ==
  ASSUME StrategyInv, AcknowledgeFeatures PROVE StrategyInv'
<1>1. desk' = [pc |-> "rest", todo |-> {}, done |-> {}, now |-> 0, left |-> {},
               made |-> <<>>]
  BY DEF AcknowledgeFeatures, AtRest
<1>2. Shapes' /\ HandInv'
  BY <1>1 DEF AcknowledgeFeatures, StrategyInv, RuleInv, Shapes, HandInv
<1> QED BY <1>1, <1>2, OnlyDesk DEF AcknowledgeFeatures

LEMMA RuleEndsInv == ASSUME StrategyInv, RuleDies \/ RuleRestarts PROVE StrategyInv'
<1>1. \E p \in {"dead", "rest"} :
        desk' = [pc |-> p, todo |-> {}, done |-> {}, now |-> 0, left |-> {}, made |-> <<>>]
  BY DEF RuleDies, RuleRestarts, AtRest
<1>2. Shapes' /\ HandInv'
  BY <1>1 DEF RuleDies, RuleRestarts, StrategyInv, RuleInv, Shapes, HandInv
<1> QED BY <1>1, <1>2, OnlyDesk DEF RuleDies, RuleRestarts

----------------------------------------------------------------------------
(* The steps that write to topics and logs.  Whoever writes, what is       *)
(* settled stays settled and what strategy-ai relies on stays there.       *)
LEMMA WrittenInv ==
  ASSUME StrategyInv, offered' = offered, read' = read, modelVars' = modelVars, Grows,
         Shapes', HandInv', TriggersBacked',
         \A i \in desk'.done : i \in desk.done \/ Settled(i)'
  PROVE  StrategyInv'
<1>1. AllSettled'
  BY SettledStays DEF StrategyInv, RuleInv, AllSettled
<1> QED BY <1>1, RuleKeepsModel DEF StrategyInv, RuleInv

LEMMA SignalWritten ==
  ASSUME StrategyInv, NEW s, signalsA' = signalsA \cup {s},
         triggers' = triggers, strategyLogs' = strategyLogs
  PROVE  Grows /\ TriggersBacked'
<1>1. Grows
  BY DEF Grows
<1> QED BY <1>1, BackedStays DEF StrategyInv, RuleInv, TriggersBacked

(* A trigger is written only when a confident signal is on its topic.      *)
LEMMA TriggerWritten ==
  ASSUME StrategyInv, desk.pc = "trigger", triggers' = Append(triggers, desk.now),
         signalsA' = signalsA, strategyLogs' = strategyLogs
  PROVE  /\ Grows /\ TriggersBacked' /\ triggers' \in Seq(Ids)
         /\ desk.now \in Elements(triggers')
<1>1. /\ MadeOfNow /\ desk.left = {} /\ Triggering
      /\ \A k \in Speaking(desk.made) : desk.made[k] \in signalsA
  BY DEF StrategyInv, RuleInv, HandInv
<1>2. /\ triggers' \in Seq(Ids) /\ DOMAIN triggers \subseteq DOMAIN triggers'
      /\ \A k \in DOMAIN triggers : triggers'[k] = triggers[k]
      /\ \A k \in DOMAIN triggers' : k \in DOMAIN triggers \/ triggers'[k] = desk.now
      /\ desk.now \in Elements(triggers')
  <2>1. triggers \in Seq(Ids) /\ desk.now \in Ids
    BY <1>1 DEF StrategyInv, RuleInv, Shapes, MadeOfNow
  <2> QED BY <2>1, AppendedElements
<1>3. PICK k \in Speaking(desk.made) : Confident(desk.made[k])
  BY <1>1 DEF Triggering, SignalsMade
<1>4. desk.made[k] \in signalsA /\ desk.made[k].of = desk.now
  BY <1>1, <1>3 DEF MadeOfNow, Speaking
<1>5. Backed(desk.now)
  BY <1>3, <1>4 DEF Backed
<1>6. Grows
  BY <1>2 DEF Grows
<1>7. \A j \in DOMAIN triggers' : Backed(triggers'[j])
  BY <1>2, <1>5 DEF StrategyInv, RuleInv, TriggersBacked
<1>8. TriggersBacked'
  BY <1>6, <1>7, BackedStays DEF TriggersBacked, Backed
<1> QED BY <1>2, <1>6, <1>8

LEMMA LogWritten ==
  ASSUME StrategyInv, NEW L, strategyLogs' = strategyLogs \cup L,
         signalsA' = signalsA, triggers' = triggers
  PROVE  Grows /\ TriggersBacked'
BY DEF Grows, StrategyInv, RuleInv, TriggersBacked, Backed

LEMMA PublishSignalInv == ASSUME StrategyInv, PublishSignal PROVE StrategyInv'
<1>1. PICK k \in desk.left :
        /\ signalsA' = signalsA \cup {desk.made[k]}
        /\ desk' = [desk EXCEPT !.left = @ \ {k},
                      !.pc = CASE desk.left # {k} -> "signals"
                               [] desk.left = {k} /\ Triggering -> "trigger"
                               [] OTHER -> "logs"]
  BY DEF PublishSignal, Publishes
<1> DEFINE after == CASE desk.left # {k} -> "signals"
                      [] desk.left = {k} /\ Triggering -> "trigger"
                      [] OTHER -> "logs"
<1>2. /\ desk.left # {k} => after = "signals"
      /\ desk.left = {k} /\ Triggering => after = "trigger"
      /\ desk.left = {k} /\ ~Triggering => after = "logs"
  OBVIOUS
<1>3. desk' = [desk EXCEPT !.left = @ \ {k}, !.pc = after]
  BY <1>1
<1> HIDE DEF after
<1>4. /\ desk'.left = desk.left \ {k} /\ desk'.pc = after /\ desk'.made = desk.made
      /\ desk'.now = desk.now /\ desk'.done = desk.done /\ desk'.todo = desk.todo
      /\ DOMAIN desk' = DOMAIN desk
  BY <1>3 DEF StrategyInv, RuleInv, Shapes
<1>5. /\ desk.pc = "signals" /\ offered' = offered /\ read' = read
      /\ triggers' = triggers /\ modelVars' = modelVars /\ strategyLogs' = strategyLogs
  BY DEF PublishSignal
<1>6. Grows /\ TriggersBacked'
  BY <1>1, <1>5, SignalWritten
<1>7. Shapes'
  BY <1>4, <1>5 DEF StrategyInv, RuleInv, Shapes
<1>8. /\ MadeOfNow
      /\ \A j \in Speaking(desk.made) \ desk.left : desk.made[j] \in signalsA
  BY <1>5 DEF StrategyInv, RuleInv, HandInv
<1>9. MadeOfNow' /\ (Triggering' <=> Triggering)
  BY <1>4, <1>8 DEF MadeOfNow, Triggering, SignalsMade
<1>10. \A j \in Speaking(desk'.made) \ desk'.left : desk'.made[j] \in signalsA'
  BY <1>1, <1>4, <1>8
<1>11. HandInv'
  BY <1>2, <1>4, <1>9, <1>10 DEF HandInv
<1> QED BY <1>4, <1>5, <1>6, <1>7, <1>11, WrittenInv

LEMMA PublishTriggerInv == ASSUME StrategyInv, PublishTrigger PROVE StrategyInv'
<1>1. /\ desk.pc = "trigger" /\ triggers' = Append(triggers, desk.now)
      /\ offered' = offered /\ read' = read /\ signalsA' = signalsA
      /\ modelVars' = modelVars /\ strategyLogs' = strategyLogs
  BY DEF PublishTrigger
<1>2. /\ Grows /\ TriggersBacked' /\ triggers' \in Seq(Ids)
      /\ desk.now \in Elements(triggers')
  BY <1>1, TriggerWritten
<1>3. /\ desk'.left = desk.left /\ desk'.pc = "logs" /\ desk'.made = desk.made
      /\ desk'.now = desk.now /\ desk'.done = desk.done /\ desk'.todo = desk.todo
      /\ DOMAIN desk' = DOMAIN desk
  BY DEF PublishTrigger, StrategyInv, RuleInv, Shapes
<1>4. Shapes'
  BY <1>1, <1>2, <1>3 DEF StrategyInv, RuleInv, Shapes
<1>5. /\ MadeOfNow /\ desk.left = {}
      /\ \A j \in Speaking(desk.made) \ desk.left : desk.made[j] \in signalsA
  BY <1>1 DEF StrategyInv, RuleInv, HandInv
<1>6. HandInv'
  BY <1>1, <1>2, <1>3, <1>5 DEF HandInv, MadeOfNow
<1> QED BY <1>1, <1>2, <1>3, <1>4, <1>6, WrittenInv

(* The last step settles the message: nothing is left to be said, and if a *)
(* confident signal was among what was, the trigger is there.              *)
LEMMA InsertStrategyLogsInv == ASSUME StrategyInv, InsertStrategyLogs PROVE StrategyInv'
<1>1. /\ desk.pc = "logs" /\ strategyLogs' = strategyLogs \cup SignalsMade
      /\ offered' = offered /\ read' = read /\ signalsA' = signalsA
      /\ triggers' = triggers /\ modelVars' = modelVars /\ desk' = Handled(desk)
  BY DEF InsertStrategyLogs
<1>2. Grows /\ TriggersBacked'
  BY <1>1, LogWritten
<1>3. /\ desk'.pc = "next" /\ desk'.done = desk.done \cup {desk.now}
      /\ desk'.todo = desk.todo /\ DOMAIN desk' = DOMAIN desk
  BY <1>1 DEF Handled, StrategyInv, RuleInv, Shapes
<1>4. Shapes' /\ HandInv'
  BY <1>1, <1>3 DEF StrategyInv, RuleInv, Shapes, HandInv
<1>5. /\ MadeOfNow /\ desk.left = {}
      /\ \A k \in Speaking(desk.made) \ desk.left : desk.made[k] \in signalsA
      /\ Triggering => desk.now \in Elements(triggers)
  BY <1>1 DEF StrategyInv, RuleInv, HandInv
<1>6. PICK n : n = desk.now
  OBVIOUS
<1>7. Settled(n)'
  <2> SUFFICES ASSUME NEW k \in DOMAIN Enabled, Steady(Enabled[k]),
                      SignalOf(Enabled[k], FeatureOf(n), Blank).action # "HOLD"
               PROVE  LET s == SignalOf(Enabled[k], FeatureOf(n), Blank)
                      IN  /\ s \in signalsA' /\ s \in strategyLogs'
                          /\ Confident(s) => n \in Elements(triggers')
    BY DEF Settled
  <2>1. desk.made[k] = SignalOf(Enabled[k], FeatureOf(n), Blank)
    BY <1>5, <1>6 DEF MadeOfNow
  <2>2. k \in Speaking(desk.made)
    BY <1>5, <2>1 DEF MadeOfNow, Speaking
  <2>3. desk.made[k] \in signalsA /\ desk.made[k] \in SignalsMade
    BY <1>5, <2>2 DEF SignalsMade
  <2>4. Confident(desk.made[k]) => desk.now \in Elements(triggers)
    BY <1>5, <2>3 DEF Triggering
  <2> QED BY <1>1, <1>6, <2>1, <2>3, <2>4
<1>8. \A i \in desk'.done : i \in desk.done \/ Settled(i)'
  BY <1>3, <1>6, <1>7
<1> QED BY <1>1, <1>2, <1>4, <1>8, WrittenInv

LEMMA HandlingFailsInv == ASSUME StrategyInv, HandlingFails PROVE StrategyInv'
<1>1. /\ offered' = offered /\ read' = read /\ modelVars' = modelVars
      /\ desk' = Dropped(desk)
  BY DEF HandlingFails
<1>2. /\ desk'.pc = "next" /\ desk'.done = desk.done
      /\ desk'.todo = desk.todo /\ DOMAIN desk' = DOMAIN desk
  BY <1>1 DEF Dropped, StrategyInv, RuleInv, Shapes
<1>3. HandInv'
  BY <1>2 DEF HandInv
<1>4. Grows /\ TriggersBacked' /\ triggers' \in Seq(Ids)
  <2>1. CASE UNCHANGED <<signalsA, triggers, strategyLogs>>
    BY <2>1 DEF Grows, StrategyInv, RuleInv, Shapes, TriggersBacked, Backed
  <2>2. CASE /\ \E k \in desk.left : Publishes(k)
             /\ UNCHANGED <<triggers, strategyLogs>>
    <3>1. PICK k \in desk.left : signalsA' = signalsA \cup {desk.made[k]}
      BY <2>2 DEF Publishes
    <3>2. Grows /\ TriggersBacked'
      BY <2>2, <3>1, SignalWritten
    <3> QED BY <2>2, <3>2 DEF StrategyInv, RuleInv, Shapes
  <2>3. CASE /\ desk.pc = "trigger" /\ triggers' = Append(triggers, desk.now)
             /\ UNCHANGED <<signalsA, strategyLogs>>
    BY <2>3, TriggerWritten
  <2>4. CASE /\ strategyLogs' = strategyLogs \cup SignalsMade
             /\ UNCHANGED <<signalsA, triggers>>
    BY <2>4, LogWritten DEF StrategyInv, RuleInv, Shapes
  <2> QED BY <2>1, <2>2, <2>3, <2>4 DEF HandlingFails
<1>5. Shapes'
  BY <1>1, <1>2, <1>4 DEF StrategyInv, RuleInv, Shapes
<1> QED BY <1>1, <1>2, <1>3, <1>4, <1>5, WrittenInv

----------------------------------------------------------------------------
(* The steps of strategy-ai.                                               *)
LEMMA ModelStepInv ==
  ASSUME StrategyInv,
         \/ \E S : PullTriggers(S)
         \/ \E k \in bench.todo, answer \in {"none", "BUY", "SELL"} : AskModel(k, answer)
         \/ PublishAnswer \/ LogAnswer \/ AcknowledgeTrigger
         \/ AnswerFails \/ ModelDies \/ ModelRestarts
  PROVE  StrategyInv'
<1>1. /\ ruleVars' = ruleVars /\ offered' = offered
      /\ strategyLogs \subseteq strategyLogs'
  BY DEF PullTriggers, AskModel, PublishAnswer, LogAnswer, AcknowledgeTrigger,
         AnswerFails, ModelDies, ModelRestarts
<1>2. RuleInv'
  BY <1>1, ModelKeepsRules DEF StrategyInv
<1>3. triggers' = triggers
  BY <1>1 DEF ruleVars
<1>4. BenchInv'
  <2>1. CASE \E S : PullTriggers(S)
    BY <1>3, <2>1 DEF StrategyInv, ModelInv, BenchInv, PullTriggers
  <2>2. CASE \E k \in bench.todo, answer \in {"none", "BUY", "SELL"} : AskModel(k, answer)
    <3>1. PICK k \in bench.todo, p \in {"publish", "ack"},
               answer \in {"none", "BUY", "SELL"} :
            bench' = [pc |-> p, todo |-> bench.todo \ {k}, now |-> k, answer |-> answer]
      BY <2>2 DEF AskModel
    <3> QED BY <1>3, <3>1 DEF StrategyInv, ModelInv, BenchInv
  <2>3. CASE PublishAnswer \/ LogAnswer \/ AcknowledgeTrigger \/ AnswerFails
    BY <1>3, <2>3 DEF StrategyInv, ModelInv, BenchInv, PublishAnswer, LogAnswer,
                      AcknowledgeTrigger, AnswerFails, Left
  <2>4. CASE ModelDies \/ ModelRestarts
    BY <1>3, <2>4 DEF StrategyInv, ModelInv, BenchInv, ModelDies, ModelRestarts, Listening
  <2> QED BY <2>1, <2>2, <2>3, <2>4
<1>5. /\ signalsB' \subseteq signalsB \cup {Opinion}
      /\ signalsB' # signalsB => bench.pc = "publish"
  BY DEF PullTriggers, AskModel, PublishAnswer, LogAnswer, AcknowledgeTrigger,
         AnswerFails, ModelDies, ModelRestarts
<1>6. AnswersOfTriggers'
  <2>1. CASE signalsB' = signalsB
    BY <1>3, <2>1 DEF StrategyInv, ModelInv, AnswersOfTriggers
  <2>2. CASE signalsB' # signalsB
    <3>1. Opinion.of \in Elements(triggers)
      BY <1>5, <2>2 DEF StrategyInv, ModelInv, BenchInv, Opinion, Elements
    <3> QED BY <1>3, <1>5, <3>1 DEF StrategyInv, ModelInv, AnswersOfTriggers
  <2> QED BY <2>1, <2>2
<1> QED BY <1>2, <1>4, <1>6 DEF StrategyInv, ModelInv

LEMMA NextInv ==
  ASSUME StrategyInv, [StrategyNext]_strategyVars PROVE StrategyInv'
<1>1. CASE UNCHANGED strategyVars
  <2>1. UNCHANGED <<offered, ruleVars, strategyLogs, modelVars>>
    BY <1>1 DEF strategyVars
  <2>2. RuleInv'
    BY <2>1, ModelKeepsRules DEF StrategyInv
  <2> QED BY <2>1, <2>2 DEF StrategyInv, ModelInv, BenchInv, AnswersOfTriggers,
                            ruleVars, modelVars
<1>2. CASE RuleStep
  BY <1>2, PullFeaturesInv, EvaluateRulesInv, PublishSignalInv, PublishTriggerInv,
     InsertStrategyLogsInv, AcknowledgeFeaturesInv, RuleEndsInv DEF RuleStep
<1>3. CASE ModelStep
  BY <1>3, ModelStepInv DEF ModelStep
<1>4. CASE /\ StrategyNext /\ ~RuleStep /\ ~ModelStep
  BY <1>4, PullFeaturesInv, HandlingFailsInv, RuleEndsInv, ModelStepInv DEF StrategyNext
<1> QED BY <1>1, <1>2, <1>3, <1>4

LEMMA StrategyInvariant == StrategySpec => []StrategyInv
<1>1. StrategyInv /\ [StrategyNext]_strategyVars => StrategyInv'
  BY NextInv
<1> QED BY InitInv, <1>1, PTL DEF StrategySpec

----------------------------------------------------------------------------
(* What rules without a memory say of an acknowledged message is on their  *)
(* topic and in the log, and if they are confident the model was asked.    *)
THEOREM StrategyLosesNothing == StrategySpec => []AckedWasSaid
<1>1. StrategyInv => AckedWasSaid
  BY DEF StrategyInv, RuleInv, AllSettled, Settled, AckedWasSaid
<1> QED BY <1>1, StrategyInvariant, PTL

(* strategy-ai says nothing of features no confident rule spoke of.        *)
THEOREM StrategyModelFollows == StrategySpec => []ModelFollowsRules
<1>1. StrategyInv => ModelFollowsRules
  <2> SUFFICES ASSUME StrategyInv, NEW b \in signalsB
               PROVE  \E a \in signalsA : a.of = b.of /\ Confident(a)
    BY DEF ModelFollowsRules
  <2>1. PICK k \in DOMAIN triggers : b.of = triggers[k]
    BY DEF StrategyInv, ModelInv, AnswersOfTriggers, Elements
  <2> QED BY <2>1 DEF StrategyInv, RuleInv, TriggersBacked, Backed
<1> QED BY <1>1, StrategyInvariant, PTL

-----------------------------------------------------------------------------
(* What became of a bucket is on its way, as far as _emit has come; that a *)
(* sale was filtered out is a result, too.                                 *)
Underway(d) ==
  \/ d.result = NoHalf
  \/ emit.pc = "filter" /\ d.result \in emit.publish
  \/ emit.pc = "publish" /\ d.result \in emit.log /\ d.result \in emit.publish \cup unified
  \/ emit.pc = "ack" /\ d.result \in logs /\ d.result \in unified

BatchKept == \A h \in emit.ack : \E d \in decisions : h \in d.halves /\ Underway(d)

(* The batch and the decisions are records.                                *)
BatchShapes ==
  /\ emit = [pc |-> emit.pc, publish |-> emit.publish, log |-> emit.log, ack |-> emit.ack]
  /\ \A d \in decisions : d = [halves |-> d.halves, result |-> d.result]

PairingInv == BatchShapes /\ BatchKept /\ AckedWasDecided

----------------------------------------------------------------------------
LEMMA PairingInitInv == PairingInit => PairingInv
BY DEF PairingInit, Waiting, PairingInv, BatchShapes, BatchKept, AckedWasDecided

(* A step that drops no decision, result or log keeps what was decided.    *)
LEMMA DecidedStays ==
  ASSUME AckedWasDecided, settled' = settled, decisions \subseteq decisions',
         unified \subseteq unified', logs \subseteq logs'
  PROVE  AckedWasDecided'
BY DEF AckedWasDecided

LEMMA DrainInv == ASSUME PairingInv, NEW B \in SUBSET Buckets, Drain(B) PROVE PairingInv'
<1> DEFINE merged == {Merge(BucketOf(k)) : k \in B} \ {NoHalf}
           new == {[halves |-> BucketOf(k), result |-> Merge(BucketOf(k))] : k \in B}
<1>1. /\ decisions' = decisions \cup new
      /\ settled' = settled /\ unified' = unified /\ logs' = logs
      /\ B = {} => emit' = Waiting
      /\ B # {} => emit' = [pc |-> "filter", publish |-> merged, log |-> merged,
                            ack |-> {h \in buffer : h.bucket \in B}]
  BY DEF Drain
<1>2. BatchShapes'
  BY <1>1 DEF PairingInv, BatchShapes, Waiting
<1>3. AckedWasDecided'
  BY <1>1, DecidedStays DEF PairingInv
<1>4. ASSUME NEW h \in emit'.ack
      PROVE  \E d \in decisions' : h \in d.halves /\ Underway(d)'
  <2>1. B # {}
    BY <1>1, <1>4 DEF Waiting
  <2>2. h \in BucketOf(h.bucket) /\ h.bucket \in B
    BY <1>1, <1>4, <2>1 DEF BucketOf
  <2>3. PICK d \in new : d = [halves |-> BucketOf(h.bucket),
                              result |-> Merge(BucketOf(h.bucket))]
    BY <2>2
  <2>4. d.result \in merged \/ d.result = NoHalf
    BY <2>2, <2>3
  <2>5. Underway(d)'
    BY <1>1, <2>1, <2>4 DEF Underway
  <2> QED BY <1>1, <2>2, <2>3, <2>5
<1> QED BY <1>2, <1>3, <1>4 DEF PairingInv, BatchKept

(* A decision whose sale was filtered out still answers for its halves.    *)
LEMMA FilterInv ==
  ASSUME PairingInv, NEW kept \in SUBSET emit.publish, Filter(kept) PROVE PairingInv'
<1> DEFINE gone == emit.publish \ kept
           Now(d) == IF d.result \in gone THEN [d EXCEPT !.result = NoHalf] ELSE d
<1>1. /\ emit.pc = "filter" /\ decisions' = {Now(d) : d \in decisions}
      /\ settled' = settled /\ unified' = unified /\ logs' = logs
      /\ emit' = [emit EXCEPT !.pc = "publish", !.publish = kept, !.log = kept]
  BY DEF Filter
<1>2. /\ emit' = [pc |-> "publish", publish |-> kept, log |-> kept, ack |-> emit.ack]
      /\ \A d \in decisions : d = [halves |-> d.halves, result |-> d.result]
  BY <1>1 DEF PairingInv, BatchShapes
<1>3. ASSUME NEW d \in decisions
      PROVE  /\ Now(d) \in decisions' /\ Now(d).halves = d.halves
             /\ Now(d) = [halves |-> Now(d).halves, result |-> Now(d).result]
             /\ Now(d).result = (IF d.result \in gone THEN NoHalf ELSE d.result)
  BY <1>1, <1>2
<1> HIDE DEF Now
<1>4. BatchShapes'
  <2>1. ASSUME NEW e \in decisions' PROVE e = [halves |-> e.halves, result |-> e.result]
    <3>1. PICK d \in decisions : e = Now(d)
      BY <1>1
    <3> QED BY <1>3, <3>1
  <2> QED BY <1>2, <2>1 DEF BatchShapes
<1>5. AckedWasDecided'
  BY <1>1, <1>3 DEF PairingInv, AckedWasDecided
<1>6. ASSUME NEW h \in emit.ack
      PROVE  \E d \in decisions' : h \in d.halves /\ Underway(d)'
  <2>1. PICK d \in decisions : h \in d.halves /\ Underway(d)
    BY DEF PairingInv, BatchKept
  <2>2. d.result = NoHalf \/ d.result \in emit.publish
    BY <1>1, <2>1 DEF Underway
  <2>3. Now(d).result = NoHalf \/ Now(d).result \in kept
    BY <1>3, <2>2
  <2>4. PICK e \in decisions' : e = Now(d)
    BY <1>3
  <2>5. Underway(e)'
    BY <1>2, <2>3, <2>4 DEF Underway
  <2> QED BY <1>3, <2>1, <2>4, <2>5
<1> QED BY <1>2, <1>4, <1>5, <1>6 DEF PairingInv, BatchKept

(* The other steps of _emit.                                               *)
LEMMA PublishUnifiedInv ==
  ASSUME PairingInv, NEW u \in emit.publish, PublishUnified(u) PROVE PairingInv'
<1>1. /\ emit.pc = "publish" /\ unified' = unified \cup {u}
      /\ settled' = settled /\ logs' = logs /\ decisions' = decisions
      /\ emit' = [pc |-> emit.pc, publish |-> emit.publish \ {u}, log |-> emit.log,
                  ack |-> emit.ack]
  BY DEF PublishUnified, PairingInv, BatchShapes
<1>2. AckedWasDecided'
  BY <1>1, DecidedStays DEF PairingInv
<1> QED BY <1>1, <1>2 DEF PairingInv, BatchShapes, BatchKept, Underway

LEMMA InsertLogsInv == ASSUME PairingInv, InsertLogs PROVE PairingInv'
<1>1. /\ emit.pc = "publish" /\ emit.publish = {} /\ logs' = logs \cup emit.log
      /\ settled' = settled /\ unified' = unified /\ decisions' = decisions
      /\ emit' = [pc |-> "ack", publish |-> emit.publish, log |-> emit.log,
                  ack |-> emit.ack]
  BY DEF InsertLogs, PairingInv, BatchShapes
<1>2. AckedWasDecided'
  BY <1>1, DecidedStays DEF PairingInv
<1> QED BY <1>1, <1>2 DEF PairingInv, BatchShapes, BatchKept, Underway

(* What is in hand when acknowledging begins may be acknowledged.          *)
LEMMA HandIsDecided ==
  ASSUME PairingInv, emit.pc = "ack", NEW S \in SUBSET emit.ack,
         settled' = settled \cup S, unified' = unified, logs' = logs,
         decisions' = decisions
  PROVE  AckedWasDecided'
BY DEF PairingInv, BatchKept, Underway, AckedWasDecided

LEMMA AckHalvesInv == ASSUME PairingInv, NEW o, AckHalves(o) PROVE PairingInv'
<1> DEFINE mine == {h \in emit.ack : h.origin = o}
<1>1. /\ emit.pc = "ack" /\ settled' = settled \cup mine
      /\ unified' = unified /\ logs' = logs /\ decisions' = decisions
      /\ emit' = Waiting \/ emit' = [pc |-> emit.pc, publish |-> emit.publish,
                                     log |-> emit.log, ack |-> emit.ack \ mine]
  BY DEF AckHalves, PairingInv, BatchShapes
<1>2. AckedWasDecided'
  BY <1>1, HandIsDecided
<1> HIDE DEF mine
<1> QED BY <1>1, <1>2 DEF PairingInv, BatchShapes, BatchKept, Underway, Waiting

(* An error or a crash loses the batch, but nothing that was acknowledged. *)
LEMMA BreakdownInv == ASSUME PairingInv, Breakdown PROVE PairingInv'
<1>1. /\ emit' = [pc |-> "down", publish |-> {}, log |-> {}, ack |-> {}]
      /\ decisions' = decisions
      /\ unified \subseteq unified' /\ logs \subseteq logs'
  BY DEF Breakdown, Waiting
<1>2. CASE settled' = settled
  BY <1>1, <1>2, DecidedStays DEF PairingInv, BatchShapes, BatchKept
<1>3. CASE settled' # settled
  <2>1. /\ emit.pc = "ack" /\ unified' = unified /\ logs' = logs
        /\ \E S \in SUBSET emit.ack : settled' = settled \cup S
    BY <1>3 DEF Breakdown
  <2>2. AckedWasDecided'
    BY <1>1, <2>1, HandIsDecided
  <2> QED BY <1>1, <2>2 DEF PairingInv, BatchShapes, BatchKept
<1> QED BY <1>2, <1>3

LEMMA PairingNextInv == PairingInv /\ [PairingNext]_pairingVars => PairingInv'
<1> SUFFICES ASSUME PairingInv, [PairingNext]_pairingVars PROVE PairingInv'
  OBVIOUS
<1>1. ASSUME NEW h \in Halves, SendHalf(h) PROVE PairingInv'
  BY <1>1 DEF SendHalf, PairingInv, BatchShapes, BatchKept, Underway, AckedWasDecided
<1>2. ASSUME NEW S \in SUBSET Halves, PullHalves(S) PROVE PairingInv'
  <2>1. /\ emit.pc = "pull" /\ settled' = settled /\ unified' = unified /\ logs' = logs
        /\ decisions' = decisions
        /\ emit' = [pc |-> "drain", publish |-> emit.publish, log |-> emit.log,
                    ack |-> emit.ack]
    BY <1>2 DEF PullHalves, PairingInv, BatchShapes
  <2>2. AckedWasDecided'
    BY <2>1, DecidedStays DEF PairingInv
  <2> QED BY <2>1, <2>2 DEF PairingInv, BatchShapes, BatchKept, Underway
<1>3. ASSUME AggregatorRestarts PROVE PairingInv'
  BY <1>3, DecidedStays DEF AggregatorRestarts, Waiting, PairingInv, BatchShapes, BatchKept
<1>4. CASE UNCHANGED pairingVars
  BY <1>4 DEF pairingVars, PairingInv, BatchShapes, BatchKept, Underway, AckedWasDecided
<1> QED
  BY <1>1, <1>2, <1>3, <1>4, DrainInv, FilterInv, PublishUnifiedInv, InsertLogsInv,
     AckHalvesInv, BreakdownInv
  DEF PairingNext, EmitStep

(* A signal that is acknowledged was decided, and what came of it is on    *)
(* the topic and in the log: for every set of signals and every way in     *)
(* which batches break off and are delivered again.                        *)
THEOREM PairingLosesNothing == PairingSpec => []AckedWasDecided
<1>1. PairingInv => AckedWasDecided
  BY DEF PairingInv
<1> QED BY <1>1, PairingInitInv, PairingNextInv, PTL DEF PairingSpec
=============================================================================
