--------------------------- MODULE StrategyStream ---------------------------
(***************************************************************************)
(* The two strategy services.  strategy-rule reads features, lets its      *)
(* rules judge them, publishes what they say on strategy-signals-a and the *)
(* features behind a confident signal on strategy-ai-triggers; strategy-ai *)
(* reads those, asks a language model and publishes on strategy-signals-b. *)
(* Both log what they published, and acknowledge a message only when it    *)
(* was handled without an error.  What rules and model remember of a       *)
(* symbol lives in the process.                                            *)
(*                                                                         *)
(* Indicators are compared with their thresholds before: a message says on *)
(* which side they are, and which rules' entry filters it passes.          *)
(* Messages that do not parse are acknowledged and leave no trace.  Copies *)
(* of a signal differ in their signal_id alone and are one signal here.    *)
(***************************************************************************)
EXTENDS Integers, Sequences, FiniteSets

CONSTANTS
  Features,      \* messages of the processed-features topic
  Enabled,       \* strategies_enabled, in order
  Reclaim,       \* bollinger_buy_require_lower_reclaim
  RangeMinutes,  \* orb_range_minutes
  MaxRisk,       \* the max_stop_risk_bps of the two rules with a stop, in per cent
  TriggerMin,    \* ai_trigger_min_confidence
  MinInterval,   \* ai_min_interval_seconds
  Hitches        \* bound on failed calls, repeated deliveries and crashes

Rules == {"sma_crossover", "rsi_threshold", "bollinger_breakout",
          "opening_range_breakout", "relative_momentum"}

(* A ProcessedFeatures.  diff is the gap of the short average over the     *)
(* long one, 2 when it is wide enough to count; rsi and band are where the *)
(* values stand to their thresholds; fit are the rules whose filters pass, *)
(* sure what confidence each would have; minute is -1, vwap 0 and diff     *)
(* NoDiff when they are not known.                                         *)
NoDiff == 9
Feature ==
  [ id : Nat \ {0}, symbol : STRING, day : Nat \ {0}, at : Nat \ {0}, minute : Nat \cup {-1},
    price : Nat \ {0}, vwap : Nat, diff : -2 .. 2 \cup {NoDiff},
    rsi : {"low", "middle", "high"}, band : {"none", "below", "edge", "inside", "above"},
    fit : SUBSET Rules, sure : [Rules -> Nat] ]

ASSUME StrategyAssumption ==
  /\ Features \subseteq Feature /\ Enabled \in Seq(Rules)
  /\ \A f, g \in Features : f.id = g.id => f = g
  /\ Reclaim \in BOOLEAN /\ RangeMinutes \in Nat /\ MaxRisk \in Nat
  /\ TriggerMin \in Nat /\ MinInterval \in Nat /\ Hitches \in Nat

VARIABLES
  offered,       \* features published by the feature engine
  read,          \* features acknowledged by strategy-rule
  desk,          \* where strategy-rule stands: its batch, what it is to
                 \* acknowledge, the message in hand and its signals
  memory,        \* StrategyEngine._state of each symbol
  signalsA,      \* published on strategy-signals-a
  triggers,      \* published on strategy-ai-triggers: the features of each
  heeded,        \* triggers acknowledged by strategy-ai, by index
  bench,         \* where strategy-ai stands
  asked,         \* last_call_at of each symbol
  signalsB,      \* published on strategy-signals-b
  strategyLogs,  \* the table strategy_logs
  hitches        \* hitches left

ruleVars == <<read, desk, memory, signalsA, triggers>>
modelVars == <<heeded, bench, asked, signalsB>>
strategyVars == <<offered, ruleVars, modelVars, strategyLogs, hitches>>

Hitch == hitches > 0 /\ hitches' = hitches - 1
FeatureOf(i) == CHOOSE f \in Features : f.id = i
SymbolsOf == {f.symbol : f \in Features}

----------------------------------------------------------------------------
(* What the rules remember.  0 is a price not seen yet.                    *)
Unseen == [day |-> 0, high |-> 0, low |-> 0, previous |-> 0, traded |-> FALSE]
Blank == [diff |-> NoDiff, armed |-> FALSE, range |-> Unseen, momentum |-> Unseen]
Today(f, s) == IF s.day = f.day THEN s ELSE [Unseen EXCEPT !.day = f.day]

Higher(x, y) == IF x > y THEN x ELSE y
Lower(x, y) == IF x < y THEN x ELSE y
Stop(f, low) == Higher(f.vwap, low)
RiskAllowed(f, stop) == stop < f.price /\ 100 * (f.price - stop) <= MaxRisk * f.price

(* SmaCrossoverStrategy: a cross is seen between two messages.             *)
Sma(f, m) ==
  CASE m.diff = NoDiff -> "HOLD"
    [] m.diff <= 0 /\ f.diff = 2 /\ "sma_crossover" \in f.fit -> "BUY"
    [] m.diff \in 0 .. 2 /\ f.diff = -2 -> "SELL"
    [] OTHER -> "HOLD"

Rsi(f) ==
  CASE f.rsi = "low" /\ "rsi_threshold" \in f.fit -> "BUY"
    [] f.rsi = "high" -> "SELL"
    [] OTHER -> "HOLD"

(* BollingerBreakoutStrategy: below the band at once, or after a reclaim.  *)
Reclaims(f, m) == Reclaim /\ m.armed /\ f.band \in {"inside", "above"}
Bollinger(f, m) ==
  LET buys == Reclaims(f, m) \/ (f.band = "below" /\ ~Reclaim)
  IN  CASE buys /\ "bollinger_breakout" \in f.fit -> "BUY"
        [] f.band = "above" /\ ~buys -> "SELL"
        [] OTHER -> "HOLD"
Armed(f, m) ==
  IF f.band = "below" THEN Reclaim ELSE m.armed /\ Bollinger(f, m) = "HOLD"

(* OpeningRangeBreakoutStrategy.  Its cooldown starts and ends with        *)
(* traded_today.                                                           *)
Breakout(f, s) ==
  IF /\ f.minute >= RangeMinutes /\ s.high > 0 /\ s.previous > 0 /\ ~s.traded
     /\ s.previous <= s.high /\ f.price > s.high
     /\ "opening_range_breakout" \in f.fit
     /\ RiskAllowed(f, Stop(f, s.low))
  THEN "BUY" ELSE "HOLD"
RangeAfter(f, s) ==
  LET opening == f.minute \in 0 .. RangeMinutes - 1
  IN  [ s EXCEPT !.previous = f.price,
          !.high = IF opening THEN Higher(@, f.price) ELSE @,
          !.low = IF opening THEN (IF @ = 0 THEN f.price ELSE Lower(@, f.price)) ELSE @,
          !.traded = @ \/ Breakout(f, s) = "BUY" ]

(* RelativeMomentumStrategy.                                               *)
Momentum(f, s) ==
  IF ~s.traded /\ "relative_momentum" \in f.fit /\ f.vwap > 0 /\ RiskAllowed(f, f.vwap)
  THEN "BUY" ELSE "HOLD"

Says(rule, f, m) ==
  CASE rule = "sma_crossover" -> Sma(f, m)
    [] rule = "rsi_threshold" -> Rsi(f)
    [] rule = "bollinger_breakout" -> Bollinger(f, m)
    [] rule = "opening_range_breakout" -> Breakout(f, Today(f, m.range))
    [] rule = "relative_momentum" -> Momentum(f, Today(f, m.momentum))

(* StrategyEngine.evaluate: what each rule says, in their order, and the   *)
(* state.  The state of a rule that is not enabled is never read.          *)
SignalOf(rule, f, m) ==
  [of |-> f.id, rule |-> rule, action |-> Says(rule, f, m), confidence |-> f.sure[rule]]
Judged(f, m) == [k \in DOMAIN Enabled |-> SignalOf(Enabled[k], f, m)]
Speaking(v) == {k \in DOMAIN v : v[k].action # "HOLD"}
Remembered(f, m) ==
  [ diff |-> IF f.diff = NoDiff THEN m.diff ELSE f.diff, armed |-> Armed(f, m),
    range |-> RangeAfter(f, Today(f, m.range)),
    momentum |-> [Today(f, m.momentum) EXCEPT !.traded =
                    @ \/ Momentum(f, Today(f, m.momentum)) = "BUY"] ]

----------------------------------------------------------------------------
(* strategy-rule, step by step.  Between two messages it stands at "next". *)
AtRest == [pc |-> "rest", todo |-> {}, done |-> {}, now |-> 0, left |-> {}, made |-> <<>>]
Handled(d) == [d EXCEPT !.pc = "next", !.done = @ \cup {d.now}, !.now = 0,
                        !.left = {}, !.made = <<>>]
Dropped_Handled(d) == Handled(d)
Dropped(d) == [d EXCEPT !.pc = "next", !.now = 0, !.left = {}, !.made = <<>>]
SignalsMade == {desk.made[k] : k \in Speaking(desk.made)}
Elements(q) == {q[k] : k \in DOMAIN q}

(* A pull may bring again, now and then, what was acknowledged.            *)
PullFeatures(S) ==
  /\ desk.pc = "rest" /\ S # {} /\ S \subseteq offered
  /\ IF S \cap read = {} THEN UNCHANGED hitches ELSE Hitch
  /\ desk' = [AtRest EXCEPT !.pc = "next", !.todo = S]
  /\ UNCHANGED <<offered, read, memory, signalsA, triggers, modelVars, strategyLogs>>

(* _handle_message up to its first await: the rules' state has moved on.   *)
EvaluateRules(i) ==
  LET f == FeatureOf(i)
      v == Judged(f, memory[f.symbol])
      d == [desk EXCEPT !.todo = @ \ {i}, !.now = i]
  IN  /\ desk.pc = "next" /\ i \in desk.todo
      /\ memory' = [memory EXCEPT ![f.symbol] = Remembered(f, @)]
      /\ desk' = IF Speaking(v) = {} THEN Handled(d)
                 ELSE [d EXCEPT !.pc = "signals", !.left = Speaking(v), !.made = v]
      /\ UNCHANGED <<offered, read, signalsA, triggers, modelVars, strategyLogs, hitches>>

(* _select_ai_trigger_signal finds one.                                    *)
Confident(s) == s.confidence >= TriggerMin
Triggering == \E s \in SignalsMade : Confident(s)

Publishes(k) ==
  /\ \A j \in desk.left : k <= j
  /\ signalsA' = signalsA \cup {desk.made[k]}

PublishSignal_TriggerFirst ==
  /\ desk.pc = "signals"
  /\ IF Triggering /\ desk.left = Speaking(desk.made) /\ desk.now \notin Elements(triggers)
     THEN triggers' = Append(triggers, desk.now) /\ UNCHANGED <<signalsA, desk>>
     ELSE \E k \in desk.left :
            /\ Publishes(k) /\ UNCHANGED triggers
            /\ desk' = [desk EXCEPT !.left = @ \ {k},
                          !.pc = IF desk.left # {k} THEN "signals" ELSE "logs"]
  /\ UNCHANGED <<offered, read, memory, modelVars, strategyLogs, hitches>>

PublishSignal ==
  /\ desk.pc = "signals"
  /\ \E k \in desk.left :
       /\ Publishes(k)
       /\ desk' = [desk EXCEPT !.left = @ \ {k},
                     !.pc = CASE desk.left # {k} -> "signals"
                              [] desk.left = {k} /\ Triggering -> "trigger"
                              [] OTHER -> "logs"]
  /\ UNCHANGED <<offered, read, memory, triggers, modelVars, strategyLogs, hitches>>

PublishTrigger ==
  /\ desk.pc = "trigger"
  /\ triggers' = Append(triggers, desk.now)
  /\ desk' = [desk EXCEPT !.pc = "logs"]
  /\ UNCHANGED <<offered, read, memory, signalsA, modelVars, strategyLogs, hitches>>

InsertStrategyLogs ==
  /\ desk.pc = "logs"
  /\ strategyLogs' = strategyLogs \cup SignalsMade
  /\ desk' = Handled(desk)
  /\ UNCHANGED <<offered, read, memory, signalsA, triggers, modelVars, hitches>>

(* A call fails for good, whether it was executed or not.                  *)
HandlingFails ==
  /\ desk.pc \in {"signals", "trigger", "logs"} /\ Hitch
  /\ \/ UNCHANGED <<signalsA, triggers, strategyLogs>>
     \/ /\ desk.pc = "signals" /\ \E k \in desk.left : Publishes(k)
        /\ UNCHANGED <<triggers, strategyLogs>>
     \/ /\ desk.pc = "trigger" /\ triggers' = Append(triggers, desk.now)
        /\ UNCHANGED <<signalsA, strategyLogs>>
     \/ /\ desk.pc = "logs" /\ strategyLogs' = strategyLogs \cup SignalsMade
        /\ UNCHANGED <<signalsA, triggers>>
  /\ desk' = Dropped(desk)
  /\ UNCHANGED <<offered, read, memory, modelVars>>

AcknowledgeFeatures ==
  /\ desk.pc = "next" /\ desk.todo = {}
  /\ read' = read \cup desk.done
  /\ desk' = AtRest
  /\ UNCHANGED <<offered, memory, signalsA, triggers, modelVars, strategyLogs, hitches>>

(* A crash, or a pull or an acknowledgement that fails for good.           *)
RuleDies ==
  /\ desk.pc # "dead" /\ Hitch
  /\ desk' = [AtRest EXCEPT !.pc = "dead"]
  /\ memory' = [s \in SymbolsOf |-> Blank]
  /\ UNCHANGED <<offered, read, signalsA, triggers, modelVars, strategyLogs>>

RuleRestarts ==
  /\ desk.pc = "dead" /\ desk' = AtRest
  /\ UNCHANGED <<offered, read, memory, signalsA, triggers, modelVars, strategyLogs, hitches>>
----------------------------------------------------------------------------
(* strategy-ai: each trigger is acknowledged on its own.                   *)
Listening == [pc |-> "next", todo |-> {}, now |-> 0, answer |-> "none"]
Left(b) == [b EXCEPT !.pc = "next", !.now = 0, !.answer = "none"]
Opinion == [trigger |-> bench.now, of |-> triggers[bench.now], action |-> bench.answer]

PullTriggers(S) ==
  /\ bench.pc = "next" /\ bench.todo = {} /\ S # {} /\ S \subseteq DOMAIN triggers
  /\ IF S \cap heeded = {} THEN UNCHANGED hitches ELSE Hitch
  /\ bench' = [bench EXCEPT !.todo = S]
  /\ UNCHANGED <<offered, ruleVars, heeded, asked, signalsB, strategyLogs>>

(* AiStrategy._should_call: features may come out of order.                *)
MayAsk(f) ==
  \/ asked[f.symbol] = 0 \/ f.at < asked[f.symbol]
  \/ f.at - asked[f.symbol] >= MinInterval

AskModel_LeftWhenSilent(k, answer) ==
  LET f == FeatureOf(triggers[k])
      said == MayAsk(f) /\ answer # "none"
  IN  /\ bench.pc = "next" /\ k \in bench.todo
      /\ MayAsk(f) \/ answer = "none"
      /\ asked' = IF MayAsk(f) THEN [asked EXCEPT ![f.symbol] = f.at] ELSE asked
      /\ bench' = IF said
                  THEN [ pc |-> "publish", todo |-> bench.todo \ {k}, now |-> k,
                         answer |-> answer ]
                  ELSE [bench EXCEPT !.todo = @ \ {k}]
      /\ UNCHANGED <<offered, ruleVars, heeded, signalsB, strategyLogs, hitches>>

(* The moment of the call is noted before the model answers.  It may fail, *)
(* answer what does not parse, or HOLD: that is no answer, and no error.   *)
AskModel(k, answer) ==
  LET f == FeatureOf(triggers[k])
      said == MayAsk(f) /\ answer # "none"
  IN  /\ bench.pc = "next" /\ k \in bench.todo
      /\ MayAsk(f) \/ answer = "none"
      /\ asked' = IF MayAsk(f) THEN [asked EXCEPT ![f.symbol] = f.at] ELSE asked
      /\ bench' = [ pc |-> IF said THEN "publish" ELSE "ack",
                    todo |-> bench.todo \ {k}, now |-> k, answer |-> answer ]
      /\ UNCHANGED <<offered, ruleVars, heeded, signalsB, strategyLogs, hitches>>

PublishAnswer ==
  /\ bench.pc = "publish"
  /\ signalsB' = signalsB \cup {Opinion}
  /\ bench' = [bench EXCEPT !.pc = "logs"]
  /\ UNCHANGED <<offered, ruleVars, heeded, asked, strategyLogs, hitches>>

LogAnswer ==
  /\ bench.pc = "logs"
  /\ strategyLogs' = strategyLogs \cup {Opinion}
  /\ bench' = [bench EXCEPT !.pc = "ack"]
  /\ UNCHANGED <<offered, ruleVars, heeded, asked, signalsB, hitches>>

AcknowledgeTrigger ==
  /\ bench.pc = "ack"
  /\ heeded' = heeded \cup {bench.now}
  /\ bench' = Left(bench)
  /\ UNCHANGED <<offered, ruleVars, asked, signalsB, strategyLogs, hitches>>

(* The trigger is left to redelivery; what the process noted stays.        *)
AnswerFails ==
  /\ bench.pc \in {"publish", "logs"} /\ Hitch
  /\ \/ UNCHANGED <<signalsB, strategyLogs>>
     \/ bench.pc = "publish" /\ signalsB' = signalsB \cup {Opinion} /\ UNCHANGED strategyLogs
     \/ bench.pc = "logs" /\ strategyLogs' = strategyLogs \cup {Opinion} /\ UNCHANGED signalsB
  /\ bench' = Left(bench)
  /\ UNCHANGED <<offered, ruleVars, heeded, asked>>

ModelDies ==
  /\ bench.pc # "dead" /\ Hitch
  /\ bench' = [Listening EXCEPT !.pc = "dead"]
  /\ asked' = [s \in SymbolsOf |-> 0]
  /\ UNCHANGED <<offered, ruleVars, heeded, signalsB, strategyLogs>>

ModelRestarts ==
  /\ bench.pc = "dead" /\ bench' = Listening
  /\ UNCHANGED <<offered, ruleVars, heeded, asked, signalsB, strategyLogs, hitches>>

----------------------------------------------------------------------------
StrategyInit ==
  /\ offered \in SUBSET {f.id : f \in Features}
  /\ read = {} /\ desk = AtRest /\ memory = [s \in SymbolsOf |-> Blank]
  /\ signalsA = {} /\ triggers = <<>> /\ heeded = {} /\ bench = Listening
  /\ asked = [s \in SymbolsOf |-> 0] /\ signalsB = {} /\ strategyLogs = {}
  /\ hitches = Hitches

RuleStep ==
  \/ \E S \in SUBSET (offered \ read) : PullFeatures(S)
  \/ \E i \in desk.todo : EvaluateRules(i)
  \/ PublishSignal \/ PublishTrigger \/ InsertStrategyLogs \/ AcknowledgeFeatures
  \/ RuleRestarts

ModelStep ==
  \/ \E S \in SUBSET (DOMAIN triggers \ heeded) : PullTriggers(S)
  \/ \E k \in bench.todo, answer \in {"none", "BUY", "SELL"} : AskModel(k, answer)
  \/ PublishAnswer \/ LogAnswer \/ AcknowledgeTrigger \/ ModelRestarts

StrategyNext ==
  \/ RuleStep \/ ModelStep
  \/ \E S \in SUBSET offered : S \cap read # {} /\ PullFeatures(S)
  \/ \E S \in SUBSET DOMAIN triggers : S \cap heeded # {} /\ PullTriggers(S)
  \/ HandlingFails \/ RuleDies \/ AnswerFails \/ ModelDies

(* Both loops go on, calls are answered, the containers restart, and what  *)
(* is not acknowledged is delivered again.                                 *)
StrategyFairness == WF_strategyVars(RuleStep) /\ WF_strategyVars(ModelStep)

StrategySpec == StrategyInit /\ [][StrategyNext]_strategyVars /\ StrategyFairness

----------------------------------------------------------------------------
(* What a rule says of a message depends on the message alone.             *)
Steady(rule) ==
  rule = "rsi_threshold" \/ (rule = "bollinger_breakout" /\ ~Reclaim)

(* strategy-rule leaves a message whose handling failed to redelivery.     *)
(* For rules that keep no memory this works: once the message is           *)
(* acknowledged, what they say of it is on the topic and in the log, and,  *)
(* if they are confident, the model was asked, whatever calls failed and   *)
(* whatever rules with a memory, which may not repeat themselves, said.    *)
AckedWasSaid ==
  \A i \in read, k \in DOMAIN Enabled :
    LET s == SignalOf(Enabled[k], FeatureOf(i), Blank)
    IN  Steady(Enabled[k]) /\ s.action # "HOLD" =>
          /\ s \in signalsA /\ s \in strategyLogs
          /\ Confident(s) => i \in Elements(triggers)

(* The model speaks only where a confident rule spoke before: what it      *)
(* publishes can be paired, although the two topics are written by two     *)
(* services, and although strategy-rule may fail between its topics.       *)
ModelFollowsRules ==
  \A b \in signalsB : \E a \in signalsA : a.of = b.of /\ Confident(a)

(* Every message of the feature engine is acknowledged in the end, and so  *)
(* is every trigger that comes of one, through failed calls and crashes.   *)
FeaturesAnswered == []<>(offered \subseteq read /\ DOMAIN triggers \subseteq heeded)
=============================================================================
