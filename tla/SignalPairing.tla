--------------------------- MODULE SignalPairing ----------------------------
(***************************************************************************)
(* The aggregator's ordinary signals: two subscriptions are pulled into a  *)
(* buffer of buckets; a bucket that holds both sources, or whose window    *)
(* has passed, is taken out and merged, and what came of a batch of them   *)
(* is published, then logged, and only then acknowledged, subscription a   *)
(* before subscription b.  Any error ends the process and its buffer.      *)
(*                                                                         *)
(* A bucket stands for symbol, time and candidate; confidences are small   *)
(* numbers, with equal weights.  The window may pass at any moment.  The   *)
(* event-paper signals are EventPaperDispatch's.                           *)
(***************************************************************************)
EXTENDS Integers, FiniteSetsExt

CONSTANTS
  Halves,        \* the strategy signals sent
  AloneMin,      \* min_confidence_rule_only and min_confidence_ai_only
  ConsensusMin,  \* min_confidence_consensus
  NoHalf,        \* a source that is missing, and a merge without a result
  Breaks         \* bound on errors and crashes

Half == [id : Nat, bucket : Nat, origin : {"a", "b"}, source : {"RULE", "AI"},
         action : {"BUY", "SELL"}, confidence : Nat]

ASSUME PairingAssumption ==
  Halves \subseteq Half /\ NoHalf \notin Half /\ Breaks \in Nat

VARIABLES
  sent,          \* signals published by the strategies
  settled,       \* signals acknowledged
  buffer,        \* PairingBuffer._entries
  emit,          \* the batch in hand, and how far it got
  unified,       \* signals published on trade-signals
  logs,          \* aggregator_logs
  breaks,        \* errors and crashes left
  decisions      \* history: the buckets taken out and what came of them

pairingVars == <<sent, settled, buffer, emit, unified, logs, breaks, decisions>>

Waiting == [pc |-> "pull", publish |-> {}, log |-> {}, ack |-> {}]

BucketOf(k) == {h \in buffer : h.bucket = k}
Buckets == {h.bucket : h \in buffer}
Complete(S) == {h.source : h \in S} = {"RULE", "AI"}

(* _pick_dominant: sources that disagree with themselves count as missing. *)
Dominant(S, source) ==
  LET mine == {h \in S : h.source = source}
  IN  IF mine = {} \/ Cardinality({h.action : h \in mine}) > 1 THEN NoHalf
      ELSE CHOOSE h \in mine : \A g \in mine : h.confidence >= g.confidence

(* aggregate, with conflicts skipped.                                      *)
Merge(S) ==
  LET rule == Dominant(S, "RULE")
      ai   == Dominant(S, "AI")
      only == IF rule = NoHalf THEN ai ELSE rule
      pair == rule # NoHalf /\ ai # NoHalf
  IN  IF \/ only = NoHalf
         \/ pair /\ rule.action # ai.action
         \/ pair /\ rule.confidence + ai.confidence < 2 * ConsensusMin
         \/ ~pair /\ only.confidence < AloneMin
      THEN NoHalf
      ELSE [rule |-> rule, ai |-> ai, action |-> only.action]

----------------------------------------------------------------------------
SendHalf(h) ==
  /\ h \in Halves \ sent /\ sent' = sent \cup {h}
  /\ UNCHANGED <<settled, buffer, emit, unified, logs, breaks, decisions>>

(* run_once pulls what it is given, buffered already or not.               *)
PullHalves(S) ==
  /\ emit.pc = "pull" /\ S \subseteq sent \ settled
  /\ buffer' = buffer \cup S
  /\ emit' = [emit EXCEPT !.pc = "drain"]
  /\ UNCHANGED <<sent, settled, unified, logs, breaks, decisions>>

Drain_CompleteOnly(B) ==
  LET merged == {Merge(BucketOf(k)) : k \in B} \ {NoHalf}
  IN  /\ emit.pc = "drain" /\ B \subseteq Buckets
      /\ \A k \in Buckets : Complete(BucketOf(k)) <=> k \in B
      /\ buffer' = {h \in buffer : h.bucket \notin B}
      /\ emit' = IF B = {} THEN Waiting
                 ELSE [pc |-> "filter", publish |-> merged, log |-> merged,
                       ack |-> {h \in buffer : h.bucket \in B}]
      /\ decisions' = decisions \cup
           {[halves |-> BucketOf(k), result |-> Merge(BucketOf(k))] : k \in B}
      /\ UNCHANGED <<sent, settled, unified, logs, breaks>>

(* drain_ready, and the merges of _emit.                                   *)
Drain(B) ==
  LET merged == {Merge(BucketOf(k)) : k \in B} \ {NoHalf}
  IN  /\ emit.pc = "drain" /\ B \subseteq Buckets
      /\ \A k \in Buckets : Complete(BucketOf(k)) => k \in B
      /\ buffer' = {h \in buffer : h.bucket \notin B}
      /\ emit' = IF B = {} THEN Waiting
                 ELSE [pc |-> "filter", publish |-> merged, log |-> merged,
                       ack |-> {h \in buffer : h.bucket \in B}]
      /\ decisions' = decisions \cup
           {[halves |-> BucketOf(k), result |-> Merge(BucketOf(k))] : k \in B}
      /\ UNCHANGED <<sent, settled, unified, logs, breaks>>

Filter_AcksFirst(kept) ==
  /\ emit.pc = "filter"
  /\ kept \subseteq emit.publish
  /\ \A u \in emit.publish \ kept : u.action = "SELL"
  /\ emit' = [emit EXCEPT !.pc = "ack", !.publish = kept, !.log = kept]
  /\ decisions' = {IF d.result \in emit.publish \ kept
                   THEN [d EXCEPT !.result = NoHalf] ELSE d : d \in decisions}
  /\ UNCHANGED <<sent, settled, buffer, unified, logs, breaks>>

(* _filter_sell_without_position: which symbols are held is read anew.     *)
Filter(kept) ==
  /\ emit.pc = "filter"
  /\ kept \subseteq emit.publish
  /\ \A u \in emit.publish \ kept : u.action = "SELL"
  /\ emit' = [emit EXCEPT !.pc = "publish", !.publish = kept, !.log = kept]
  /\ decisions' = {IF d.result \in emit.publish \ kept
                   THEN [d EXCEPT !.result = NoHalf] ELSE d : d \in decisions}
  /\ UNCHANGED <<sent, settled, buffer, unified, logs, breaks>>

PublishUnified(u) ==
  /\ emit.pc = "publish" /\ u \in emit.publish
  /\ unified' = unified \cup {u}
  /\ emit' = [emit EXCEPT !.publish = @ \ {u}]
  /\ UNCHANGED <<sent, settled, buffer, logs, breaks, decisions>>

(* The upsert by signal_id; an empty batch writes nothing.                 *)
InsertLogs ==
  /\ emit.pc = "publish" /\ emit.publish = {}
  /\ logs' = logs \cup emit.log
  /\ emit' = [emit EXCEPT !.pc = "ack"]
  /\ UNCHANGED <<sent, settled, buffer, unified, breaks, decisions>>

AckHalves(origin) ==
  LET mine == {h \in emit.ack : h.origin = origin}
  IN  /\ emit.pc = "ack" /\ mine # {}
      /\ origin = "b" => ~\E h \in emit.ack : h.origin = "a"
      /\ settled' = settled \cup mine
      /\ emit' = IF mine = emit.ack THEN Waiting ELSE [emit EXCEPT !.ack = @ \ mine]
      /\ UNCHANGED <<sent, buffer, unified, logs, breaks, decisions>>

(* Whatever was in hand may have been executed.                            *)
Breakdown ==
  /\ emit.pc # "down" /\ breaks > 0 /\ breaks' = breaks - 1
  /\ \/ UNCHANGED <<unified, logs, settled>>
     \/ /\ emit.pc = "publish"
        /\ \/ \E u \in emit.publish : unified' = unified \cup {u} /\ UNCHANGED logs
           \/ emit.publish = {} /\ logs' = logs \cup emit.log /\ UNCHANGED unified
        /\ UNCHANGED settled
     \/ /\ emit.pc = "ack"
        /\ settled' = settled \cup (IF \E h \in emit.ack : h.origin = "a"
             THEN {h \in emit.ack : h.origin = "a"} ELSE emit.ack)
        /\ UNCHANGED <<unified, logs>>
  /\ buffer' = {} /\ emit' = [Waiting EXCEPT !.pc = "down"]
  /\ UNCHANGED <<sent, decisions>>

AggregatorRestarts ==
  /\ emit.pc = "down" /\ emit' = Waiting
  /\ UNCHANGED <<sent, settled, buffer, unified, logs, breaks, decisions>>

PairingInit ==
  /\ sent = {} /\ settled = {} /\ buffer = {} /\ emit = Waiting
  /\ unified = {} /\ logs = {} /\ breaks = Breaks /\ decisions = {}

EmitStep ==
  \/ \E kept \in SUBSET emit.publish : Filter(kept)
  \/ \E u \in emit.publish : PublishUnified(u)
  \/ InsertLogs \/ \E origin \in {"a", "b"} : AckHalves(origin)
  \/ AggregatorRestarts

PairingNext ==
  \/ \E h \in Halves : SendHalf(h)
  \/ \E S \in SUBSET Halves : PullHalves(S)
  \/ \E B \in SUBSET Buckets : Drain(B)
  \/ EmitStep \/ Breakdown

(* The loop goes on, calls are answered, the container restarts; as long   *)
(* as signals are not acknowledged some are delivered again, and the       *)
(* windows of what is buffered pass.                                       *)
PairingFairness ==
  /\ WF_pairingVars(EmitStep) /\ WF_pairingVars(\E B \in SUBSET Buckets : Drain(B))
  /\ SF_pairingVars(\E S \in SUBSET Halves : S # {} /\ PullHalves(S))
  /\ SF_pairingVars(\E B \in SUBSET Buckets : B # {} /\ Drain(B))

PairingSpec == PairingInit /\ [][PairingNext]_pairingVars /\ PairingFairness

----------------------------------------------------------------------------
(* A signal is acknowledged only after its bucket was decided with it in,  *)
(* and what came of the bucket, if anything, was published and is in the   *)
(* log: however a batch of buckets breaks off, and whatever is delivered   *)
(* again, no opinion is lost between the two topics.                       *)
AckedWasDecided ==
  \A h \in settled : \E d \in decisions :
    h \in d.halves /\ (d.result # NoHalf => d.result \in unified /\ d.result \in logs)

(* Every signal is acknowledged in the end, alone or paired, through       *)
(* errors in any call, crashes and redelivery: again and again nothing     *)
(* that was sent is left over.                                             *)
HalvesAcknowledged == []<>(sent \subseteq settled)
=============================================================================
