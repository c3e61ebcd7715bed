------------------------- MODULE OpportunityRouter --------------------------
(***************************************************************************)
(* The opportunity router: a cohort of candidates is decided under one     *)
(* policy, the entries beyond its capacity are turned away by the policy's *)
(* rule, and the decisions are appended to a file.                         *)
(*                                                                         *)
(* Routing is pure, and append_all holds an exclusive lock from its first  *)
(* read to its last write, so one action is both, whichever process it is  *)
(* of.  A write that breaks off leaves the beginning of its text: lines,   *)
(* and perhaps a piece of one, or a whole one without its newline.  What   *)
(* is left in a buffer then is not written later.                          *)
(*                                                                         *)
(* The hash of a contract or a population is whether it is intact.  Nobody *)
(* else writes to the file: the chain of hashes, which would show that, is *)
(* left out.  Decisions sorted by their hashed id are sorted by candidate. *)
(***************************************************************************)
EXTENDS Integers, SequencesExt, FiniteSetsExt

CONSTANTS
  Policy, Population,
  Cohorts,        \* sequences of candidates that are handed to the router
  NoPlaybook, NoRule, NoLimit, NoSector,
  Torn, Joined,   \* lines that are no record: a piece, and two run together
  WriteBreaks     \* bound on the writes that break off

ASSUME RouterAssumption ==
  /\ Policy.maxEntries \in Nat \ {0} /\ WriteBreaks \in Nat
  /\ Policy.effective < Policy.expires /\ Cardinality(DOMAIN Policy.playbooks) <= 3
  /\ Policy.rule # NoRule =>
       /\ Policy.rule.instrumentLimit \in Nat \ {0}
       /\ Policy.rule.sectorLimit \in (Nat \ {0}) \cup {NoLimit}
       /\ Len(Policy.rule.priority) \in Nat
  /\ \A cohort \in Cohorts :
       /\ DOMAIN cohort = 1 .. Len(cohort) /\ Len(cohort) \in Nat
       /\ \A c \in Range(cohort) :
            /\ c.id \in Int /\ c.priority \in Int /\ c.duplicate \in BOOLEAN
            /\ "id" \in DOMAIN c /\ c = [c EXCEPT !.duplicate = c.duplicate]

VARIABLES
  file,          \* the lines of the ledger
  newline,       \* whether the last one ends with its newline
  writeBreaks,
  returned,      \* history: the records append_all has returned
  routed         \* history: the cohorts it has returned them for

routerVars == <<file, newline, writeBreaks, returned, routed>>

----------------------------------------------------------------------------
(* evaluate_candidate: the checks in their order, and what each leads to.  *)
Checks(c) ==
  LET admitted == DOMAIN Policy.playbooks
      known    == Len(c.matched) = 1 /\ c.matched[1] \in admitted
  IN <<
   <<~Policy.intact, "POLICY_DISABLED", "POLICY_HASH_MISMATCH">>,
   <<~Policy.intake.intact, "POLICY_DISABLED", "INTAKE_CONTRACT_HASH_MISMATCH">>,
   <<\E b \in admitted : ~Policy.playbooks[b].intact,
     "POLICY_DISABLED", "PLAYBOOK_HASH_MISMATCH">>,
   <<~Policy.enabled, "POLICY_DISABLED", "POLICY_DISABLED">>,
   <<c.at < Policy.effective, "POLICY_DISABLED", "POLICY_NOT_EFFECTIVE">>,
   <<c.at >= Policy.expires, "POLICY_DISABLED", "POLICY_EXPIRED">>,
   <<admitted = {}, "POLICY_DISABLED", "NO_ADMITTED_PLAYBOOKS">>,
   <<{c.intake, Population.version} # {Policy.intake.version},
     "NO_TRADE", "INTAKE_VERSION_MISMATCH">>,
   <<Population.contract # Policy.intake.contract,
     "NO_TRADE", "INTAKE_CONTRACT_HASH_MISMATCH">>,
   <<~Population.intact \/ c.population # Population.hash,
     "NO_TRADE", "POPULATION_HASH_MISMATCH">>,
   <<c.id \notin Population.candidates \/ c.instrument \notin Population.instruments,
     "NO_TRADE", "CANDIDATE_NOT_IN_POPULATION">>,
   <<c.at > c.until, "EXPIRED", "CANDIDATE_EXPIRED">>,
   <<c.cutoff > c.at, "NO_TRADE", "EVIDENCE_CUTOFF_AFTER_DECISION">>,
   <<c.duplicate, "DUPLICATE", "DUPLICATE_CANDIDATE">>,
   <<c.matched = <<>>, "NO_TRADE", "NO_PLAYBOOK_MATCH">>,
   <<Len(c.matched) > 1, "NO_TRADE", "AMBIGUOUS_PLAYBOOK">>,
   <<~known, "NO_TRADE", "PLAYBOOK_NOT_ADMITTED">>,
   <<known /\ ~Policy.playbooks[c.matched[1]].enabled, "NO_TRADE", "PLAYBOOK_DISABLED">> >>

Decided(c, playbook, kind, reasons, class) ==
  [ id |-> <<c.id, playbook, c.cutoff>>, candidate |-> [c EXCEPT !.duplicate = FALSE],
    playbook |-> playbook, kind |-> kind, reasons |-> reasons, class |-> class ]

Evaluate(c) ==
  LET failed == {i \in DOMAIN Checks(c) : Checks(c)[i][1]}
      first  == Checks(c)[Min(failed)]
      gates  == {g \in DOMAIN c.gates : c.gates[g] # "PASS"}
      proper == \/ \E g \in gates : c.gates[g] = "UNKNOWN"
                \/ gates \cap {"execution", "portfolio_precheck"} # {}
  IN  IF failed # {}
      THEN Decided(c, IF first[3] = "PLAYBOOK_DISABLED" THEN c.matched[1] ELSE NoPlaybook,
             first[2], {<<first[3]>>},
             IF first[3] \in {"NO_PLAYBOOK_MATCH", "AMBIGUOUS_PLAYBOOK", "PLAYBOOK_NOT_ADMITTED"}
             THEN "POLICY_EVALUABLE" ELSE "ADMINISTRATIVE_TERMINAL")
      ELSE IF gates # {}
      THEN Decided(c, c.matched[1], "NO_TRADE", {<<g, c.gates[g]>> : g \in gates},
             IF proper THEN "ECONOMIC_ONLY_NOT_EXECUTABLE" ELSE "POLICY_EVALUABLE")
      ELSE Decided(c, c.matched[1], "ENTER_SHADOW", {<<"ALL_GATES_PASS">>}, "POLICY_EVALUABLE")

----------------------------------------------------------------------------
(* route_batch.                                                            *)

Enters(d) == d.kind = "ENTER_SHADOW"
CapacityRejection(d, reason) == [d EXCEPT !.kind = "NO_TRADE", !.reasons = {<<reason>>}]

RankOf(playbook) == SelectInSeq(Policy.rule.priority, LAMBDA b : b = playbook)

Before_ByPriority(d, e) ==
  \/ RankOf(d.playbook) < RankOf(e.playbook)
  \/ RankOf(d.playbook) = RankOf(e.playbook) /\ d.candidate.priority < e.candidate.priority

Before(d, e) ==
  \/ RankOf(d.playbook) < RankOf(e.playbook)
  \/ /\ RankOf(d.playbook) = RankOf(e.playbook)
     /\ \/ d.candidate.priority < e.candidate.priority
        \/ d.candidate.priority = e.candidate.priority /\ d.candidate.id < e.candidate.id

(* The elements at the chosen places of a sequence, in their order.        *)
Nth(chosen, k) == CHOOSE i \in chosen : Cardinality(chosen \cap (1 .. i)) = k
Picked(s, chosen) == [k \in 1 .. Cardinality(chosen) |-> s[Nth(chosen, k)]]

(* Python's sort: what is neither before nor after stays in its order.     *)
PlaceOf(i, s, before) ==
  Cardinality({j \in DOMAIN s : \/ <<s[j], s[i]>> \in before
                                \/ j <= i /\ <<s[i], s[j]>> \notin before})

Sorted(s, before) ==
  [p \in DOMAIN s |-> s[CHOOSE i \in DOMAIN s : PlaceOf(i, s, before) = p]]

(* The rule's limits, one entry after the other.                           *)
Admit(taken, d) ==
  LET counted(field) ==
        Cardinality({i \in DOMAIN taken : taken[i].candidate[field] = d.candidate[field]})
  IN  IF \/ Cardinality({t.id : t \in Range(taken)}) >= Policy.maxEntries
         \/ counted("instrument") >= Policy.rule.instrumentLimit
         \/ /\ Policy.rule.sectorLimit # NoLimit /\ d.candidate.sector # NoSector
            /\ counted("sector") >= Policy.rule.sectorLimit
      THEN taken ELSE Append(taken, d)

Eligible(decisions) == Picked(decisions, {i \in DOMAIN decisions : Enters(decisions[i])})

Resolved(decisions) ==
  LET eligible == Eligible(decisions)
      ranked   == Sorted(eligible,
                    {p \in Range(eligible) \X Range(eligible) : Before(p[1], p[2])})
      taken    == FoldLeft(Admit, <<>>, ranked)
      rejects(d, reason) == IF Enters(d) THEN CapacityRejection(d, reason) ELSE d
      answer(d) ==
        IF Policy.rule = NoRule THEN rejects(d, "CAPACITY_RULE_MISSING")
        ELSE IF \E e \in Range(eligible) : RankOf(e.playbook) = 0
        THEN rejects(d, "CAPACITY_PRIORITY_MISSING")
        ELSE IF d.id \in {t.id : t \in Range(taken)} THEN d
        ELSE rejects(d, "CAPACITY_REJECTED")
  IN  IF Len(eligible) <= Policy.maxEntries THEN decisions
      ELSE [i \in DOMAIN decisions |-> answer(decisions[i])]

Evaluated(cohort) == [i \in DOMAIN cohort |-> Evaluate(cohort[i])]

RouteBatch(cohort) ==
  LET resolved == Resolved(Evaluated(cohort))
  IN  Sorted(resolved, {p \in Range(resolved) \X Range(resolved) :
                          p[1].candidate.id < p[2].candidate.id})

Batches == [cohort \in Cohorts |-> RouteBatch(cohort)]

----------------------------------------------------------------------------
(* DecisionLedger.                                                         *)

IsRecord(i) == file[i] \notin {Torn, Joined}

(* _read_records goes through: every line is a record of its place.        *)
Readable ==
  /\ \A i \in DOMAIN file : IsRecord(i)
  /\ \A i \in DOMAIN file :
       /\ file[i].sequence = i
       /\ \A j \in 1 .. i - 1 : file[j].decision.id # file[i].decision.id

Recorded(d) == {r \in Range(file) : r.decision.id = d.id}

Conflicts(batch) ==
  \E i \in DOMAIN batch :
    \/ \E r \in Recorded(batch[i]) : r.decision # batch[i]
    \/ \E j \in 1 .. i - 1 : batch[j].id = batch[i].id /\ batch[j] # batch[i]

(* The records of the decisions that are new, each once.                   *)
NewRecords(batch) ==
  LET fresh == Picked(batch, {i \in DOMAIN batch :
                                /\ Recorded(batch[i]) = {}
                                /\ \A j \in 1 .. i - 1 : batch[j] # batch[i]})
  IN  [k \in DOMAIN fresh |-> [sequence |-> Len(file) + k, decision |-> fresh[k]]]

(* Opened for appending: the first of the lines goes on where the file     *)
(* ends.                                                                   *)
FileWith_Truncated(lines) == IF lines = <<>> THEN file ELSE lines

FileWith(lines) ==
  IF newline \/ lines = <<>> THEN file \o lines
  ELSE Front(file) \o <<Joined>> \o Tail(lines)

AppendAll(cohort) ==
  LET batch == Batches[cohort]
      new   == NewRecords(batch)
  IN  /\ Readable /\ ~Conflicts(batch)
      /\ file' = FileWith(new)
      /\ newline' = (newline \/ new # <<>>)
      /\ returned' = returned \cup Range(new) \cup UNION {Recorded(d) : d \in Range(batch)}
      /\ routed' = routed \cup {cohort}
      /\ UNCHANGED writeBreaks

(* The process ends, or a write or the fsync fails, and the caller has     *)
(* nothing.                                                                *)
AppendBreaks(cohort) ==
  LET new == NewRecords(Batches[cohort])
  IN  /\ Readable /\ ~Conflicts(Batches[cohort]) /\ new # <<>>
      /\ writeBreaks > 0 /\ writeBreaks' = writeBreaks - 1
      /\ \E k \in 0 .. Len(new) :
           LET whole == SubSeq(new, 1, k)
           IN  \/ file' = FileWith(whole) /\ newline' = (newline \/ k > 0)
               \/ k > 0 /\ file' = FileWith(whole) /\ newline' = FALSE
               \/ k < Len(new) /\ file' = FileWith(Append(whole, Torn)) /\ newline' = FALSE
      /\ UNCHANGED <<returned, routed>>

RouterInit ==
  /\ file = <<>> /\ newline = TRUE /\ writeBreaks = WriteBreaks
  /\ returned = {} /\ routed = {}

RouterNext == \E cohort \in Cohorts : AppendAll(cohort) \/ AppendBreaks(cohort)

RouterSpec == RouterInit /\ [][RouterNext]_routerVars

----------------------------------------------------------------------------
(* A record that append_all has returned, of its own or of an earlier      *)
(* write, stays in the file, in its place and as it was, however writes    *)
(* break off.  Excepted is what follows a line that one of them left       *)
(* without its newline: it reads as a record and is returned as one, the   *)
(* next record is written onto it and returned as well, and from there on  *)
(* nothing can be read again.                                              *)
ReturnedIsKept ==
  \A r \in returned :
    (\A i \in DOMAIN file : file[i] = Joined => i > r.sequence) =>
      r.sequence \in DOMAIN file /\ file[r.sequence] = r

(* What a rule means: of the entries of an instrument the best, of those   *)
(* of a sector the best, and of these the best, as many as its limits let  *)
(* in.  A rule that does not rank each of the entries lets none in.        *)
Better(d, e) ==
  LET key(f) == <<RankOf(f.playbook), f.candidate.priority, f.candidate.id>>
  IN  \E i \in 1 .. 3 : key(d)[i] < key(e)[i] /\ \A j \in 1 .. i - 1 : key(d)[j] = key(e)[j]

Foremost(entries, limit, Rivals(_, _)) ==
  {d \in entries : Cardinality({e \in entries : Rivals(e, d) /\ Better(e, d)}) < limit}

OfInstruments(entries) ==
  Foremost(entries, Policy.rule.instrumentLimit,
           LAMBDA d, e : d.candidate.instrument = e.candidate.instrument)

OfSectors(entries) ==
  IF Policy.rule.sectorLimit = NoLimit THEN entries
  ELSE Foremost(entries, Policy.rule.sectorLimit,
                LAMBDA d, e : d.candidate.sector = e.candidate.sector /\ e.candidate.sector # NoSector)

Best(entries) ==
  Foremost(OfSectors(OfInstruments(entries)), Policy.maxEntries, LAMBDA d, e : TRUE)

Expected ==
  [ cohort \in Cohorts |->
      LET eligible == Eligible(Evaluated(cohort))
          entries  == Range(eligible)
      IN  IF Len(eligible) <= Policy.maxEntries THEN entries
          ELSE IF Policy.rule = NoRule \/ \E d \in entries : RankOf(d.playbook) = 0 THEN {}
          ELSE Best(entries) ]

(* What the cohorts are taken to be: a candidate is known by its id and an *)
(* instrument has one sector; and a candidate that comes twice, and is not *)
(* marked as a duplicate, does not take the room of another, for it finds  *)
(* its own instrument taken.                                               *)
CohortsAreNamed ==
  \A cohort \in Cohorts : \A i, j \in DOMAIN cohort :
    LET c == cohort[i]
        e == cohort[j]
    IN  ~c.duplicate /\ ~e.duplicate =>
          /\ c.id = e.id => c = e
          /\ c.instrument = e.instrument => c.sector = e.sector
          /\ Policy.rule # NoRule /\ Policy.rule.instrumentLimit > 1 /\ c.id = e.id => i = j

(* Of a cohort that was answered, in whatever order it came, the ledger    *)
(* has the best as its entries and no others; all of them, when they are   *)
(* within the capacity, counting candidates that came twice.  What other   *)
(* cohorts made of a candidate does not change that.                       *)
EntriesAreTheBest ==
  LET entries == {r.decision : r \in {s \in returned : Enters(s.decision)}}
  IN  \A cohort \in routed :
        {d \in entries : d.candidate \in Range(cohort)} = Expected[cohort]
=============================================================================
