---------------------------- MODULE ContinuousAto ----------------------------
(***************************************************************************)
(* The continuous authorisation that /metrics reports: the verification of *)
(* the detection rules (core/bas.py), the service levels                   *)
(* (core/monitoring.py), the software components (core/sbom.py), and the   *)
(* gaps and the posture made of them (core/cato.py).                       *)
(*                                                                         *)
(* A ratio is in thousandths.  Tallies by tactic and by threat class, the  *)
(* backlog of remedies, texts, and files that do not parse are left out.   *)
(***************************************************************************)
EXTENDS Integers, FiniteSets

CONSTANTS
  SloRules,   \* slo-rules.yaml: records [metric, operator, threshold, severity]
  Controls,   \* cato-controls.yaml: source -> severity of its first control
  Floor,      \* bas_detection_floor
  Approved,   \* approved-sbom.yaml: component -> [version, hash]
  Missing     \* what is not there: no result, no version, no hash

Counters ==
  {"alerts_total", "eviction_failed_total", "mission_abort_total",
   "killchain_advanced_total"}

(* Thresholds are in the unit of their metric.                             *)
ASSUME AtoAssumption ==
  /\ \A r \in SloRules : r.threshold \in Int
  /\ Floor \in Nat

-----------------------------------------------------------------------------
(* Verification of the rules.  A scenario is a record of what its rule is. *)

Detected(s) == s.status = "deployed" /\ s.signals # {} /\ s.rule # Missing

(* round(n / total, 3), and 0 of nothing *)
Ratio(n, total) == IF total = 0 THEN 0 ELSE (2000 * n + total) \div (2 * total)

RunBas(scenarios) ==
  LET detected == {s \in scenarios : Detected(s)}
      native   == {s \in detected : s.instrumentation = "native"}
  IN  [detection_ratio |-> Ratio(Cardinality(detected), Cardinality(scenarios)),
       readiness_ratio |-> Ratio(Cardinality(native), Cardinality(scenarios)),
       gaps            |-> scenarios \ detected,
       quality_gaps    |-> detected \ native]

-----------------------------------------------------------------------------
(* Service levels. *)

(* A metric that cannot be read is left out, and so is the hit ratio of    *)
(* predictions before the first of them is judged.  The counters run from  *)
(* the start of the process; "read" holds what was read beside them.       *)
Snapshot(counters, judged, read) ==
  LET unjudged == IF judged.hits + judged.misses = 0 THEN {"prediction_hit_ratio"} ELSE {}
  IN  [m \in (Counters \cup DOMAIN read \cup {"prediction_hit_ratio"}) \ unjudged |->
         IF m \in Counters THEN counters[m]
         ELSE IF m = "prediction_hit_ratio" THEN Ratio(judged.hits, judged.hits + judged.misses)
         ELSE read[m]]

BasMetrics(bas) ==
  [m \in {"bas_detection_ratio", "bas_readiness_ratio"} |->
     IF m = "bas_detection_ratio" THEN bas.detection_ratio ELSE bas.readiness_ratio]

(* Techniques count once for each tactic they are filed under. *)
CoverageMetrics(matrix, native) ==
  LET filed(list) == UNION {{r.tactic} \X r[list] : r \in matrix}
      covered == filed("covered")
      scored  == {x \in covered : x[2] \in native}
      total   == Cardinality(covered) + Cardinality(filed("planned"))
                   + Cardinality(filed("uncovered"))
  IN  [m \in {"attack_coverage_ratio", "attack_quality_adjusted_ratio"} |->
         Ratio(Cardinality(IF m = "attack_coverage_ratio" THEN covered ELSE scored), total)]

RunbookMetrics(runbooks) ==
  LET generated == {b \in runbooks : b.detail = "generated"}
      curated   == {b \in runbooks : b.detail = "curated"}
  IN  [m \in {"runbook_readiness_ratio", "runbook_generated_total"} |->
         IF m = "runbook_generated_total" THEN Cardinality(generated)
         ELSE Ratio(Cardinality(curated), Cardinality(runbooks))]

Violates(actual, rule) ==
  \/ rule.operator = "lt" /\ actual < rule.threshold
  \/ rule.operator = "gt" /\ actual > rule.threshold

Breaches(values) ==
  {r \in SloRules : r.metric \in DOMAIN values /\ Violates(values[r.metric], r)}

-----------------------------------------------------------------------------
(* Software components. *)

SbomFinding(name, issue, cve) == [component |-> name, issue |-> issue, cve |-> cve]

(* A hash that was not observed counts as a wrong one. *)
Integrity(c) ==
  LET entry == Approved[c.name]
  IN  {f \in {SbomFinding(c.name, "version_mismatch", Missing)} :
         entry.version # Missing /\ c.version # entry.version}
      \cup {f \in {SbomFinding(c.name, "tampered", Missing)} :
              entry.hash # Missing /\ c.hash # entry.hash}

(* The vulnerabilities of what is not registered are not looked up. *)
VerifySbom(components, exploited) ==
  UNION {IF c.name \notin DOMAIN Approved THEN {SbomFinding(c.name, "unregistered", Missing)}
         ELSE Integrity(c) \cup {SbomFinding(c.name, "vulnerable", v) : v \in c.cves \cap exploited}
         : c \in components}

-----------------------------------------------------------------------------
(* Gaps and posture. *)

SevRank == [low |-> 1, medium |-> 2, high |-> 3]

PoamItem(source, severity, gap) == [source |-> source, severity |-> severity, gap |-> gap]

(* What counts against the floor. *)
MeasuredRatio(bas) ==
  IF bas.quality_gaps # {} THEN bas.readiness_ratio ELSE bas.detection_ratio

BasGap(bas) ==
  IF bas = Missing THEN {}
  ELSE {p \in {PoamItem("bas", Controls["bas"], bas.gaps)} :
          "bas" \in DOMAIN Controls /\ MeasuredRatio(bas) < Floor}

(* A severity the controls do not know is high. *)
SloGaps(breaches) ==
  {PoamItem("slo", IF b.severity \in DOMAIN SevRank THEN b.severity ELSE "high", b) :
     b \in {b \in breaches : "slo" \in DOMAIN Controls}}

SbomSeverity == [tampered |-> "high", vulnerable |-> "high", unregistered |-> "medium"]

SbomGaps(findings) ==
  {PoamItem("sbom", IF f.issue \in DOMAIN SbomSeverity THEN SbomSeverity[f.issue] ELSE "high", f) :
     f \in {f \in findings : "sbom" \in DOMAIN Controls}}

RankOf(severity) == IF severity \in DOMAIN SevRank THEN SevRank[severity] ELSE SevRank.high

Authorize(poam) ==
  IF poam = {} THEN "authorized"
  ELSE IF \E p \in poam : RankOf(p.severity) >= SevRank.high THEN "at_risk"
  ELSE "conditional"

Gapped(bas, breaches, findings) == BasGap(bas) \cup SloGaps(breaches) \cup SbomGaps(findings)

AssessAto(bas, breaches, findings) ==
  [authorization |-> Authorize(Gapped(bas, breaches, findings)),
   poam |-> Gapped(bas, breaches, findings)]

(* What a scrape shows: the components are not looked at, and the report   *)
(* of the rules is also among the metrics.                                 *)
Scrape(scenarios, counters, judged, read) ==
  LET bas  == RunBas(scenarios)
      seen == [m \in DOMAIN read \cup DOMAIN BasMetrics(bas) |->
                 IF m \in DOMAIN BasMetrics(bas) THEN BasMetrics(bas)[m] ELSE read[m]]
  IN  AssessAto(bas, Breaches(Snapshot(counters, judged, seen)), {})
=============================================================================
