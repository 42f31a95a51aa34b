------------------------ MODULE MC_ReleasePipeline ------------------------
(***************************************************************************)
(* Three revisions: one that withstands everything, one whose memory can   *)
(* be poisoned but passes the domain gates, and one that misses attacks    *)
(* and does not repeat its results.  The second is in production; another  *)
(* may have been campaigned against before it, so that a finding can be    *)
(* registered, closed by hand, and meet its relapse within three pushes.   *)
(* Deployments start from main and one more branch.  Of the entries that   *)
(* close an item the one that should not is taken, of the labels of people *)
(* one that the gate alone knows.                                          *)
(***************************************************************************)
EXTENDS ReleasePipeline, ContinuousAto

CONSTANTS clean, leaky, blind

Measured(robust, attack, mimicry, recall, downgrade) ==
  [measured |-> {"fp", "atlas", "kpi"}, repeatable |-> TRUE,
   robust |-> robust, naive |-> 100, attack |-> attack, mimicry |-> mimicry,
   downgrade |-> [suggested_severity |-> downgrade, poisoned_context |-> 0],
   garak |-> [dan |-> [failed |-> 5, total |-> 100]],
   pyrit |-> {},
   fpRate |-> 0, recallPreserved |-> TRUE, precision |-> 90, recall |-> recall]

MCResults ==
  [r \in {clean, leaky, blind} |->
     CASE r = clean -> Measured(0, 0, 0, 85, 0)
       [] r = leaky -> [Measured(20, 0, 0, 90, 0) EXCEPT !.garak.dan.failed = 6, !.fpRate = None]
       [] r = blind -> [Measured(0, 0, 33, 84, 0) EXCEPT !.repeatable = FALSE]]

MCGaps == [g1 |-> "implemented", g2 |-> "planned"]

\* Authorisation: the rules and levels as shipped, one of each kind.
Level(metric, operator, threshold, severity) ==
  [metric |-> metric, operator |-> operator, threshold |-> threshold, severity |-> severity]
MCSloRules ==
  {Level("bas_detection_ratio", "lt", 900, "critical"), Level("bas_readiness_ratio", "lt", 900, "warning"),
   Level("prediction_hit_ratio", "lt", 500, "warning"), Level("alerts_total", "gt", 1, "warning"),
   Level("runbook_readiness_ratio", "lt", 800, "warning")}
MCControls == [bas |-> "high", slo |-> "medium", sbom |-> "medium"]
MCApproved == [os |-> [version |-> "1", hash |-> "a"], lib |-> [version |-> Missing, hash |-> Missing]]
MCScenarios ==
  {[id |-> 1, status |-> "deployed", signals |-> {"s"}, rule |-> "r", instrumentation |-> "native"],
   [id |-> 2, status |-> "deployed", signals |-> {"s"}, rule |-> "r", instrumentation |-> "proxy"],
   [id |-> 3, status |-> "planned", signals |-> {"s"}, rule |-> "r", instrumentation |-> "native"]}
MCRunbooks == {[id |-> 1, detail |-> "curated"], [id |-> 2, detail |-> "generated"]}

\* Nothing on a scrape is conditional, and only what is native counts.
ASSUME \A S \in SUBSET MCScenarios, n \in 0..2, h \in 0..1, m \in 0..1, B \in SUBSET MCRunbooks :
  LET seen == Scrape(S, [c \in Counters |-> n], [hits |-> h, misses |-> m], RunbookMetrics(B))
  IN  seen.authorization =
        IF /\ S # {} /\ \A s \in S : s.id = 1
           /\ n <= 1 /\ h >= m /\ B = {b \in MCRunbooks : b.id = 1}
        THEN "authorized" ELSE "at_risk"

\* Of the components alone an authorisation may be conditional.
ASSUME \A name \in {"os", "lib", "other"}, version \in {"1", "2"}, hash \in {"a", Missing} :
  LET c == [name |-> name, version |-> version, hash |-> hash, cves |-> {"cve"}]
      says(exploited) == AssessAto(Missing, {}, VerifySbom({c}, exploited)).authorization
  IN  /\ says({}) = IF name = "other" THEN "conditional"
                    ELSE IF name = "lib" \/ (version = "1" /\ hash = "a") THEN "authorized"
                    ELSE "at_risk"
      /\ says({"cve"}) = IF name = "other" THEN "conditional" ELSE "at_risk"

ASSUME \A native \in SUBSET {"t1", "t2"} :
  CoverageMetrics({[tactic |-> "a", covered |-> {"t1"}, planned |-> {}, uncovered |-> {"t3"}],
                   [tactic |-> "b", covered |-> {"t1", "t2"}, planned |-> {"t4"}, uncovered |-> {}]}, native)
    = [m \in {"attack_coverage_ratio", "attack_quality_adjusted_ratio"} |->
         IF m = "attack_coverage_ratio" THEN 600
         ELSE (IF "t1" \in native THEN 400 ELSE 0) + (IF "t2" \in native THEN 200 ELSE 0)]
=============================================================================
