------------------------------- MODULE Lookups -------------------------------
(***************************************************************************)
(* What the adapters of the investigation compute: which indicators may be *)
(* sent to the outside (core/egress.py), how the answer of a threat        *)
(* intelligence service is read and how the answers about one indicator    *)
(* are put together (tools/ti_tool.py), the same for vulnerabilities       *)
(* (tools/vuln_tool.py), and which analysis an artifact is given           *)
(* (core/malware.py, tools/malware_mcp_tool.py).                           *)
(*                                                                         *)
(* An indicator is a written form with a kind and, if it may leave, a      *)
(* normal form; an answer is a record of the fields that are read.         *)
(***************************************************************************)
EXTENDS Naturals, Sequences, SequencesExt, FiniteSets, FiniteSetsExt, TLC, Positions

CONSTANTS
  Indicators,  \* written forms of indicators
  None,
  Kind,        \* [Indicators -> {"hash", "ip", "domain", "url"}]
  Normal       \* [Indicators -> Indicators \cup {None}]: None for what is of
               \* the inside or malformed, which must not leave

ASSUME LookupsAssumption ==
  /\ None \notin Indicators
  /\ Kind \in [Indicators -> {"hash", "ip", "domain", "url"}]
  /\ Normal \in [Indicators -> Indicators \cup {None}]
  /\ \A i \in Indicators : Normal[i] # None => Normal[Normal[i]] = Normal[i]

-----------------------------------------------------------------------------
(* core/egress.py *)

\* Where a normal form stands in the lists of written ones, one after the other.
Places(lists, x) ==
  UNION {{<<n, k>> : k \in {k \in DOMAIN lists[n] : Normal[lists[n][k]] = x}} : n \in DOMAIN lists}

Before(p, q) == p[1] < q[1] \/ (p[1] = q[1] /\ p[2] < q[2])

\* x occurs before y does.
Precedes(lists, x, y) == \E p \in Places(lists, x) : \A q \in Places(lists, y) : Before(p, q)

\* The normal forms in the order of their first occurrence, at most cap.  The
\* set holds one sequence.
Sanitize(lists, cap) ==
  LET normal == {x \in Indicators : Places(lists, x) # {}}
      Is(s)  == /\ \A i, j \in DOMAIN s : i < j => Precedes(lists, s[i], s[j])
                /\ \A x \in normal \ ToSet(s) :
                     Len(s) = cap /\ \A i \in DOMAIN s : Precedes(lists, s[i], x)
  IN  {s \in UNION {[1..n -> normal] : n \in 0..cap} : Is(s)}

-----------------------------------------------------------------------------
(* tools/ti_tool.py *)

Verdicts == {"unknown", "clean", "suspicious", "malicious"}

Rank(v) ==
  CASE v = "malicious"  -> 3
    [] v = "suspicious" -> 2
    [] v = "clean"      -> 1
    [] OTHER            -> 0

\* No answer, or one that is not of the form expected.
Unreadable == [readable |-> FALSE]

VirusTotal(indicator, body) ==
  CASE Kind[indicator] = "url" \/ ~body.readable -> "unknown"
    [] body.malicious > 0  -> "malicious"
    [] body.suspicious > 0 -> "suspicious"
    [] body.others > 0     -> "clean"
    [] OTHER               -> "unknown"

GreyNoise(indicator, body) ==
  CASE Kind[indicator] # "ip" \/ ~body.readable -> "unknown"
    [] body.classification = "malicious"        -> "malicious"
    [] body.classification = "benign"           -> "clean"
    [] body.noise                               -> "suspicious"
    [] OTHER                                    -> "unknown"

AbuseIpdb(indicator, body) ==
  CASE Kind[indicator] # "ip" \/ ~body.readable -> "unknown"
    [] body.score >= 75                         -> "malicious"
    [] body.score >= 25                         -> "suspicious"
    [] OTHER                                    -> "clean"

ThreatFox(body) ==
  CASE ~body.readable \/ ~body.listed -> "unknown"
    [] body.confidence >= 75          -> "malicious"
    [] OTHER                          -> "suspicious"

\* The honeypots' own list needs no request; body is the static list if the
\* live one cannot be had.
Honeypot(indicator, body) == IF indicator \in body.touched THEN "malicious" ELSE "unknown"

\* The kinds of indicators a request is made for.
Takes(service) ==
  CASE service = "virustotal"                 -> {"hash", "ip", "domain"}
    [] service \in {"greynoise", "abuseipdb"} -> {"ip"}
    [] service = "threatfox"                  -> {"hash", "ip", "domain", "url"}
    [] OTHER                                  -> {}

\* What a service that gave this answer says of an indicator.
Reading(service, indicator, body) ==
  CASE service = "virustotal" -> VirusTotal(indicator, body)
    [] service = "greynoise"  -> GreyNoise(indicator, body)
    [] service = "abuseipdb"  -> AbuseIpdb(indicator, body)
    [] service = "threatfox"  -> ThreatFox(body)
    [] OTHER                  -> Honeypot(indicator, body)

VerdictsOn(findings, i) == {f.verdict : f \in {f \in findings : f.indicator = i}}

\* Faulty variant: the comparison is turned round.
MergeMildest(findings) ==
  [i \in {f.indicator : f \in findings} |->
     CHOOSE v \in VerdictsOn(findings, i) : \A w \in VerdictsOn(findings, i) : Rank(v) <= Rank(w)]

\* By indicator, the worst that the services say of it.
Merge(findings) ==
  [i \in {f.indicator : f \in findings} |->
     CHOOSE v \in VerdictsOn(findings, i) : \A w \in VerdictsOn(findings, i) : Rank(w) <= Rank(v)]

\* tools/sandbox_tool.py: Hybrid Analysis names no indicators of its own.
HybridAnalysis(body) ==
  [extracted |-> <<>>,
   verdict |-> CASE ~body.readable -> "unknown"
                 [] body.verdict \in {"malicious", "suspicious"} -> body.verdict
                 [] body.verdict \in {"no specific threat", "whitelisted"} -> "clean"
                 [] OTHER -> "unknown"]

-----------------------------------------------------------------------------
(* tools/vuln_tool.py: a finding is [cve, exploited, score, severity]. *)

MergeVulns(findings) ==
  [c \in {f.cve : f \in ToSet(findings)} |->
     LET fs   == SelectSeq(findings, LAMBDA f : f.cve = c)
         best == {k \in DOMAIN fs : /\ fs[k].severity # ""
                                    /\ \A j \in 1..(k - 1) : fs[j].score <= fs[k].score}
     IN  [cve       |-> c,
          exploited |-> \E f \in ToSet(fs) : f.exploited,
          score     |-> Max({f.score : f \in ToSet(fs)}),
          severity  |-> IF best = {} THEN "" ELSE fs[Max(best)].severity]]

\* The grade of a score in tenths, for an NVD entry that names none.
SeverityOf(score) ==
  CASE score >= 90 -> "CRITICAL"
    [] score >= 70 -> "HIGH"
    [] score >= 40 -> "MEDIUM"
    [] score > 0   -> "LOW"
    [] OTHER       -> ""

\* The NVD entry: v3.1, else v3.0, else v2, in the order of "metrics".
Cvss(cve, metrics) ==
  LET usable == SelectSeq(metrics, LAMBDA m : m.score # None)
      m == Head(usable)
  IN  [cve |-> cve, exploited |-> FALSE,
       score |-> IF usable = <<>> THEN 0 ELSE m.score,
       severity |-> IF usable = <<>> THEN ""
                    ELSE IF m.severity # None THEN m.severity
                    ELSE SeverityOf(m.score)]

\* What the NVD says of a CVE, or fails to say.
Nvd(cve, body) ==
  IF body.readable THEN Cvss(cve, body.metrics) ELSE Cvss(cve, <<>>)

\* What the catalogue of exploited CVEs says of one.
Kev(cve, catalogue) ==
  [cve |-> cve, exploited |-> cve \in catalogue, score |-> 0, severity |-> ""]

-----------------------------------------------------------------------------
(* tools/malware_mcp_tool.py *)

\* The tool an artifact is handed to, or None: its report is then "unknown".
\* An artifact is [kind, dynamic, deep, approved, large]; setting holds the
\* switches and the set of clients that are configured.
Route(artifact, setting) ==
  LET byHand == artifact.approved /\ setting.manual
      auto   == setting.static /\ ~artifact.large
      tool   == CASE artifact.dynamic                   -> <<byHand, "execute_dynamic", "sandbox">>
                  [] artifact.deep                      -> <<byHand, "analyze_ghidra_headless", "ghidra">>
                  [] artifact.kind = "linux_elf"        -> <<auto, "analyze_linux_static", "linux">>
                  [] artifact.kind = "firmware_image"   -> <<byHand, "analyze_firmware", "firmware">>
                  [] artifact.kind = "script_or_config" -> <<auto, "analyze_script_static", "linux">>
                  [] OTHER                              -> <<FALSE, "", "">>
  IN  IF setting.enabled /\ tool[1] /\ tool[3] \in setting.clients THEN tool[2] ELSE None

\* A report that is malformed, or of another kind than asked for, is discarded.
Accepted(artifact, report) ==
  IF /\ report.readable
     /\ artifact.kind \in {"unknown", report.kind}
  THEN report.verdict ELSE "unknown"
=============================================================================
