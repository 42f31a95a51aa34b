-------------------------- MODULE MC_Investigation --------------------------
(***************************************************************************)
(* One alert with indicators, a CVE and an artifact, and one with nothing   *)
(* but a place in the same cell, for TLC.                                   *)
(***************************************************************************)
EXTENDS Investigation

Sample == "sample"        \* a hash
Shouted == "SAMPLE"       \* the same, in capitals
Server == "server"        \* an address
Site == "site"            \* a domain
Desk == "desk"            \* an address of the inside

MCIndicators == {Sample, Shouted, Server, Site, Desk}
MCKind == [i \in MCIndicators |-> CASE i \in {Sample, Shouted} -> "hash"
                                    [] i = Site -> "domain"
                                    [] OTHER -> "ip"]
MCNormal == [i \in MCIndicators |-> CASE i = Shouted -> Sample
                                      [] i = Desk -> None
                                      [] OTHER -> i]

Elf == [kind |-> "linux_elf", dynamic |-> FALSE, deep |-> FALSE, approved |-> FALSE, large |-> FALSE]

\* Two alerts, the first with lookups of every kind.
MCAlerts == {1, 2}
MCInput ==
  [a \in MCAlerts |->
     IF a = 1 THEN [iocs |-> <<Shouted, Desk>>, cves |-> <<"cve">>,
                    artifacts |-> <<Elf>>, gnss |-> TRUE, place |-> "north"]
     ELSE [iocs |-> <<>>, cves |-> <<>>, artifacts |-> <<>>, gnss |-> FALSE,
           place |-> "south"]]

Chunk(curated, score) == [curated |-> curated, score |-> score]
MCRetrievals ==
  [a \in MCAlerts |->
     IF a = 1 THEN {None} ELSE {<<Chunk(TRUE, 880), Chunk(FALSE, 990)>>}]
MCServices == <<"virustotal", "threatfox">>
MCBodies ==
  [s \in ToSet(MCServices) |->
     CASE s = "virustotal" ->
            {[readable |-> TRUE, malicious |-> 1, suspicious |-> 0, others |-> 1]}
       [] OTHER -> {[readable |-> TRUE, listed |-> TRUE, confidence |-> 50]}]
MCReports == {[verdict |-> "malicious", extracted |-> <<Server, Site>>],
              HybridAnalysis([readable |-> TRUE, verdict |-> "suspicious"])}
MCCatalogues == {{"cve"}}
MCMetrics == {[readable |-> TRUE, metrics |-> <<[score |-> 71, severity |-> None]>>]}
MCSetting == [enabled |-> TRUE, static |-> TRUE, manual |-> FALSE, clients |-> {"linux"}]
MCAnalyses == {[readable |-> TRUE, kind |-> "linux_elf", verdict |-> "malicious"],
               [readable |-> TRUE, kind |-> "script_or_config", verdict |-> "malicious"]}
MCCell == [p \in {"north", "south"} |-> 1]
MCDegree == MCCell
MCNear == [p \in {"north", "south"} |-> IF p = "north" THEN {"drone"} ELSE {}]
MCLevels == {2}
MCSkies == {{}, {"drone"}}
=============================================================================
