------------------------ MODULE MC_IntrusionReport ------------------------
(***************************************************************************)
(* One actor, three alerts of its own and one that comes without it.  The  *)
(* chain of campaigns runs over the three scenarios; alert2 has two        *)
(* techniques and fills the window of steps.  A tactic outside the matrix  *)
(* has a recovery plan, as CredentialAccess has in the policies.  Of the   *)
(* tactics one is always traced back, and one is so in the posture given;  *)
(* the plan of one run is cut at the cap, in another a query fails and one *)
(* is answered in part.                                                    *)
(***************************************************************************)
EXTENDS IntrusionReport, PartnerRelease

CONSTANTS actor1, fpA, alert1, alert2, alert3,
          recon, collection, control, credentials,
          t1, t2, t3, t4, s1, s2, s3, asset1, decoy1, isr

MCMatrix ==
  {[tactic |-> recon,      order |-> 1,  covered |-> {t1}, planned |-> {},   uncovered |-> {}],
   [tactic |-> collection, order |-> 10, covered |-> {},   planned |-> {t3}, uncovered |-> {t2}],
   [tactic |-> control,    order |-> 11, covered |-> {t4}, planned |-> {},   uncovered |-> {}]}

Saying(scenario, tactics, techniques, asset, signals, tags) ==
  [scenario |-> scenario, tactics |-> tactics, techniques |-> techniques,
   asset |-> asset, phase |-> isr, signals |-> signals, tags |-> tags,
   terrain |-> asset = decoy1, risky |-> FALSE]

MCSays ==
  alert1 :> Saying(s1, <<recon>>, <<t1>>, asset1, {"scan"}, {}) @@
  alert2 :> Saying(s2, <<control>>, <<t4, t2>>, decoy1, {"beacon"}, {}) @@
  alert3 :> Saying(s3, <<collection, credentials>>, <<t3>>, asset1, {}, {"I"})

AlertOf(id, actor, stage) ==
  [id |-> id, actor |-> actor, fp |-> fpA, stage |-> stage, dos |-> FALSE]

MCAlerts == {AlertOf(alert1, actor1, 1), AlertOf(alert2, actor1, 11),
             AlertOf(alert3, actor1, 10), AlertOf(alert2, NoActor, 11)}

Outcome(verdict, recovery, noEffect) ==
  [verdict |-> verdict, recovery |-> recovery, reoccurred |-> FALSE,
   noEffect |-> noEffect, tampered |-> FALSE]

MCOutcomes == {Outcome("CONFIRMED_TP", TRUE, FALSE), Outcome("CONFIRMED_FP", FALSE, TRUE)}

Logged(technique, age) == [technique |-> technique, age |-> age]

MCRuns ==
  {[verdict |-> "TRUE_POSITIVE",  latency |-> 0,
    forecast |-> {[technique |-> t2, probability |-> 10], [technique |-> t1, probability |-> 9]},
    found |-> [ti_malicious_count |-> 10, suppression_corroboration |-> 0],
    rows |-> {Logged(t1, 2), Logged(t2, 1)}, failing |-> {}, partial |-> <<>>],
   [verdict |-> "FALSE_POSITIVE", latency |-> 1, forecast |-> {},
    found |-> [ti_malicious_count |-> 0, suppression_corroboration |-> 10],
    rows |-> {Logged(t1, 1), Logged(t2, 2), Logged(t3, 1)}, failing |-> {"qBoth"},
    partial |-> "qGap" :> {Logged(t2, 2)}]}
MCDefenses == {"Detect", "Deceive"}
MCCells == {<<recon, "Detect">>, <<control, "Deceive">>}
MCPlans == {recon, collection, credentials}
MCChains == {<<s1, s2, s3>>, <<s3, s1>>}
MCAlphabet == <<s1, s2, s3, t1, t2, t3, t4>>
MCThreats == [I |-> {collection}, D |-> {control}]
MCCausalRules == <<[id |-> "r1", signals |-> {"beacon"}, steps |-> <<[effect |-> "c2", technique |-> t4], [effect |-> "exfil", technique |-> None]>>]>>
MCDegradations == asset1 :> "DEGRADED"
MCSurface == {"CAT1", "CAT2", "CAT4", "CAT7"}
MCDelegate == {"CAT3", "CAT6", "CAT8"}
Rule(key, least, supports, weight) ==
  [key |-> key, least |-> least, supports |-> supports, weight |-> weight]

For(key, least, weight)     == Rule(key, least, TRUE, weight)
Against(key, least, weight) == Rule(key, least, FALSE, weight)

\* Three of the seven, with the rules whose evidence occurs here.
MCCatalog ==
  {[id |-> "HYP-GNSS-SPOOF", place |-> 4,
    rules |-> <<For("key_terrain", 1, 3), Against("suppression_corroboration", 1, 5)>>],
   [id |-> "HYP-C2-HIJACK", place |-> 2,
    rules |-> <<For("ti_malicious_count", 1, 7), For("kill_chain_advanced", 1, 6),
                For("decoy_hit", 1, 5)>>],
   [id |-> "HYP-BENIGN-ENV", place |-> 1,
    rules |-> <<For("suppression_corroboration", 1, 8), Against("ti_malicious_count", 1, 9),
                Against("kill_chain_advanced", 1, 5), Against("decoy_hit", 1, 7)>>]}

\* The rules of the shipped file that bear on what its shape is said to be.
Shipped ==
  {[id |-> "HYP-C2-HIJACK", place |-> 2,
    rules |-> <<For("ti_malicious_count", 1, 7), For("prediction_match", 1, 5),
                For("kill_chain_advanced", 1, 6), For("decoy_hit", 1, 5),
                Against("gnss_jam_level", 20, 2)>>],
   [id |-> "HYP-BENIGN-ENV", place |-> 1,
    rules |-> <<For("suppression_corroboration", 1, 8), Against("ti_malicious_count", 1, 9),
                Against("sandbox_malicious", 1, 8), Against("kill_chain_advanced", 1, 5),
                Against("decoy_hit", 1, 7)>>]}

ASSUME Loadable(Shipped) /\ Discerns(Shipped) /\ Discerns(MCCatalog)

MCTemplates ==
  <<[id |-> "qBack", technique |-> t1, direction |-> "backward"],
    [id |-> "qAhead", technique |-> t1, direction |-> "forward"],
    [id |-> "qBoth", technique |-> t3, direction |-> "both"],
    [id |-> "qGap", technique |-> t2, direction |-> "both"]>>
MCThresholds == 3 :> collection
MCLures == {t2}

\* Sharing: a tier with indicators stands for what a policy could say.
MCTiers == [FVEY |-> {"attack-pattern"}, wide |-> {"attack-pattern", "indicator"}]
MCDiamonds ==
  [adversary : {actor1, NoActor}, capabilities : SUBSET {t1, t2, t3}, infrastructure : SUBSET {"ip", "words"}]

ASSUME \A d \in MCDiamonds, tier \in {"FVEY", "wide", "unknown"} :
  LET given == ForPartner(FromDiamond(d), tier)
      shows == {o.id : o \in given} \ {Statement(tier).id}
  IN  shows = IF tier = "unknown" THEN {}
              ELSE {Sid("attack-pattern", t) : t \in d.capabilities \cap Public}
                   \cup {Sid("indicator", i) : i \in {i \in d.infrastructure \cap Patterned : tier = "wide"}}

\* A campaign is not for partners, and travels with its producer once.
ASSUME
  /\ \A c \in {"c1", "c2"}, tier \in DOMAIN MCTiers : ForPartner(FromCampaign(c), tier) = {}
  /\ Cardinality(Envelope(<<SetToSeq(FromCampaign("c1")), SetToSeq(FromCampaign("c2"))>>)) = 3
=============================================================================
