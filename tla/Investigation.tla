---------------------------- MODULE Investigation ----------------------------
(***************************************************************************)
(* The lookups of agents/investigation_agent.py, for several alerts that   *)
(* are investigated at the same time: the sandbox, threat intelligence,    *)
(* vulnerabilities and artifacts, each under a deadline that discards what *)
(* was already answered, then the state of GNSS and of the airspace around *)
(* the alert, through caches that all investigations share                 *)
(* (tools/gnss_jam_tool.py, tools/airspace_tool.py).                       *)
(*                                                                         *)
(* Every answer of a service is a step.  A lookup under a deadline asks    *)
(* its services side by side, and each service one question after the      *)
(* other.  What memory recalls is left to modules ExperienceMemory and     *)
(* ActorProfile.  A confidence is counted in thousandths.                  *)
(***************************************************************************)
EXTENDS Lookups

CONSTANTS
  Alerts,
  Input,       \* [Alerts -> what an alert brings]: iocs, cves, artifacts,
               \* gnss (an S1 scenario) and place, None without coordinates
  Retrievals,  \* [Alerts -> SET of what the search can find]: None when it fails,
               \* or chunks, each curated or not, with a score in thousandths
  Services,    \* the threat intelligence services, in the order they are wired
  Bodies,      \* what a service can answer: [services -> SET]
  Reports,     \* what the sandbox can report: verdict and extracted
  Catalogues,  \* what the catalogue of exploited CVEs can hold
  Metrics,     \* what the NVD can answer about a CVE
  Setting,     \* the switches of the malware router
  Analyses,    \* what a malware tool can answer
  Cap,         \* ioc_egress_max_per_alert
  Cell,        \* the cell of the airspace cache a place is rounded to
  Degree,      \* the cell of the jamming cache it is rounded to
  Near,        \* [Places -> SUBSET Aircraft]: those within 10 km
  Levels,      \* the levels of jamming a request can find
  Skies,       \* the sets of hostile aircraft a request can find
  TTL,         \* ticks an entry of the airspace cache lives, and its key holds
  JamTTL,      \* ticks an entry of the jamming cache lives
  MaxClock     \* bound of the clock

ASSUME InvestigationAssumption ==
  /\ \A a \in Alerts : {"iocs", "cves", "artifacts", "gnss", "place"} \subseteq DOMAIN Input[a]
  /\ \A a \in Alerts : Input[a].iocs \in Seq(Indicators)
  /\ \A a \in Alerts :
       Retrievals[a] \ {None} \subseteq Seq([curated : BOOLEAN, score : 0..1000])
  /\ \A r \in Reports : r.extracted \in Seq(Indicators)
  /\ ToSet(Services) \cap {"sandbox", "kev", "nvd", "router"} = {}
  /\ Levels \subseteq 0..3
  /\ Cap \in Nat \ {0} /\ TTL \in Nat \ {0} /\ JamTTL \in Nat \ {0} /\ MaxClock \in Nat

VARIABLES
  stage,     \* what each investigation is at
  conf,      \* its confidence
  iocs,      \* indicators of the stage it is at
  answers,   \* of the stage it is at: of each service, in order
  findings,  \* what it found: ti, vuln, jam and air
  clock,
  asked,     \* when a lookup of the surroundings began (now)
  jams,      \* GpsJamRetriever._cache
  skies,     \* OpenSkyRetriever._cache
  waiting,   \* investigations at OpenSkyRetriever._lock: its holder, the rest
  (* history, which no action reads *)
  sent,      \* indicators sent to the outside, until the last could have been
  fetched    \* how often each key of the airspace cache was fetched: 2 for more

bounded == <<iocs, answers>>
caches == <<jams, skies, waiting>>
history == <<sent, fetched>>
investigation == <<stage, conf, bounded, findings, clock, asked, caches, history>>

Nothing == [ti |-> <<>>, vuln |-> <<>>, jam |-> None, air |-> None]

Key(place, now) == <<Cell[place], now \div TTL>>
Keys == {Key(p, t) : p \in DOMAIN Cell, t \in 0..MaxClock}

InvestigationInit ==
  /\ stage = [a \in Alerts |-> "new"]
  /\ conf = [a \in Alerts |-> 0]
  /\ iocs = [a \in Alerts |-> <<>>]
  /\ answers = [a \in Alerts |-> <<>>]
  /\ findings = [a \in Alerts |-> Nothing]
  /\ clock = 0 /\ asked = [a \in Alerts |-> 0]
  /\ jams = <<>> /\ skies = <<>> /\ waiting = <<>>
  /\ sent = [a \in Alerts |-> {}]
  /\ fetched = [k \in Keys |-> 0]

-----------------------------------------------------------------------------
(* The lookups under a deadline. *)

Sources(b) ==
  CASE b = "sandbox" -> <<"sandbox">>
    [] b = "ti"      -> Services
    [] b = "vuln"    -> <<"kev", "nvd">>
    [] OTHER         -> <<"router">>

Hashes(list) == At(list, {k \in DOMAIN list : Kind[list[k]] = "hash"})

\* What a source is asked in a stage, one after the other.
Questions(a, s) ==
  CASE s = "sandbox" -> Hashes(iocs[a])
    [] s = "kev"     -> IF Input[a].cves = <<>> THEN <<>> ELSE <<"catalogue">>
    [] s = "nvd"     -> Input[a].cves
    [] s = "router"  -> IF Setting.enabled THEN Input[a].artifacts ELSE <<>>
    [] OTHER         -> iocs[a]

\* What it can answer.  None is an error that is raised: the sandbox has no
\* report then, and the catalogue no finding.
Answers(s, q) ==
  CASE s = "sandbox" -> Reports \cup {None}
    [] s = "kev"     -> Catalogues \cup {None}
    [] s = "nvd"     -> {Nvd(q, body) : body \in Metrics}
    [] s = "router"  -> IF Route(q, Setting) = None THEN {"unknown"}
                        ELSE {Accepted(q, r) : r \in Analyses}
    [] OTHER         -> {Reading(s, q, body) : body \in Bodies[s] \cup {Unreadable}}

Bounded == {"sandbox", "ti", "vuln", "malware"}

Unanswered(a, s) == Len(answers[a][s]) < Len(Questions(a, s))

\* One source gives its next answer.
Answer(a) ==
  /\ stage[a] \in Bounded
  /\ \E s \in ToSet(Sources(stage[a])) :
       /\ Unanswered(a, s)
       /\ LET q == Questions(a, s)[Len(answers[a][s]) + 1] IN
          \E r \in Answers(s, q) :
            /\ answers' = [answers EXCEPT ![a][s] = Append(@, r)]
            /\ sent' = IF s = "sandbox" \/ (stage[a] = "ti" /\ Kind[q] \in Takes(s))
                       THEN [sent EXCEPT ![a] = @ \cup {q}] ELSE sent
  /\ UNCHANGED <<stage, conf, iocs, findings, clock, asked, caches, fetched>>

NoAnswers(b) == [s \in ToSet(Sources(b)) |-> <<>>]

Raised(a, found) == IF found THEN Min({1000, conf[a] + 200}) ELSE conf[a]

Enter(a, b) ==
  /\ stage' = [stage EXCEPT ![a] = b]
  /\ answers' = [answers EXCEPT ![a] = IF b \in Bounded THEN NoAnswers(b) ELSE <<>>]

\* The best score of the chunks at places c, and the places without the best.
Best(chunks, c)  == CHOOSE i \in c : \A j \in c : chunks[j].score <= chunks[i].score
Score(chunks, c) == IF c = {} THEN 0 ELSE chunks[Best(chunks, c)].score
Rest(chunks, c)  == {i \in c : i # Best(chunks, c)}

\* Only chunks of the curated base count: their best three scores, and how
\* many there are.  (400 + 400 * mean + 200 * k / 3, rounded.)
Confidence(chunks) ==
  LET trusted == IF chunks = None THEN {} ELSE {i \in DOMAIN chunks : chunks[i].curated}
      others  == Rest(chunks, trusted)
      k       == Min({3, Cardinality(trusted)})
      sum     == Score(chunks, trusted) + Score(chunks, others)
                 + Score(chunks, Rest(chunks, others))
  IN  CASE chunks = None -> 200
        [] chunks # None /\ trusted = {} -> 300
        [] OTHER -> Min({1000, 400 + (2 * (6 * sum + 1000 * k * k) + 15 * k) \div (30 * k)})

\* run begins: retrieval, and the indicators that may leave.
Begin(a) ==
  /\ stage[a] = "new"
  /\ \E chunks \in Retrievals[a] : conf' = [conf EXCEPT ![a] = Confidence(chunks)]
  /\ \E kept \in Sanitize(<<Input[a].iocs>>, Cap) : iocs' = [iocs EXCEPT ![a] = kept]
  /\ Enter(a, "sandbox")
  /\ UNCHANGED <<findings, clock, asked, caches, history>>

Malicious(r) == r # None /\ r.verdict = "malicious"

\* The indicators at hand, then what each sample extracted.
Gathered(a, reports) ==
  [n \in 0..Len(reports) |-> IF n = 0 THEN iocs[a]
                             ELSE IF Malicious(reports[n]) THEN reports[n].extracted ELSE <<>>]

\* Faulty variant: a budget of their own for what was extracted.
EndSandboxTwice(a, got) ==
  LET reports == got["sandbox"]
      extracted == [Gathered(a, reports) EXCEPT ![0] = <<>>]
  IN  /\ conf' = [conf EXCEPT ![a] = Raised(a, \E n \in DOMAIN reports : Malicious(reports[n]))]
      /\ \E kept \in Sanitize(extracted, Cap) : iocs' = [iocs EXCEPT ![a] = @ \o kept]
      /\ UNCHANGED <<findings, sent>>

\* The sandbox is done: what malicious samples extracted joins the indicators.
EndSandbox(a, got) ==
  LET reports == got["sandbox"]
  IN  /\ conf' = [conf EXCEPT ![a] = Raised(a, \E n \in DOMAIN reports : Malicious(reports[n]))]
      /\ \E kept \in Sanitize(Gathered(a, reports), Cap) : iocs' = [iocs EXCEPT ![a] = kept]
      /\ UNCHANGED <<findings, sent>>

\* The findings of the services, each on its questions.
Findings(a, got) ==
  UNION {{[indicator |-> Questions(a, s)[k], verdict |-> got[s][k]] : k \in DOMAIN got[s]}
         : s \in ToSet(Services)}

EndTi(a, got) ==
  LET ti == Merge(Findings(a, got)) IN
  /\ findings' = [findings EXCEPT ![a].ti = ti]
  /\ conf' = [conf EXCEPT ![a] = Raised(a, \E i \in DOMAIN ti : ti[i] = "malicious")]
  /\ iocs' = [iocs EXCEPT ![a] = <<>>]
  /\ sent' = [sent EXCEPT ![a] = {}]

EndVuln(a, got) ==
  LET kev == IF got["kev"] \in {<<>>, <<None>>} THEN <<>>
             ELSE [k \in DOMAIN Input[a].cves |-> Kev(Input[a].cves[k], got["kev"][1])]
      vuln == MergeVulns(kev \o got["nvd"])
  IN  /\ findings' = [findings EXCEPT ![a].vuln = vuln]
      /\ conf' = [conf EXCEPT ![a] = Raised(a, \E c \in DOMAIN vuln : vuln[c].exploited)]
      /\ UNCHANGED <<iocs, sent>>

EndMalware(a, got) ==
  /\ conf' = [conf EXCEPT ![a] = Raised(a, "malicious" \in ToSet(got["router"]))]
  /\ UNCHANGED <<iocs, findings, sent>>

End(a, got) ==
  \/ stage[a] = "sandbox" /\ EndSandbox(a, got) /\ Enter(a, "ti")
  \/ stage[a] = "ti"      /\ EndTi(a, got)      /\ Enter(a, "vuln")
  \/ stage[a] = "vuln"    /\ EndVuln(a, got)    /\ Enter(a, "malware")
  \/ stage[a] = "malware" /\ EndMalware(a, got)
     /\ Enter(a, IF Input[a].place = None THEN "done" ELSE "jam")

Ended(a) ==
  /\ stage[a] \in Bounded
  /\ \A s \in ToSet(Sources(stage[a])) : ~Unanswered(a, s)
  /\ End(a, answers[a])
  /\ UNCHANGED <<clock, asked, caches, fetched>>

\* The deadline: the lookup is cancelled, with all that it has.
Deadline(a) ==
  /\ stage[a] \in Bounded
  /\ \E s \in ToSet(Sources(stage[a])) : Unanswered(a, s)
  /\ End(a, NoAnswers(stage[a]))
  /\ UNCHANGED <<clock, asked, caches, fetched>>

-----------------------------------------------------------------------------
(* The surroundings. *)

\* What the jamming lookup comes to, None for an empty list.
JamFound(a, level) ==
  /\ findings' = [findings EXCEPT ![a].jam = level]
  /\ conf' = [conf EXCEPT ![a] = Raised(a, Input[a].gnss /\ level # None /\ level >= 2)]

Put(cache, key, entry) ==
  [k \in DOMAIN cache \cup {key} |-> IF k = key THEN entry ELSE cache[k]]

FreshJam(d) == d \in DOMAIN jams /\ clock - jams[d].at < JamTTL

Jam(a) ==
  /\ stage[a] = "jam"
  /\ asked' = [asked EXCEPT ![a] = clock]
  /\ LET d == Degree[Input[a].place] IN
     IF FreshJam(d)
     THEN JamFound(a, jams[d].level) /\ Enter(a, "air")
     ELSE Enter(a, "jamming") /\ UNCHANGED <<findings, conf>>
  /\ UNCHANGED <<iocs, clock, caches, history>>

\* The service answers, or fails: then there is no finding and no entry.
JamAnswers(a) ==
  /\ stage[a] = "jamming"
  /\ \E level \in {None} \cup Levels :
       /\ JamFound(a, level)
       /\ jams' = IF level = None THEN jams
                  ELSE Put(jams, Degree[Input[a].place], [at |-> asked[a], level |-> level])
  /\ Enter(a, "air")
  /\ UNCHANGED <<iocs, clock, asked, skies, waiting, history>>

\* What the airspace lookup comes to: what was seen, and from where.
AirFound(a, air) ==
  /\ findings' = [findings EXCEPT ![a].air = air]
  /\ conf' = [conf EXCEPT ![a] =
                Raised(a, air # None /\ air.hostile \cap Near[air.from] # {})]

FreshSky(key, now) == key \in DOMAIN skies /\ now - skies[key].at < TTL
Sky(key) == [from |-> skies[key].from, hostile |-> skies[key].hostile]

\* aretrieve takes the time once, and finds an entry or queues at the lock.
Air(a) ==
  /\ stage[a] = "air"
  /\ asked' = [asked EXCEPT ![a] = clock]
  /\ LET key == Key(Input[a].place, clock) IN
     IF FreshSky(key, clock)
     THEN AirFound(a, Sky(key)) /\ Enter(a, "done") /\ UNCHANGED waiting
     ELSE /\ waiting' = Append(waiting, a) /\ Enter(a, "locked")
          /\ UNCHANGED <<findings, conf>>
  /\ UNCHANGED <<iocs, clock, jams, skies, history>>

\* Without the second look.
LockedAnyway(a) ==
  /\ stage[a] = "locked" /\ waiting # <<>> /\ waiting[1] = a
  /\ Enter(a, "fetching")
  /\ UNCHANGED <<findings, conf, waiting>>
  /\ UNCHANGED <<iocs, clock, asked, jams, skies, history>>

\* The holder of the lock looks again, with the time it took before it waited.
Locked(a) ==
  /\ stage[a] = "locked" /\ waiting # <<>> /\ waiting[1] = a
  /\ LET key == Key(Input[a].place, asked[a]) IN
     IF FreshSky(key, asked[a])
     THEN AirFound(a, Sky(key)) /\ Enter(a, "done") /\ waiting' = Tail(waiting)
     ELSE Enter(a, "fetching") /\ UNCHANGED <<findings, conf, waiting>>
  /\ UNCHANGED <<iocs, clock, asked, jams, skies, history>>

\* A request that fails is made again, and again.
FailsAgain(a) ==
  /\ stage[a] = "fetching"
  /\ waiting' = Tail(waiting)
  /\ Enter(a, "air")
  /\ UNCHANGED <<conf, findings, iocs, clock, asked, jams, skies, history>>

\* The request fails, or times out: no finding, no entry.
Fails(a) ==
  /\ stage[a] = "fetching"
  /\ AirFound(a, None)
  /\ waiting' = Tail(waiting)
  /\ Enter(a, "done")
  /\ UNCHANGED <<iocs, clock, asked, jams, skies, history>>

\* It answers: the distances in the entry are those from this alert's place.
Fetches(a) ==
  /\ stage[a] = "fetching"
  /\ \E hostile \in Skies :
       LET key == Key(Input[a].place, asked[a])
           sky == [at |-> asked[a], from |-> Input[a].place, hostile |-> hostile]
       IN  /\ skies' = Put(skies, key, sky)
           /\ AirFound(a, [from |-> sky.from, hostile |-> hostile])
           /\ fetched' = [fetched EXCEPT ![key] = Min({2, @ + 1})]
  /\ waiting' = Tail(waiting)
  /\ Enter(a, "done")
  /\ UNCHANGED <<iocs, clock, asked, jams, sent>>

\* The answer of either service is no JSON.  Neither cache nor the agent expects
\* that error: it passes through the node and ends the run of the alert, whose
\* findings are gone; the lock is free on the way.
Garbled(a) ==
  /\ \/ stage[a] = "jamming" /\ UNCHANGED waiting
     \/ stage[a] = "fetching" /\ waiting' = Tail(waiting)
  /\ Enter(a, "raised")
  /\ findings' = [findings EXCEPT ![a] = Nothing]
  /\ conf' = [conf EXCEPT ![a] = 0]
  /\ UNCHANGED <<iocs, clock, asked, jams, skies, history>>

Tick ==
  /\ clock < MaxClock
  /\ clock' = clock + 1
  /\ UNCHANGED <<stage, conf, bounded, findings, asked, caches, history>>

Over == {"done", "raised"}

\* Everybody has his findings, or none to come.
Done ==
  /\ \A a \in Alerts : stage[a] \in Over
  /\ UNCHANGED investigation

Step(a) ==
  \/ Begin(a) \/ Answer(a) \/ Ended(a) \/ Deadline(a)
  \/ Jam(a) \/ JamAnswers(a)
  \/ Air(a) \/ Locked(a) \/ Fails(a) \/ Fetches(a)
  \/ Garbled(a)

InvestigationNext == Tick \/ Done \/ \E a \in Alerts : Step(a)

\* Every request has its timeout, so an investigation that can go on does.
InvestigationSpec ==
  /\ InvestigationInit /\ [][InvestigationNext]_investigation
  /\ \A a \in Alerts : WF_investigation(Step(a))
-----------------------------------------------------------------------------
(* Properties. *)

\* Whatever a sandbox extracts from the samples of an alert, no more than
\* ioc_egress_max_per_alert of its indicators are sent to the outside, and
\* none that is of the inside: the sandbox and the services share one budget.
EgressIsBounded ==
  \A a \in Alerts :
    /\ Cardinality(sent[a]) <= Cap
    /\ \A i \in sent[a] : Normal[i] = i

\* When the lookup of threat intelligence ends, what a service said of an
\* indicator is outweighed only by what another one said that is worse, and a
\* "malicious" raises the confidence; or the deadline cut it, and nothing any
\* service said is left.
HeardCounts ==
  [][\A a \in Alerts : (stage[a] = "ti" /\ stage'[a] = "vuln") =>
       LET heard == UNION {ToSet([k \in DOMAIN answers[a][s] |->
                             [indicator |-> iocs[a][k], verdict |-> answers[a][s][k]]])
                           : s \in ToSet(Services)}
           found == findings'[a].ti
       IN  IF \E s \in ToSet(Services) : Unanswered(a, s)
           THEN found = <<>> /\ conf'[a] = conf[a]
           ELSE /\ {i : i \in DOMAIN found} = {h.indicator : h \in heard}
                /\ \A h \in heard :
                     /\ Rank(found[h.indicator]) >= Rank(h.verdict)
                     /\ [indicator |-> h.indicator, verdict |-> found[h.indicator]] \in heard
                     /\ h.verdict = "malicious" => conf'[a] > conf[a] \/ conf[a] = 1000]_investigation

\* Investigations that look at the same cell in the same half minute come to
\* one request that is answered, however they meet at the lock: the service
\* allows an anonymous caller 400 a day (tools/airspace_tool.py:60).
FetchedOnce == \A k \in Keys : fetched[k] <= 1

\* An investigation that began ends, whatever is slow or fails in between and
\* whoever else waits for the lock or raises while holding it: with findings,
\* or raised, when the answer about its surroundings could not be read.
InvestigationEnds ==
  \A a \in Alerts : (stage[a] = "sandbox") ~> (stage[a] \in Over)

=============================================================================
