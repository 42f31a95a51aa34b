# Verification of the Pollack AI SOC

TLA+ models of the parts of this repository that keep state, decide, or wait:
what each part promises, model-checked with TLC on small instances, and, for the
promises that matter most, proved with TLAPS for every value of the parameters.

The repository is a security operations centre for unmanned vehicles.  An alert
runs through a graph of agents (triage, investigation, validation, then response
or rule update, then report); a worker later observes what really happened and
teaches the memories of the SOC; a simulator feeds telemetry in; a second worker
learns new techniques from feeds and has rules drafted; workflows measure the SOC
and release it.  Much of the code is pure computation (policies, scores, texts).
What is hard lies where calls meet: memories that outlive a call, caps and
windows, writes that fail half-way, an operator who answers late, two writers of
one store, analyses that must agree about one history.

## 1. Inventory

| Component | State it keeps | Operations | Module | Hard behaviour |
|---|---|---|---|---|
| Incident case lifecycle (`core/incident.py`, the writer in `agents/outcome_probe_agent.py`) | LRU store of cases by actor or fingerprint; the set of keys counted for CISA | `observe_alert`, `observe_outcome`, load / save / delete / evict, fold of a fingerprint case | `IncidentCase`, `CaseLifecycle` | two writers in any order; eviction in the middle; identity learned late |
| Cross-alert correlation (`core/correlation.py`) | window of alerts, a flag for each pattern | `observe`, age and cap eviction, clustering | `AlertCorrelator` | edge-triggered reports, early return, window at its cap |
| Experience memory and cold-case review (`core/experience.py`, `core/coldcase.py`, `tools/ragflow_experience.py`) | remote documents, local queue of revoked cases, the call in progress | write gate, scan, revoke = delete + upload, review by actor and by signature | `ExperienceMemory` | every remote call may fail or have taken effect; restart; bounded scans |
| Alert dynamics (`core/dynamics.py`) | first and last sight of each threat, last sight of each upstream asset | `enrich`, evict, enforce cap, reset | `DynamicsTracker` | eviction by silence and by cap, measured lazily |
| Severity, posture, terrain, mission risk, CACAO playbooks (`core/severity.py`, `core/posture.py`, `core/terrain.py`, `core/cacao.py`) | none (policy files, catalogue) | `compute`, `enrich`, `assess`, select, walk | `Severity` | order of rules, lock, clamp; loops, missing steps, several gates |
| Pipeline and approval gate (`agents/graph.py` and the node agents) | the run's state, the in-memory checkpointer | one node each, interrupt, resume | `SocPipeline` | runs interleave; the operator's node executes twice; restart |
| Actor profiles, prediction, engagement, playbook scores (`core/actors.py`, `core/predictor.py`, `core/engage.py`, `core/playbook_outcome.py`) | a signed profile for each actor | merge, settle, issue, engage, sign, score | `ActorProfile` | order of in-place updates, redelivery, two writers |
| Outcome probe (`agents/outcome_probe_agent.py`, `core/outcome.py`) | counted keys | poll, decide, fan out to four gates | `ActorProfile`, `IncidentCase`, `ExperienceMemory` | one gate of four fails |
| Investigation, lookups, egress (`agents/investigation_agent.py`, `core/egress.py`, `tools/ti_tool.py`, `tools/vuln_tool.py`, `tools/airspace_tool.py`, `core/hypothesis.py`) | two caches in the process, answers under way | stages under a deadline, queries, merge of answers | `Lookups`, `Investigation`, `Hypotheses` | late and lost answers, a retry of what is under way, two runs on one cache |
| Report, analyses, active hunt, deception (`agents/report_agent.py` and the `core/` modules it calls, `agents/active_hunt_agent.py`) | none of their own; they read profile, case and alert | one analysis each, put into one report | `CoverageMatrix`, `ReportLenses`, `ActiveHunt`, `IntrusionReport` | analyses read parts of one history that were written at different times, or could not be read |
| Simulator bridge (`sim_bridge/`) | detector state, telemetry windows, queue of judgements | process, detect, grow, assess, flush, poll, reset | `SimBridge` | edge detection, overlapping windows, a run that raises, a poll that drains |
| Rule publisher (`tools/rule_publisher.py`) | branches and pull requests on a remote | the calls of the two publication paths | `RulePublisher` | lost answers, conflicts, operators in between |
| Learning worker, threat feeds (`app/learning.py`, `agents/threat_landscape_agent.py`, `agents/auto_kql_rule_agent.py`, `tools/graph_yaml_patch.py`) | catalogue file, period of the refresh | fetch, diff, cap, write, draft, validate | `LearningCycle` | feeds fail one by one; the catalogue is written before drafts are made; restart |
| Compliance and release (`scripts/`, `compliance/oscal/`, `benchmarks/check_gates.py`, `_workspace/02_pipeline_config/`) | POA&M, passing techniques kept by a workflow, manifests | campaign to POA&M, thresholds, metrics, gates, deployment, rollback | `ComplianceGates`, `ReleasePipeline` | workflows that cancel each other; files rebuilt by one and read by the other |
| Continuous authorisation (`core/bas.py`, `core/monitoring.py`, `core/sbom.py`, `core/cato.py`, `core/runbook.py`, `app/metrics.py`) | none (policy files, counters of the process) | verify, snapshot, breach, gap, authorize at each scrape | `ContinuousAto` | counters that only grow, thresholds that hide one another |
| Sharing with partners (`core/stix_export.py`, `core/releasability.py`) | none | bundle of a diamond or campaign, filter by tier, envelope | `PartnerRelease` | relations left dangling, an identifier that gives away what was taken out |
| HTTP servers, metrics, dashboard (`app/`) | counters, singletons | `POST /alert`, snapshots | what an alert passes through | the server is serial, so requests do not race |
| Telemetry synthesis, retrieval and LLMs, settings | none | generators, search, texts, parsing | not modelled | none beyond their inputs |

How they interact.  `app/hotpath.py` receives an alert, the triage node enriches it
(`DynamicsTracker` and the read-only enrichers), the graph runs, and the correlator
then observes the alert; a reported incident is fed through the same graph as an
aggregate alert.  Investigation reads the experience memory, the actor's profile and
the services outside.  Rule update calls the publisher.  The report node calls
`CaseManager.observe_alert` and the analyses.  The outcome worker polls a source (the
bridge's queue is one), then calls `observe_outcome`, the experience gate, the actor
gate and the playbook gate; the actor gate starts the cold-case review.  The learning
worker uses the feeds, the model and the publisher.  The incident store is a
singleton of the process: the models take the worker and the graph to share it, as
the code's comments intend; deployed as two processes they would each have their own.

The complete list, with what is and is not modelled of each part, is
`components` in `PROJECT.json`; the hazards, at the line where each bites and
with the properties that watch it, are `hazards`.

## 2. The modules

**`CaseLifecycle`** is the abstract promise of the incident store for one case:
stage by stage, forward, past ANALYSIS only through trusted observations, reopened
a bounded number of times.  **`IncidentCase`** is the code: the two handlers as
actions (`ObserveAlert`, `SubmitCase`), each with the loads, the fold, the save and
the eviction it performs.  Both handlers run without an `await`, so each is one
step.  The recency order of the `OrderedDict` is the relation `older`.
`ImplementsLifecycle` is the refinement.

**`AlertCorrelator`** has one action, `Observe`, with the window cut by age and by
cap, the three patterns in the order of the code, and the early return that leaves
the flags of later patterns as they were.  Clusters are the components of the
sharing relation, compared with the union-find the code runs.

**`ExperienceMemory`** makes one step of every call to the store: `Poll`, `Exists`,
`Write`, `Actor`, `Scan`, `Delete`, `Upload`, `Reviewed`, `Abort`, `Restart`.  A call
may raise before or after it took effect, and a lookup or a delete may be refused in
an answer of HTTP 200, whose `code` the client does not read: then nothing was found,
or so the code believes (`Misreads`).  `cleared` and `misread` are history variables:
what reviews that saw the whole store have closed, and the records a refusal was taken
for the absence of.

**`DynamicsTracker`** has `Tick`, `Enrich`, `Reset`.  `truth` and `crowded` are
history variables: the activity as it really was, and the threats overtaken since.

**`ActorProfile`** follows the outcome worker through its two gates on a profile:

| Action | Code |
|---|---|
| `Poll`, `EmptyPoll` | one observation of the source, new or seen before; or none |
| `SubmitActor` | `_submit_actor` and `ActorWriteGate.submit`: `Reject` (not a confirmed attack), `Unreadable` (the load raises), `Unwritable` (the write raises, after the metrics hook ran), `Accumulate` |
| `SubmitPlaybook` | `_submit_pb` and `ActorPlaybookOutcomeGate.submit` |

`After` is the whole of the actor gate between load and write, in the code's order:
predict from the old chain, merge, settle, issue, engage, sign.  A load returns a
copy; for the in-memory store, which shares its objects, that is the same as long
as no call fails, and its calls never do.  `steps`, `touched` and `issued` are
history variables, and `since` is a history field of a prediction.

**`Severity`** holds the stateless computations as operators over the policy
constants; a playbook is a graph of steps, and its walk a function from step
numbers to steps.  **`SocPipeline`** has one action for each node of the graph:

| Action | Code |
|---|---|
| `Submit` | `_run_alert`: the graph is invoked |
| `Triage` | `_triage_with_match`: posture floor, terrain, then `TriageAgent.run` on the enriched copy |
| `Investigate` | `InvestigationAgent.run` by its outcome; the stages are in `Investigation`.  An answer about jamming or the airspace that cannot be decoded passes every handler and ends the run |
| `Validate` | the judge of the build (`EnsembleVerdicts`: scores, veto, weighted mean, threshold), then `route_after_validation` |
| `Approve` | first execution of `ApprovalAgent.run`: pass, or `interrupt()` |
| `Resume` | second execution of the same function with the operator's value, a boolean, a dict or words (`CoerceApproved`) |
| `Respond`, `RuleUpdate`, `Report` | the agents of these names; an answer of GitHub that cannot be decoded ends the run in `RuleUpdate` |
| `Restart` | the `MemorySaver` is gone with the process |

**`Lookups`** has what the adapters compute: `Sanitize` (which indicators may leave,
and how many), the readings of the services, `Merge` and `MergeVulns`, `Cvss`,
`Route` of an artifact and `Accepted` of its report.  **`Investigation`** computes the
confidence of what retrieval found and runs two
alerts through the stages of `InvestigationAgent.run`:

| Action | Code |
|---|---|
| `Enter`, `Answer`, `End` | a stage under `_bounded` begins, one of its requests is answered, all are |
| `Deadline` | the stage is cut off; what has not come is nothing |
| `Jam`, `JamAnswers` | the jamming tool and its cache, by cell and date, with a TTL |
| `Air`, `Locked`, `Fails`, `Fetches` | the airspace tool: its cache, by the rounded place and a bucket of 30 seconds; the one lock for all keys, behind which the cache is looked at again with the time taken before; the request, which is not repeated and leaves nothing when it fails |
| `Garbled` | an answer of either that is no JSON: the run is over |
| `Tick` | time, on which entries age and the airspace's buckets move |

**`Hypotheses`** ranks the competing explanations of what was found: the least
refuted first.  **`CoverageMatrix`** is the table of tactics and techniques.
**`ReportLenses`** has one operator for each analysis of a report, and **`ActiveHunt`**
the policy, the plan and the queries of a hunt, which the log workspace may answer in
part.  **`IntrusionReport`** composes these
with `IncidentCase`:

| Action | Code |
|---|---|
| `Take` | the enrichers of the alert, from the profile on file at the moment |
| `Recall` | `ReportAgent._recall_profile`, which may fail |
| `Report` | the rest of `ReportAgent.run`, with the profile as it was recalled: the hunt, each analysis, `observe_alert`, the directive |
| `Learn`, `File` | the outcome worker: profile first, the case afterwards; either may come between `Recall` and `Report` |
| `Tick` | an idle case runs out |

`told` and `vouched` are history variables: what attacks the worker was told of, and
what was known when an alert was taken.

**`SimBridge`** has one action for each entry of the bridge:

| Action | Code |
|---|---|
| `Receive` | `SimBridge.process` of one record: `_grow_pending`, the detector, the run, the window of a new alert |
| `RunFails` | the same, with a run of the pipeline that raises after the windows were grown: the stream is over |
| `StreamEnds`, `RunStream` | the records are over; the owner reads on with the same bridge |
| `FlushPending` | `flush_pending` at the end of a stream |
| `Poll` | the worker takes the queue and decides each item |
| `Reset` | `reset` of the bridge |

**`RulePublisher`** makes one step of each call of the two publication paths
(`BaseSha`, `GetFile`, `EnsureBranch`, `GetBranch`, `PutFile`, `OpenPr`, and after a
422 `ExistingPr`, which may find none); `CallFails`, `AnswerLost` and `NotDecoded`, which
no handler catches, are the ways a call breaks; `Merge` and `Close` are the operators.  A git blob is named by what it holds, so a sha is a content.

**`LearningCycle`** follows the worker through a cycle: `Tick` (is the refresh due),
`Fetch` and `FetchFails` for each feed, `Apply` (the catalogue file), `Added`,
`Report`, `DraftNext`, `CycleEnds`; `Raises`, `DraftRaises` and `Restart` cut it off.  The
catalogue is a list, which the patch tool expects, or a mapping, as shipped (`shape`).

**`ComplianceGates`** has the conversion of failures to POA&M items, the thresholds,
the metrics and the domain gates as operators over records and sets of items.
**`ReleasePipeline`** drives them as the two workflows do:

| Action | Code |
|---|---|
| `Push`, `Register`, `RegisterGates`, `Track`, `Rerate`, `Rebuild`, `Restore` | people: a commit, a campaign's or the gates' findings taken into the POA&M, an entry on an item, a label of risk in words of their own, the POA&M rebuilt, a tree pushed again after it was erased |
| `Dispatch` | people: a deployment started by hand (`workflow_dispatch`), from main or another branch |
| `Nightly`, `Atlas`, `ReportAndPoam`, `RunElsewhere` | `ai-redteam.yml`: the schedule, the two jobs, a run on a branch |
| `Gated`, `Approve`, `Refuse`, `Bump`, `Watch`, `Healthy`, `Degraded` | `cd-prod.yml`, one deployment for each branch, as its concurrency group has it: the gates, the environment's approval with the checkout of main that follows it, the push of the image, the watch, and the revert |

The gate and the exporter of metrics parse the POA&M with maps of labels of their own,
`SeverityAliases` and `MetricsAliases`.

**`ContinuousAto`** holds what a scrape of `/metrics` computes: the verification of
the rules by simulated attacks, the snapshot of the service levels, the breaches, the
gaps and the decision, which are operators over sets of scenarios and rules.
**`PartnerRelease`** holds the bundles, what a tier is given of one, and the
envelope.  **`Positions`** has the part of a sequence at some of its positions, which
several modules need and proofs can unfold.

Bounds are constants named in each module: `StoreCap`, `MemberCap`, `MaxReopen`;
`MaxAlerts`, `MaxGap`; `TopK`, `PageSize`; `MaxEntries`, `Horizon`;
`ChainCap`, `SeenCap`, `TTL`, `MinSupport`, `MaxPolls`; `MaxRestarts`; `Tries`;
`Stops`; `MaxClock`; `MaxConfirms`, `MaxTime`; `MaxCommits`; `MaxMisread`.

## 3. What the runs check

| Run | Instance | Properties |
|---|---|---|
| `incident` | 1 actor, 2 fingerprints, 3 alert ids, room for 2 cases, 2 members, 1 reopening | `ContainedIffConfirmed` (the trust boundary), `ReportableIsCounted`, `NothingLostSilently` (only eviction and fold forget), `ReopenNeedsNewAlert`, `ImplementsLifecycle` (refinement of `CaseLifecycle`) |
| `correlator` | 3 assets, 1 indicator, window of 1, cap of 4 | `ReportedOncePerSpell`, `ArmedIsNotStarved`, `ClusterIsSemantic` |
| `experience` | 2 actors, 2 signals, calls that fail or are refused (misread for one record), restarts | `ClearedStaysClosed` (what a whole review undid stays undone, but for records whose refusal was misread), `QueuedIsRevoked` (with the same exception), `OnlyConfirmationUndoes` |
| `dynamics` | 4 threats for 2 places, 5 time units | `DwellIsActivity` (unless two threats overtook it), `LateralIsUpstreamActive` |
| `actor` | 2 actors, 2 techniques, 8 observations, chain of 4, 2 seen ids, TTL 2, support 1, 6 polls, failing loads and writes | `PredictionsConserved`, `FlaggedThenHit` (what comes true was flagged by the hot path), `PredictedFromLastSteps` |
| `pipeline` | 2 runs, 8 pairs of alerts, 3 graphs, all verdicts and answers, 1 restart | `NoUnapprovedResponse` (consent is what the code takes for it), `EscalateOnly` (more signals never mean less), `NoDowngradeUnderLock`, `EveryRunSettles` (with a report, with an operator, or with the error of an answer that cannot be decoded) |
| `publisher` | 3 requests (a row to add, a row to tighten, a drafted rule), lists of 2 keys, 2 tries | `PullRequestIsOneChange` |
| `learning` | 2 feeds, 2 techniques, a catalogue that is a list or a mapping, cap of 1, 2 drafts a cycle, 2 stops | `DraftedOnce` (unless a refresh did not write it), `NewIsCatalogued` (of a list), `MissingComesBack` (what is not written is drafted again without an end) |
| `bridge` | windows of 4, an effect of 2 in a row, anomalies kept 4 records, 2 alerts | `CorrelatedIsCaught`, `OneOutcomePerAlert`, `ForgivenIsQuiet`, `OutcomeArrives` |
| `lookups` | 2 alerts in one cell (one with indicators, a CVE and an artifact), budget of 2, TTL of 2, 2 time units | `EgressIsBounded`, `HeardCounts`, `FetchedOnce`, `InvestigationEnds` |
| `report` | 1 actor, 3 alert ids and an alert without actor, 3 tactics and one outside the matrix, steps and store of 2, 3 queries, 2 confirmations, 1 time unit, 3 of the hypotheses, two verdicts of the worker, the hunt on, recalls that fail | `CampaignIsGrounded`, `AnswersCoverReach`, `AuthorityIsEarned`, `FlaggedIsNotBenign`, `EntryIsTraced` |
| `gates` | 3 revisions (one robust, one leaky and in production, one blind), 2 gaps of the profile, main and one more branch, 3 pushes or deployments by hand, a label only the gate knows, an entry that closes and one that does not | `ProductionPassedItsGates`, `RelapseIsCritical`, `GateAndMetricsAgree` (but for the labels the exporter does not know) |

Why these sizes suffice.  A store for two cases with three possible keys is the
least in which an eviction, a fold and a reopening can meet; the second alert of a
fingerprint is what makes a fold ambiguous.  A window of four with three as the
storm count lets age, cap and threshold cut at different alerts.  Two actors and two
signals give every overlap of "same actor" and "shares a signal".  Two places for
four threats are the least where an entry is overtaken once without being dropped.
In `actor`, three steps make the first prediction, and in a chain of four the
fifth step pushes out the first; a TTL of two lets a prediction age, come true and
run out; six polls hold all of that and a repeated delivery.
In `pipeline`, the properties relate two alerts at most, so two runs suffice; the
pairs are one alert and the same alert with signals added, because `EscalateOnly`
is about exactly those, and they reach every gate (severity, mission risk,
playbook, runbook), a playbook with two gates in a row, one with a loop, and one
absent.
In `publisher`, two requests on one file are what makes a conflict, and the second
try of each is what meets the leavings of the first.
In `learning`, two feeds that bring the same technique, or two at once to a cap of
one, are the ways a diff can overlap or be held back.
In `bridge`, two alerts whose windows overlap share their records, a window of four
holds an effect in its first and in its second half, and a flush can cut it anywhere.
In `lookups`, a budget of two is shared by what the alert carries and what a sandbox
extracts; two alerts meet at a lock, and a key's bucket passes while a request is
under way.
In `report`, steps of two make the third attack push out the first, while its
techniques stay on file; two confirmations and one alert give a campaign of two.
In `gates`, a revision that is leaky is in production and the artifact of a better one
may be kept from before, so that three pushes register a finding, close its item and
register its relapse with a baseline.  As many let a deployment be overtaken by a push
and by one from another branch, be rolled back, and the tree be restored.
In `experience`, a refusal misread for one record is what two documents of a name take;
which record, and how often, is free.

Deadlock is not checked where the system may stop: the runs of the pipeline and the
tries of the publisher have all ended, the bounded alerts have come, the feeds stand
still.

**Fairness.**  `SocPipeline`: weak fairness of each run's nodes, because LangGraph's
event loop executes the next node of a run that is not interrupted, and every lookup
inside a node has a deadline (`InvestigationAgent._bounded`).  Nothing makes an
operator answer, an alert arrive, or a process restart, and `EveryRunSettles` counts
a run that waits for its operator, or was lost by a restart, as settled.
`Investigation`: weak fairness of each investigation's step, because each request has
a timeout of its own and each stage a deadline.  `SimBridge`: weak fairness of
`Receive`, which is enabled only while the stream is read: the vehicle reports steadily.
A stream ends whenever it likes, and does when a run of the pipeline raises; nothing
makes an owner read on, flush or poll, since nothing in the repository does, and
`OutcomeArrives` exempts a stream that has ended.  `LearningCycle`: weak fairness of the worker's
steps, and strong fairness of each feed's successful fetch: a feed that is asked
again and again answers sometime.  How often the worker raises or restarts is
bounded by `Stops`; without a bound no cycle need ever end.

## 4. What is proved

Each theorem holds for every value of the constants under the named `ASSUME`s of
its module, and is checked to the last leaf.  Some of the theorems are about
invariants no run lists, since the proof says more than the run would.

**`IncidentCaseProofs`.**  *The store.*  `TypeCorrect`, `TrustBoundary`,
`FingerprintsUnconfirmed`, `ReportablesCounted`.  The trust boundary alone is not inductive: folding moves a
fingerprint case's state into an actor's case, so the proof needs to know that
fingerprint cases are still provisional and early.  `TrustInv` is that conjunction.
`NoSilentLoss` and `ReopeningsBringNews` (a member of the window just then reopens
nothing; an alert that slid out of it counts as new) are of a step, and need that
recency is a strict order of the cases in the store and that there are at most
`StoreCap` of them (`LruInv`): then a full store has exactly one first case, and that
is the one an eviction takes.  `CasesRefineLifecycle` maps each step of the store to a
step of `CaseLifecycle` or to a stutter, for whichever cases the step changes.

*The reports.*  `AuthorityEarned` lifts the trust boundary to what a report claims:
every case in the store that has authority was confirmed by an observation the worker
was told of, also when an alert or an outcome is half-way through (`AuthorityInv`).
`AnswersCover`: a profile forgets steps but no technique, so what is filed is what
the worker was told of the actor (`CoverInv`).  The rest go through `TraceInv`: the
steps on file are traced to confirmed alerts of that actor, in order, and of the last
of them none is left out.  `CampaignsAreGrounded` follows for the chains that the
steps and the alert match, `MarginsAreMeasured` with lemmas about the median of
finitely many pauses; the margin is a computation on the recalled steps, so no run
repeats what the theorem says.  `FlaggedAreNotBenign` is about the ranking of the
explanations: what speaks against one is a sum over the ledger, taken as a function of
its prefixes, and the first of the ranking is preceded by none.  It has the hypothesis
`Discerns(Catalog)`: either flag of an alert refutes the null hypothesis, and some other
explanation is refuted by one rule at most, which weighs less.  TLC evaluates it on the
rules of the shipped file (`Shipped` in `MC_IntrusionReport`).  `EntriesAreTraced`:
there are finitely many leads, each with queries at places of their own, and unless the
cap cuts the plan each is asked.

*What a partner is given.*  `NothingElseLeaves`: of any bundle a tier is given only
objects of its types, with the fields and references that are safe, and relations
whose two ends are given as well.  `AdversaryNeverShows` and `OnlyTechniquesShow` are
about two diamonds: what differs in their adversaries and victims, or with the shipped
tiers in anything but public techniques, makes no difference to what is given.  TLC
evaluates the same on small diamonds (`ASSUME`s of `MC_IntrusionReport`).

**`AlertCorrelatorProofs`.**  `TypeCorrect`, `OncePerSpell`, `NotStarved`,
`ClustersAreSemantic`.  The early return leaves stale flags, so what a flag says is
known only relative to the observation that last evaluated it: `Turns` and
`HeldBack` record which pattern's turn was skipped, and why; `Sorted` makes age
eviction remove a prefix.

**`ExperienceMemoryProofs`.**  `TypeCorrect`, `ClearedStays`, `QueueIsRevoked`,
`ConfirmationUndoes`.  Between a delete and an upload a record is in the store
under no name, and between the first and the last record of a review only some are
revoked: `Calls` says what the call in progress may have done, `Progress` which
matching records are left.  A refusal behind an HTTP 200 is among the faults; from the
moment one is taken for the absence of a record, several documents may bear its name,
and exactly those records (`misread`) are exempt.  `ClearedStays` assumes that a page
is no larger than what retrieval ranks; section 6 says what happens otherwise.

The same module has the theorems of `Investigation`.  `OneFetchPerKey`: who fetches
is first at the lock and its key has no entry (`SkyInv`), because an entry carries the
time it was asked for and two times of one key are less than a TTL apart.
`WhatLeavesIsBounded`: an alert's list is sanitized, what was sent is of the list, and
the list that joins what a sandbox extracted keeps all of the list it had
(`EgressInv`); that last part is a pigeonhole argument, since a full list could only
lose an indicator to one that comes before it.  `WorstCounts`: the answers of a
service stand in the order of the list it was asked, so what is merged is what the
services said; of finitely many verdicts the worst exists; and a confidence is at
most one (`ConfInv`), so a malicious verdict raises it unless it is one already.

**`DynamicsTrackerProofs`.**  `TypeCorrect`, `DwellCorrect`, `LateralCorrect`.  The
code forgets lazily, at whichever alert comes next, so the invariant (`History`,
`Attacks`) relates the dictionaries to the real activity before eviction.

**`ActorProfileProofs`.**  `TypeCorrect`, `ConservationHolds`, `SettlementHolds`,
`EngagementHolds`, `SignatureHolds`, `FlagHolds`, `UnconfirmedHolds`.  The invariant
(`Invariance`) is about a stored profile: its pending predictions have distinct
techniques and an age that counts the merges since they were made, its seen ids
are touched ones, and all of them while they fit, it is signed, and what was issued is what was
hit, missed or is pending.  Conservation is counting: the pending set splits into
the hits, the missed and the rest, ageing maps it one to one, and a technique is
issued only if none of that name is left.  `FlagHolds` needs `since > 0`: a profile
with a pending prediction has an alert, so it is in the store and the hot path
could have flagged what comes true.  `PredictionsGrounded`: the chain is the end of the
history, at most as long as the cap (`ChainRemembers`), so the counts that the predictor
takes over the chain are counts over the actor's last steps.

**`SocPipelineProofs`.**  `TypeCorrect`, `SeverityMonotone`, `LockHolds`,
`ApprovalHolds`.  `SeverityMonotone` goes through the rules in their order: each is
monotone, the lateral floor included, and so are the lock and the clamp.  `Rated`
says that what triage wrote is a function of the alert it wrote; it makes
`LockHolds` inductive.  `Gate` says of each node what the run may hold when it gets
there; that the second execution of the approval node decides as the first did, and
that response finds the playbook's branch the gate saw (`ShownIsRequired`), are the
two lemmas behind `ApprovalHolds`.  Consent there is what the code takes for it: a true,
or any answer in words.  `SignalsEscalate` is the whole of `EscalateOnly`:
beyond the severity, that an alert with more signals meets a gate whenever the one with
fewer does.  The walk of a playbook is a function over step numbers, whose
unfolding is proved by a least counterexample; a walk that meets no gate that holds it
meets the same gates at a lower risk, since a gate holds from its threshold up.

**`RulePublisherProofs`.**  `TypeCorrect`, `OneChange`, `OpenedIsThere`.  A request
reads its file after the commit it branches from and may find a branch of an earlier
try, so what it is about to put need not fit the branch.  The invariant says that a
branch holds its base's text or that text with the change, and relates what a
request carries to the sha it sends: GitHub takes the text only for the content it
was made from, and applying a change twice is applying it once.  `OpenedIsThere` says
that a request reported as opened has its whole change on its branch, and a pull
request when it names one: a 422 that is no pull request leaves neither url nor pull
request, and the code still says "opened".

The module also has `NeverDraftedAgain` of `LearningCycle`: a technique is drafted a
second time only after a refresh that brought it and did not write it, wherever the
worker raises or restarts, be the catalogue a list or a mapping.  Its invariant
(`LearningInv`: `Places`, `DiffsInv`, `QueueInv`, `DraftInv`) says that what a diff
under way or the queue brings has not been drafted unless it was left unwritten, and
that only what is in the catalogue or was left unwritten has been drafted.

**`BridgeReleaseProofs`.**  Of the bridge: `SpoofingIsCaught` (`DetectorInv` relates the
detector's counters to what was really received), `EachAlertIsJudgedOnce` and
`HarmlessWasQuiet` (`BridgeInv`: the alerts learned, queued and pending are one sequence
cut in three; an older window is a longer one, so only the oldest fills up; and a threat
that was heard is in every window it concerns).  Of the release: `OnlyGatedRevisionsShip`
(`RoadInv`: each branch's deployment past the gates carries a revision that passed its
own, whatever becomes of main), `RelapseBlocks` and `SameCounts` (`PoamInv`: there are
finitely many items; every label the exporter knows the gate knows too, and as the same
severity, so what differs are the open items with other labels, which the exporter adds
to the medium ones).  Of the continuous authorisation, which
keeps no state: `AuthorizedOrAtRisk`, that it is never conditional, and
`SurgeNeverEnds`, that a service level on a counter stays broken once it was.  The
two have the hypothesis `ShippedPolicies`, which says of the policy files
what they need: the severities of the service levels, the readiness rule at or
above the floor.  They state what the code does, not what it was meant to do.

**Assumptions.**  Each `ASSUME` is in the module that declares the constants, and TLC
evaluates it on every run.  They say what the code guarantees of its inputs: types
that the models' classes enforce, what the loaders of policies demand
(`PolicyAssumption`, `CatalogAssumption`, `GatesAssumption`, `MatrixAssumption` and
`SpansAssumption` with finitely many rows and templates, `ChainsAssumption` with no
technique twice in a chain, `PlaybookAssumption` with finitely many steps), caps that
are positive (`CapsAssumption`), similarities between 0 and 1
(`InvestigationAssumption`), and that a value that stands for "none" is none of the
others (`NoneIsNoRisk`, `NoCaseAssumption`).  Inductions over data are not done with
the library's induction theorems: a least counterexample, or a finite set's first
element, takes their place.

**Model-checked only.**  Liveness (`EveryRunSettles`, `NewIsCatalogued`,
`MissingComesBack`, `OutcomeArrives`, `InvestigationEnds`) is out of the prover's reach.  Every invariant
and action property that a run checks, and the refinement, is also a theorem.  No
module declares a RECURSIVE operator; where the code sorts, filters or adds up and a
proof must see it, the model says which order the result has, or takes a function
over positions, rather than an operator of the community modules that the provers
cannot unfold.

## 5. What is not modelled, and assumptions

Not modelled, or partly, and why:

- Texts, rationales, timestamps that steer nothing, metrics, logs and dashboards.  An
  alert is a record of the fields that decide something.
- Settings, policy files and catalogues are read once; their parsed content is the
  CONSTANTS, and what a loader demands of them the ASSUMEs.
- Retrieval and language models: free choices of `Investigate`, `Validate` (the score
  of the LLM judge, 0, .49, .5 or 1) and `DraftNext`.
- Telemetry synthesis and benchmarks: no state outlives a call; what a benchmark
  measures is a constant of `ReleasePipeline`.
- The detector of the onboard model (`sim_bridge/detector.py`) and the actuator: the
  first judges one record after another by a counter, the second sends two commands
  and keeps nothing.
- The KEV feed of the learning worker: its diff is for an invalidator that the worker
  is never given.
- In a release: the build, its signature and the staging deployment, whose domain
  gates end in an error because its workflow never measures the KPIs; the OSCAL
  documents other than the POA&M, which gate nothing.
- `RecoveryVerifier` is wired into nothing; `hypothesis_assessments` is read by nothing outside the report.

Assumptions:

- `DynamicsTracker` takes a clock that does not go back; the code clamps a negative
  dwell to 0 but evicts by the same clock.
- The release to a partner is called by nothing yet; `PartnerRelease` gives it the
  bundles of the exporter, as its docstring says (`core/releasability.py`).
- `SocPipeline.Submitted`: no caller sets `key_terrain` itself.  If one did, the graph
  would keep a flag that the detector had cleared whenever nothing else of the alert
  changed (`agents/graph.py:563`), although the detector's docstring says that the
  policy always overrides.
- The builds of `SocPipeline` have their catalogues.  A playbook or runbook catalogue
  that cannot be read becomes "no gate" (`agents/graph.py:406-415`).
- The nodes of `SocPipeline` raise where an answer that cannot be decoded passes the
  handlers (section 6); every other error of a tool or store is caught by its node, and
  a node that raises for another reason, a defect of its own, is outside the model.
- `RunElsewhere` and `Nightly` stand for the red team runs that do not block, a manual
  one on main included.
- Over HTTP an alert carries no `expected_detection` (`core/alert.py`), so the default
  judge calls each of them a false positive; `SocPipeline` has alerts with and without.
  Nor does it carry an actor id, so the analyses of `IntrusionReport` that read a
  profile work for alerts of trusted producers.
- In `ActorProfile` every profile has an actor id: the worker skips an observation
  without one, so a gate never chooses a fingerprint id.  The predictor runs with its
  default `min_probability` of one half, which two techniques at most can have, so
  `top_k` never cuts.  Of an alert with several techniques the code pairs the last
  one with the step before the alert; `PredictedFromLastSteps` speaks of alerts with one.
- `OutcomeProbeAgent` is composed with the other parts only by demos and tests; the
  models take it as the code's own worker.  `SimBridge` with its queue as the worker's
  source is composed only by tests.
- The services behind `Investigation` answer, are late, or fail; Hybrid Analysis has
  only a stub that extracts indicators.  GitHub behind `RulePublisher` and the
  workflows' runner behind `ReleasePipeline` are modelled from how the code uses them.

## 6. Where comments and code disagree

Met while modelling; each can be reproduced from the modules named.

- `IncidentCase`: a report after the confirmation overwrites the authoritative
  category (CAT1) with a provisional one, and the case can then be routine
  (`core/incident.py:357`; `core/intent.py:4-6` promises otherwise).  A new alert
  that was folded in first is no longer new, and the closed case stays closed
  (`core/incident.py:394`).  Folding takes the member list past its cap (`:457`).
- `AlertCorrelator`: a pattern that has cleared keeps its flag when an earlier pattern
  is reported, and its next spell goes unreported (`core/correlation.py:99`).
- `ExperienceMemory`: a failing upload after the delete loses a record
  (`tools/ragflow_experience.py:240`, docstring at 221).  A lookup or a delete that the
  store refuses with an HTTP 200 and a `code` other than 0 reads as "no such document"
  (`:82-92`, `:247-264`): the same false positive can be learned anew beside its revoked
  record, and a queued case can go on suppressing.  A truncated scan calls itself complete.
  A review that fails is not made again, so that its suppressions stand until the next
  confirmed attack that matches (`core/actors.py:334`).
- `SocPipeline`: with the shipped weights, an alert with signals and a rule that nothing
  else supports lies on the threshold exactly when the language model fails, and counts
  as a true positive (`agents/judges/ensemble.py:65`); one with similar cases or
  experience stays a true positive whatever the language model says.  Any answer of the
  operator that is neither a boolean nor a dict counts by its truth, so that the word
  "no" is consent (`agents/approval_agent.py:37`).  `resp.json()` and the decoding of
  what it holds raise a `ValueError` that neither the clients' handlers
  (`tools/gnss_jam_tool.py:87`, `tools/airspace_tool.py:94`, `tools/rule_publisher.py`)
  nor those of the nodes (`agents/investigation_agent.py:529` and `:541`,
  `agents/rule_update_agent.py:189`) catch: the run of such an alert is lost without a
  report.
- `ActorProfile`: a profile files all techniques of an alert under its first tactic
  (`core/actors.py:183`), so a tactic that comes second is never on file.
- `RulePublisher`: publication calls itself idempotent (`tools/rule_publisher.py:7`), but
  the retry of a watch list whose put took effect sends the sha of the base (`:222`) and
  is refused as a conflict.  Every 422 to a request for a pull request is taken for one
  that is open already (`:329`); when the look-up then finds none, the publication is
  reported as opened, without a url.
- `LearningCycle`: the catalogue in the repository is a mapping where the patch tool
  expects a list (`tools/graph_yaml_patch.py:85`, docstring at 3), so with that file
  nothing is ever written, and the first techniques of the feeds are drafted again at
  every refresh (`MissingComesBack`).  An error of another kind in one draft ends the
  cycle's other drafts (`app/learning.py:81-95`); the pull requests for techniques removed or above the cap
  carry neither a row nor a file, which the publisher refuses.
- `SimBridge`: a window of 30 records is one minute (`sim_bridge/observation_source.py:134`)
  and `core/outcome.py:9` asks for five before anything is called harmless, so no
  outcome of the default bridge ever is.  A run of the pipeline that raises ends the
  stream (`sim_bridge/bridge.py:152`, `scripts/sim_live_bridge.py:132`), and the windows
  then open are judged only if somebody reads on or flushes; nothing in the repository
  polls the queue but tests.
- `Investigation`: distances to aircraft are computed for the first alert of a cell and
  cached for all of them (`tools/airspace_tool.py:98`, `core/models.py:116`).  A key of
  that cache holds the bucket of the time, so an entry is never met after its TTL.
- `IntrusionReport`: `direct(incident_case)` is called without the time, so a report is
  never overdue.  CredentialAccess has courses of action and a recovery plan but no row
  in `data/attack_coverage.yaml`, so its courses are never shown.  A recall that fails
  empties the analyses of the history without a word (`agents/report_agent.py:392`).  A
  delegated case that was reopened is called routine while its directive demands an
  approval.
- `ActiveHunt`: a forward query's window begins at the alert and is still in the future
  when it runs at once; forced backward queries are cut without a word when predictions
  fill the cap; with a posture level the policy does not know, key terrain lowers the
  threshold below the alert itself.
- `ContinuousAto`: the service levels are "warning" or "critical", but the gaps know
  only low, medium and high, so every breach counts as high; the floor of 0.8 and the
  answer "conditional" therefore never show on `/metrics`.  The measured ratio of the
  rules is always their readiness.  Counters such as `alerts_total` start with the
  process and never fall, so what is meant as a surge of alerts puts the platform
  at risk until it is restarted.
- `PartnerRelease`: the identifier of a released bundle is still that of the whole bundle,
  though its objects are not.
- `ActiveHunt`: a tactic named in `cpcon_thresholds` that the matrix does not have puts
  the threshold just behind the alert, so at that posture nothing is traced back
  unless it is forced; `EntryIsTraced` is about a posture whose tactic is in the matrix.
- `ReleasePipeline`: the rollback reverts the bump in a checkout of depth 1, where the
  revert removes every file instead of restoring the previous version
  (`_workspace/02_pipeline_config/.github/workflows/cd-prod.yml:500`, comment at 491), and does nothing
  when main has moved.  The policies that warn return before the regression check,
  though the header of `ai-redteam.yml` (line 27) says that regressions block under
  every trigger.  T0015 is "tracked, not a gate", yet a push to main with T0015 evading
  fails and keeps no baseline.  The atlas job looks for `previous_pass.json` while the
  artifact that is kept holds `passing_ttps.json`.  The merged POA&M is not committed,
  and `build_oscal.py` writes the file anew before the thresholds of a release are
  applied to it.  The nightly run shares the concurrency group of main's pushes and cancels one that
  could block; its own success, which only warns, satisfies the 24 hour check, as does
  that of any branch.  "closed" is looked for as a substring that also matches
  "unresolved" in Korean (`미해결`).  A deployment started by hand from another branch
  puts the image of that branch into main's manifests.
- `ComplianceGates`: the exporter of metrics calls its labels those of the gate
  (`compliance/oscal/oscal_to_metrics.py:74`) but lacks seven of them
  (`compliance/oscal/check_poam_thresholds.py:56-72`), the other words for critical, high,
  medium and low, `moderate`, `informational` and `info`: what the gate blocks on as
  critical can show as medium.  A label neither knows counts by its status in the gate
  and as medium in the metrics.

## 7. Plan

1. A composition of `SocPipeline` and `ExperienceMemory`: a suppression revoked
   between investigation and validation.
2. Theorems about the operators that have none of their own: the merge of
   vulnerabilities (`MergeVulns`), the route of an artifact, the thresholds of the
   domain gates.
3. `app/metrics.py` and the dashboards: what a snapshot shows while an alert is under
   way.
