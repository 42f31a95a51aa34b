-------------------------- MODULE ReleasePipeline --------------------------
(***************************************************************************)
(* The road of a revision from main to production, as the workflows        *)
(* ai-redteam.yml and cd-prod.yml of _workspace/02_pipeline_config drive   *)
(* the gates of ComplianceGates.                                           *)
(*                                                                         *)
(* Of the red team workflow at most one run is under way on main, a new    *)
(* one cancels it; of the deployment at most one runs and one waits for    *)
(* each branch it was started from, a new one takes the place of the one   *)
(* that waits.  People push to main at any time, start a deployment by     *)
(* hand from any branch, register the findings of a campaign in the POA&M, *)
(* and close, annotate or re-rate its items.  A push the workflow itself   *)
(* makes (the image in the manifests, and its revert) starts no workflow,  *)
(* and is refused when main has moved since its checkout.                  *)
(*                                                                         *)
(* The checkouts have no fetch-depth, so git knows one commit and not its  *)
(* parent: what git reverts that commit to is the empty tree.              *)
(*                                                                         *)
(* Left out: the build, its signature and the staging deployment, whose    *)
(* domain gates end in an error because its workflow never measures the    *)
(* KPIs.  Argo CD is configured (ARGOCD_SERVER, AZURE_CLIENT_ID are set).  *)
(***************************************************************************)
EXTENDS ComplianceGates

CONSTANTS
  Results,    \* revision -> what its benchmarks and campaigns measure
  First,      \* the revision in production at first
  Branches,   \* what a deployment may be started from, next to main
  Labels,     \* risk labels people write by hand
  Entries,    \* what they write of an item
  MaxCommits  \* bound on what people push and start by hand

ASSUME ReleaseAssumption ==
  /\ First \in DOMAIN Results
  /\ \A rev \in DOMAIN Results :
       /\ IsFiniteSet(DOMAIN Results[rev].downgrade)
       /\ IsFiniteSet(DOMAIN Results[rev].garak)
       /\ IsFiniteSet(Results[rev].pyrit)

VARIABLES
  main,        \* the revision of the code on main
  commits,     \* pushes so far
  poam,        \* the POA&M on main
  manifest,    \* the revision whose image the manifests name
  campaign,    \* the red team run on main, or None
  kept,        \* the newest ai-redteam-passing-ttps artifact, or None
  recent,      \* a red team run ended in success in the last 24 hours
  erased,      \* the tree of main is empty
  deploy,      \* branch -> its deployment under way, or None
  waiting,     \* branch -> the revision of its deployment that waits, or None
  (* history, which no action reads *)
  registered   \* the campaign this step has registered, or None

vars ==
  <<main, commits, poam, manifest, campaign, kept, recent, erased, deploy, waiting, registered>>

Revisions == DOMAIN Results
Refs == {"main"} \cup Branches
Known == IF kept = None THEN {} ELSE kept

-----------------------------------------------------------------------------
(* Pushes to main. *)

(* resolve-mode: a push to main blocks, the nightly run warns.             *)
Started(rev, event) ==
  [rev |-> rev, event |-> event, policy |-> IF event = "push" THEN "block" ELSE "warn",
   stage |-> "atlas"]

(* Once it is approved, fresh: main has not moved since the checkout of    *)
(* its last job; tag: the image the manifests name in that checkout, None  *)
(* when it is empty; bumped: it has made a commit.                         *)
Queued(rev) ==
  [rev |-> rev, stage |-> "gates", fresh |-> FALSE, tag |-> None, bumped |-> FALSE]

(* The deployments when main has moved. *)
Moved(runs) ==
  [ref \in Refs |-> IF runs[ref] = None THEN None ELSE [runs[ref] EXCEPT !.fresh = FALSE]]

(* One more deployment of a branch, among those under way.                 *)
Enqueue(ref, rev, runs) ==
  IF runs[ref] = None
  THEN deploy' = [runs EXCEPT ![ref] = Queued(rev)] /\ UNCHANGED waiting
  ELSE deploy' = runs /\ waiting' = [waiting EXCEPT ![ref] = rev]

(* Both workflows run on every push.                                       *)
Triggered(rev) ==
  /\ campaign' = Started(rev, "push")
  /\ Enqueue("main", rev, Moved(deploy))

Pushed(rev) ==
  /\ commits < MaxCommits /\ ~erased
  /\ commits' = commits + 1
  /\ Triggered(rev)
  /\ UNCHANGED erased

(* A deployment started by hand, of a branch as it is.                     *)
Dispatch(ref, rev) ==
  /\ commits < MaxCommits
  /\ ref = "main" => rev = main /\ ~erased
  /\ commits' = commits + 1
  /\ Enqueue(ref, rev, deploy)
  /\ registered' = None
  /\ UNCHANGED <<main, poam, manifest, campaign, kept, recent, erased>>

Push(rev) ==
  /\ rev # main
  /\ main' = rev
  /\ registered' = None
  /\ Pushed(rev)
  /\ UNCHANGED <<poam, manifest, kept, recent>>

(* ai_redteam_to_poam.py --append-to-poam on a checkout of main.           *)
Register(live, baseline) ==
  LET failed == CollectFailures(Results[main], {"atlas", "redteam"} \cup live)
  IN  /\ poam' = Merge(poam, {BuildPoamItem(f, baseline) : f \in failed})
      /\ registered' = [failed |-> failed, baseline |-> baseline]
      /\ Pushed(main)
      /\ UNCHANGED <<main, manifest, kept, recent>>

(* failed_gates_poam.json is appended by hand.                             *)
RegisterGates ==
  /\ FailedGates(Results[main], "prod") # {}
  /\ poam' = Merge(poam, EmitPoamItems(Results[main], "prod"))
  /\ registered' = None
  /\ Pushed(main)
  /\ UNCHANGED <<main, manifest, kept, recent>>

(* Somebody writes what became of an item. *)
Track(i, entry) ==
  /\ poam' = (poam \ {i}) \cup {[i EXCEPT !.entries = Append(@, entry)]}
  /\ registered' = None
  /\ Pushed(main)
  /\ UNCHANGED <<main, manifest, kept, recent>>

(* Somebody rates an item anew, with a label of his own. *)
Rerate(i, risk) ==
  /\ poam' = (poam \ {i}) \cup {[i EXCEPT !.risk = risk]}
  /\ registered' = None
  /\ Pushed(main)
  /\ UNCHANGED <<main, manifest, kept, recent>>

(* build_oscal.py writes the file anew, from the profile alone.            *)
Rebuild ==
  /\ poam' = BuildPoam
  /\ registered' = None
  /\ Pushed(main)
  /\ UNCHANGED <<main, manifest, kept, recent>>

(* Somebody takes back the commit that emptied main. *)
Restore ==
  /\ erased /\ erased' = FALSE
  /\ Triggered(main)
  /\ registered' = None
  /\ UNCHANGED <<main, commits, poam, manifest, kept, recent>>

-----------------------------------------------------------------------------
(* The red team workflow. *)

(* On the branch of the pushes: it cancels a run that could block.         *)
Nightly ==
  /\ ~erased
  /\ campaign' = Started(main, "schedule")
  /\ registered' = None
  /\ UNCHANGED <<main, commits, poam, manifest, kept, recent, erased, deploy, waiting>>

(* The steps after one that failed are skipped: nothing is kept then.      *)
Atlas ==
  /\ campaign # None /\ campaign.stage = "atlas"
  /\ LET r      == Results[campaign.rev]
         passed == /\ r.repeatable
                   /\ CampaignExit(CollectFailures(r, {"atlas", "redteam"}), {}, campaign.policy) = 0
     IN  /\ campaign' = [campaign EXCEPT !.stage = IF passed THEN "report" ELSE "failed"]
         /\ kept' = IF passed /\ campaign.event = "push" THEN PassingTtps(r) ELSE kept
  /\ registered' = None
  /\ UNCHANGED <<main, commits, poam, manifest, recent, erased, deploy, waiting>>

(* The list of the last main run overwrites the one of this run.  What the *)
(* live campaigns have uploaded by now is merged in.                       *)
Combined(live) ==
  LET r        == Results[campaign.rev]
      baseline == IF kept = None THEN PassingTtps(r) ELSE kept
      own      == CollectFailures(r, {"atlas", "redteam"})
      failed   == CollectFailures(r, {"atlas", "redteam"} \cup live)
      merged   == Merge(poam, {BuildPoamItem(f, baseline) : f \in own})
  IN  /\ CampaignExit(failed, baseline, campaign.policy) = 0
      /\ campaign.event = "push" => ThresholdExit(merged, "block") = 0

(* The job reports after a failed campaign too; the run has failed then.   *)
ReportAndPoam(live) ==
  /\ campaign # None /\ campaign.stage \in {"report", "failed"}
  /\ recent' = (recent \/ (campaign.stage = "report" /\ Combined(live)))
  /\ campaign' = None
  /\ registered' = None
  /\ UNCHANGED <<main, commits, poam, manifest, kept, erased, deploy, waiting>>

(* A run on another branch only warns, and counts as well.                 *)
RunElsewhere ==
  /\ recent' = TRUE
  /\ registered' = None
  /\ UNCHANGED <<main, commits, poam, manifest, campaign, kept, erased, deploy, waiting>>

DayPasses ==
  /\ recent' = FALSE
  /\ registered' = None
  /\ UNCHANGED <<main, commits, poam, manifest, campaign, kept, erased, deploy, waiting>>

-----------------------------------------------------------------------------
(* The deployment. *)

DeployUnchanged == UNCHANGED <<main, commits, poam, campaign, kept, recent>> /\ registered' = None

MainUnchanged == UNCHANGED <<manifest, erased>>

AtStage(ref, stage) == deploy[ref] # None /\ deploy[ref].stage = stage

(* The run that waited takes over.                                         *)
DeployEnds(ref, runs) ==
  /\ deploy' = [runs EXCEPT ![ref] = IF waiting[ref] = None THEN None ELSE Queued(waiting[ref])]
  /\ waiting' = [waiting EXCEPT ![ref] = None]

(* g2-gate, ai-redteam-check, oscal-gate: each on a checkout of its own.   *)
ReleaseReady(rev) ==
  /\ GatesExit(Results[rev], "prod") = 0
  /\ recent
  /\ ThresholdExit(BuildPoam, "block") = 0

Gated(ref) ==
  /\ AtStage(ref, "gates")
  /\ IF ReleaseReady(deploy[ref].rev)
     THEN deploy' = [deploy EXCEPT ![ref].stage = "approval"] /\ UNCHANGED waiting
     ELSE DeployEnds(ref, deploy)
  /\ DeployUnchanged /\ MainUnchanged

(* Up to a day later, or never: the image does not scan, nobody approves.  *)
(* Approved, it checks main out, whatever branch it is of.                 *)
Approve(ref) ==
  /\ AtStage(ref, "approval")
  /\ deploy' = [deploy EXCEPT ![ref].stage = "bump", ![ref].fresh = TRUE,
                              ![ref].tag = IF erased THEN None ELSE manifest]
  /\ DeployUnchanged /\ MainUnchanged /\ UNCHANGED waiting

Refuse(ref) ==
  /\ AtStage(ref, "approval")
  /\ DeployEnds(ref, deploy)
  /\ DeployUnchanged /\ MainUnchanged

(* Faulty variant: the image of what main holds by now. *)
BumpedToHead(ref) == main

(* gitops-bump writes the tag of the revision the run was started for.     *)
Bumped(ref) == deploy[ref].rev

(* Without a change in the manifests there is no commit; without a         *)
(* manifest, or when the push is refused, the run has failed.              *)
Bump(ref) ==
  /\ AtStage(ref, "bump")
  /\ \/ /\ deploy[ref].tag = Bumped(ref)
        /\ deploy' = [deploy EXCEPT ![ref].stage = "synced"]
        /\ UNCHANGED <<manifest, waiting>>
     \/ /\ deploy[ref].tag \notin {None, Bumped(ref)} /\ deploy[ref].fresh
        /\ manifest' = Bumped(ref)
        /\ deploy' = [Moved(deploy) EXCEPT ![ref] =
                        [deploy[ref] EXCEPT !.stage = "synced", !.bumped = TRUE]]
        /\ UNCHANGED waiting
     \/ /\ deploy[ref].tag # Bumped(ref)
        /\ deploy[ref].tag = None \/ ~deploy[ref].fresh
        /\ DeployEnds(ref, deploy) /\ UNCHANGED manifest
  /\ DeployUnchanged /\ UNCHANGED erased

(* rollouts-monitor checks main out, then watches for up to 50 minutes.  A *)
(* commit of the bump that is not the head of main is not in its checkout. *)
Watch(ref) ==
  /\ AtStage(ref, "synced")
  /\ deploy' = [deploy EXCEPT ![ref].stage = "rollout"]
  /\ DeployUnchanged /\ MainUnchanged /\ UNCHANGED waiting

Healthy(ref) ==
  /\ AtStage(ref, "rollout")
  /\ DeployEnds(ref, deploy)
  /\ DeployUnchanged /\ MainUnchanged

(* The rollback.  Reverted with no parent in sight, the commit of the bump *)
(* leaves no file; when main has moved since the bump, nothing is pushed.  *)
Degraded(ref) ==
  /\ AtStage(ref, "rollout")
  /\ LET reverts == deploy[ref].bumped /\ deploy[ref].fresh
     IN  /\ erased' = (erased \/ reverts)
         /\ DeployEnds(ref, IF reverts THEN Moved(deploy) ELSE deploy)
  /\ DeployUnchanged /\ UNCHANGED manifest

-----------------------------------------------------------------------------
Live == {{}, {"garak"}, {"garak", "pyrit"}}

(* The red team workflow has run before, on another revision, or not yet.  *)
Init ==
  /\ main = First /\ manifest = First
  /\ commits = 0
  /\ poam = BuildPoam
  /\ campaign = None /\ recent = FALSE
  /\ kept \in {None} \cup {PassingTtps(Results[rev]) : rev \in Revisions \ {First}}
  /\ erased = FALSE
  /\ deploy = [ref \in Refs |-> None] /\ waiting = [ref \in Refs |-> None]
  /\ registered = None

Next ==
  \/ \E rev \in Revisions : Push(rev)
  \/ \E live \in Live, baseline \in {{}, Known} : Register(live, baseline)
  \/ RegisterGates
  \/ \E i \in poam, entry \in Entries : Track(i, entry)
  \/ \E i \in poam, risk \in Labels : Rerate(i, risk)
  \/ Rebuild \/ Restore
  \/ Nightly \/ Atlas \/ \E live \in Live : ReportAndPoam(live)
  \/ RunElsewhere \/ DayPasses
  \/ \E ref \in Refs, rev \in Revisions : Dispatch(ref, rev)
  \/ \E ref \in Refs :
       \/ Gated(ref) \/ Approve(ref) \/ Refuse(ref)
       \/ Bump(ref) \/ Watch(ref) \/ Healthy(ref) \/ Degraded(ref)

Spec == Init /\ [][Next]_vars

-----------------------------------------------------------------------------
(* Properties. *)

(* The image the manifests name is of a revision that passed the domain    *)
(* gates itself, though people push to main while its deployment waits for *)
(* an approval, and whatever the rollback does to main.                    *)
ProductionPassedItsGates ==
  manifest # First => GatesExit(Results[manifest], "prod") = 0

(* What the last main run withstood and now fails is open and critical     *)
(* once the campaign is registered, also when an item for it was closed    *)
(* before, and the thresholds block on it.                                 *)
RelapseIsCritical ==
  registered # None =>
    /\ \A f \in registered.failed :
         \E i \in poam : /\ i.key = KeyOfFailure(f)
                         /\ ~IsClosed(i)
                         /\ f.ttp \in registered.baseline => ClassifyItem(i) = "critical"
    /\ (\E f \in registered.failed : f.ttp \in registered.baseline) =>
         ThresholdExit(poam, "block") = 1

(* The gate and the exporter of metrics parse the file on their own, with  *)
(* maps of labels that have drifted apart: of every open item the exporter *)
(* counts as the gate does, except those whose label it does not know,     *)
(* which it counts as medium, whatever the gate makes of them.  None is    *)
(* left out.                                                               *)
GateAndMetricsAgree ==
  LET unread == {i \in poam : ~IsClosed(i) /\ ~ReadByMetrics(i)}
  IN  OpenBySeverity(poam) =
        [OpenCounts(poam \ unread) EXCEPT !.medium = @ + Cardinality(unread)]
=============================================================================
