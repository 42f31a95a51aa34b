---------------------------- MODULE LearningCycle ----------------------------
(***************************************************************************)
(* The learning worker (app/learning.py): a loop that refreshes the        *)
(* technique catalogue (data/mitre_attack_graph.yaml) from the threat      *)
(* feeds, and has rules drafted for the techniques that are new.  It holds *)
(* together ThreatLandscapeAgent with the feeds' adapters and              *)
(* GraphYamlPatchTool, and AutoKqlRuleAgent with KqlValidator.             *)
(*                                                                         *)
(* Every await is a step, and so is every write of the catalogue: feeds,   *)
(* the model and the publisher fail one by one, the worker can raise in    *)
(* between, and its process can restart.  How a draft becomes a pull       *)
(* request is module RulePublisher; here it does or it does not.  The KEV  *)
(* feed is left out: its diff is a list of CVEs for an invalidator that    *)
(* the worker is never given.                                              *)
(*                                                                         *)
(* A technique is its place in the order of the ids, which diffs and       *)
(* drafts are in.                                                          *)
(***************************************************************************)
EXTENDS Naturals, Sequences, FiniteSets

CONSTANTS
  Feeds,       \* the technique feeds, in the order they are wired
  Techniques,  \* technique ids, a set of numbers
  Shapes,      \* what "techniques" of the catalogue can be; shipped is a mapping
  AddedCap,    \* feed_added_cap
  MaxDrafts,   \* auto_kql_max_techniques
  Answers,     \* what the model can answer to the request for a draft
  Stops        \* bound: how often the agent raises or the worker restarts

ASSUME LearningAssumption ==
  /\ Feeds \in Seq(STRING)
  /\ Techniques \subseteq Nat /\ IsFiniteSet(Techniques)
  /\ Shapes \subseteq {"list", "mapping"}
  /\ AddedCap \in Nat \ {0} /\ MaxDrafts \in Nat \ {0}
  /\ Stops \in Nat

Sources == {Feeds[i] : i \in DOMAIN Feeds}

VARIABLES
  feed,       \* the techniques each feed publishes
  shape,      \* whether they are a list or a mapping there
  catalogue,  \* the techniques in the yaml file
  at,         \* what the worker does: "idle", "fetch", "apply" or "draft"
  next,       \* the feed, or the diff, it comes to next
  diffs,      \* LandscapeDiffs of this refresh
  queue,      \* techniques still to be drafted
  due,        \* feed_refresh_hours have passed since the last refresh
  opened,     \* techniques whose draft was published
  stops,
  (* history, which no action reads *)
  drafted,    \* how often each technique was given to the model: 2 for more
  unwritten   \* techniques of diffs that were worked through and not written

worker == <<at, next, diffs, queue, due, opened>>
history == <<drafted, unwritten>>
yaml == <<shape, catalogue>>
vars == <<feed, yaml, worker, stops, history>>

Init ==
  /\ feed = [s \in Sources |-> {}]
  /\ shape \in Shapes /\ catalogue \in SUBSET Techniques
  /\ at = "idle" /\ next = 1
  /\ diffs = <<>> /\ queue = <<>>
  /\ due = TRUE
  /\ opened = {} /\ stops = 0
  /\ drafted = [t \in Techniques |-> 0]
  /\ unwritten = {}

-----------------------------------------------------------------------------
(* The surroundings. *)

(* A feed publishes one more technique. *)
Publishes ==
  /\ \E s \in Sources, t \in Techniques :
       /\ t \notin feed[s]
       /\ feed' = [feed EXCEPT ![s] = @ \cup {t}]
  /\ UNCHANGED <<yaml, worker, stops, history>>

(* feed_refresh_hours pass. *)
HoursPass ==
  /\ ~due /\ due' = TRUE
  /\ UNCHANGED <<feed, yaml, at, next, diffs, queue, opened, stops, history>>

-----------------------------------------------------------------------------
(* The refresh. *)

(* run_cycle: the gate, which the first tick after a start always passes.  *)
Tick ==
  /\ at = "idle" /\ due
  /\ at' = IF Feeds = <<>> THEN "apply" ELSE "fetch"
  /\ next' = 1
  /\ diffs' = <<>>
  /\ UNCHANGED <<feed, yaml, queue, due, opened, stops, history>>

(* _current_techs: a mapping reads as empty. *)
Current == IF shape = "list" THEN catalogue ELSE {}

(* Faulty variant: the diff tells what the feed has. *)
WholeFeed(s) ==
  [source |-> s, added |-> feed[s], removed |-> Current \ feed[s]]

(* Faulty variant: what was brought once is not told again. *)
NotToldYet(s) ==
  [source |-> s, added |-> feed[s] \ (Current \cup unwritten), removed |-> Current \ feed[s]]

(* compute_diff: one feed is compared with the whole catalogue. *)
DiffOf(s) ==
  [source |-> s, added |-> feed[s] \ Current, removed |-> Current \ feed[s]]

Onward(more) ==
  IF next < more
  THEN next' = next + 1 /\ UNCHANGED at
  ELSE next' = 1 /\ at' = "apply"

Fetch ==
  /\ at = "fetch"
  /\ diffs' = Append(diffs, DiffOf(Feeds[next]))
  /\ Onward(Len(Feeds))
  /\ UNCHANGED <<feed, yaml, queue, due, opened, stops, history>>

(* A feed that stays down after the retries is skipped. *)
FetchFails ==
  /\ at = "fetch"
  /\ Onward(Len(Feeds))
  /\ UNCHANGED <<feed, yaml, diffs, queue, due, opened, stops, history>>

(* Faulty variant: as much as the cap is too much. *)
AtCap(d) == Cardinality(d.added) >= AddedCap

AboveCap(d) == Cardinality(d.added) > AddedCap

(* apply_added: nothing is written into a mapping. *)
Applied(d) == IF shape = "list" THEN catalogue \cup d.added ELSE catalogue

(* run: one diff.  What is added goes into the catalogue.  Above the cap   *)
(* it is, with what was removed, asked for in a pull request, which has    *)
(* neither a watch list row nor a text, so that the publisher refuses it.  *)
Apply ==
  /\ at = "apply" /\ next <= Len(diffs)
  /\ LET d == diffs[next] IN
     /\ catalogue' = IF AboveCap(d) THEN catalogue ELSE Applied(d)
     /\ unwritten' = IF AboveCap(d) \/ shape = "mapping"
                     THEN unwritten \cup d.added ELSE unwritten
  /\ next' = next + 1
  /\ UNCHANGED <<feed, shape, at, diffs, queue, due, opened, stops, drafted>>

(* What is new comes in the order of the diffs, and in one diff by the id. *)
Precedes(a, b) ==
  \E i \in DOMAIN diffs :
    /\ a \in diffs[i].added
    /\ \A j \in 1..(i - 1) : b \notin diffs[j].added
    /\ b \in diffs[i].added => a < b

(* _extract_added_techniques: each one once.  The set holds one sequence. *)
Added ==
  LET new == UNION {diffs[i].added : i \in DOMAIN diffs}
  IN  {ts \in [1..Cardinality(new) -> new] :
         \A i, j \in DOMAIN ts : i < j => Precedes(ts[i], ts[j])}

(* The report is there: only now does the period begin anew. *)
Report ==
  /\ at = "apply" /\ next > Len(diffs)
  /\ due' = FALSE
  /\ \E ts \in Added :
       queue' = SubSeq(ts, 1, IF Len(ts) < MaxDrafts THEN Len(ts) ELSE MaxDrafts)
  /\ at' = "draft" /\ next' = 1
  /\ diffs' = <<>>
  /\ UNCHANGED <<feed, yaml, opened, stops, history>>

(* Whatever the agent raises beside its own errors, as when the file can   *)
(* not be written: there is no report, and the next tick tries again.      *)
Raises ==
  /\ at \in {"fetch", "apply"} /\ stops < Stops
  /\ stops' = stops + 1
  /\ at' = "idle"
  /\ diffs' = <<>>
  /\ UNCHANGED <<feed, yaml, next, queue, due, opened, history>>

-----------------------------------------------------------------------------
(* The drafts. *)

(* KqlValidator.check, of the block that parse_kql finds. *)
Accepts(k) ==
  /\ ~k.empty /\ ~k.too_long
  /\ k.piped
  /\ ~k.command
  /\ k.blocked = {}

(* _call_llm, parse_kql and the validator let the answer through. *)
Usable(k) == k.block /\ Accepts(k)

(* run_for: the next technique.  A draft that is usable is published, or   *)
(* the publisher raises; either way it is not come back to.                *)
DraftNext ==
  /\ at = "draft" /\ queue # <<>>
  /\ \E k \in Answers :
       \/ ~Usable(k) /\ UNCHANGED opened
       \/ Usable(k) /\ opened' = opened \cup {Head(queue)}
       \/ Usable(k) /\ UNCHANGED opened
  /\ queue' = Tail(queue)
  /\ drafted' = [drafted EXCEPT ![Head(queue)] = IF @ = 0 THEN 1 ELSE 2]
  /\ UNCHANGED <<feed, yaml, at, next, diffs, due, stops, unwritten>>

(* Whatever else is raised, as when GitHub's answer can not be decoded,    *)
(* ends run_for: the techniques after this one are not drafted.            *)
DraftRaises ==
  /\ at = "draft" /\ queue # <<>>
  /\ opened' \in {opened, opened \cup {Head(queue)}}
  /\ queue' = <<>>
  /\ drafted' = [drafted EXCEPT ![Head(queue)] = IF @ = 0 THEN 1 ELSE 2]
  /\ UNCHANGED <<feed, yaml, at, next, diffs, due, stops, unwritten>>

CycleEnds ==
  /\ at = "draft" /\ queue = <<>>
  /\ at' = "idle"
  /\ UNCHANGED <<feed, yaml, next, diffs, queue, due, opened, stops, history>>

-----------------------------------------------------------------------------
(* The process restarts: the drafts not yet asked for are gone, the        *)
(* catalogue is on disk.                                                   *)
Restart ==
  /\ stops < Stops /\ at # "idle"
  /\ stops' = stops + 1
  /\ at' = "idle" /\ due' = TRUE
  /\ diffs' = <<>> /\ queue' = <<>>
  /\ UNCHANGED <<feed, yaml, next, opened, history>>

Next ==
  \/ Publishes \/ HoursPass
  \/ Tick \/ Fetch \/ FetchFails \/ Apply \/ Report \/ Raises
  \/ DraftNext \/ DraftRaises \/ CycleEnds
  \/ Restart

(* The loop goes on.  Calls end one way or the other, as each has a        *)
(* timeout; a feed that is asked again and again answers sometime.         *)
Fairness ==
  /\ WF_vars(HoursPass) /\ WF_vars(Tick) /\ WF_vars(Report)
  /\ WF_vars(DraftNext) /\ WF_vars(CycleEnds)
  /\ WF_vars(Apply) /\ WF_vars(Fetch \/ FetchFails)
  /\ \A i \in DOMAIN Feeds : SF_vars(Fetch /\ next = i)

Spec == Init /\ [][Next]_vars /\ Fairness

-----------------------------------------------------------------------------
(* Properties. *)

(* A technique is given to the model once: when two feeds bring it in one  *)
(* refresh, when the worker raises or restarts between the write of the    *)
(* catalogue and the drafts, in every refresh that follows.  A second time *)
(* it is given only after a refresh that brought it and did not write it,  *)
(* being above the cap or having a mapping to write to.                    *)
DraftedOnce == \A t \in Techniques \ unwritten : drafted[t] <= 1

(* What a feed publishes comes into a catalogue that is a list, although   *)
(* feeds fail, the agent raises and the worker restarts: unless so much    *)
(* comes at once that the feed stays above the cap.                        *)
NewIsCatalogued ==
  \A s \in Sources, t \in Techniques :
    <>[](t \in feed[s] /\ Cardinality(feed[s] \ catalogue) <= AddedCap)
      => <>(shape = "mapping" \/ t \in catalogue)

Drafting(t) == at = "draft" /\ queue # <<>> /\ Head(queue) = t

(* The first technique of the first feed that the worker does not find in  *)
(* the catalogue: one above the cap, and, in a mapping, any, were it there *)
(* or not.                                                                 *)
FirstMissing(t) ==
  LET missing == feed[Feeds[1]] \ Current
  IN  t \in missing /\ \A u \in missing : t <= u

(* It is drafted again in refresh after refresh, without an end.  In the   *)
(* catalogue as shipped, a mapping, nothing is ever written, against       *)
(* tools/graph_yaml_patch.py:3, and so the same techniques take the model  *)
(* up each time.                                                           *)
MissingComesBack == \A t \in Techniques : <>[]FirstMissing(t) => []<>Drafting(t)

=============================================================================
