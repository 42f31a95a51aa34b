---------------------------- MODULE RulePublisher ----------------------------
(***************************************************************************)
(* GitHubRulePublisher (tools/rule_publisher.py): how a change of a watch  *)
(* list, or a file with a drafted rule, becomes a pull request of the rule *)
(* repository.                                                             *)
(*                                                                         *)
(* One step is one call to the GitHub API.  The calls of several requests  *)
(* interleave, with each other and with the operators, who merge and close *)
(* pull requests; each call can fail, and the answer to one that took      *)
(* effect can be lost.  The same request can be published again, as when   *)
(* its alert is delivered again: the name of its branch holds the alert's  *)
(* id.                                                                     *)
(*                                                                         *)
(* A git blob is named by what it holds, so the sha of a file is its       *)
(* content here.  The content of a watch list is the column that matters,  *)
(* a function from values of the search key to settings; that of a rule is *)
(* opaque.  A request changes one file, so a branch is that file.          *)
(***************************************************************************)
EXTENDS Naturals

CONSTANTS
  Requests,   \* what may be published; a request is its branch
  Change,     \* the change of each request
  Lists,      \* the contents a watch list can have
  Texts,      \* the texts of the other files
  Absent,     \* no such file
  Tries       \* bound: how often one request is published

(* The changes a request can carry: a row of a watch list, under the       *)
(* search key the agent believes the list has, a whole file, or neither.   *)
ASSUME RequestsAssumption ==
  /\ Tries \in Nat
  /\ \A c \in Lists : c # Absent
  /\ Texts \cap (Lists \cup {Absent}) = {}
  /\ \A r \in Requests :
       /\ Change[r].kind \in {"watchlist", "content", "bare"}
       /\ Change[r].kind = "watchlist" =>
            /\ Change[r].action \in {"add", "modify"}
            /\ Change[r].right_key \in BOOLEAN
       /\ Change[r].kind = "content" => Change[r].text \in Texts

Contents == Lists \cup Texts \cup {Absent}

Path(r) == Change[r].path

Paths == {Change[r].path : r \in Requests}

VARIABLES
  base,    \* the base branch: the content of each file
  branch,  \* the work branches
  pull,    \* their pull requests
  job      \* the publication of each request

repository == <<base, branch, pull>>
publisher == <<base, branch, pull, job>>

NoBranch == [exists |-> FALSE, fork |-> Absent, file |-> Absent]

(* The calls of apublish and of _publish_content, in their order. *)
Calls == {"base_sha", "get_file", "ensure_branch", "get_branch", "put_file", "open_pr",
          "existing_pr"}

Fresh ==
  [at |-> "idle", tries |-> 0, fork |-> Absent, text |-> Absent, sha |-> Absent,
   status |-> "none", url |-> FALSE]

PublisherInit ==
  /\ base \in [Paths -> Lists \cup {Absent}]
  /\ \A r \in Requests :
       Change[r].kind = "content" => base[Path(r)] = Absent
  /\ branch = [r \in Requests |-> NoBranch]
  /\ pull = [r \in Requests |-> "none"]
  /\ job = [r \in Requests |-> Fresh]

-----------------------------------------------------------------------------
(* The change itself. *)

(* apply_watchlist: "add" leaves a list alone that has the key already,    *)
(* "modify" sets the row and appends it when there is none.                *)
ApplyWatchlist(list, c) ==
  IF c.action = "add" /\ c.key \in DOMAIN list
  THEN list
  ELSE [k \in DOMAIN list \cup {c.key} |-> IF k = c.key THEN c.value ELSE list[k]]

(* apply_watchlist_json: the file must be there, and its itemsSearchKey    *)
(* the key that the request names.                                         *)
CanApply(file, c) == file # Absent /\ c.right_key

ASSUME ContentsAssumption ==
  /\ \A r \in Requests : Change[r].kind = "watchlist" =>
       \A list \in Lists : ApplyWatchlist(list, Change[r]) \in Lists
  /\ \A r, s \in Requests : Change[r].path = Change[s].path =>
       (Change[r].kind = "content" <=> Change[s].kind = "content")

(* What is put in place of a file. *)
Text(r, file) ==
  IF Change[r].kind = "content" THEN Change[r].text ELSE ApplyWatchlist(file, Change[r])

-----------------------------------------------------------------------------
(* The calls. *)

At(r, call) == job[r].at = call

Goto(r, call) == job' = [job EXCEPT ![r].at = call]

Returns(r, status, url) ==
  job' = [job EXCEPT ![r] = [Fresh EXCEPT !.tries = job[r].tries,
                                          !.status = status, !.url = url]]

Settle(r, status) == Returns(r, status, FALSE)

Opened(r, url) == Returns(r, "opened", url)

(* A payload with neither a row nor a text is refused before any call. *)
Begin(r) ==
  /\ At(r, "idle") /\ job[r].tries < Tries
  /\ LET bare == Change[r].kind = "bare" IN
     job' = [job EXCEPT ![r] =
               [Fresh EXCEPT !.at = IF bare THEN "idle" ELSE "base_sha",
                             !.status = IF bare THEN "failed" ELSE "none",
                             !.tries = job[r].tries + 1]]
  /\ UNCHANGED repository

(* _base_sha: the commit a new branch will start from. *)
BaseSha(r) ==
  /\ At(r, "base_sha")
  /\ job' = [job EXCEPT ![r].at = "get_file", ![r].fork = base[Path(r)]]
  /\ UNCHANGED repository

(* _get_file on the base branch: nothing to publish when the change is     *)
(* there already.                                                          *)
GetFile(r) ==
  /\ At(r, "get_file")
  /\ LET file == base[Path(r)] IN
     IF Change[r].kind = "watchlist" /\ ~CanApply(file, Change[r])
     THEN Settle(r, "failed")
     ELSE IF Text(r, file) = file
     THEN Settle(r, "unchanged")
     ELSE job' = [job EXCEPT ![r].at = "ensure_branch",
                             ![r].text = Text(r, file), ![r].sha = file]
  /\ UNCHANGED repository

AfterBranch(r) == IF Change[r].kind = "content" THEN "get_branch" ELSE "put_file"

(* _ensure_branch: a branch that exists is used as it is (422). *)
Branched(r) ==
  IF branch[r].exists
  THEN branch[r]
  ELSE [exists |-> TRUE, fork |-> job[r].fork, file |-> job[r].fork]

EnsureBranch(r) ==
  /\ At(r, "ensure_branch")
  /\ branch' = [branch EXCEPT ![r] = Branched(r)]
  /\ Goto(r, AfterBranch(r))
  /\ UNCHANGED <<base, pull>>

(* Only a file with a text is looked up on its own branch. *)
GetBranch(r) ==
  /\ At(r, "get_branch")
  /\ job' = [job EXCEPT ![r].at = "put_file", ![r].sha = branch[r].file]
  /\ UNCHANGED repository

(* Faulty variant: the sha of the file on the branch, whatever was read. *)
BranchSha(r) == branch[r].file

(* The sha that _put_file sends with the text. *)
SentSha(r) == job[r].sha

(* _put_file: GitHub commits the text when the sha names the file that is  *)
(* on the branch, and answers 409 otherwise.                               *)
PutFile(r) ==
  /\ At(r, "put_file")
  /\ IF SentSha(r) = branch[r].file
     THEN /\ branch' = [branch EXCEPT ![r].file = job[r].text]
          /\ Goto(r, "open_pr")
     ELSE /\ Settle(r, "failed")
          /\ UNCHANGED branch
  /\ UNCHANGED <<base, pull>>

(* _open_pr: every 422 is taken for a pull request that is open already,   *)
(* GitHub has other reasons to answer it.                                  *)
OpenPr(r) ==
  /\ At(r, "open_pr")
  /\ \/ /\ pull[r] # "open"
        /\ pull' = [pull EXCEPT ![r] = "open"]
        /\ Opened(r, TRUE)
     \/ Goto(r, "existing_pr") /\ UNCHANGED pull
  /\ UNCHANGED <<base, branch>>

(* _existing_pr_url: no url when none is open any more, or when the answer *)
(* has another form.                                                       *)
ExistingPr(r) ==
  /\ At(r, "existing_pr")
  /\ \E url \in {FALSE, pull[r] = "open"} : Opened(r, url)
  /\ UNCHANGED repository

(* apublish raises its own error, which its callers file as failed. *)
Broken(r) == Settle(r, "failed")

(* A call fails, or times out, before it took effect. *)
CallFails(r) ==
  /\ job[r].at \in Calls
  /\ Broken(r)
  /\ UNCHANGED repository

(* The answer is no JSON, or the file in it no text: apublish lets that    *)
(* through, and so do its callers.                                         *)
NotDecoded(r) ==
  /\ \/ /\ job[r].at \in {"base_sha", "get_file", "get_branch", "existing_pr"}
        /\ UNCHANGED pull
     \/ /\ At(r, "open_pr") /\ pull[r] # "open"
        /\ pull' = [pull EXCEPT ![r] = "open"]
  /\ Settle(r, "raised")
  /\ UNCHANGED <<base, branch>>

(* A call that writes took effect, and its answer is lost. *)
AnswerLost(r) ==
  /\ \/ /\ At(r, "ensure_branch")
        /\ branch' = [branch EXCEPT ![r] = Branched(r)]
        /\ UNCHANGED pull
     \/ /\ At(r, "put_file") /\ SentSha(r) = branch[r].file
        /\ branch' = [branch EXCEPT ![r].file = job[r].text]
        /\ UNCHANGED pull
     \/ /\ At(r, "open_pr")
        /\ pull' = [pull EXCEPT ![r] = "open"]
        /\ UNCHANGED branch
  /\ Broken(r)
  /\ UNCHANGED base

PublisherStep(r) ==
  \/ BaseSha(r) \/ GetFile(r) \/ EnsureBranch(r) \/ GetBranch(r)
  \/ PutFile(r) \/ OpenPr(r) \/ ExistingPr(r)
  \/ CallFails(r) \/ NotDecoded(r) \/ AnswerLost(r)

-----------------------------------------------------------------------------
(* The operators, at GitHub.  Git merges a branch when the base still has  *)
(* the file the branch started from: a watch list is one line of its JSON. *)

Merge(r) ==
  /\ pull[r] = "open"
  /\ base[Path(r)] = branch[r].fork
  /\ base' = [base EXCEPT ![Path(r)] = branch[r].file]
  /\ pull' = [pull EXCEPT ![r] = "merged"]
  /\ UNCHANGED <<branch, job>>

Close(r) ==
  /\ pull[r] = "open"
  /\ pull' = [pull EXCEPT ![r] = "closed"]
  /\ UNCHANGED <<base, branch, job>>

Operators == \E r \in Requests : Merge(r) \/ Close(r)

PublisherNext == (\E r \in Requests : Begin(r) \/ PublisherStep(r)) \/ Operators

PublisherSpec == PublisherInit /\ [][PublisherNext]_publisher

-----------------------------------------------------------------------------
(* Properties. *)

(* A file of rules holds rules, a watch list rows. *)
ContentOf(r) ==
  IF Change[r].kind = "content" THEN Texts \cup {Absent} ELSE Lists \cup {Absent}

KeepsKind(r) ==
  /\ base[Path(r)] \in ContentOf(r)
  /\ branch[r].fork \in ContentOf(r) /\ branch[r].file \in ContentOf(r)
  /\ job[r].fork \in ContentOf(r)
  /\ job[r].text \in ContentOf(r) /\ job[r].sha \in ContentOf(r)

Job ==
  [at : Calls \cup {"idle"}, tries : 0..Tries, fork : Contents, text : Contents,
   sha : Contents, status : {"none", "opened", "unchanged", "failed", "raised"},
   url : BOOLEAN]

TypeOK ==
  /\ base \in [Paths -> Contents]
  /\ branch \in [Requests -> [exists : BOOLEAN, fork : Contents, file : Contents]]
  /\ pull \in [Requests -> {"none", "open", "merged", "closed"}]
  /\ job \in [Requests -> Job]
  /\ \A r \in Requests : KeepsKind(r)

(* What a branch adds to the commit it started from is the change of its   *)
(* own request and nothing else, though the file was read after that       *)
(* commit, and the base moved on or the branch is left from another try:   *)
(* GitHub takes the text only when it was made from what the branch has.   *)
PullRequestIsOneChange ==
  \A r \in Requests :
    /\ branch[r].exists => branch[r].file \in {branch[r].fork, Text(r, branch[r].fork)}
    /\ pull[r] # "none" => branch[r].exists /\ branch[r].file = Text(r, branch[r].fork)

(* A request that is reported as opened has its whole change on its        *)
(* branch, and when a url is reported the pull request is there, whatever  *)
(* calls failed, were refused or lost their answer on the way.  Without a  *)
(* url nothing is known of a pull request (tools/rule_publisher.py:329).   *)
OpenedHasPullRequest ==
  \A r \in Requests : job[r].status = "opened" =>
    /\ branch[r].exists /\ branch[r].file = Text(r, branch[r].fork)
    /\ job[r].url => pull[r] # "none"

=============================================================================
