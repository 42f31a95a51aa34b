------------------------- MODULE RulePublisherProofs -------------------------
(***************************************************************************)
(* Proofs about the publisher: whatever calls fail, whatever is merged or  *)
(* closed meanwhile and however often a request is tried again, a pull     *)
(* request is its own change on top of the commit it started from, and     *)
(* what is reported as opened under a url has one; and about the worker    *)
(* that has the rules drafted: it has none drafted twice but what an       *)
(* earlier refresh did not write.                                          *)
(***************************************************************************)
EXTENDS RulePublisher, LearningCycle, FiniteSetTheorems, TLAPS

(* To apply a change to what has it already changes nothing. *)
LEMMA TextIdempotent ==
  ASSUME NEW r, NEW file
  PROVE  Text(r, Text(r, file)) = Text(r, file)
<1>1. CASE Change[r].kind = "content"
  BY <1>1 DEF Text
<1>2. CASE Change[r].kind # "content"
  <2> DEFINE c == Change[r]
             W(list) == [k \in DOMAIN list \cup {c.key} |->
                           IF k = c.key THEN c.value ELSE list[k]]
  <2>1. DOMAIN W(file) = DOMAIN file \cup {c.key}
    OBVIOUS
  <2>2. W(W(file)) = W(file)
    <3>1. DOMAIN W(file) \cup {c.key} = DOMAIN W(file)
      BY <2>1
    <3>2. \A k \in DOMAIN W(file) :
            (IF k = c.key THEN c.value ELSE W(file)[k]) = W(file)[k]
      BY <2>1
    <3>3. W(W(file)) = [k \in DOMAIN W(file) |-> W(file)[k]]
      BY <3>1, <3>2, Zenon
    <3> QED
      BY <3>3, <2>1
  <2>3. CASE c.action = "add" /\ c.key \in DOMAIN file
    BY <1>2, <2>3 DEF Text, ApplyWatchlist
  <2>4. CASE ~(c.action = "add" /\ c.key \in DOMAIN file)
    <3>1. Text(r, file) = W(file)
      BY <1>2, <2>4 DEF Text, ApplyWatchlist
    <3>2. Text(r, W(file)) = W(file)
      BY <1>2, <2>2 DEF Text, ApplyWatchlist
    <3> QED
      BY <3>1, <3>2
  <2> QED
    BY <2>3, <2>4
<1> QED
  BY <1>1, <1>2

-----------------------------------------------------------------------------
(* The invariant: PullRequestIsOneChange, and what a publication holds     *)
(* between its calls.                                                      *)

Consistent(r) ==
  /\ job[r].at # "idle" => Change[r].kind # "bare"
  /\ job[r].at = "get_branch" => Change[r].kind = "content"
  /\ job[r].at # "idle" => job[r].status = "none"
  /\ job[r].at \in {"get_branch", "put_file", "open_pr", "existing_pr"} => branch[r].exists
  /\ job[r].at \in {"ensure_branch", "get_branch", "put_file"} =>
       job[r].text = Text(r, job[r].sha)
  /\ job[r].at \in {"open_pr", "existing_pr"} => branch[r].file = Text(r, branch[r].fork)
  /\ branch[r].exists => branch[r].file \in {branch[r].fork, Text(r, branch[r].fork)}
  /\ pull[r] # "none" => branch[r].exists /\ branch[r].file = Text(r, branch[r].fork)
  /\ job[r].status = "opened" =>
       /\ branch[r].exists /\ branch[r].file = Text(r, branch[r].fork)
       /\ job[r].url => pull[r] # "none"

IInv == TypeOK /\ \A r \in Requests : Consistent(r)

(* What a request asks for is of its file's kind. *)
LEMMA TextType ==
  ASSUME NEW r \in Requests, NEW file \in ContentOf(r),
         Change[r].kind = "watchlist" => file # Absent, Change[r].kind # "bare"
  PROVE  Text(r, file) \in ContentOf(r)
  BY RequestsAssumption, ContentsAssumption DEF Text, ContentOf

LEMMA InitIInv == PublisherInit => IInv
<1> SUFFICES ASSUME PublisherInit PROVE IInv
  OBVIOUS
<1> USE RequestsAssumption DEF PublisherInit
<1>1. \A r \in Requests : base[Path(r)] \in ContentOf(r)
  BY DEF ContentOf, Paths, Path
<1>2. TypeOK
  BY <1>1 DEF TypeOK, KeepsKind, Job, ContentOf, Contents, NoBranch, Fresh, Calls
<1>3. \A r \in Requests : Consistent(r)
  BY DEF Consistent, NoBranch, Fresh
<1> QED
  BY <1>2, <1>3 DEF IInv

-----------------------------------------------------------------------------
(* One lemma for each call, and for what the operators do. *)

LEMMA FieldTypes ==
  ASSUME TypeOK, NEW r \in Requests
  PROVE  /\ job[r] \in Job /\ base[Path(r)] \in Contents
         /\ branch[r] \in [exists : BOOLEAN, fork : Contents, file : Contents]
         /\ branch[r].file \in Contents
<1>1. Path(r) \in Paths
  BY DEF Paths, Path
<1> QED
  BY <1>1 DEF TypeOK

(* What a publication leaves behind when apublish returns or raises. *)
LEMMA Returned ==
  ASSUME IInv, NEW r \in Requests, NEW url \in BOOLEAN,
         NEW status \in {"opened", "unchanged", "failed", "raised"}, Returns(r, status, url)
  PROVE  /\ job' \in [Requests -> Job]
         /\ job'[r].at = "idle" /\ job'[r].status = status /\ job'[r].url = url
         /\ job'[r].fork = Absent /\ job'[r].text = Absent /\ job'[r].sha = Absent
         /\ \A s \in Requests \ {r} : job'[s] = job[s]
<1> DEFINE j == [Fresh EXCEPT !.tries = job[r].tries, !.status = status, !.url = url]
<1>1. job[r].tries \in 0..Tries
  BY FieldTypes DEF IInv, Job
<1>2. j \in Job
  BY <1>1 DEF Job, Fresh, Contents, Calls
<1>3. job' = [job EXCEPT ![r] = j]
  BY DEF Returns
<1> HIDE DEF j
<1>4. job' \in [Requests -> Job] /\ job'[r] = j /\ \A s \in Requests \ {r} : job'[s] = job[s]
  BY <1>2, <1>3 DEF IInv, TypeOK
<1>5. /\ j.at = "idle" /\ j.status = status /\ j.url = url
      /\ j.fork = Absent /\ j.text = Absent /\ j.sha = Absent
  BY DEF j, Fresh
<1> QED
  BY <1>4, <1>5

LEMMA ReturnsStep ==
  ASSUME IInv, NEW r \in Requests, NEW url \in BOOLEAN,
         NEW status \in {"opened", "unchanged", "failed", "raised"}, Returns(r, status, url),
         UNCHANGED <<base, branch>>,
         pull' = pull \/ (At(r, "open_pr") /\ pull' = [pull EXCEPT ![r] = "open"]),
         status = "opened" => At(r, "open_pr") \/ At(r, "existing_pr"),
         status = "opened" /\ url => pull'[r] # "none"
  PROVE  IInv'
<1>1. /\ job' \in [Requests -> Job]
      /\ job'[r].at = "idle" /\ job'[r].status = status /\ job'[r].url = url
      /\ job'[r].fork = Absent /\ job'[r].text = Absent /\ job'[r].sha = Absent
      /\ \A s \in Requests \ {r} : job'[s] = job[s]
  BY Returned
<1>2. pull' \in [Requests -> {"none", "open", "merged", "closed"}]
  BY DEF IInv, TypeOK
<1>3. ASSUME NEW s \in Requests PROVE KeepsKind(s)'
  BY <1>1 DEF IInv, TypeOK, KeepsKind, ContentOf
<1>4. ASSUME NEW s \in Requests PROVE Consistent(s)'
  <2>1. CASE s = r
    BY <1>1, <2>1 DEF IInv, TypeOK, Consistent, At
  <2>2. CASE s # r
    <3>1. job'[s] = job[s] /\ pull'[s] = pull[s]
      BY <1>1, <2>2 DEF IInv, TypeOK
    <3> QED
      BY <3>1 DEF IInv, Consistent
  <2> QED
    BY <2>1, <2>2
<1> QED
  BY <1>1, <1>2, <1>3, <1>4 DEF IInv, TypeOK

LEMMA BeginStep ==
  ASSUME IInv, NEW r \in Requests, Begin(r)
  PROVE  IInv'
<1> USE DEF IInv, Begin, repository, At
<1>1. TypeOK'
  <2>1. ASSUME NEW s \in Requests PROVE KeepsKind(s)'
    BY RequestsAssumption DEF TypeOK, Fresh, ContentOf, Contents, Calls, KeepsKind
  <2>2. job[r] \in Job /\ base[Path(r)] \in Contents /\ branch[r].file \in Contents
    BY FieldTypes
  <2> DEFINE bare == Change[r].kind = "bare"
             j == [Fresh EXCEPT !.at = IF bare THEN "idle" ELSE "base_sha",
                               !.status = IF bare THEN "failed" ELSE "none",
                               !.tries = job[r].tries + 1]
  <2>3. j \in Job
    <3>1. job[r].tries + 1 \in 0..Tries
      BY <2>2, RequestsAssumption DEF Job
    <3> QED
      BY <3>1 DEF Job, Calls, Fresh, Contents
  <2>4. job' = [job EXCEPT ![r] = j]
    BY <2>2 DEF TypeOK
  <2>5. job' \in [Requests -> Job]
    BY <2>3, <2>4 DEF TypeOK
  <2> QED
    BY <2>1, <2>5 DEF TypeOK
<1>2. ASSUME NEW s \in Requests PROVE Consistent(s)'
  BY DEF Consistent, TypeOK, Fresh
<1> QED
  BY <1>1, <1>2

LEMMA BaseShaStep ==
  ASSUME IInv, NEW r \in Requests, BaseSha(r)
  PROVE  IInv'
<1> USE DEF IInv, BaseSha, repository, At
<1>1. TypeOK'
  <2>1. ASSUME NEW s \in Requests PROVE KeepsKind(s)'
    BY DEF TypeOK, Calls, Contents, ContentOf, KeepsKind
  <2>2. job[r] \in Job /\ base[Path(r)] \in Contents /\ branch[r].file \in Contents
    BY FieldTypes
  <2> DEFINE j == [job[r] EXCEPT !.at = "get_file", !.fork = base[Path(r)]]
  <2>3. j \in Job
    BY <2>2 DEF Job, Calls, AfterBranch, Fresh, Contents
  <2>4. job' = [job EXCEPT ![r] = j]
    BY <2>2 DEF TypeOK
  <2>5. job' \in [Requests -> Job]
    BY <2>3, <2>4 DEF TypeOK
  <2> QED
    BY <2>1, <2>5 DEF TypeOK
<1>2. ASSUME NEW s \in Requests PROVE Consistent(s)'
  BY DEF Consistent, TypeOK
<1> QED
  BY <1>1, <1>2

LEMMA EnsureBranchStep ==
  ASSUME IInv, NEW r \in Requests, EnsureBranch(r)
  PROVE  IInv'
<1> USE DEF IInv, EnsureBranch, Branched, Goto, repository, At
<1>1. TypeOK'
  <2>1. ASSUME NEW s \in Requests PROVE KeepsKind(s)'
    BY DEF TypeOK, Calls, AfterBranch, KeepsKind
  <2>2. job[r] \in Job /\ base[Path(r)] \in Contents /\ branch[r].file \in Contents
    BY FieldTypes
  <2> DEFINE j == [job[r] EXCEPT !.at = AfterBranch(r)]
  <2>3. j \in Job
    BY <2>2 DEF Job, Calls, AfterBranch, Fresh, Contents
  <2>4. job' = [job EXCEPT ![r] = j]
    BY <2>2 DEF TypeOK
  <2>5. job' \in [Requests -> Job]
    BY <2>3, <2>4 DEF TypeOK
  <2>6. branch' \in [Requests -> [exists : BOOLEAN, fork : Contents, file : Contents]]
    <3>1. Branched(r) \in [exists : BOOLEAN, fork : Contents, file : Contents]
      BY <2>2, FieldTypes DEF Job
    <3>2. branch' = [branch EXCEPT ![r] = Branched(r)]
      OBVIOUS
    <3> QED
      BY <3>1, <3>2 DEF TypeOK
  <2> QED
    BY <2>1, <2>5, <2>6 DEF TypeOK
<1>2. ASSUME NEW s \in Requests PROVE Consistent(s)'
  BY DEF Consistent, TypeOK, AfterBranch
<1> QED
  BY <1>1, <1>2

LEMMA GetBranchStep ==
  ASSUME IInv, NEW r \in Requests, GetBranch(r)
  PROVE  IInv'
<1> USE DEF IInv, GetBranch, repository, At
<1>1. TypeOK'
  <2>1. ASSUME NEW s \in Requests PROVE KeepsKind(s)'
    BY DEF TypeOK, Calls, KeepsKind
  <2>2. job[r] \in Job /\ base[Path(r)] \in Contents /\ branch[r].file \in Contents
    BY FieldTypes
  <2> DEFINE j == [job[r] EXCEPT !.at = "put_file", !.sha = branch[r].file]
  <2>3. j \in Job
    BY <2>2 DEF Job, Calls, AfterBranch, Fresh, Contents
  <2>4. job' = [job EXCEPT ![r] = j]
    BY <2>2 DEF TypeOK
  <2>5. job' \in [Requests -> Job]
    BY <2>3, <2>4 DEF TypeOK
  <2> QED
    BY <2>1, <2>5 DEF TypeOK
<1>2. ASSUME NEW s \in Requests PROVE Consistent(s)'
  BY DEF Consistent, TypeOK, Text
<1> QED
  BY <1>1, <1>2

LEMMA OpenPrStep ==
  ASSUME IInv, NEW r \in Requests, OpenPr(r)
  PROVE  IInv'
<1>1. CASE pull' = [pull EXCEPT ![r] = "open"] /\ Opened(r, TRUE)
  <2>1. pull'[r] = "open"
    BY <1>1 DEF IInv, TypeOK
  <2> QED
    BY <1>1, <2>1, ReturnsStep DEF OpenPr, Opened
<1>2. CASE Goto(r, "existing_pr") /\ UNCHANGED pull
  <2> USE <1>2 DEF IInv, OpenPr, Goto, At
  <2> DEFINE j == [job[r] EXCEPT !.at = "existing_pr"]
  <2>1. job[r] \in Job
    BY FieldTypes
  <2>2. j \in Job
    BY <2>1 DEF Job, Calls
  <2>3. job' = [job EXCEPT ![r] = j]
    BY <2>1 DEF TypeOK
  <2>4. job' \in [Requests -> Job]
    BY <2>2, <2>3 DEF TypeOK
  <2>5. ASSUME NEW s \in Requests PROVE KeepsKind(s)' /\ Consistent(s)'
    BY <2>1, <2>3 DEF TypeOK, KeepsKind, Consistent, Job
  <2> QED
    BY <2>4, <2>5 DEF TypeOK
<1> QED
  BY <1>1, <1>2 DEF OpenPr

LEMMA ExistingPrStep ==
  ASSUME IInv, NEW r \in Requests, ExistingPr(r)
  PROVE  IInv'
<1>1. PICK url \in {FALSE, pull[r] = "open"} : Opened(r, url)
  BY DEF ExistingPr
<1>2. UNCHANGED repository
  BY DEF ExistingPr
<1> QED
  BY <1>1, <1>2, ReturnsStep DEF ExistingPr, Opened, repository

LEMMA CallFailsStep ==
  ASSUME IInv, NEW r \in Requests, CallFails(r)
  PROVE  IInv'
BY ReturnsStep DEF CallFails, Broken, Settle, repository

LEMMA NotDecodedStep ==
  ASSUME IInv, NEW r \in Requests, NotDecoded(r)
  PROVE  IInv'
BY ReturnsStep DEF NotDecoded, Settle

LEMMA CloseStep ==
  ASSUME IInv, NEW r \in Requests, Close(r)
  PROVE  IInv'
<1> USE DEF IInv, Close
<1>1. TypeOK'
  <2>1. ASSUME NEW s \in Requests PROVE KeepsKind(s)'
    BY DEF TypeOK, KeepsKind
  <2> QED
    BY <2>1 DEF TypeOK
<1>2. ASSUME NEW s \in Requests PROVE Consistent(s)'
  BY DEF Consistent, TypeOK
<1> QED
  BY <1>1, <1>2

LEMMA GetFileStep ==
  ASSUME IInv, NEW r \in Requests, GetFile(r)
  PROVE  IInv'
<1> USE DEF IInv, At
<1> DEFINE file == base[Path(r)]
<1>1. job[r] \in Job /\ file \in Contents /\ file \in ContentOf(r)
  BY FieldTypes DEF TypeOK, KeepsKind
<1>2. UNCHANGED repository
  BY DEF GetFile
<1>3. CASE \E status \in {"failed", "unchanged"} : Settle(r, status)
  BY <1>2, <1>3, ReturnsStep DEF Settle, repository
<1>4. CASE ~ \E status \in {"failed", "unchanged"} : Settle(r, status)
  <2> DEFINE j == [job[r] EXCEPT !.at = "ensure_branch", !.text = Text(r, file), !.sha = file]
  <2>1. /\ job[r].at = "get_file"
        /\ Change[r].kind = "watchlist" => file # Absent
        /\ job' = [job EXCEPT ![r].at = "ensure_branch",
                              ![r].text = Text(r, file), ![r].sha = file]
    BY <1>4 DEF GetFile, CanApply
  <2>2. Text(r, file) \in ContentOf(r)
    BY <1>1, <2>1, TextType DEF Consistent
  <2>3. j \in Job
    BY <1>1, <2>2 DEF Job, Calls, ContentOf, Contents
  <2>4. job' = [job EXCEPT ![r] = j]
    BY <1>1, <2>1 DEF TypeOK
  <2>5. job' \in [Requests -> Job]
    BY <2>3, <2>4 DEF TypeOK
  <2>6. ASSUME NEW s \in Requests PROVE KeepsKind(s)' /\ Consistent(s)'
    BY <1>1, <1>2, <2>1, <2>2, <2>4 DEF TypeOK, KeepsKind, Consistent, repository, Job
  <2> QED
    BY <1>2, <2>5, <2>6 DEF TypeOK, repository
<1> QED
  BY <1>3, <1>4

(* The branch of r gets the text that was made from what it has. *)
LEMMA Committed ==
  ASSUME IInv, NEW r \in Requests, At(r, "put_file"), SentSha(r) = branch[r].file,
         branch' = [branch EXCEPT ![r].file = job[r].text]
  PROVE  /\ branch' \in [Requests -> [exists : BOOLEAN, fork : Contents, file : Contents]]
         /\ branch'[r].exists /\ branch'[r].fork = branch[r].fork
         /\ branch'[r].file = Text(r, branch[r].fork)
         /\ branch'[r].file = job[r].text
         /\ \A s \in Requests \ {r} : branch'[s] = branch[s]
<1>1. job[r] \in Job /\ branch[r] \in [exists : BOOLEAN, fork : Contents, file : Contents]
  BY FieldTypes DEF IInv
<1>2. branch[r].exists /\ job[r].text = Text(r, branch[r].file)
  BY DEF IInv, Consistent, At, SentSha
<1>3. job[r].text = Text(r, branch[r].fork)
  BY <1>2, TextIdempotent DEF IInv, Consistent
<1> QED
  BY <1>1, <1>2, <1>3 DEF Job, IInv, TypeOK

LEMMA PutFileStep ==
  ASSUME IInv, NEW r \in Requests, PutFile(r)
  PROVE  IInv'
<1> USE DEF IInv, At
<1>1. job[r] \in Job /\ job[r].at = "put_file" /\ UNCHANGED <<base, pull>>
  BY FieldTypes DEF PutFile
<1>2. CASE SentSha(r) = branch[r].file
  <2> DEFINE j == [job[r] EXCEPT !.at = "open_pr"]
  <2>1. branch' = [branch EXCEPT ![r].file = job[r].text]
    BY <1>2 DEF PutFile
  <2>2. j \in Job
    BY <1>1 DEF Job, Calls
  <2>3. job' = [job EXCEPT ![r] = j]
    BY <1>1, <1>2 DEF PutFile, Goto, TypeOK
  <2>4. job' \in [Requests -> Job]
    BY <2>2, <2>3 DEF TypeOK
  <2>5. ASSUME NEW s \in Requests PROVE KeepsKind(s)' /\ Consistent(s)'
    <3>1. /\ branch'[r].exists /\ branch'[r].fork = branch[r].fork
          /\ branch'[r].file = Text(r, branch[r].fork) /\ branch'[r].file = job[r].text
          /\ \A u \in Requests \ {r} : branch'[u] = branch[u]
      BY <1>1, <1>2, <2>1, Committed
    <3>2. KeepsKind(s)'
      BY <1>1, <3>1, <2>3 DEF TypeOK, KeepsKind, Job
    <3>3. CASE s = r
      <4>1. job'[r] = j /\ pull'[r] = pull[r] /\ Consistent(r)
        BY <1>1, <2>3 DEF TypeOK
      <4>2. job[r].at = "put_file" /\ j.at = "open_pr" /\ j.status = job[r].status
        BY <1>1 DEF Job
      <4> QED
        BY <3>1, <3>2, <3>3, <4>1, <4>2 DEF Consistent
    <3>4. CASE s # r
      <4>1. job'[s] = job[s] /\ pull'[s] = pull[s] /\ branch'[s] = branch[s]
        BY <1>1, <2>3, <3>1, <3>4 DEF TypeOK
      <4> QED
        BY <3>2, <4>1 DEF Consistent
    <3> QED
      BY <3>2, <3>3, <3>4
  <2> QED
    BY <1>1, <1>2, <2>1, <2>4, <2>5, Committed DEF TypeOK
<1>3. CASE SentSha(r) # branch[r].file
  BY <1>1, <1>3, ReturnsStep DEF PutFile, Settle
<1> QED
  BY <1>2, <1>3

LEMMA AnswerLostStep ==
  ASSUME IInv, NEW r \in Requests, AnswerLost(r)
  PROVE  IInv'
<1> USE DEF IInv, At
<1>1. job[r] \in Job /\ branch[r] \in [exists : BOOLEAN, fork : Contents, file : Contents]
  BY FieldTypes
<1>2. Returns(r, "failed", FALSE) /\ base' = base
  BY DEF AnswerLost, Broken, Settle
<1>3. /\ job'[r].at = "idle" /\ job'[r].status = "failed"
      /\ job'[r].fork = Absent /\ job'[r].text = Absent /\ job'[r].sha = Absent
      /\ \A s \in Requests \ {r} : job'[s] = job[s]
  BY <1>2, Returned
<1>4. job' \in [Requests -> Job] /\ base' = base
  BY <1>2, Returned
<1>5. CASE At(r, "ensure_branch")
  <2>1. branch' = [branch EXCEPT ![r] = Branched(r)] /\ pull' = pull
    BY <1>5 DEF AnswerLost
  <2>2. Branched(r) \in [exists : BOOLEAN, fork : Contents, file : Contents]
    BY <1>1 DEF Branched, Job
  <2>3. branch' \in [Requests -> [exists : BOOLEAN, fork : Contents, file : Contents]]
    BY <2>1, <2>2 DEF TypeOK
  <2>4. ASSUME NEW s \in Requests PROVE KeepsKind(s)'
    BY <1>1, <1>3, <1>4, <2>1 DEF TypeOK, KeepsKind, Branched, Job, ContentOf
  <2>5. ASSUME NEW s \in Requests PROVE Consistent(s)'
    BY <1>1, <1>3, <1>4, <2>1 DEF TypeOK, Consistent, Branched, Job
  <2> QED
    BY <1>4, <2>1, <2>3, <2>4, <2>5 DEF TypeOK
<1>6. CASE At(r, "put_file")
  <2>1. /\ SentSha(r) = branch[r].file
        /\ branch' = [branch EXCEPT ![r].file = job[r].text] /\ pull' = pull
    BY <1>6 DEF AnswerLost
  <2>2. /\ branch'[r].exists /\ branch'[r].fork = branch[r].fork
        /\ branch'[r].file = Text(r, branch[r].fork) /\ branch'[r].file = job[r].text
        /\ \A u \in Requests \ {r} : branch'[u] = branch[u]
        /\ branch' \in [Requests -> [exists : BOOLEAN, fork : Contents, file : Contents]]
    BY <1>6, <2>1, Committed
  <2>3. ASSUME NEW s \in Requests PROVE KeepsKind(s)'
    BY <1>1, <1>3, <1>4, <2>2 DEF TypeOK, KeepsKind, Job, ContentOf
  <2>4. ASSUME NEW s \in Requests PROVE Consistent(s)'
    <3>1. CASE s = r
      <4>1. pull'[r] = pull[r] /\ Consistent(r)
        BY <2>1
      <4> QED
        BY <1>3, <2>2, <3>1, <4>1 DEF Consistent
    <3>2. CASE s # r
      <4>1. job'[s] = job[s] /\ pull'[s] = pull[s] /\ branch'[s] = branch[s]
        BY <1>3, <2>1, <2>2, <3>2
      <4> QED
        BY <4>1 DEF Consistent
    <3> QED
      BY <3>1, <3>2
  <2> QED
    BY <1>4, <2>1, <2>2, <2>3, <2>4 DEF TypeOK
<1>7. CASE At(r, "open_pr")
  BY <1>2, <1>7, ReturnsStep DEF AnswerLost
<1> QED
  BY <1>5, <1>6, <1>7 DEF AnswerLost

(* A merge replaces a file of the kind that the branch has. *)
LEMMA MergeStep ==
  ASSUME IInv, NEW r \in Requests, Merge(r)
  PROVE  IInv'
<1> USE DEF IInv, Merge
<1>1. Path(r) \in Paths /\ branch[r].file \in Contents
  BY FieldTypes DEF Paths, Path
<1>2. base' \in [Paths -> Contents] /\ pull' \in [Requests -> {"none", "open", "merged", "closed"}]
  BY <1>1 DEF TypeOK
<1>3. ASSUME NEW s \in Requests PROVE KeepsKind(s)'
  <2>1. Path(s) = Path(r) => ContentOf(s) = ContentOf(r)
    BY ContentsAssumption DEF ContentOf, Path
  <2>2. Path(s) \in Paths
    BY DEF Paths, Path
  <2>3. base'[Path(s)] \in ContentOf(s)
    BY <1>1, <2>1, <2>2 DEF TypeOK, KeepsKind
  <2> QED
    BY <2>3 DEF TypeOK, KeepsKind
<1>4. ASSUME NEW s \in Requests PROVE Consistent(s)'
  BY DEF TypeOK, Consistent
<1> QED
  BY <1>2, <1>3, <1>4 DEF TypeOK

-----------------------------------------------------------------------------

LEMMA NextIInv == IInv /\ [PublisherNext]_publisher => IInv'
<1> SUFFICES ASSUME IInv, [PublisherNext]_publisher PROVE IInv'
  OBVIOUS
<1>1. ASSUME NEW r \in Requests, Begin(r) PROVE IInv'
  BY <1>1, BeginStep
<1>2. ASSUME NEW r \in Requests, PublisherStep(r) PROVE IInv'
  BY <1>2, BaseShaStep, GetFileStep, EnsureBranchStep, GetBranchStep, PutFileStep,
     OpenPrStep, ExistingPrStep, CallFailsStep, NotDecodedStep, AnswerLostStep DEF PublisherStep
<1>3. ASSUME Operators PROVE IInv'
  BY <1>3, MergeStep, CloseStep DEF Operators
<1>4. ASSUME UNCHANGED publisher PROVE IInv'
  BY <1>4 DEF publisher, IInv, TypeOK, KeepsKind, Consistent
<1> QED
  BY <1>1, <1>2, <1>3, <1>4 DEF PublisherNext

(* The variables keep their types; a watch list stays one, though requests *)
(* write and operators merge the files of others.                          *)
THEOREM TypeCorrect == PublisherSpec => []TypeOK
<1>1. IInv => TypeOK
  BY DEF IInv
<1> QED
  BY <1>1, InitIInv, NextIInv, PTL DEF PublisherSpec

(* What a pull request adds to the commit its branch started from is the   *)
(* change of its own request, for any repository, however the calls of the *)
(* publications interleave, fail, lose their answers and are tried again.  *)
THEOREM OneChange == PublisherSpec => []PullRequestIsOneChange
<1>1. IInv => PullRequestIsOneChange
  BY DEF IInv, Consistent, PullRequestIsOneChange
<1> QED
  BY <1>1, InitIInv, NextIInv, PTL DEF PublisherSpec

(* A publication that is reported as opened has the whole change of its    *)
(* request on its branch, and a pull request whenever it names one: what   *)
(* it reports without a url rests on a 422, whose reason is not read.      *)
THEOREM OpenedIsThere == PublisherSpec => []OpenedHasPullRequest
<1>1. IInv => OpenedHasPullRequest
  BY DEF IInv, Consistent, OpenedHasPullRequest
<1> QED
  BY <1>1, InitIInv, NextIInv, PTL DEF PublisherSpec

-----------------------------------------------------------------------------
(* The learning worker.  What a diff of the refresh under way brings was   *)
(* not read from the catalogue when the feed came, and only what is read   *)
(* from there, or was not written, has been drafted.                       *)

(* It may still be drafted once. *)
Undrafted(t) == t \in unwritten \/ drafted[t] = 0

(* No diff to come has it, unless it was not written. *)
Settled(t) == t \in Current \/ t \in unwritten

Places ==
  /\ shape \in {"list", "mapping"}
  /\ feed \in [Sources -> SUBSET Techniques]
  /\ at \in {"idle", "fetch", "apply", "draft"}
  /\ next \in Nat \ {0}
  /\ at = "fetch" => next \in DOMAIN Feeds
  /\ at # "draft" => queue = <<>>
  /\ at \in {"idle", "draft"} => diffs = <<>>

DiffsInv ==
  /\ diffs = [i \in 1..Len(diffs) |-> diffs[i]] /\ Len(diffs) \in Nat
  /\ \A i \in 1..Len(diffs) :
       /\ diffs[i].added \subseteq Techniques
       /\ \A t \in diffs[i].added : Undrafted(t)
       /\ at = "apply" /\ i < next => \A t \in diffs[i].added : Settled(t)

QueueInv ==
  /\ queue \in Seq(Techniques)
  /\ \A i \in DOMAIN queue : Settled(queue[i]) /\ Undrafted(queue[i])
  /\ \A i, j \in DOMAIN queue : i # j => queue[i] # queue[j]

DraftInv ==
  /\ drafted \in [Techniques -> Nat]
  /\ \A t \in Techniques : drafted[t] = 0 \/ Settled(t)
  /\ DraftedOnce

LearningInv == Places /\ DiffsInv /\ QueueInv /\ DraftInv

(* Nothing precedes itself. *)
LEMMA OrderStrict == DiffsInv => \A t : ~Precedes(t, t)
<1> SUFFICES ASSUME DiffsInv, NEW t, Precedes(t, t) PROVE FALSE
  OBVIOUS
<1>1. PICK i \in DOMAIN diffs : t \in diffs[i].added /\ t < t
  BY DEF Precedes
<1>2. t \in Nat
  BY <1>1, LearningAssumption DEF DiffsInv
<1>. QED  BY <1>1, <1>2

(* What is drafted next is new, each technique once. *)
LEMMA AddedOnce ==
  ASSUME LearningInv, NEW ts \in Added
  PROVE  /\ ts \in Seq(Techniques)
         /\ \A i \in DOMAIN ts : \E k \in 1..Len(diffs) : ts[i] \in diffs[k].added
         /\ \A i, j \in DOMAIN ts : i # j => ts[i] # ts[j]
<1> DEFINE new == UNION {diffs[i].added : i \in DOMAIN diffs}
           n   == Cardinality(new)
<1>1. DOMAIN diffs = 1..Len(diffs) /\ \A i \in 1..Len(diffs) : diffs[i].added \subseteq Techniques
  BY DEF LearningInv, DiffsInv
<1>2. new \subseteq Techniques /\ IsFiniteSet(Techniques)
  BY <1>1, LearningAssumption
<1>3. n \in Nat
  <2> HIDE DEF new
  <2>. QED  BY <1>2, FS_Subset, FS_CardinalityType
<1>4. /\ ts \in [1..n -> new]
      /\ \A i, j \in 1..n : i < j => Precedes(ts[i], ts[j])
  BY DEF Added
<1>5. \A x \in new : \E k \in 1..Len(diffs) : x \in diffs[k].added
  BY <1>1
<1> HIDE DEF new, n
<1>6. ts \in Seq(Techniques) /\ DOMAIN ts = 1..n
  BY <1>2, <1>3, <1>4
<1>7. ASSUME NEW i \in 1..n, NEW j \in 1..n, i # j PROVE ts[i] # ts[j]
  <2>1. i < j \/ j < i
    BY <1>3, <1>7
  <2>2. Precedes(ts[i], ts[j]) \/ Precedes(ts[j], ts[i])
    BY <1>4, <2>1
  <2>. QED  BY <2>2, OrderStrict DEF LearningInv
<1>. QED  BY <1>4, <1>5, <1>6, <1>7

(* The head of a queue is not in its tail. *)
LEMMA TailOf ==
  ASSUME NEW q \in Seq(Techniques), q # <<>>,
         \A i, j \in DOMAIN q : i # j => q[i] # q[j]
  PROVE  /\ Head(q) \in Techniques /\ Head(q) = q[1] /\ 1 \in DOMAIN q
         /\ Tail(q) \in Seq(Techniques)
         /\ \A i \in DOMAIN Tail(q) : i + 1 \in DOMAIN q /\ Tail(q)[i] = q[i + 1]
         /\ \A i \in DOMAIN Tail(q) : Tail(q)[i] # Head(q)
         /\ \A i, j \in DOMAIN Tail(q) : i # j => Tail(q)[i] # Tail(q)[j]
<1>1. Head(q) \in Techniques /\ Head(q) = q[1] /\ 1 \in DOMAIN q
  OBVIOUS
<1>2. /\ Tail(q) \in Seq(Techniques)
      /\ \A i \in DOMAIN Tail(q) : /\ i \in Nat \ {0}
                                   /\ i + 1 \in DOMAIN q /\ Tail(q)[i] = q[i + 1]
  OBVIOUS
<1>. QED  BY <1>1, <1>2

LEMMA InitLearning == Init => LearningInv
<1> SUFFICES ASSUME Init PROVE LearningInv
  OBVIOUS
<1>1. Places
  BY LearningAssumption DEF Init, Places
<1>2. DiffsInv
  BY DEF Init, DiffsInv
<1>3. QueueInv
  BY DEF Init, QueueInv
<1>4. DraftInv
  BY DEF Init, DraftInv, DraftedOnce
<1>. QED  BY <1>1, <1>2, <1>3, <1>4 DEF LearningInv

(* The catalogue and what held back only grow, and drafting is the     *)
(* only step that counts a technique.                                      *)
LEMMA NextLearning == LearningInv /\ [Next]_vars => LearningInv'
<1> SUFFICES ASSUME LearningInv, [Next]_vars PROVE LearningInv'
  OBVIOUS
<1>0. Places /\ DiffsInv /\ QueueInv /\ DraftInv
  BY DEF LearningInv
<1>1. ASSUME UNCHANGED <<diffs, shape, catalogue, unwritten, drafted>>, at' = at \/ at' # "apply", next' = next
      PROVE  DiffsInv'
  BY <1>0, <1>1 DEF DiffsInv, Undrafted, Settled, Current
<1>2. ASSUME diffs' = <<>> PROVE DiffsInv'
  BY <1>2 DEF DiffsInv
<1>3. ASSUME UNCHANGED <<queue, shape, catalogue, unwritten, drafted>> PROVE QueueInv'
  BY <1>0, <1>3 DEF QueueInv, Undrafted, Settled, Current
<1>4. ASSUME UNCHANGED <<shape, catalogue, unwritten, drafted>> PROVE DraftInv'
  BY <1>0, <1>4 DEF DraftInv, Settled, Current, DraftedOnce
<1>5. ASSUME queue' = <<>> PROVE QueueInv'
  BY <1>5 DEF QueueInv
<1>6. Len(Feeds) \in Nat /\ DOMAIN Feeds = 1..Len(Feeds)
  BY LearningAssumption
<1>7. ASSUME at = "fetch", Onward(Len(Feeds))
      PROVE  /\ at' \in {"fetch", "apply"} /\ next' \in Nat \ {0}
             /\ at' = "fetch" => next' \in DOMAIN Feeds
             /\ at' = "apply" => next' = 1
  BY <1>0, <1>6, <1>7 DEF Places, Onward
<1>8. CASE Publishes
  <2>1. UNCHANGED <<shape, catalogue, worker, unwritten, drafted>>
    BY <1>8 DEF Publishes, yaml, history
  <2>2. feed' \in [Sources -> SUBSET Techniques]
    BY <1>0, <1>8 DEF Publishes, Places
  <2>3. Places'
    BY <1>0, <2>1, <2>2 DEF Places, worker
  <2>. QED  BY <1>1, <1>3, <1>4, <2>1, <2>3 DEF LearningInv, worker
<1>9. CASE HoursPass
  BY <1>0, <1>1, <1>3, <1>4, <1>9 DEF HoursPass, yaml, history, LearningInv, Places
<1>10. CASE Tick
  <2>1. /\ at = "idle" /\ next' = 1 /\ diffs' = <<>>
        /\ at' = IF Feeds = <<>> THEN "apply" ELSE "fetch"
        /\ UNCHANGED <<feed, shape, catalogue, queue, unwritten, drafted>>
    BY <1>10 DEF Tick, yaml, history
  <2>2. Feeds # <<>> => 1 \in DOMAIN Feeds
    BY LearningAssumption
  <2>3. Places'
    BY <1>0, <2>1, <2>2 DEF Places
  <2>. QED  BY <1>2, <1>3, <1>4, <2>1, <2>3 DEF LearningInv
<1>11. CASE Fetch
  <2> DEFINE d == DiffOf(Feeds[next])
  <2>1. /\ at = "fetch" /\ diffs' = Append(diffs, d) /\ Onward(Len(Feeds))
        /\ UNCHANGED <<feed, shape, catalogue, queue, unwritten, drafted>>
    BY <1>11 DEF Fetch, yaml, history
  <2>2. d.added \subseteq Techniques /\ d.added \cap Current = {}
    <3>1. Feeds[next] \in Sources
      BY <1>0, <2>1 DEF Places, Sources
    <3>. QED  BY <1>0, <3>1 DEF DiffOf, Current, Places
  <2>3. \A t \in d.added : Undrafted(t)
    BY <1>0, <2>2 DEF DraftInv, Undrafted, Settled, Current
  <2>4. Places'
    BY <1>0, <1>7, <2>1 DEF Places
  <2> HIDE DEF d
  <2>5. /\ Len(diffs') = Len(diffs) + 1
        /\ diffs' = [i \in 1..Len(diffs') |-> diffs'[i]]
        /\ \A i \in 1..Len(diffs') : IF i = Len(diffs) + 1 THEN diffs'[i] = d
                                     ELSE i \in 1..Len(diffs) /\ diffs'[i] = diffs[i]
    <3> DEFINE S == {diffs[i] : i \in 1..Len(diffs)} \cup {d}
    <3>1. diffs \in Seq(S)
      <4>1. diffs \in [1..Len(diffs) -> S] /\ Len(diffs) \in Nat
        BY <1>0 DEF DiffsInv
      <4> HIDE DEF S
      <4>. QED  BY <4>1
    <3>2. d \in S
      OBVIOUS
    <3> HIDE DEF S
    <3>3. diffs' = Append(diffs, d)
      BY <2>1
    <3>4. Len(diffs') = Len(diffs) + 1 /\ diffs' \in Seq(S)
      BY <3>1, <3>2, <3>3
    <3>5. \A i \in 1..Len(diffs) + 1 :
            diffs'[i] = IF i = Len(diffs) + 1 THEN d ELSE diffs[i]
      BY <3>1, <3>2, <3>3
    <3>6. diffs' = [i \in 1..Len(diffs') |-> diffs'[i]]
      BY <3>4
    <3>7. Len(diffs) \in Nat
      BY <3>1
    <3>. QED  BY <3>4, <3>5, <3>6, <3>7
  <2>6. DiffsInv'
    BY <1>0, <1>7, <2>1, <2>2, <2>3, <2>5 DEF DiffsInv, Undrafted, Settled, Current
  <2>. QED  BY <1>3, <1>4, <2>1, <2>4, <2>6 DEF LearningInv
<1>12. CASE FetchFails
  <2>1. /\ at = "fetch" /\ Onward(Len(Feeds))
        /\ UNCHANGED <<feed, shape, catalogue, diffs, queue, unwritten, drafted>>
    BY <1>12 DEF FetchFails, yaml, history
  <2>2. Places'
    BY <1>0, <1>7, <2>1 DEF Places
  <2>3. DiffsInv'
    BY <1>0, <1>7, <2>1 DEF DiffsInv, Undrafted, Settled, Current
  <2>. QED  BY <1>3, <1>4, <2>1, <2>2, <2>3 DEF LearningInv
<1>13. CASE Apply
  <2> DEFINE d == diffs[next]
  <2>1. /\ at = "apply" /\ next <= Len(diffs) /\ next' = next + 1
        /\ catalogue' = IF AboveCap(d) THEN catalogue ELSE Applied(d)
        /\ unwritten' = IF AboveCap(d) \/ shape = "mapping"
                        THEN unwritten \cup d.added ELSE unwritten
        /\ UNCHANGED <<feed, shape, at, diffs, queue, drafted>>
    BY <1>13 DEF Apply
  <2>2. /\ Current \subseteq Current' /\ unwritten \subseteq unwritten'
        /\ \A t \in d.added : Settled(t)'
    BY <1>0, <2>1 DEF Applied, Settled, Current, Places
  <2>3. Places'
    BY <1>0, <2>1 DEF Places
  <2>4. DiffsInv'
    <3>1. \A i \in 1..Len(diffs) :
            /\ \A t \in diffs[i].added : Undrafted(t)'
            /\ i < next + 1 => \A t \in diffs[i].added : Settled(t)'
      <4>1. \A t : (Undrafted(t) => Undrafted(t)') /\ (Settled(t) => Settled(t)')
        BY <2>1, <2>2 DEF Undrafted, Settled, Current
      <4>2. \A i \in 1..Len(diffs) : i < next + 1 => i < next \/ i = next
        BY <1>0 DEF Places, DiffsInv
      <4> HIDE DEF d
      <4>. QED  BY <1>0, <2>1, <2>2, <4>1, <4>2 DEF DiffsInv, d
    <3>. QED  BY <1>0, <2>1, <3>1 DEF DiffsInv
  <2>5. QueueInv'
    BY <1>0, <2>1 DEF Places, QueueInv
  <2>6. DraftInv'
    BY <1>0, <2>1, <2>2 DEF DraftInv, Settled, Current, DraftedOnce
  <2>. QED  BY <2>3, <2>4, <2>5, <2>6 DEF LearningInv
<1>14. CASE Report
  <2>1. /\ at = "apply" /\ next > Len(diffs) /\ at' = "draft" /\ next' = 1 /\ diffs' = <<>>
        /\ UNCHANGED <<feed, shape, catalogue, unwritten, drafted>>
    BY <1>14 DEF Report, yaml, history
  <2>2. PICK ts \in Added :
             queue' = SubSeq(ts, 1, IF Len(ts) < MaxDrafts THEN Len(ts) ELSE MaxDrafts)
    BY <1>14 DEF Report
  <2>3. /\ ts \in Seq(Techniques)
        /\ \A i \in DOMAIN ts : \E k \in 1..Len(diffs) : ts[i] \in diffs[k].added
        /\ \A i, j \in DOMAIN ts : i # j => ts[i] # ts[j]
    BY AddedOnce
  <2>4. \A i \in DOMAIN ts : Settled(ts[i]) /\ Undrafted(ts[i])
    <3>1. \A k \in 1..Len(diffs) : k < next
      BY <1>0, <2>1 DEF Places, DiffsInv
    <3>. QED  BY <1>0, <2>1, <2>3, <3>1 DEF DiffsInv
  <2>5. /\ queue' \in Seq(Techniques) /\ DOMAIN queue' \subseteq DOMAIN ts
        /\ \A i \in DOMAIN queue' : queue'[i] = ts[i]
    <3> DEFINE n == IF Len(ts) < MaxDrafts THEN Len(ts) ELSE MaxDrafts
    <3>1. n \in 0..Len(ts)
      BY <2>3, LearningAssumption
    <3> HIDE DEF n
    <3>2. queue' = SubSeq(ts, 1, n)
      BY <2>2 DEF n
    <3>. QED  BY <2>3, <3>1, <3>2
  <2>6. QueueInv'
    BY <2>1, <2>3, <2>4, <2>5 DEF QueueInv, Settled, Current, Undrafted
  <2>7. Places'
    BY <1>0, <2>1 DEF Places
  <2>. QED  BY <1>2, <1>4, <2>1, <2>6, <2>7 DEF LearningInv
<1>15. CASE Raises
  <2>1. /\ at \in {"fetch", "apply"} /\ at' = "idle" /\ diffs' = <<>>
        /\ UNCHANGED <<feed, shape, catalogue, next, queue, unwritten, drafted>>
    BY <1>15 DEF Raises, yaml, history
  <2>2. Places'
    BY <1>0, <2>1 DEF Places
  <2>. QED  BY <1>2, <1>3, <1>4, <2>1, <2>2 DEF LearningInv
<1>16. CASE DraftNext
  <2> DEFINE h == Head(queue)
  <2>1. /\ at = "draft" /\ queue # <<>> /\ queue' = Tail(queue)
        /\ drafted' = [drafted EXCEPT ![h] = IF drafted[h] = 0 THEN 1 ELSE 2]
        /\ UNCHANGED <<feed, shape, catalogue, at, next, diffs, unwritten>>
    BY <1>16 DEF DraftNext, yaml
  <2>2. /\ h \in Techniques /\ h = queue[1] /\ 1 \in DOMAIN queue
        /\ Tail(queue) \in Seq(Techniques)
        /\ \A i \in DOMAIN Tail(queue) : i + 1 \in DOMAIN queue /\ Tail(queue)[i] = queue[i + 1]
        /\ \A i \in DOMAIN Tail(queue) : Tail(queue)[i] # h
        /\ \A i, j \in DOMAIN Tail(queue) : i # j => Tail(queue)[i] # Tail(queue)[j]
    BY <1>0, <2>1, TailOf DEF QueueInv
  <2>3. Settled(h) /\ Undrafted(h)
    BY <1>0, <2>2 DEF QueueInv
  <2> HIDE DEF h
  <2>4. /\ drafted' \in [Techniques -> Nat]
        /\ \A t \in Techniques : t # h => drafted'[t] = drafted[t]
        /\ drafted'[h] = IF drafted[h] = 0 THEN 1 ELSE 2
    BY <1>0, <2>1, <2>2 DEF DraftInv
  <2>5. DraftInv'
    BY <1>0, <2>1, <2>2, <2>3, <2>4 DEF DraftInv, DraftedOnce, Settled, Current, Undrafted
  <2>6. QueueInv'
    <3>1. \A i \in DOMAIN Tail(queue) :
            /\ Tail(queue)[i] \in Techniques /\ Tail(queue)[i] # h
            /\ Settled(Tail(queue)[i]) /\ Undrafted(Tail(queue)[i])
      BY <1>0, <2>2 DEF QueueInv
    <3>2. \A t \in Techniques :
            t # h /\ Settled(t) /\ Undrafted(t) =>
              /\ t \in Current' \/ t \in unwritten'
              /\ t \in unwritten' \/ drafted'[t] = 0
      BY <2>1, <2>4 DEF Settled, Current, Undrafted
    <3>3. \A i \in DOMAIN queue' :
            /\ queue'[i] \in Current' \/ queue'[i] \in unwritten'
            /\ queue'[i] \in unwritten' \/ drafted'[queue'[i]] = 0
      BY <2>1, <3>1, <3>2
    <3>. QED  BY <2>1, <2>2, <3>3 DEF QueueInv, Settled, Current, Undrafted
  <2>7. Places'
    BY <1>0, <2>1 DEF Places
  <2>8. DiffsInv'
    <3>1. diffs' = <<>>
      BY <1>0, <2>1 DEF Places
    <3>. QED  BY <1>2, <3>1
  <2>. QED  BY <2>5, <2>6, <2>7, <2>8 DEF LearningInv
<1>20. CASE DraftRaises
  <2> DEFINE h == Head(queue)
  <2>1. /\ at = "draft" /\ queue # <<>> /\ queue' = <<>>
        /\ drafted' = [drafted EXCEPT ![h] = IF drafted[h] = 0 THEN 1 ELSE 2]
        /\ UNCHANGED <<feed, shape, catalogue, at, next, diffs, unwritten>>
    BY <1>20 DEF DraftRaises, yaml
  <2>2. h \in Techniques /\ h = queue[1] /\ 1 \in DOMAIN queue
    BY <1>0, <2>1, TailOf DEF QueueInv
  <2>3. Settled(h) /\ Undrafted(h)
    BY <1>0, <2>2 DEF QueueInv
  <2> HIDE DEF h
  <2>4. /\ drafted' \in [Techniques -> Nat]
        /\ \A t \in Techniques : t # h => drafted'[t] = drafted[t]
        /\ drafted'[h] = IF drafted[h] = 0 THEN 1 ELSE 2
    BY <1>0, <2>1, <2>2 DEF DraftInv
  <2>5. DraftInv'
    BY <1>0, <2>1, <2>2, <2>3, <2>4 DEF DraftInv, DraftedOnce, Settled, Current, Undrafted
  <2>6. Places'
    BY <1>0, <2>1 DEF Places
  <2>7. DiffsInv'
    <3>1. diffs' = <<>>
      BY <1>0, <2>1 DEF Places
    <3>. QED  BY <1>2, <3>1
  <2>. QED  BY <1>5, <2>1, <2>5, <2>6, <2>7 DEF LearningInv
<1>17. CASE CycleEnds
  <2>1. /\ at = "draft" /\ queue = <<>> /\ at' = "idle"
        /\ UNCHANGED <<feed, shape, catalogue, next, diffs, queue, unwritten, drafted>>
    BY <1>17 DEF CycleEnds, yaml, history
  <2>2. Places'
    BY <1>0, <2>1 DEF Places
  <2>. QED  BY <1>1, <1>3, <1>4, <2>1, <2>2 DEF LearningInv
<1>18. CASE Restart
  <2>1. /\ at' = "idle" /\ diffs' = <<>> /\ queue' = <<>>
        /\ UNCHANGED <<feed, shape, catalogue, next, unwritten, drafted>>
    BY <1>18 DEF Restart, yaml, history
  <2>2. Places'
    BY <1>0, <2>1 DEF Places
  <2>. QED  BY <1>2, <1>5, <1>4, <2>1, <2>2 DEF LearningInv
<1>19. CASE UNCHANGED vars
  <2>1. UNCHANGED <<feed, shape, catalogue, at, next, diffs, queue, unwritten, drafted>>
    BY <1>19 DEF vars, worker, yaml, history
  <2>2. Places'
    BY <1>0, <2>1 DEF Places
  <2>. QED  BY <1>1, <1>3, <1>4, <2>1, <2>2 DEF LearningInv
<1>. QED
  BY <1>8, <1>9, <1>10, <1>11, <1>12, <1>13, <1>14, <1>15, <1>16, <1>17, <1>18, <1>19, <1>20 DEF Next

(* Be the catalogue a list or a mapping: a technique is given to the model *)
(* a second time only after a refresh that brought it and did not write    *)
(* it, whatever feeds bring it, whenever the worker raises or restarts     *)
(* (app/learning.py, agents/threat_landscape_agent.py).                    *)
THEOREM NeverDraftedAgain == Spec => []DraftedOnce
<1>1. LearningInv => DraftedOnce
  BY DEF LearningInv, DraftInv
<1>2. LearningInv /\ [Next]_vars => LearningInv'
  BY NextLearning
<1>. QED  BY <1>1, <1>2, InitLearning, PTL DEF Spec
=============================================================================
