------------------------------ MODULE GitHubApp ------------------------------
(***************************************************************************)
(* The GitHub App service: the poll loop and processRemediation of         *)
(* github-app/internal/remediation/processor.go, CreatePR of               *)
(* github-app/internal/github/client.go, and the repository they write to. *)
(* Every call to GitHub or to the Kubernetes API is a step of its own, with *)
(* its outcomes.  Several instances may run ("Stateless (can run multiple  *)
(* instances)", docs/architecture.md), none of them keeps anything on disk. *)
(*                                                                         *)
(* A commit is the set of commit numbers reachable from it and the content *)
(* of its manifests; a manifest is the set of changes made to it, <<c, n>> *)
(* being the n-th time change c was made.                                  *)
(***************************************************************************)
EXTENDS RemediationTypes, Sequences, FiniteSets

CONSTANTS
    Apps,          \* running instances of the service
    Rems,          \* names of Remediation objects
    Watched,       \* the remediations in the one namespace the service lists
    NoRem,         \* no remediation is being processed
    Branches, BranchOf, \* head branches, and the one of each remediation
    Files, FileOf, \* manifests in the repository, and the one of each remediation
    Edits,         \* changes people make to manifests
    FaultKinds,    \* which of "error", "lost", "crash" may happen
    MaxTroubles,   \* bound: failed calls, crashes, and acts of people other than merges
    MaxCommits,    \* bound: commits after which people merge, push and edit no more
    MaxRv          \* bound: versions at which Pending is analyzed

ASSUME NoRemAssumption == NoRem \notin Rems /\ Watched \subseteq Rems
ASSUME NamesAssumption == /\ BranchOf \in [Rems -> Branches]
                          /\ FileOf \in [Rems -> Files]
                          /\ Edits \cap Rems = {}
ASSUME BoundsAssumption == MaxTroubles \in Nat /\ MaxCommits \in Nat /\ MaxRv \in Nat

VARIABLES
    cr,        \* Remediation objects in the API server
    prNumber,  \* status.prNumber of each, 0 when absent
    base,      \* the base branch
    branch,    \* the head branches
    pulls,     \* pull requests, by number
    todo,      \* todo[a]: listed remediations instance a has still to process
    listed,    \* the copies it listed
    pc,        \* the call it makes next
    doing,     \* the remediation it processes
    file,      \* the patched manifest
    ref,       \* the base commit it read
    sha,       \* the blob it read from the head branch, if there was one
    pull,      \* the number of the pull request it created
    commits, faults, intrusions   \* bound counters

repo == <<base, branch, pulls, commits>>
api == <<cr, prNumber>>
locals == <<todo, listed, pc, doing, file, ref, sha, pull>>
vars == <<repo, api, locals, faults, intrusions>>

Changes == (Edits \cup Rems) \X Nat
Manifest == {changes \in SUBSET Changes : IsFiniteSet(changes)}
\* from: the manifests of the base commit a branch starts at.
Commit == [history : SUBSET Nat, files : [Files -> Manifest], from : [Files -> Manifest]]
\* rem: the remediation that its title and body describe.
PullRequest == [head : Branches, rem : Rems, state : {"open", "merged", "closed"}]
Steps == {"idle", "getBase", "createRef", "updateRef", "getFile", "putFile",
          "putAgain", "createPull", "created", "failed"}

NoFiles == [f \in Files |-> {}]
NoCommit == [history |-> {}, files |-> NoFiles, from |-> NoFiles]
FirstCommit == [NoCommit EXCEPT !.history = {0}]
NoCopies == [r \in Rems |-> NoRemediation]

Init ==
    /\ cr = NoCopies
    /\ prNumber = [r \in Rems |-> 0]
    /\ base = FirstCommit
    /\ branch = [b \in Branches |-> NoCommit]
    /\ pulls = <<>>
    /\ todo = [a \in Apps |-> {}]
    /\ listed = [a \in Apps |-> NoCopies]
    /\ pc = [a \in Apps |-> "idle"]
    /\ doing = [a \in Apps |-> NoRem]
    /\ file = [a \in Apps |-> {}]
    /\ ref = [a \in Apps |-> NoCommit]
    /\ sha = [a \in Apps |-> {}]
    /\ pull = [a \in Apps |-> 0]
    /\ commits = 1
    /\ faults = 0
    /\ intrusions = 0

-----------------------------------------------------------------------------
Exists(commit) == commit.history # {}

Branch(a) == branch[BranchOf[doing[a]]]
File(a) == FileOf[doing[a]]

\* Commits of it are not on the base branch.
Ahead(commit) == ~(commit.history \subseteq base.history)

\* The manifest has remediation r's change.
Carries(manifest, r) == \E c \in manifest : c[1] = r

\* Remediation r's change, made once more.
Patched(manifest, r) ==
    manifest \cup {<<r, 1 + Cardinality({c \in manifest : c[1] = r})>>}

Fault(kind) == /\ kind \in FaultKinds
               /\ faults + intrusions < MaxTroubles
               /\ faults' = faults + 1
               /\ UNCHANGED intrusions
NoFault == UNCHANGED <<faults, intrusions>>
Intrusion == /\ faults + intrusions < MaxTroubles
             /\ intrusions' = intrusions + 1
             /\ UNCHANGED faults

Goto(a, step) == pc' = [pc EXCEPT ![a] = step]

\* The outcomes of a call that succeeds when Ok and then does Effect, going to
\* step good; otherwise, or when the call fails, nothing is done, or its reply
\* is lost, the instance goes to step bad.
Call(a, from, Ok, Effect, Nothing, good, bad) ==
    /\ pc[a] = from
    /\ \/ Ok /\ Effect /\ Goto(a, good) /\ NoFault
       \/ ~Ok /\ Nothing /\ Goto(a, bad) /\ NoFault
       \/ Nothing /\ Goto(a, bad) /\ Fault("error")
       \/ Ok /\ Effect /\ Goto(a, bad) /\ Fault("lost")

-----------------------------------------------------------------------------
(* processPendingRemediations and processRemediation *)

Found == {r \in Watched : Listable(cr[r])}

\* A tick: list the pending remediations.  A list that fails is left to the
\* next tick, like an empty one.
List(a) ==
    /\ pc[a] = "idle" /\ todo[a] = {}
    /\ Found # {}
    /\ todo' = [todo EXCEPT ![a] = Found]
    /\ listed' = [listed EXCEPT ![a] = [r \in Rems |-> IF r \in Found THEN cr[r]
                                                                     ELSE NoRemediation]]
    /\ UNCHANGED <<repo, api, pc, doing, file, ref, sha, pull, faults, intrusions>>

\* Fetch the manifest from the base branch and patch it.
Fetch(a, r) ==
    /\ pc[a] = "idle" /\ r \in todo[a]
    /\ todo' = [todo EXCEPT ![a] = @ \ {r}]
    /\ doing' = [doing EXCEPT ![a] = r]
    /\ \/ /\ file' = [file EXCEPT ![a] = Patched(base.files[FileOf[r]], r)]
          /\ Goto(a, "getBase")
       \/ \* it is missing, cannot be patched, or the call fails
          Goto(a, "failed") /\ UNCHANGED file
    /\ UNCHANGED <<repo, api, listed, ref, sha, pull, faults, intrusions>>

\* Variant: the remediation is not let go.
ReleaseKeeping(a) ==
    /\ Goto(a, "idle")
    /\ listed' = [listed EXCEPT ![a][doing[a]] = NoRemediation]
    /\ file' = [file EXCEPT ![a] = {}]
    /\ ref' = [ref EXCEPT ![a] = NoCommit]
    /\ sha' = [sha EXCEPT ![a] = {}]
    /\ pull' = [pull EXCEPT ![a] = 0]
    /\ UNCHANGED <<todo, doing>>

\* The instance is ready for the next remediation.
Release(a) ==
    /\ Goto(a, "idle")
    /\ listed' = [listed EXCEPT ![a][doing[a]] = NoRemediation]
    /\ doing' = [doing EXCEPT ![a] = NoRem]
    /\ file' = [file EXCEPT ![a] = {}]
    /\ ref' = [ref EXCEPT ![a] = NoCommit]
    /\ sha' = [sha EXCEPT ![a] = {}]
    /\ pull' = [pull EXCEPT ![a] = 0]
    /\ UNCHANGED todo

\* updateStatusPRCreated or updateStatusFailed.
SetStatus(a, r) ==
    \/ /\ pc[a] = "created"
       /\ cr' = [cr EXCEPT ![r] = Bump(PRCreatedStatus(listed[a][r]))]
       /\ prNumber' = [prNumber EXCEPT ![r] = pull[a]]
    \/ /\ pc[a] = "failed"
       /\ cr' = [cr EXCEPT ![r] = Bump(FailedStatus(listed[a][r]))]
       /\ UNCHANGED prNumber

\* Variant: an error is only logged, and the remediation left to the next poll.
WriteStatusUnlessFailed(a) ==
    LET r == doing[a] IN
    /\ pc[a] \in {"created", "failed"}
    /\ Release(a)
    /\ \/ /\ pc[a] = "created"
          /\ Current(listed[a][r], cr[r]) /\ SetStatus(a, r) /\ (NoFault \/ Fault("lost"))
       \/ pc[a] = "failed" /\ UNCHANGED api /\ NoFault
       \/ ~Current(listed[a][r], cr[r]) /\ UNCHANGED api /\ NoFault
    /\ UNCHANGED repo

\* Variant: the status is written over whatever version is stored.
WriteStatusUnversioned(a) ==
    LET r == doing[a] IN
    /\ pc[a] \in {"created", "failed"}
    /\ Release(a)
    /\ \/ cr[r].exists /\ SetStatus(a, r) /\ (NoFault \/ Fault("lost"))
       \/ ~cr[r].exists /\ UNCHANGED api /\ NoFault
       \/ UNCHANGED api /\ Fault("error")
    /\ UNCHANGED repo

\* The status is written with the version that was listed; every error is
\* logged and the loop goes on.
WriteStatus(a) ==
    LET r == doing[a] IN
    /\ pc[a] \in {"created", "failed"}
    /\ Release(a)
    /\ \/ Current(listed[a][r], cr[r]) /\ SetStatus(a, r) /\ (NoFault \/ Fault("lost"))
       \/ ~Current(listed[a][r], cr[r]) /\ UNCHANGED api /\ NoFault
       \/ UNCHANGED api /\ Fault("error")
    /\ UNCHANGED repo

\* The process dies and is restarted.
Restart(a) ==
    /\ todo' = [todo EXCEPT ![a] = {}]
    /\ listed' = [listed EXCEPT ![a] = NoCopies]
    /\ pc' = [pc EXCEPT ![a] = "idle"]
    /\ doing' = [doing EXCEPT ![a] = NoRem]
    /\ file' = [file EXCEPT ![a] = {}]
    /\ ref' = [ref EXCEPT ![a] = NoCommit]
    /\ sha' = [sha EXCEPT ![a] = {}]
    /\ pull' = [pull EXCEPT ![a] = 0]
    /\ UNCHANGED <<repo, api>>

Crash(a) == Restart(a) /\ Fault("crash")

-----------------------------------------------------------------------------
(* CreatePR.  An error of any step ends in updateStatusFailed. *)

NothingDone == UNCHANGED <<repo, api, todo, listed, doing, file, ref, sha, pull>>

GetBase(a) ==
    LET Effect == /\ ref' = [ref EXCEPT ![a] = [base EXCEPT !.from = base.files]]
                  /\ UNCHANGED <<repo, api, todo, listed, doing, file, sha, pull>>
    IN  Call(a, "getBase", TRUE, Effect, NothingDone, "createRef", "failed")

SetBranch(a, commit) ==
    /\ branch' = [branch EXCEPT ![BranchOf[doing[a]]] = commit]
    /\ UNCHANGED <<base, pulls, api, todo, listed, doing, file, ref, sha, pull>>

\* GitHub refuses a branch that exists; any error leads to UpdateRef.
CreateRef(a) ==
    Call(a, "createRef", ~Exists(Branch(a)),
         SetBranch(a, ref[a]) /\ UNCHANGED commits, NothingDone,
         "getFile", "updateRef")

\* Variant: the reference is updated with force.
UpdateRefForced(a) ==
    Call(a, "updateRef", Exists(Branch(a)),
         SetBranch(a, ref[a]) /\ UNCHANGED commits, NothingDone,
         "getFile", "failed")

\* Without force the branch may only move forward.
UpdateRef(a) ==
    Call(a, "updateRef", Exists(Branch(a)) /\ Branch(a).history \subseteq ref[a].history,
         SetBranch(a, ref[a]) /\ UNCHANGED commits, NothingDone,
         "getFile", "failed")

\* The blob on the head branch; a branch that is gone has none.  An error
\* without a response leaves resp nil, and reading its StatusCode panics.
GetFile(a) ==
    /\ pc[a] = "getFile"
    /\ \/ /\ sha' = [sha EXCEPT ![a] =
                        IF Exists(Branch(a)) THEN {Branch(a).files[File(a)]} ELSE {}]
          /\ Goto(a, "putFile") /\ NoFault
          /\ UNCHANGED <<repo, api, todo, listed, doing, file, ref, pull>>
       \/ NothingDone /\ Goto(a, "failed") /\ Fault("error")
       \/ Restart(a) /\ Fault("error")

\* GitHub commits the file only if it replaces the blob that was read.
Replaces(a) == Exists(Branch(a)) /\ sha[a] = {Branch(a).files[File(a)]}

\* A new commit on top of another, with a new content of one manifest.
NewCommit(on, f, manifest) == [history |-> on.history \cup {commits},
                               files |-> [on.files EXCEPT ![f] = manifest],
                               from |-> on.from]
CountCommit == commits' = commits + 1
PeopleCommit == commits < MaxCommits /\ CountCommit

\* Variant: the file is committed to the base branch.
CommitFileToBase(a) ==
    /\ CountCommit
    /\ base' = NewCommit(base, File(a), file[a])
    /\ UNCHANGED <<branch, pulls, api, todo, listed, doing, file, ref, sha, pull>>

CommitFile(a) == CountCommit /\ SetBranch(a, NewCommit(Branch(a), File(a), file[a]))

PutFile(a) ==
    Call(a, "putFile", Replaces(a), CommitFile(a), NothingDone, "createPull", "putAgain")

\* UpdateFile sends the same request as CreateFile.
PutAgain(a) ==
    Call(a, "putAgain", Replaces(a), CommitFile(a), NothingDone, "createPull", "failed")

\* GitHub wants commits to merge, and one open pull request per head branch.
Pullable(b) == /\ Exists(branch[b])
               /\ Ahead(branch[b])
               /\ \A n \in DOMAIN pulls : pulls[n].head = b => pulls[n].state # "open"

\* Variant: an error of the last step is ignored.
CreatePullUnchecked(a) ==
    LET r == doing[a]
        Effect == /\ pulls' = Append(pulls, [head |-> BranchOf[r], rem |-> r, state |-> "open"])
                  /\ pull' = [pull EXCEPT ![a] = Len(pulls) + 1]
                  /\ UNCHANGED <<base, branch, commits, api, todo, listed, doing,
                                 file, ref, sha>>
    IN  Call(a, "createPull", Pullable(BranchOf[r]), Effect, NothingDone, "created", "created")

CreatePull(a) ==
    LET r == doing[a]
        Effect == /\ pulls' = Append(pulls, [head |-> BranchOf[r], rem |-> r, state |-> "open"])
                  /\ pull' = [pull EXCEPT ![a] = Len(pulls) + 1]
                  /\ UNCHANGED <<base, branch, commits, api, todo, listed, doing,
                                 file, ref, sha>>
    IN  Call(a, "createPull", Pullable(BranchOf[r]), Effect, NothingDone, "created", "failed")

-----------------------------------------------------------------------------
(* People. *)

Theirs == UNCHANGED locals

SetPull(n, state) == pulls' = [pulls EXCEPT ![n].state = state]

\* A reviewer merges an open pull request, if its manifests do not conflict;
\* a merge commit keeps the branch's history, a squash does not.
Merge(n) ==
    LET b == pulls[n].head
        head == branch[b]
        Touched == {f \in Files : head.files[f] # head.from[f]}
        Merged == [f \in Files |-> IF f \in Touched THEN head.files[f] ELSE base.files[f]]
    IN
    /\ pulls[n].state = "open"
    /\ \A f \in Touched : base.files[f] = head.from[f]
    /\ PeopleCommit
    /\ \/ /\ base' = [base EXCEPT !.history = @ \cup head.history \cup {commits},
                                   !.files = Merged]
          /\ branch' = [branch EXCEPT ![b].from = head.files]
       \/ /\ base' = [base EXCEPT !.history = @ \cup {commits}, !.files = Merged]
          /\ UNCHANGED branch
    /\ SetPull(n, "merged")
    /\ Theirs /\ UNCHANGED <<api, faults, intrusions>>

ClosePull(n) ==
    /\ pulls[n].state = "open"
    /\ SetPull(n, "closed")
    /\ Intrusion
    /\ Theirs /\ UNCHANGED <<base, branch, commits, api>>

\* A branch whose pull request is merged or closed may be deleted.
DeleteBranch(b) ==
    /\ Exists(branch[b])
    /\ \E n \in DOMAIN pulls : pulls[n].head = b
    /\ \A n \in DOMAIN pulls : pulls[n].head = b => pulls[n].state # "open"
    /\ branch' = [branch EXCEPT ![b] = NoCommit]
    /\ Theirs /\ UNCHANGED <<base, pulls, commits, api, faults, intrusions>>

Edited(commit, f, e) == NewCommit(commit, f, commit.files[f] \cup {<<e, 1>>})

\* Somebody's change to a manifest reaches the base branch.
EditBase(f, e) ==
    /\ <<e, 1>> \notin base.files[f]
    /\ PeopleCommit
    /\ base' = Edited(base, f, e)
    /\ Intrusion
    /\ Theirs /\ UNCHANGED <<branch, pulls, api>>

\* A reviewer pushes a change to the branch of an open pull request.
PushToBranch(n, e) ==
    LET b == pulls[n].head
        f == FileOf[pulls[n].rem]
    IN
    /\ pulls[n].state = "open"
    /\ <<e, 1>> \notin branch[b].files[f]
    /\ PeopleCommit
    /\ branch' = [branch EXCEPT ![b] = Edited(@, f, e)]
    /\ Intrusion
    /\ Theirs /\ UNCHANGED <<base, pulls, api>>

-----------------------------------------------------------------------------
(* The operator's controller and webhook, and users of the API server. *)

ApiStep == Theirs /\ UNCHANGED <<repo, prNumber>>

\* The controller's status updates, which succeed for the stored version only.
\* MaxRv is the bound that RemediationController has, not the code.
ControllerWrites(r, o) ==
    /\ cr[r].exists /\ Computed(cr[r], o)
    /\ o.phase = "Analyzing" => cr[r].rv < MaxRv
    /\ cr' = [cr EXCEPT ![r] = Bump(o)]
    /\ ApiStep /\ NoFault

Accept(r) == ControllerWrites(r, NewStatus(cr[r]))
Analyze(r) == ControllerWrites(r, AnalyzingStatus(cr[r]))
LeaveAnalyzing(r) ==
    /\ cr[r].phase = "Analyzing"
    /\ \/ ControllerWrites(r, WaitingStatus(cr[r]))
       \/ ControllerWrites(r, ApplyingStatus(cr[r]))
       \/ ControllerWrites(r, FailedStatus(cr[r]))
TargetMissing(r) == cr[r].phase = "Pending" /\ ControllerWrites(r, FailedStatus(cr[r]))
EndDirect(r) ==
    /\ cr[r].phase = "Applying"
    /\ \/ ControllerWrites(r, SucceededStatus(cr[r]))
       \/ ControllerWrites(r, FailedStatus(cr[r]))
Expire(r) == ControllerWrites(r, ExpiredStatus(cr[r]))

CreateRemediation(r, s) ==
    /\ cr[r].rv = 0
    /\ cr' = [cr EXCEPT ![r] = Created(s)]
    /\ ApiStep /\ NoFault

EditSpec(r, s) ==
    /\ cr[r].exists /\ cr[r].spec # s
    /\ Intrusion
    /\ cr' = [cr EXCEPT ![r] = Respecified(@, s)]
    /\ ApiStep

DeleteRemediation(r) ==
    /\ cr[r].exists
    /\ Intrusion
    /\ cr' = [cr EXCEPT ![r] = Deleted(@)]
    /\ ApiStep

-----------------------------------------------------------------------------
Work(a) == \/ List(a) \/ \E r \in Rems : Fetch(a, r)
           \/ GetBase(a) \/ CreateRef(a) \/ UpdateRef(a) \/ GetFile(a)
           \/ PutFile(a) \/ PutAgain(a) \/ CreatePull(a) \/ WriteStatus(a)

RemediationStep(r) ==
    \/ Accept(r) \/ Analyze(r) \/ LeaveAnalyzing(r) \/ TargetMissing(r)
    \/ EndDirect(r) \/ Expire(r)
    \/ \E s \in Specs : CreateRemediation(r, s) \/ EditSpec(r, s)
    \/ DeleteRemediation(r)

PeopleStep ==
    \/ \E n \in DOMAIN pulls : \/ Merge(n) \/ ClosePull(n)
                               \/ \E e \in Edits : PushToBranch(n, e)
    \/ \E b \in Branches : DeleteBranch(b)
    \/ \E f \in Files, e \in Edits : EditBase(f, e)

Next == \/ \E a \in Apps : Work(a) \/ Crash(a)
        \/ \E r \in Rems : RemediationStep(r)
        \/ PeopleStep

Spec == Init /\ [][Next]_vars

-----------------------------------------------------------------------------
(* Properties *)

\* Every variable keeps its type.
TypeOK ==
    /\ cr \in [Rems -> Remediation]
    /\ prNumber \in [Rems -> Nat]
    /\ base \in Commit
    /\ branch \in [Branches -> Commit]
    /\ pulls \in Seq(PullRequest)
    /\ todo \in [Apps -> SUBSET Rems]
    /\ listed \in [Apps -> [Rems -> Remediation]]
    /\ pc \in [Apps -> Steps]
    /\ doing \in [Apps -> Rems \cup {NoRem}]
    /\ \A a \in Apps : pc[a] # "idle" <=> doing[a] # NoRem
    /\ file \in [Apps -> Manifest]
    /\ ref \in [Apps -> Commit]
    /\ sha \in [Apps -> SUBSET Manifest]
    /\ pull \in [Apps -> Nat]
    /\ commits \in Nat /\ faults \in Nat /\ intrusions \in Nat

\* PRCreated is not announced before, or without, the pull request: the
\* number in the status is that of a pull request opened for this
\* remediation, whatever instances, retries and lost replies came between.
PRCreatedHasPull ==
    \A r \in Rems :
        cr[r].phase \in {"PRCreated", "Expired"} =>
            /\ prNumber[r] \in DOMAIN pulls
            /\ pulls[prNumber[r]].rem = r

\* No other remediation has r's branch name.
SoleOwner(r) == \A q \in Rems : BranchOf[q] = BranchOf[r] => q = r

MergedFrom(b) == \E n \in DOMAIN pulls : pulls[n].head = b /\ pulls[n].state = "merged"

\* An open pull request starts from a commit of the base branch, is ahead of
\* it, and carries the change of the remediation it was opened for, when no
\* other remediation has its branch name: a second instance, or a retry after
\* the merge, may move or overwrite the branch, but never so that the pull
\* request a reviewer sees is about something else.
PullCarriesPatch ==
    \A n \in DOMAIN pulls :
        pulls[n].state = "open" =>
            LET head == branch[pulls[n].head] IN
            /\ 0 \in head.history /\ Ahead(head)
            /\ SoleOwner(pulls[n].rem) => Carries(head.files[FileOf[pulls[n].rem]], pulls[n].rem)

\* "All changes via Pull Requests": a remediation's change is on the base
\* branch only if a pull request from its branch was merged.
ChangesByPullRequest ==
    \A r \in Rems, f \in Files :
        Carries(base.files[f], r) => MergedFrom(BranchOf[r])

\* No commit is ever taken off a head branch: what a reviewer pushed to a pull
\* request is not thrown away by a retry, or by another instance.
CommitsStayOnBranch ==
    [][\A b \in Branches :
          Exists(branch'[b]) => branch[b].history \subseteq branch'[b].history]_vars

\* The state of PullRequests.
Phase == [r \in Rems |-> cr[r].phase]
Landed == {r \in Rems : \E f \in Files : Carries(base.files[f], r)}

Promise == INSTANCE PullRequests WITH phase <- Phase, number <- prNumber, landed <- Landed

\* The App, for all its instances, polls, calls that fail midway, and restarts,
\* does what PullRequests promises: each of its pull requests and statuses
\* comes about in one step, at a moment when it is right.
PromiseSpec == Promise!Spec

\* "One Remediation = One PR".
OnePullPerRemediation ==
    \A m, n \in DOMAIN pulls : pulls[m].rem = pulls[n].rem => m = n

-----------------------------------------------------------------------------
(* The inductive invariants behind the safety properties. *)

\* An instance about to announce a pull request has opened it for the
\* remediation it announces.
PullInv ==
    /\ PRCreatedHasPull
    /\ \A a \in Apps :
           pc[a] = "created" => /\ pull[a] \in DOMAIN pulls
                                /\ pulls[pull[a]].rem = doing[a]

\* What an instance has listed is the stored object or an older version of it,
\* and the copies it still works with were listable.
ListedInv ==
    /\ \A r \in Rems : cr[r].rv = 0 => cr[r] = NoRemediation
    /\ \A a \in Apps :
           /\ doing[a] \notin todo[a]
           /\ \A r \in Rems :
                  /\ listed[a][r].rv <= cr[r].rv
                  /\ Current(listed[a][r], cr[r]) => listed[a][r] = cr[r]
                  /\ r \in todo[a] \cup {doing[a]} => Listable(listed[a][r])

\* What an instance holds in between calls: a manifest with the change it is
\* to make, and a reference to a commit that the base branch had.
LocalInv ==
    \A a \in Apps :
        /\ pc[a] = "idle" => file[a] = {}
        /\ pc[a] \notin {"idle", "created", "failed"} => Carries(file[a], doing[a])
        /\ pc[a] \in {"createRef", "updateRef"} => 0 \in ref[a].history
        /\ ref[a].history \subseteq base.history

\* Until a pull request from its branch is merged, a remediation's change is
\* nowhere but on its branch and with the instances that process it.
UnmergedInv ==
    \A r \in Rems :
        \/ MergedFrom(BranchOf[r])
        \/ /\ \A f \in Files : ~Carries(base.files[f], r)
           /\ \A b \in Branches, f \in Files : Carries(branch[b].files[f], r) => b = BranchOf[r]
           /\ \A a \in Apps : /\ \A f \in Files : ~Carries(ref[a].files[f], r)
                              /\ Carries(file[a], r) => r = doing[a]

\* Every branch starts from the first commit, and two branches share only
\* commits of the base branch.
HistoryInv ==
    /\ 0 \in base.history /\ base.history \subseteq 0 .. commits - 1
    /\ \A b \in Branches :
           /\ branch[b].history \subseteq 0 .. commits - 1
           /\ Exists(branch[b]) => 0 \in branch[b].history
           /\ \A c \in Branches \ {b} :
                  branch[b].history \cap branch[c].history \subseteq base.history

\* A branch with an open pull request is ahead of the base branch, so that no
\* instance can move it to a commit it reads there; and a branch that is
\* ahead has the change of the only remediation that commits to it.
OpenInv ==
    /\ \A n \in DOMAIN pulls : pulls[n].head = BranchOf[pulls[n].rem]
    /\ \A n \in DOMAIN pulls :
           pulls[n].state = "open" =>
               /\ Ahead(branch[pulls[n].head])
               /\ \A m \in DOMAIN pulls \ {n} :
                      pulls[m].state = "open" => pulls[m].head # pulls[n].head
    /\ \A r \in Rems :
           SoleOwner(r) /\ Ahead(branch[BranchOf[r]]) =>
               Carries(branch[BranchOf[r]].files[FileOf[r]], r)
=============================================================================
