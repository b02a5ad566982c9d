--------------------------- MODULE GitHubApp_proofs ---------------------------
(* Proofs about GitHubApp, for every value of its constants. *)
EXTENDS GitHubApp, RemediationTypes_proofs, FiniteSetTheorems, SequenceTheorems

\* A manifest with one more change is a manifest.
LEMMA ManifestAdd ==
  ASSUME NEW manifest \in Manifest, NEW c \in Changes
  PROVE  manifest \cup {c} \in Manifest
<1>1. manifest \subseteq Changes /\ IsFiniteSet(manifest)
  BY DEF Manifest
<1>2. IsFiniteSet(manifest \cup {c})
  BY <1>1, FS_AddElement
<1> QED
  BY <1>1, <1>2 DEF Manifest

\* A patched manifest is one, keeps what it had and carries the change.
LEMMA PatchedManifest ==
  ASSUME NEW manifest \in Manifest, NEW r \in Rems
  PROVE  /\ Patched(manifest, r) \in Manifest
         /\ \E c \in Patched(manifest, r) : c[1] = r
         /\ \A c \in Patched(manifest, r) : c \in manifest \/ c[1] = r
<1> DEFINE times == {c \in manifest : c[1] = r}
           c == <<r, 1 + Cardinality(times)>>
<1>1. IsFiniteSet(times)
  <2>1. IsFiniteSet(manifest) /\ times \in SUBSET manifest
    BY DEF Manifest
  <2> QED
    BY <2>1, FS_Subset
<1>2. Cardinality(times) \in Nat
  BY <1>1, FS_CardinalityType
<1>3. c \in Changes /\ c[1] = r
  BY <1>2 DEF Changes
<1>4. Patched(manifest, r) = manifest \cup {c}
  BY DEF Patched
<1> HIDE DEF c, times
<1> QED
  BY <1>3, <1>4, ManifestAdd

\* The values the variables start with are well typed.
LEMMA CommitsTyped ==
  /\ {} \in Manifest /\ NoFiles \in [Files -> Manifest]
  /\ NoCommit \in Commit /\ FirstCommit \in Commit
  /\ NoCommit.history = {} /\ FirstCommit.history = {0}
  /\ NoCommit.files = NoFiles /\ FirstCommit.files = NoFiles
<1>1. {} \in Manifest
  BY FS_EmptySet DEF Manifest
<1>2. NoFiles \in [Files -> Manifest]
  BY <1>1 DEF NoFiles
<1>3. NoCommit \in Commit /\ FirstCommit \in Commit
  BY <1>2 DEF NoCommit, FirstCommit, Commit
<1> QED
  BY <1>1, <1>2, <1>3 DEF NoCommit, FirstCommit

\* A commit on top of another: its type and its three fields.
LEMMA NewCommitFields ==
  ASSUME commits \in Nat, NEW on \in Commit, NEW f \in Files, NEW manifest \in Manifest
  PROVE  LET c == NewCommit(on, f, manifest) IN
         /\ c \in Commit
         /\ c.history = on.history \cup {commits}
         /\ c.files = [on.files EXCEPT ![f] = manifest]
         /\ c.from = on.from
BY DEF NewCommit, Commit

\* The same of a commit made by a person.
LEMMA EditedFields ==
  ASSUME commits \in Nat, NEW on \in Commit, NEW f \in Files, NEW e \in Edits
  PROVE  LET c == Edited(on, f, e) IN
         /\ c \in Commit
         /\ c.history = on.history \cup {commits}
         /\ c.files = [on.files EXCEPT ![f] = on.files[f] \cup {<<e, 1>>}]
         /\ c.from = on.from
<1>1. on.files[f] \cup {<<e, 1>>} \in Manifest
  BY ManifestAdd DEF Commit, Changes
<1> QED
  BY <1>1, NewCommitFields DEF Edited

\* A new pull request has the next number; the others stay as they are.
LEMMA AppendedPull ==
  ASSUME pulls \in Seq(PullRequest), NEW p \in PullRequest, pulls' = Append(pulls, p)
  PROVE  /\ pulls' \in Seq(PullRequest)
         /\ Len(pulls) \in Nat /\ Len(pulls) + 1 \in DOMAIN pulls'
         /\ pulls'[Len(pulls) + 1] = p
         /\ DOMAIN pulls' = DOMAIN pulls \cup {Len(pulls) + 1}
         /\ Len(pulls) + 1 \notin DOMAIN pulls
         /\ \A n \in DOMAIN pulls : pulls'[n] = pulls[n] /\ pulls[n] \in PullRequest
BY AppendProperties, LenProperties, ElementOfSeq

\* Merging or closing a pull request changes nothing else of it.
LEMMA SetPullFields ==
  ASSUME pulls \in Seq(PullRequest), NEW n \in DOMAIN pulls,
         NEW state \in {"open", "merged", "closed"}, SetPull(n, state)
  PROVE  /\ pulls' \in Seq(PullRequest) /\ DOMAIN pulls' = DOMAIN pulls
         /\ pulls'[n].state = state
         /\ \A k \in DOMAIN pulls : /\ k # n => pulls'[k] = pulls[k]
                                    /\ pulls'[k].head = pulls[k].head
                                    /\ pulls'[k].rem = pulls[k].rem
<1>1. /\ Len(pulls) \in Nat /\ DOMAIN pulls = 1..Len(pulls)
      /\ pulls \in [1..Len(pulls) -> PullRequest]
  BY LenProperties
<1> DEFINE p == [pulls[n] EXCEPT !.state = state]
<1>2. /\ p \in PullRequest /\ p.state = state /\ p.head = pulls[n].head /\ p.rem = pulls[n].rem
  <2>1. pulls[n] \in PullRequest
    BY <1>1
  <2> QED
    BY <2>1 DEF PullRequest
<1>3. pulls' = [pulls EXCEPT ![n] = p]
  BY DEF SetPull
<1> HIDE DEF p
<1>4. pulls' \in [1..Len(pulls) -> PullRequest] /\ pulls'[n] = p
      /\ \A k \in DOMAIN pulls : k # n => pulls'[k] = pulls[k]
  BY <1>1, <1>2, <1>3
<1>5. pulls' \in Seq(PullRequest)
  BY <1>1, <1>4, SeqDef
<1> QED
  BY <1>1, <1>2, <1>4, <1>5

-----------------------------------------------------------------------------
(* Types. *)

\* The initial state is well typed.
LEMMA TypeInit == Init => TypeOK
<1>1. NoCopies \in [Rems -> Remediation]
  BY NoRemediationTyped DEF NoCopies
<1>2. <<>> \in Seq(PullRequest)
  OBVIOUS
<1> QED
  BY <1>1, <1>2, CommitsTyped DEF Init, TypeOK, Steps

\* The counters of failed calls and of acts of people.
LEMMA TroublesTyped ==
  ASSUME TypeOK, NoFault \/ Intrusion \/ \E kind : Fault(kind)
  PROVE  faults' \in Nat /\ intrusions' \in Nat
BY DEF TypeOK, NoFault, Intrusion, Fault

\* An instance at work on a remediation that goes on to step s.
LEMMA GotoTyped ==
  ASSUME TypeOK, NEW a \in Apps, NEW s \in Steps \ {"idle"}, pc[a] # "idle",
         Goto(a, s), UNCHANGED doing
  PROVE  /\ pc' \in [Apps -> Steps]
         /\ \A b \in Apps : pc'[b] # "idle" <=> doing'[b] # NoRem
BY DEF TypeOK, Goto, Steps

\* An instance that lets go of its remediation.
LEMMA ReleaseTyped ==
  ASSUME TypeOK, NEW a \in Apps, Release(a), pc[a] # "idle"
  PROVE  /\ todo' \in [Apps -> SUBSET Rems] /\ listed' \in [Apps -> [Rems -> Remediation]]
         /\ pc' \in [Apps -> Steps] /\ doing' \in [Apps -> Rems \cup {NoRem}]
         /\ \A b \in Apps : pc'[b] # "idle" <=> doing'[b] # NoRem
         /\ file' \in [Apps -> Manifest] /\ ref' \in [Apps -> Commit]
         /\ sha' \in [Apps -> SUBSET Manifest]
         /\ pull' \in [Apps -> Nat]
<1>1. /\ pc' \in [Apps -> Steps] /\ doing' \in [Apps -> Rems \cup {NoRem}]
      /\ \A b \in Apps : pc'[b] # "idle" <=> doing'[b] # NoRem
  BY DEF Release, Goto, TypeOK, Steps
<1>2. listed' \in [Apps -> [Rems -> Remediation]]
  BY NoRemediationTyped DEF Release, TypeOK
<1>3. file' \in [Apps -> Manifest] /\ ref' \in [Apps -> Commit] /\ pull' \in [Apps -> Nat]
  BY CommitsTyped DEF Release, TypeOK
<1>4. sha' \in [Apps -> SUBSET Manifest]
  BY DEF Release, TypeOK
<1> QED
  BY <1>1, <1>2, <1>3, <1>4 DEF Release, TypeOK

\* An instance that is restarted.
LEMMA RestartTyped ==
  ASSUME TypeOK, NEW a \in Apps, Restart(a), faults' \in Nat, intrusions' \in Nat
  PROVE  TypeOK'
<1>1. /\ pc' \in [Apps -> Steps] /\ doing' \in [Apps -> Rems \cup {NoRem}]
      /\ \A b \in Apps : pc'[b] # "idle" <=> doing'[b] # NoRem
  BY DEF Restart, Goto, TypeOK, Steps
<1>2. listed' \in [Apps -> [Rems -> Remediation]] /\ todo' \in [Apps -> SUBSET Rems]
  BY NoRemediationTyped DEF Restart, TypeOK, NoCopies
<1>3. file' \in [Apps -> Manifest] /\ ref' \in [Apps -> Commit] /\ pull' \in [Apps -> Nat]
  BY CommitsTyped DEF Restart, TypeOK
<1>4. sha' \in [Apps -> SUBSET Manifest]
  BY DEF Restart, TypeOK
<1>5. UNCHANGED <<repo, api>>
  BY DEF Restart
<1> QED
  BY <1>1, <1>2, <1>3, <1>4, <1>5 DEF TypeOK, repo, api

\* Listing, fetching and crashing keep the types.
LEMMA TypeTick ==
  ASSUME TypeOK, NEW a \in Apps, List(a) \/ \E r \in Rems : Fetch(a, r)
  PROVE  TypeOK'
<1> USE DEF repo, api
<1>1. CASE List(a)
  <2>1. Found \subseteq Rems
    BY NoRemAssumption DEF Found
  <2>2. [r \in Rems |-> IF r \in Found THEN cr[r] ELSE NoRemediation] \in [Rems -> Remediation]
    BY NoRemediationTyped DEF TypeOK
  <2>3. todo' \in [Apps -> SUBSET Rems] /\ listed' \in [Apps -> [Rems -> Remediation]]
    BY <1>1, <2>1, <2>2 DEF List, TypeOK
  <2> QED
    BY <1>1, <2>3 DEF List, TypeOK
<1>2. ASSUME NEW r \in Rems, Fetch(a, r) PROVE TypeOK'
  <2>1. base.files[FileOf[r]] \in Manifest
    BY NamesAssumption DEF TypeOK, Commit
  <2>2. Patched(base.files[FileOf[r]], r) \in Manifest
    BY <2>1, PatchedManifest
  <2>3. file' \in [Apps -> Manifest] /\ todo' \in [Apps -> SUBSET Rems]
    <3>1. /\ file' = file \/ file' = [file EXCEPT ![a] = Patched(base.files[FileOf[r]], r)]
          /\ todo' = [todo EXCEPT ![a] = @ \ {r}]
      BY <1>2 DEF Fetch
    <3> QED
      BY <2>2, <3>1 DEF TypeOK
  <2>4. /\ pc' \in [Apps -> Steps] /\ doing' \in [Apps -> Rems \cup {NoRem}]
        /\ \A b \in Apps : pc'[b] # "idle" <=> doing'[b] # NoRem
    BY <1>2, NoRemAssumption DEF Fetch, Goto, TypeOK, Steps
  <2> QED
    BY <1>2, <2>3, <2>4 DEF Fetch, TypeOK
<1> QED
  BY <1>1, <1>2

\* Writing the status and letting go keep the types.
LEMMA TypeWriteStatus ==
  ASSUME TypeOK, NEW a \in Apps, WriteStatus(a)
  PROVE  TypeOK'
<1> DEFINE r == doing[a]
<1>1. /\ pc[a] # "idle" /\ Release(a) /\ r \in Rems /\ UNCHANGED repo
      /\ NoFault \/ \E kind : Fault(kind)
  BY DEF WriteStatus, TypeOK
<1>2. faults' \in Nat /\ intrusions' \in Nat
  BY <1>1, TroublesTyped
<1>3. listed[a][r] \in Remediation
  BY <1>1 DEF TypeOK
<1>4. cr' \in [Rems -> Remediation] /\ prNumber' \in [Rems -> Nat]
  <2>1. CASE SetStatus(a, r)
    <3>1. PICK o \in {PRCreatedStatus(listed[a][r]), FailedStatus(listed[a][r])} :
             cr' = [cr EXCEPT ![r] = Bump(o)]
      BY <2>1 DEF SetStatus
    <3>2. Bump(o) \in Remediation
      <4>1. o \in Remediation
        BY <1>3, StatusesTyped
      <4> QED
        BY <4>1, BumpFields
    <3>3. prNumber' \in [Rems -> Nat]
      BY <2>1 DEF SetStatus, TypeOK
    <3> QED
      BY <3>1, <3>2, <3>3 DEF TypeOK
  <2>2. CASE UNCHANGED api
    BY <2>2 DEF api, TypeOK
  <2> QED
    BY <2>1, <2>2 DEF WriteStatus
<1> QED
  BY <1>1, <1>2, <1>4, ReleaseTyped DEF repo, TypeOK

\* The calls of CreatePR: what one of them leaves alone, and where it goes.
LEMMA CallTyped ==
  ASSUME TypeOK, NEW a \in Apps, pc[a] # "idle",
         \E s \in Steps \ {"idle"} : Goto(a, s),
         NoFault \/ \E kind : Fault(kind),
         UNCHANGED <<api, todo, listed, doing, file>>,
         base' \in Commit, branch' \in [Branches -> Commit], pulls' \in Seq(PullRequest),
         commits' \in Nat, ref' \in [Apps -> Commit],
         sha' \in [Apps -> SUBSET Manifest],
         pull' \in [Apps -> Nat]
  PROVE  TypeOK'
<1>1. faults' \in Nat /\ intrusions' \in Nat
  BY TroublesTyped
<1>2. /\ pc' \in [Apps -> Steps]
      /\ \A b \in Apps : pc'[b] # "idle" <=> doing'[b] # NoRem
  BY GotoTyped
<1> QED
  BY <1>1, <1>2 DEF TypeOK, api

\* The calls of CreatePR keep the types.
LEMMA TypeCreatePR ==
  ASSUME TypeOK, NEW a \in Apps,
         \/ GetBase(a) \/ CreateRef(a) \/ UpdateRef(a) \/ GetFile(a)
         \/ PutFile(a) \/ PutAgain(a) \/ CreatePull(a)
  PROVE  TypeOK'
<1> DEFINE r == doing[a]
           b == BranchOf[r]
<1> USE DEF repo, Steps
<1>1. /\ pc[a] # "idle" /\ r \in Rems /\ b \in Branches /\ FileOf[r] \in Files
      /\ base \in Commit /\ branch[b] \in Commit /\ ref[a] \in Commit /\ file[a] \in Manifest
  BY NamesAssumption
     DEF TypeOK, GetBase, CreateRef, UpdateRef, GetFile, PutFile, PutAgain, CreatePull, Call
<1>2. /\ base \in Commit /\ branch \in [Branches -> Commit] /\ pulls \in Seq(PullRequest)
      /\ commits \in Nat /\ ref \in [Apps -> Commit] /\ pull \in [Apps -> Nat]
      /\ sha \in [Apps -> SUBSET Manifest]
  BY DEF TypeOK
<1>3. ASSUME NEW commit \in Commit, SetBranch(a, commit)
      PROVE  /\ branch' \in [Branches -> Commit]
             /\ UNCHANGED <<base, pulls, api, todo, listed, doing, file, ref, sha, pull>>
  BY <1>1, <1>2, <1>3 DEF SetBranch
<1>4. CASE GetBase(a)
  <2>1. [base EXCEPT !.from = base.files] \in Commit
    BY <1>1 DEF Commit
  <2>2. ref' \in [Apps -> Commit]
    BY <1>2, <1>4, <2>1 DEF GetBase, Call, NothingDone
  <2> QED
    BY <1>1, <1>2, <1>4, <2>2, CallTyped DEF GetBase, Call, NothingDone
<1>5. CASE CreateRef(a)
  BY <1>1, <1>2, <1>3, <1>5, CallTyped DEF CreateRef, Call, NothingDone
<1>6. CASE UpdateRef(a)
  BY <1>1, <1>2, <1>3, <1>6, CallTyped DEF UpdateRef, Call, NothingDone
<1>7. CASE GetFile(a)
  <2>1. CASE Restart(a)
    <3>1. NoFault \/ \E kind : Fault(kind)
      BY <1>7 DEF GetFile
    <3> QED
      BY <2>1, <3>1, RestartTyped, TroublesTyped
  <2>2. CASE ~Restart(a)
    <3>1. branch[b].files[FileOf[r]] \in Manifest
      BY <1>1 DEF Commit
    <3> DEFINE blob == IF Exists(branch[b]) THEN {branch[b].files[FileOf[r]]} ELSE {}
    <3>2. blob \in SUBSET Manifest
      BY <3>1
    <3>3. UNCHANGED sha \/ sha' = [sha EXCEPT ![a] = blob]
      BY <1>7, <2>2 DEF GetFile, Branch, File, NothingDone
    <3> HIDE DEF blob
    <3>4. sha' \in [Apps -> SUBSET Manifest]
      BY <1>2, <3>2, <3>3
    <3> QED
      BY <1>1, <1>2, <1>7, <2>2, <3>4, CallTyped DEF GetFile, NothingDone
  <2> QED
    BY <2>1, <2>2
<1>8. CASE PutFile(a) \/ PutAgain(a)
  <2> DEFINE c == NewCommit(Branch(a), File(a), file[a])
  <2>1. c \in Commit
    BY <1>1, <1>2, NewCommitFields DEF Branch, File
  <2>2. CommitFile(a) => SetBranch(a, c) /\ commits' \in Nat
    BY <1>2 DEF CommitFile, CountCommit
  <2> HIDE DEF c
  <2>3. \/ NothingDone
        \/ SetBranch(a, c) /\ commits' \in Nat
    BY <1>8, <2>2 DEF PutFile, PutAgain, Call
  <2>4. /\ \E s \in Steps \ {"idle"} : Goto(a, s)
        /\ NoFault \/ \E kind : Fault(kind)
    BY <1>8 DEF PutFile, PutAgain, Call
  <2> QED
    BY <1>1, <1>2, <1>3, <2>1, <2>3, <2>4, CallTyped DEF NothingDone
<1>9. CASE CreatePull(a)
  <2> DEFINE p == [head |-> b, rem |-> r, state |-> "open"]
  <2>1. p \in PullRequest
    BY <1>1 DEF PullRequest
  <2>2. \/ NothingDone
        \/ /\ pulls' = Append(pulls, p)
           /\ pull' = [pull EXCEPT ![a] = Len(pulls) + 1]
           /\ UNCHANGED <<base, branch, commits, api, todo, listed, doing, file, ref, sha>>
    BY <1>9 DEF CreatePull, Call
  <2> HIDE DEF p
  <2>3. pulls' \in Seq(PullRequest) /\ pull' \in [Apps -> Nat]
    <3>1. CASE NothingDone
      BY <1>2, <3>1 DEF NothingDone
    <3>2. CASE pulls' = Append(pulls, p) /\ pull' = [pull EXCEPT ![a] = Len(pulls) + 1]
      <4>1. pulls' \in Seq(PullRequest) /\ Len(pulls) \in Nat
        BY <1>2, <2>1, <3>2, AppendedPull
      <4> QED
        BY <1>2, <3>2, <4>1
    <3> QED
      BY <2>2, <3>1, <3>2
  <2>4. /\ \E s \in Steps \ {"idle"} : Goto(a, s)
        /\ NoFault \/ \E kind : Fault(kind)
    BY <1>9 DEF CreatePull, Call
  <2> QED
    BY <1>1, <1>2, <2>2, <2>3, <2>4, CallTyped DEF NothingDone
<1> QED
  BY <1>4, <1>5, <1>6, <1>7, <1>8, <1>9

\* People at the repository keep the types.
LEMMA TypePeople ==
  ASSUME TypeOK, PeopleStep
  PROVE  TypeOK'
<1> USE DEF repo, api, locals, Theirs
<1>0. /\ pulls \in Seq(PullRequest) /\ commits \in Nat
      /\ base \in Commit /\ branch \in [Branches -> Commit]
  BY DEF TypeOK
<1>1. ASSUME NEW n \in DOMAIN pulls
      PROVE  pulls[n].head \in Branches /\ FileOf[pulls[n].rem] \in Files
  <2>1. pulls[n] \in PullRequest
    BY <1>0, LenProperties, ElementOfSeq
  <2> QED
    BY <2>1, NamesAssumption DEF PullRequest
<1>2. ASSUME NEW n \in DOMAIN pulls, Merge(n) PROVE TypeOK'
  <2> DEFINE head == branch[pulls[n].head]
             Touched == {f \in Files : head.files[f] # head.from[f]}
             Merged == [f \in Files |-> IF f \in Touched THEN head.files[f] ELSE base.files[f]]
  <2>1. head \in Commit /\ Merged \in [Files -> Manifest]
    BY <1>0, <1>1 DEF Commit
  <2>2. commits' \in Nat
    BY <1>0, <1>2 DEF Merge, PeopleCommit, CountCommit
  <2>3. pulls' \in Seq(PullRequest)
    BY <1>0, <1>2, SetPullFields DEF Merge
  <2>4. /\ \/ base' = [base EXCEPT !.history = @ \cup head.history \cup {commits}, !.files = Merged]
           \/ base' = [base EXCEPT !.history = @ \cup {commits}, !.files = Merged]
        /\ \/ branch' = [branch EXCEPT ![pulls[n].head].from = head.files]
           \/ branch' = branch
    BY <1>2 DEF Merge
  <2> HIDE DEF Merged
  <2>5. base' \in Commit
    <3>1. PICK more \in SUBSET Nat : base' = [base EXCEPT !.history = @ \cup more, !.files = Merged]
      <4>1. head.history \cup {commits} \in SUBSET Nat /\ {commits} \in SUBSET Nat
        BY <1>0, <2>1 DEF Commit
      <4>2. base.history \cup (head.history \cup {commits})
              = base.history \cup head.history \cup {commits}
        OBVIOUS
      <4> QED
        BY <2>4, <4>1, <4>2
    <3>2. base.history \cup more \in SUBSET Nat
      BY <1>0 DEF Commit
    <3> QED
      BY <1>0, <2>1, <3>1, <3>2, Zenon DEF Commit
  <2>6. branch' \in [Branches -> Commit]
    <3>1. [head EXCEPT !.from = head.files] \in Commit
      BY <2>1 DEF Commit
    <3> QED
      BY <1>0, <1>1, <2>4, <3>1
  <2> QED
    BY <1>2, <2>2, <2>3, <2>5, <2>6 DEF Merge, TypeOK
<1>3. ASSUME NEW n \in DOMAIN pulls, ClosePull(n) PROVE TypeOK'
  <2>1. pulls' \in Seq(PullRequest) /\ faults' \in Nat /\ intrusions' \in Nat
    BY <1>0, <1>3, SetPullFields, TroublesTyped DEF ClosePull
  <2> QED
    BY <1>3, <2>1 DEF ClosePull, TypeOK
<1>4. ASSUME NEW n \in DOMAIN pulls, NEW e \in Edits, PushToBranch(n, e) PROVE TypeOK'
  <2> DEFINE b == pulls[n].head
             c == Edited(branch[b], FileOf[pulls[n].rem], e)
  <2>1. c \in Commit
    BY <1>0, <1>1, EditedFields
  <2>2. branch' = [branch EXCEPT ![b] = c]
    BY <1>4 DEF PushToBranch
  <2> HIDE DEF c
  <2>3. /\ branch' \in [Branches -> Commit] /\ commits' \in Nat
        /\ faults' \in Nat /\ intrusions' \in Nat
    <3>1. Intrusion /\ commits' = commits + 1
      BY <1>4 DEF PushToBranch, PeopleCommit, CountCommit
    <3> QED
      BY <1>0, <1>1, <2>1, <2>2, <3>1, TroublesTyped
  <2> QED
    BY <1>4, <2>3 DEF PushToBranch, TypeOK
<1>5. ASSUME NEW b \in Branches, DeleteBranch(b) PROVE TypeOK'
  BY <1>5, CommitsTyped DEF DeleteBranch, TypeOK
<1>6. ASSUME NEW f \in Files, NEW e \in Edits, EditBase(f, e) PROVE TypeOK'
  <2>1. base' \in Commit /\ commits' \in Nat /\ faults' \in Nat /\ intrusions' \in Nat
    <3>1. Intrusion /\ commits' = commits + 1 /\ base' = Edited(base, f, e)
      BY <1>6 DEF EditBase, PeopleCommit, CountCommit
    <3> QED
      <4>1. Edited(base, f, e) \in Commit
        BY <1>0, EditedFields
      <4> QED
        BY <1>0, <3>1, <4>1, TroublesTyped
  <2> QED
    BY <1>6, <2>1 DEF EditBase, TypeOK
<1> QED
  BY <1>2, <1>3, <1>4, <1>5, <1>6 DEF PeopleStep

\* The other writers of Remediation objects keep the types.
LEMMA TypeOthers ==
  ASSUME TypeOK, \/ \E r \in Rems : RemediationStep(r)
                 \/ \E a \in Apps : Crash(a)
  PROVE  TypeOK'
<1> USE DEF repo, locals
<1>1. ASSUME NEW r \in Rems, NEW o \in Remediation, cr' = [cr EXCEPT ![r] = o],
             ApiStep, NoFault \/ Intrusion
      PROVE  TypeOK'
  <2>1. cr' \in [Rems -> Remediation] /\ faults' \in Nat /\ intrusions' \in Nat
    BY <1>1, TroublesTyped DEF TypeOK
  <2> QED
    BY <1>1, <2>1 DEF ApiStep, Theirs, TypeOK
<1>2. ASSUME NEW r \in Rems PROVE cr[r] \in Remediation
  BY DEF TypeOK
<1>3. ASSUME NEW r \in Rems,
             NEW o \in {NewStatus(cr[r]), AnalyzingStatus(cr[r]), WaitingStatus(cr[r]),
                        ApplyingStatus(cr[r]), SucceededStatus(cr[r]), FailedStatus(cr[r]),
                        ExpiredStatus(cr[r])},
             ControllerWrites(r, o)
      PROVE  TypeOK'
  <2>1. o \in Remediation
    BY <1>2, StatusesTyped
  <2> QED
    BY <1>1, <1>3, <2>1, BumpFields DEF ControllerWrites
<1>4. ASSUME NEW r \in Rems, NEW s \in Specs, CreateRemediation(r, s) \/ EditSpec(r, s)
      PROVE  TypeOK'
  <2>1. Created(s) \in Remediation /\ Respecified(cr[r], s) \in Remediation
    BY <1>2, CreatedFields, UserWriteFields
  <2> QED
    BY <1>1, <1>4, <2>1 DEF CreateRemediation, EditSpec
<1>5. ASSUME NEW r \in Rems, DeleteRemediation(r) PROVE TypeOK'
  BY <1>1, <1>2, <1>5, SpecsAssumption, UserWriteFields DEF DeleteRemediation
<1>6. ASSUME NEW a \in Apps, Crash(a) PROVE TypeOK'
  BY <1>6, RestartTyped, TroublesTyped DEF Crash
<1> QED
  BY <1>3, <1>4, <1>5, <1>6
     DEF RemediationStep, Accept, Analyze, LeaveAnalyzing, TargetMissing, EndDirect, Expire

\* Every step keeps the types.
LEMMA TypeStep == TypeOK /\ [Next]_vars => TypeOK'
<1> SUFFICES ASSUME TypeOK, [Next]_vars PROVE TypeOK'
  OBVIOUS
<1>1. CASE UNCHANGED vars
  BY <1>1 DEF vars, repo, api, locals, TypeOK
<1>2. ASSUME NEW a \in Apps, Work(a) PROVE TypeOK'
  BY <1>2, TypeTick, TypeWriteStatus, TypeCreatePR DEF Work
<1> QED
  BY <1>1, <1>2, TypeOthers, TypePeople DEF Next

\* Every reachable state is well typed: whatever instances, people and the
\* controller do in between, the patched manifest, the reference and the blob
\* an instance holds are those of some commit.
THEOREM TypeCorrect == Spec => []TypeOK
<1>1. Init => TypeOK
  BY TypeInit
<1>2. TypeOK /\ [Next]_vars => TypeOK'
  BY TypeStep
<1> QED
  BY <1>1, <1>2, PTL DEF Spec

-----------------------------------------------------------------------------
(* What a step can do to the repository, and to an instance. *)

\* A call that a branch be moved to the commit an instance read.
Moves(a) ==
    LET b == BranchOf[doing[a]] IN
    /\ pc[a] \in {"createRef", "updateRef"} /\ doing[a] \in Rems
    /\ branch[b].history \subseteq ref[a].history
    /\ branch' = [branch EXCEPT ![b] = ref[a]]
    /\ UNCHANGED <<base, pulls, commits>>

\* A call that commits the patched manifest.
CommitsTo(a) ==
    LET b == BranchOf[doing[a]] IN
    /\ pc[a] \in {"putFile", "putAgain"} /\ doing[a] \in Rems
    /\ Exists(branch[b])
    /\ branch' = [branch EXCEPT ![b] = NewCommit(branch[b], FileOf[doing[a]], file[a])]
    /\ commits' = commits + 1
    /\ UNCHANGED <<base, pulls>>

\* A call that opens a pull request.
Opens(a) ==
    LET b == BranchOf[doing[a]] IN
    /\ pc[a] = "createPull" /\ doing[a] \in Rems /\ Pullable(b)
    /\ pulls' = Append(pulls, [head |-> b, rem |-> doing[a], state |-> "open"])
    /\ UNCHANGED <<base, branch, commits>>

\* What a step may do to the repository: an instance moves its branch, commits
\* to it or opens a pull request, or people act.
LEMMA RepoStep ==
  ASSUME TypeOK, [Next]_vars
  PROVE  \/ UNCHANGED repo
         \/ \E a \in Apps : Moves(a) \/ CommitsTo(a) \/ Opens(a)
         \/ PeopleStep
<1> USE DEF repo, NothingDone
<1>1. ASSUME NEW a \in Apps, Work(a)
      PROVE  \/ UNCHANGED repo
             \/ Moves(a) \/ CommitsTo(a) \/ Opens(a)
  <2>1. pc[a] # "idle" => doing[a] \in Rems
    BY DEF TypeOK
  <2>2. CASE List(a) \/ (\E r \in Rems : Fetch(a, r)) \/ GetBase(a) \/ GetFile(a) \/ WriteStatus(a)
    BY <2>2 DEF List, Fetch, GetBase, Call, GetFile, Restart, WriteStatus
  <2>3. CASE CreateRef(a) \/ UpdateRef(a)
    BY <2>1, <2>3 DEF CreateRef, UpdateRef, Call, SetBranch, Moves, Branch, Exists
  <2>4. CASE PutFile(a) \/ PutAgain(a)
    BY <2>1, <2>4 DEF PutFile, PutAgain, Call, CommitFile, CountCommit, SetBranch, CommitsTo,
                      Replaces, Branch, File
  <2>5. CASE CreatePull(a)
    BY <2>1, <2>5 DEF CreatePull, Call, Opens
  <2> QED
    BY <1>1, <2>2, <2>3, <2>4, <2>5 DEF Work
<1>2. CASE \E a \in Apps : Crash(a)
  BY <1>2 DEF Crash, Restart
<1>3. CASE \E r \in Rems : RemediationStep(r)
  BY <1>3 DEF RemediationStep, Accept, Analyze, LeaveAnalyzing, TargetMissing, EndDirect, Expire,
              ControllerWrites, CreateRemediation, EditSpec, DeleteRemediation, ApiStep
<1>4. CASE UNCHANGED vars
  BY <1>4 DEF vars
<1> QED
  BY <1>1, <1>2, <1>3, <1>4 DEF Next

Same(a) == /\ pc'[a] = pc[a] /\ doing'[a] = doing[a] /\ file'[a] = file[a]
           /\ ref'[a] = ref[a] /\ pull'[a] = pull[a]

Released(a) == pc'[a] = "idle" /\ file'[a] = {} /\ ref'[a] = NoCommit

Fetches(a, r) ==
    /\ pc[a] = "idle" /\ doing'[a] = r /\ ref'[a] = ref[a]
    /\ \/ pc'[a] = "getBase" /\ file'[a] = Patched(base.files[FileOf[r]], r)
       \/ pc'[a] = "failed" /\ file'[a] = file[a]

Reads(a) ==
    /\ pc[a] = "getBase" /\ pc'[a] \in {"createRef", "failed"}
    /\ doing'[a] = doing[a] /\ file'[a] = file[a]
    /\ \/ ref'[a] = [base EXCEPT !.from = base.files]
       \/ ref'[a] = ref[a] /\ pc'[a] = "failed"

Proceeds(a) ==
    /\ pc[a] \notin {"idle", "getBase", "created", "failed"}
    /\ pc'[a] \notin {"idle", "getBase", "createRef"}
    /\ pc'[a] = "updateRef" => pc[a] = "createRef"
    /\ doing'[a] = doing[a] /\ file'[a] = file[a] /\ ref'[a] = ref[a]
    /\ pc'[a] = "created" => Opens(a) /\ pull'[a] = Len(pulls) + 1

\* What a step may do to the variables of one instance.
LEMMA LocalStep ==
  ASSUME TypeOK, [Next]_vars, NEW a \in Apps
  PROVE  \/ Same(a) \/ Released(a) \/ (\E r \in Rems : Fetches(a, r))
         \/ Reads(a) \/ Proceeds(a)
<1> USE DEF locals
<1>1. CASE UNCHANGED <<pc, doing, file, ref, pull>>
  BY <1>1 DEF Same
<1>2. ASSUME NEW b \in Apps, b # a, Work(b) \/ Crash(b) PROVE Same(a)
  <2>1. CASE List(b) \/ (\E r \in Rems : Fetch(b, r)) \/ WriteStatus(b) \/ Crash(b)
    BY <1>2, <2>1 DEF List, Fetch, WriteStatus, Release, Crash, Restart, Goto, Same, TypeOK
  <2>2. CASE GetBase(b) \/ CreateRef(b) \/ UpdateRef(b) \/ GetFile(b)
    BY <1>2, <2>2 DEF GetBase, CreateRef, UpdateRef, GetFile, Call, NothingDone, SetBranch,
                      Restart, Goto, Same, TypeOK
  <2>3. CASE PutFile(b) \/ PutAgain(b) \/ CreatePull(b)
    BY <1>2, <2>3 DEF PutFile, PutAgain, CreatePull, Call, NothingDone, CommitFile, SetBranch,
                      Goto, Same, TypeOK
  <2> QED
    BY <1>2, <2>1, <2>2, <2>3 DEF Work
<1>3. ASSUME Work(a) \/ Crash(a)
      PROVE  \/ Same(a) \/ Released(a) \/ (\E r \in Rems : Fetches(a, r))
             \/ Reads(a) \/ Proceeds(a)
  <2>1. CASE List(a)
    BY <1>1, <2>1 DEF List
  <2>2. CASE \E r \in Rems : Fetch(a, r)
    BY <2>2 DEF Fetch, Goto, Fetches, TypeOK
  <2>3. CASE WriteStatus(a) \/ Crash(a) \/ Restart(a)
    BY <2>3 DEF WriteStatus, Release, Crash, Restart, Goto, Released, TypeOK
  <2>4. CASE GetBase(a)
    BY <2>4 DEF GetBase, Call, NothingDone, Goto, Reads, TypeOK
  <2>5. CASE CreateRef(a) \/ UpdateRef(a)
    BY <2>5 DEF CreateRef, UpdateRef, Call, NothingDone, SetBranch, Goto, Proceeds, TypeOK
  <2>6. CASE GetFile(a) /\ ~Restart(a)
    BY <2>6 DEF GetFile, NothingDone, Goto, Proceeds, TypeOK
  <2>7. CASE PutFile(a) \/ PutAgain(a)
    BY <2>7 DEF PutFile, PutAgain, Call, NothingDone, CommitFile, SetBranch, Goto, Proceeds, TypeOK
  <2>8. CASE CreatePull(a)
    <3>1. doing[a] \in Rems /\ pc[a] = "createPull"
      BY <2>8 DEF CreatePull, Call, TypeOK
    <3>2. UNCHANGED <<doing, file, ref>> /\ pc'[a] \in {"created", "failed"}
      BY <2>8 DEF CreatePull, Call, NothingDone, Goto, TypeOK
    <3>3. pc'[a] = "created" => Opens(a) /\ pull'[a] = Len(pulls) + 1
      BY <2>8, <3>1 DEF CreatePull, Call, Goto, Opens, TypeOK
    <3> QED
      BY <3>1, <3>2, <3>3 DEF Proceeds
  <2> QED
    BY <1>3, <2>1, <2>2, <2>3, <2>4, <2>5, <2>6, <2>7, <2>8 DEF Work
<1>4. CASE \E r \in Rems : RemediationStep(r)
  BY <1>1, <1>4 DEF RemediationStep, Accept, Analyze, LeaveAnalyzing, TargetMissing, EndDirect,
       Expire, ControllerWrites, CreateRemediation, EditSpec, DeleteRemediation, ApiStep, Theirs
<1>5. CASE PeopleStep
  BY <1>1, <1>5 DEF PeopleStep, Merge, ClosePull, PushToBranch, DeleteBranch, EditBase, Theirs
<1>6. CASE UNCHANGED vars
  BY <1>1, <1>6 DEF vars
<1> QED
  BY <1>2, <1>3, <1>4, <1>5, <1>6 DEF Next

\* Pull requests are never removed, and what they are for never changes.
LEMMA PullsStay ==
  ASSUME TypeOK, [Next]_vars
  PROVE  \A n \in DOMAIN pulls : /\ n \in DOMAIN pulls'
                                 /\ pulls'[n].head = pulls[n].head
                                 /\ pulls'[n].rem = pulls[n].rem
                                 /\ pulls[n].state = "merged" => pulls'[n].state = "merged"
<1>0. pulls \in Seq(PullRequest)
  BY DEF TypeOK
<1>1. CASE UNCHANGED pulls
  BY <1>1
<1>2. ASSUME NEW a \in Apps, Opens(a)
      PROVE  \A n \in DOMAIN pulls : n \in DOMAIN pulls' /\ pulls'[n] = pulls[n]
  <2> DEFINE p == [head |-> BranchOf[doing[a]], rem |-> doing[a], state |-> "open"]
  <2>1. p \in PullRequest /\ pulls' = Append(pulls, p)
    BY <1>2, NamesAssumption DEF Opens, PullRequest
  <2> HIDE DEF p
  <2> QED
    BY <1>0, <2>1, AppendedPull
<1>3. ASSUME NEW n \in DOMAIN pulls, Merge(n) \/ ClosePull(n)
      PROVE  \A k \in DOMAIN pulls : /\ k \in DOMAIN pulls'
                                     /\ pulls'[k].head = pulls[k].head
                                     /\ pulls'[k].rem = pulls[k].rem
                                     /\ pulls[k].state = "merged" => pulls'[k].state = "merged"
  <2>1. PICK state \in {"merged", "closed"} : SetPull(n, state) /\ pulls[n].state = "open"
    BY <1>3 DEF Merge, ClosePull
  <2> QED
    BY <1>0, <2>1, SetPullFields
<1>4. CASE PeopleStep
  BY <1>1, <1>3, <1>4 DEF PeopleStep, PushToBranch, DeleteBranch, EditBase
<1> QED
  BY <1>1, <1>2, <1>4, RepoStep DEF repo, Moves, CommitsTo

\* A pull request once merged stays merged.
LEMMA MergedStays ==
  ASSUME TypeOK, [Next]_vars, NEW b, MergedFrom(b)
  PROVE  MergedFrom(b)'
BY PullsStay DEF MergedFrom

-----------------------------------------------------------------------------
(* PRCreated has its pull request. *)

\* Whoever writes PRCreated writes the number it was given; the other writers
\* leave the number alone.
LEMMA StatusStep ==
  ASSUME TypeOK, [Next]_vars, NEW r \in Rems
  PROVE  \/ /\ prNumber'[r] = prNumber[r]
            /\ cr'[r].phase \in {"PRCreated", "Expired"} => cr[r].phase \in {"PRCreated", "Expired"}
         \/ \E a \in Apps : pc[a] = "created" /\ doing[a] = r /\ prNumber'[r] = pull[a]
<1> USE DEF api
<1>1. CASE UNCHANGED api
  BY <1>1
<1>2. ASSUME NEW q \in Rems, NEW o, cr' = [cr EXCEPT ![q] = o], UNCHANGED prNumber,
             o.phase \in {"PRCreated", "Expired"} => cr[q].phase \in {"PRCreated", "Expired"}
      PROVE  /\ prNumber'[r] = prNumber[r]
             /\ cr'[r].phase \in {"PRCreated", "Expired"} => cr[r].phase \in {"PRCreated", "Expired"}
  BY <1>2 DEF TypeOK
<1>3. ASSUME NEW q \in Rems, RemediationStep(q)
      PROVE  /\ prNumber'[r] = prNumber[r]
             /\ cr'[r].phase \in {"PRCreated", "Expired"} => cr[r].phase \in {"PRCreated", "Expired"}
  <2>1. cr[q] \in Remediation
    BY DEF TypeOK
  <2>2. CASE \E o : ControllerWrites(q, o)
    <3>1. PICK o : /\ cr' = [cr EXCEPT ![q] = Bump(o)] /\ Computed(cr[q], o)
                   /\ UNCHANGED prNumber
      BY <2>2 DEF ControllerWrites, ApiStep
    <3>2. Bump(o).phase = o.phase
      <4>1. o \in Remediation
        BY <2>1, <3>1, StatusesTyped DEF Computed
      <4> QED
        BY <4>1, BumpFields
    <3>3. o.phase \in {"PRCreated", "Expired"} => cr[q].phase = "PRCreated"
      BY <2>1, <3>1, ComputedPhases
    <3> QED
      BY <1>2, <3>1, <3>2, <3>3
  <2>3. ASSUME NEW s \in Specs, CreateRemediation(q, s) \/ EditSpec(q, s) \/ DeleteRemediation(q)
        PROVE  \E o \in {Created(s), Respecified(cr[q], s), Deleted(cr[q])} :
                   cr' = [cr EXCEPT ![q] = o] /\ UNCHANGED prNumber
    BY <2>3 DEF CreateRemediation, EditSpec, DeleteRemediation, ApiStep
  <2>4. ASSUME NEW s \in Specs, NEW o \in {Created(s), Respecified(cr[q], s), Deleted(cr[q])}
        PROVE  o.phase \in {"New", cr[q].phase}
    <3>1. Created(s).phase = "New"
      BY CreatedFields
    <3>2. Respecified(cr[q], s).phase = cr[q].phase /\ Deleted(cr[q]).phase = cr[q].phase
      BY <2>1, UserWriteFields
    <3> QED
      BY <2>4, <3>1, <3>2
  <2>5. CASE \E s \in Specs : CreateRemediation(q, s) \/ EditSpec(q, s) \/ DeleteRemediation(q)
    BY <1>2, <2>3, <2>4, <2>5
  <2> QED
    BY <1>3, <2>2, <2>5, SpecsAssumption
       DEF RemediationStep, Accept, Analyze, LeaveAnalyzing, TargetMissing, EndDirect, Expire
<1>4. ASSUME NEW a \in Apps, WriteStatus(a), ~UNCHANGED api
      PROVE  \/ /\ prNumber'[r] = prNumber[r]
                /\ cr'[r].phase \in {"PRCreated", "Expired"} =>
                       cr[r].phase \in {"PRCreated", "Expired"}
             \/ pc[a] = "created" /\ doing[a] = r /\ prNumber'[r] = pull[a]
  <2> DEFINE q == doing[a]
  <2>1. q \in Rems /\ SetStatus(a, q)
    BY <1>4 DEF WriteStatus, TypeOK
  <2>2. CASE pc[a] = "created"
    BY <2>1, <2>2 DEF SetStatus, TypeOK
  <2>3. CASE pc[a] = "failed"
    <3>1. cr' = [cr EXCEPT ![q] = Bump(FailedStatus(listed[a][q]))] /\ UNCHANGED prNumber
      BY <2>1, <2>3 DEF SetStatus
    <3>2. Bump(FailedStatus(listed[a][q])).phase = "Failed"
      <4>1. listed[a][q] \in Remediation
        BY <2>1 DEF TypeOK
      <4>2. FailedStatus(listed[a][q]) \in Remediation
        BY <4>1, StatusesTyped
      <4> QED
        BY <4>1, <4>2, StatusFields, BumpFields
    <3> QED
      BY <1>2, <2>1, <3>1, <3>2
  <2> QED
    BY <2>1, <2>2, <2>3 DEF SetStatus
<1>5. ASSUME NEW a \in Apps, Work(a), ~WriteStatus(a) PROVE UNCHANGED api
  BY <1>5 DEF Work, List, Fetch, GetBase, CreateRef, UpdateRef, GetFile, PutFile, PutAgain,
              CreatePull, Call, NothingDone, SetBranch, CommitFile, Restart
<1>6. CASE PeopleStep \/ (\E a \in Apps : Crash(a)) \/ UNCHANGED vars
  BY <1>1, <1>6 DEF PeopleStep, Merge, ClosePull, PushToBranch, DeleteBranch, EditBase,
                    Crash, Restart, vars
<1> QED
  BY <1>1, <1>3, <1>4, <1>5, <1>6 DEF Next

\* Every step keeps what instances know of the pull requests they opened.
LEMMA PullStep ==
  ASSUME TypeOK, PullInv, [Next]_vars
  PROVE  PullInv'
<1> USE DEF PullInv, PRCreatedHasPull
<1>1. ASSUME NEW r \in Rems, cr'[r].phase \in {"PRCreated", "Expired"}
      PROVE  prNumber'[r] \in DOMAIN pulls' /\ pulls'[prNumber'[r]].rem = r
  BY <1>1, StatusStep, PullsStay
<1>2. ASSUME NEW a \in Apps, pc'[a] = "created"
      PROVE  pull'[a] \in DOMAIN pulls' /\ pulls'[pull'[a]].rem = doing'[a]
  <2>1. CASE Same(a)
    BY <1>2, <2>1, PullsStay DEF Same
  <2>2. CASE Proceeds(a)
    <3> DEFINE p == [head |-> BranchOf[doing[a]], rem |-> doing[a], state |-> "open"]
    <3>1. /\ p \in PullRequest /\ pulls' = Append(pulls, p) /\ pulls \in Seq(PullRequest)
          /\ pull'[a] = Len(pulls) + 1 /\ doing'[a] = doing[a] /\ p.rem = doing[a]
      BY <1>2, <2>2, NamesAssumption DEF Proceeds, Opens, PullRequest, TypeOK
    <3> HIDE DEF p
    <3> QED
      BY <3>1, AppendedPull
  <2> QED
    BY <1>2, <2>1, <2>2, LocalStep DEF Released, Fetches, Reads
<1> QED
  BY <1>1, <1>2

\* What instances know of the pull requests they opened is true at any time.
LEMMA PullInvHolds == Spec => []PullInv
<1>1. Init => PullInv
  <2>1. NoRemediation.phase = "New"
    BY DEF NoRemediation
  <2> QED
    BY <2>1 DEF Init, PullInv, PRCreatedHasPull, NoCopies
<1>2. TypeOK /\ PullInv /\ [Next]_vars => PullInv'
  BY PullStep
<1> QED
  BY <1>1, <1>2, TypeCorrect, PTL DEF Spec

\* A status says PRCreated only with the number of a pull request that was
\* opened for that remediation, whatever instances, retries and lost replies.
THEOREM PRCreatedIsReal == Spec => []PRCreatedHasPull
<1>1. PullInv => PRCreatedHasPull
  BY DEF PullInv
<1> QED
  BY <1>1, PullInvHolds, PTL

-----------------------------------------------------------------------------
(* What a step does to the branches. *)

\* A merge, as a change of the base branch and of the branch merged.
LEMMA MergeStep ==
  ASSUME TypeOK, NEW n \in DOMAIN pulls, Merge(n)
  PROVE  LET b == pulls[n].head
             head == branch[b]
         IN /\ b \in Branches /\ head \in Commit /\ pulls[n].state = "open"
            /\ commits' = commits + 1 /\ SetPull(n, "merged")
            /\ base'.history \in {base.history \cup {commits},
                                  base.history \cup head.history \cup {commits}}
            /\ \A f \in Files : base'.files[f] \in {head.files[f], base.files[f]}
            /\ \A c \in Branches : /\ branch'[c].history = branch[c].history
                                   /\ branch'[c].files = branch[c].files
<1> DEFINE b == pulls[n].head
           head == branch[b]
           Touched == {f \in Files : head.files[f] # head.from[f]}
           Merged == [f \in Files |-> IF f \in Touched THEN head.files[f] ELSE base.files[f]]
<1>1. b \in Branches /\ branch \in [Branches -> Commit] /\ base \in Commit
  <2>1. pulls[n] \in PullRequest
    BY LenProperties, ElementOfSeq DEF TypeOK
  <2> QED
    BY <2>1 DEF PullRequest, TypeOK
<1>2. /\ pulls[n].state = "open" /\ SetPull(n, "merged") /\ commits' = commits + 1
      /\ \/ base' = [base EXCEPT !.history = @ \cup head.history \cup {commits}, !.files = Merged]
         \/ base' = [base EXCEPT !.history = @ \cup {commits}, !.files = Merged]
      /\ branch' = [branch EXCEPT ![b].from = head.files] \/ branch' = branch
  BY DEF Merge, PeopleCommit, CountCommit
<1>3. \A f \in Files : Merged[f] \in {head.files[f], base.files[f]}
  OBVIOUS
<1> HIDE DEF Merged
<1>4. base'.files = Merged
  BY <1>1, <1>2 DEF Commit
<1>5. base'.history \in {base.history \cup {commits}, base.history \cup head.history \cup {commits}}
  BY <1>1, <1>2 DEF Commit
<1>6. ASSUME NEW c \in Branches
      PROVE  branch'[c].history = branch[c].history /\ branch'[c].files = branch[c].files
  BY <1>1, <1>2 DEF Commit
<1> QED
  BY <1>1, <1>2, <1>3, <1>4, <1>5, <1>6

\* What people other than the one who merges do to the repository.
LEMMA PeopleMove ==
  ASSUME TypeOK, PeopleStep
  PROVE  \/ \E n \in DOMAIN pulls : Merge(n)
         \/ /\ \E n \in DOMAIN pulls : SetPull(n, "closed")
            /\ UNCHANGED <<base, branch, commits>>
         \/ \E b \in Branches : branch' = [branch EXCEPT ![b] = NoCommit]
                                /\ (\A n \in DOMAIN pulls : pulls[n].head = b => pulls[n].state # "open")
                                /\ UNCHANGED <<base, pulls, commits>>
         \/ \E f \in Files, e \in Edits : /\ base' = Edited(base, f, e)
                                          /\ commits' = commits + 1
                                          /\ UNCHANGED <<branch, pulls>>
         \/ \E n \in DOMAIN pulls, e \in Edits :
               /\ pulls[n].state = "open"
               /\ branch' = [branch EXCEPT ![pulls[n].head] = Edited(@, FileOf[pulls[n].rem], e)]
               /\ commits' = commits + 1
               /\ UNCHANGED <<base, pulls>>
BY DEF PeopleStep, ClosePull, DeleteBranch, EditBase, PushToBranch, PeopleCommit, CountCommit

\* A commit of the patched manifest, as a change of the branches.
LEMMA CommitStep ==
  ASSUME TypeOK, NEW a \in Apps, CommitsTo(a)
  PROVE  LET b == BranchOf[doing[a]]
             f == FileOf[doing[a]]
         IN /\ b \in Branches /\ f \in Files /\ branch[b] \in Commit
            /\ branch'[b].history = branch[b].history \cup {commits}
            /\ branch'[b].files = [branch[b].files EXCEPT ![f] = file[a]]
            /\ \A c \in Branches : c # b => branch'[c] = branch[c]
<1> DEFINE b == BranchOf[doing[a]]
           c == NewCommit(branch[b], FileOf[doing[a]], file[a])
<1>1. /\ b \in Branches /\ FileOf[doing[a]] \in Files /\ file[a] \in Manifest
      /\ branch \in [Branches -> Commit] /\ commits \in Nat
      /\ branch' = [branch EXCEPT ![b] = c]
  BY NamesAssumption DEF CommitsTo, TypeOK
<1>2. /\ c.history = branch[b].history \cup {commits}
      /\ c.files = [branch[b].files EXCEPT ![FileOf[doing[a]]] = file[a]]
  BY <1>1, NewCommitFields
<1> HIDE DEF c
<1> QED
  BY <1>1, <1>2

\* Somebody's change of a manifest, as a change of the base branch.
LEMMA EditStep ==
  ASSUME TypeOK, NEW f \in Files, NEW e \in Edits, base' = Edited(base, f, e)
  PROVE  /\ base'.history = base.history \cup {commits}
         /\ base'.files = [base.files EXCEPT ![f] = base.files[f] \cup {<<e, 1>>}]
<1>1. commits \in Nat /\ base \in Commit
  BY DEF TypeOK
<1>2. /\ Edited(base, f, e).history = base.history \cup {commits}
      /\ Edited(base, f, e).files = [base.files EXCEPT ![f] = base.files[f] \cup {<<e, 1>>}]
  BY <1>1, EditedFields
<1> QED
  BY <1>2

\* A reviewer's push, as a change of the branches.
LEMMA PushStep ==
  ASSUME TypeOK, NEW n \in DOMAIN pulls, NEW e \in Edits,
         branch' = [branch EXCEPT ![pulls[n].head] = Edited(@, FileOf[pulls[n].rem], e)]
  PROVE  LET b == pulls[n].head
             f == FileOf[pulls[n].rem]
         IN /\ b \in Branches /\ f \in Files /\ branch[b] \in Commit
            /\ branch'[b].history = branch[b].history \cup {commits}
            /\ branch'[b].files = [branch[b].files EXCEPT ![f] = branch[b].files[f] \cup {<<e, 1>>}]
            /\ \A c \in Branches : c # b => branch'[c] = branch[c]
<1> DEFINE b == pulls[n].head
           f == FileOf[pulls[n].rem]
           c == Edited(branch[b], f, e)
<1>1. pulls[n] \in PullRequest
  BY LenProperties, ElementOfSeq DEF TypeOK
<1>2. /\ b \in Branches /\ f \in Files
      /\ branch \in [Branches -> Commit] /\ commits \in Nat
      /\ branch' = [branch EXCEPT ![b] = c]
  BY <1>1, NamesAssumption DEF PullRequest, TypeOK
<1>3. /\ c.history = branch[b].history \cup {commits}
      /\ c.files = [branch[b].files EXCEPT ![f] = branch[b].files[f] \cup {<<e, 1>>}]
  BY <1>2, EditedFields
<1> HIDE DEF c
<1> QED
  BY <1>2, <1>3

\* A step moves a branch forward, or deletes it.
LEMMA BranchStep ==
  ASSUME TypeOK, [Next]_vars, NEW b \in Branches, branch'[b].history # {}
  PROVE  branch[b].history \subseteq branch'[b].history
<1>0. commits \in Nat /\ branch \in [Branches -> Commit] /\ pulls \in Seq(PullRequest)
  BY DEF TypeOK
<1>1. ASSUME NEW a \in Apps, Moves(a) PROVE branch[b].history \subseteq branch'[b].history
  BY <1>0, <1>1, NamesAssumption DEF Moves
<1>2. ASSUME NEW a \in Apps, CommitsTo(a) PROVE branch[b].history \subseteq branch'[b].history
  BY <1>0, <1>2, CommitStep
<1>3. ASSUME NEW a \in Apps, Opens(a) PROVE branch[b].history \subseteq branch'[b].history
  BY <1>3 DEF Opens
<1>4. CASE UNCHANGED branch
  BY <1>4
<1>5. ASSUME NEW n \in DOMAIN pulls, Merge(n) PROVE branch[b].history \subseteq branch'[b].history
  BY <1>5, MergeStep
<1>6. ASSUME NEW n \in DOMAIN pulls, NEW e \in Edits,
             branch' = [branch EXCEPT ![pulls[n].head] = Edited(@, FileOf[pulls[n].rem], e)]
      PROVE  branch[b].history \subseteq branch'[b].history
  BY <1>0, <1>6, PushStep
<1>7. ASSUME NEW c \in Branches, branch' = [branch EXCEPT ![c] = NoCommit]
      PROVE  branch[b].history \subseteq branch'[b].history
  BY <1>0, <1>7, CommitsTyped
<1>8. CASE PeopleStep
  BY <1>4, <1>5, <1>6, <1>7, <1>8, PeopleMove
<1> QED
  BY <1>1, <1>2, <1>3, <1>4, <1>8, RepoStep DEF repo

\* No commit is ever taken off a head branch.
THEOREM BranchesMoveForward == Spec => CommitsStayOnBranch
<1>1. TypeOK /\ [Next]_vars =>
        [\A b \in Branches :
            Exists(branch'[b]) => branch[b].history \subseteq branch'[b].history]_vars
  BY BranchStep DEF Exists
<1> QED
  BY <1>1, TypeCorrect, PTL DEF Spec, CommitsStayOnBranch

-----------------------------------------------------------------------------
(* Histories. *)

\* A step changes the repository in one of these ways; in each of them the
\* base branch keeps its history, and a branch is moved, grows or is deleted.
LEMMA BaseStep ==
  ASSUME TypeOK, [Next]_vars
  PROVE  /\ base.history \subseteq base'.history
         /\ commits' \in {commits, commits + 1}
<1>0. commits \in Nat /\ base \in Commit
  BY DEF TypeOK
<1>1. ASSUME NEW n \in DOMAIN pulls, Merge(n)
      PROVE  base.history \subseteq base'.history /\ commits' = commits + 1
  BY <1>1, MergeStep
<1>2. ASSUME NEW f \in Files, NEW e \in Edits, base' = Edited(base, f, e)
      PROVE  base.history \subseteq base'.history
  BY <1>2, EditStep
<1>3. CASE PeopleStep
  BY <1>1, <1>2, <1>3, PeopleMove
<1> QED
  BY <1>3, RepoStep DEF repo, Moves, CommitsTo, Opens

\* Every step keeps what instances hold in between calls.
LEMMA LocalInvStep ==
  ASSUME TypeOK, LocalInv, HistoryInv, [Next]_vars
  PROVE  LocalInv'
<1> SUFFICES ASSUME NEW a \in Apps
             PROVE  /\ pc'[a] = "idle" => file'[a] = {}
                    /\ pc'[a] \notin {"idle", "created", "failed"} => Carries(file'[a], doing'[a])
                    /\ pc'[a] \in {"createRef", "updateRef"} => 0 \in ref'[a].history
                    /\ ref'[a].history \subseteq base'.history
  BY DEF LocalInv
<1>1. base.history \subseteq base'.history
  BY BaseStep
<1>2. CASE Same(a)
  BY <1>1, <1>2 DEF Same, LocalInv
<1>3. CASE Released(a)
  BY <1>3, CommitsTyped DEF Released
<1>4. ASSUME NEW r \in Rems, Fetches(a, r)
      PROVE  /\ pc'[a] \notin {"idle", "created", "failed"} => Carries(file'[a], doing'[a])
             /\ pc'[a] \in {"getBase", "failed"} /\ ref'[a] = ref[a]
  <2>1. base.files[FileOf[r]] \in Manifest
    BY NamesAssumption DEF TypeOK, Commit
  <2> QED
    BY <1>4, <2>1, PatchedManifest DEF Fetches, Carries
<1>5. CASE Reads(a)
  <2>1. [base EXCEPT !.from = base.files].history = base.history
    BY DEF TypeOK, Commit
  <2> QED
    BY <1>1, <1>5, <2>1 DEF Reads, LocalInv, HistoryInv
<1>6. CASE Proceeds(a)
  BY <1>1, <1>6 DEF Proceeds, LocalInv
<1> QED
  BY <1>1, <1>2, <1>3, <1>4, <1>5, <1>6, LocalStep DEF LocalInv

\* Every step keeps branches apart, except for commits of the base branch.
LEMMA HistoryStep ==
  ASSUME TypeOK, LocalInv, HistoryInv, OpenInv, [Next]_vars
  PROVE  HistoryInv'
<1>0. commits \in Nat /\ base \in Commit /\ branch \in [Branches -> Commit]
  BY DEF TypeOK
<1>1. /\ 0 \in base.history /\ base.history \subseteq 0 .. commits - 1
      /\ \A b \in Branches :
             /\ branch[b].history \subseteq 0 .. commits - 1
             /\ branch[b].history # {} => 0 \in branch[b].history
             /\ \A c \in Branches \ {b} :
                    branch[b].history \cap branch[c].history \subseteq base.history
  BY DEF HistoryInv, Exists
<1> DEFINE Goal == /\ 0 \in base'.history /\ base'.history \subseteq 0 .. commits' - 1
                   /\ \A b \in Branches :
                         /\ branch'[b].history \subseteq 0 .. commits' - 1
                         /\ branch'[b].history # {} => 0 \in branch'[b].history
                         /\ \A c \in Branches \ {b} :
                                branch'[b].history \cap branch'[c].history \subseteq base'.history
<1> SUFFICES Goal
  BY DEF HistoryInv, Exists
<1>2. CASE UNCHANGED <<base, branch, commits>>
  BY <1>1, <1>2
<1>3. ASSUME NEW a \in Apps, Moves(a) PROVE Goal
  <2>1. /\ 0 \in ref[a].history /\ ref[a].history \subseteq base.history
        /\ BranchOf[doing[a]] \in Branches
    BY <1>3, NamesAssumption DEF Moves, LocalInv
  <2>2. \A b \in Branches : branch'[b] = IF b = BranchOf[doing[a]] THEN ref[a] ELSE branch[b]
    BY <1>0, <1>3, <2>1 DEF Moves
  <2>3. UNCHANGED <<base, commits>>
    BY <1>3 DEF Moves
  <2> QED
    BY <1>1, <2>1, <2>2, <2>3
<1>4. ASSUME NEW x \in Branches, branch[x].history # {}, commits' = commits + 1, base' = base,
             branch'[x].history = branch[x].history \cup {commits},
             \A c \in Branches : c # x => branch'[c] = branch[c]
      PROVE  Goal
  BY <1>0, <1>1, <1>4
<1>5. ASSUME NEW a \in Apps, CommitsTo(a) PROVE Goal
  BY <1>4, <1>5, CommitStep DEF CommitsTo, Exists
<1>6. ASSUME NEW n \in DOMAIN pulls, Merge(n) PROVE Goal
  <2>1. \A c \in Branches : branch'[c].history = branch[c].history
    BY <1>6, MergeStep
  <2>2. /\ base.history \subseteq base'.history /\ commits' = commits + 1
        /\ base'.history \subseteq 0 .. commits
    <3>1. /\ pulls[n].head \in Branches /\ commits' = commits + 1
          /\ base'.history \in {base.history \cup {commits},
                                base.history \cup branch[pulls[n].head].history \cup {commits}}
      BY <1>6, MergeStep
    <3> QED
      BY <1>0, <1>1, <3>1
  <2> QED
    BY <1>0, <1>1, <2>1, <2>2
<1>7. ASSUME NEW x \in Branches, branch' = [branch EXCEPT ![x] = NoCommit],
             UNCHANGED <<base, commits>>
      PROVE  Goal
  BY <1>0, <1>1, <1>7, CommitsTyped
<1>8. ASSUME NEW f \in Files, NEW e \in Edits, base' = Edited(base, f, e),
             commits' = commits + 1, UNCHANGED branch
      PROVE  Goal
  <2>1. base'.history = base.history \cup {commits}
    BY <1>8, EditStep
  <2> QED
    BY <1>0, <1>1, <1>8, <2>1
<1>9. ASSUME NEW n \in DOMAIN pulls, NEW e \in Edits, pulls[n].state = "open",
             branch' = [branch EXCEPT ![pulls[n].head] = Edited(@, FileOf[pulls[n].rem], e)],
             commits' = commits + 1, base' = base
      PROVE  Goal
  <2>1. branch[pulls[n].head].history # {}
    BY <1>9 DEF OpenInv, Ahead
  <2> QED
    BY <1>4, <1>9, <2>1, PushStep
<1> HIDE DEF Goal
<1>10. CASE PeopleStep
  BY <1>2, <1>6, <1>7, <1>8, <1>9, <1>10, PeopleMove
<1> QED
  BY <1>2, <1>3, <1>5, <1>10, RepoStep DEF repo, Opens

-----------------------------------------------------------------------------
(* Open pull requests. *)

\* The pull requests after a step: a new one, one merged or closed, or none.
LEMMA PullsStep ==
  ASSUME TypeOK, [Next]_vars
  PROVE  \/ UNCHANGED pulls
         \/ \E a \in Apps : /\ Opens(a)
                            /\ DOMAIN pulls' = DOMAIN pulls \cup {Len(pulls) + 1}
                            /\ Len(pulls) + 1 \notin DOMAIN pulls
                            /\ pulls'[Len(pulls) + 1].head = BranchOf[doing[a]]
                            /\ pulls'[Len(pulls) + 1].rem = doing[a]
                            /\ \A k \in DOMAIN pulls : pulls'[k] = pulls[k]
         \/ \E n \in DOMAIN pulls : /\ DOMAIN pulls' = DOMAIN pulls
                                    /\ pulls'[n].state # "open"
                                    /\ \A k \in DOMAIN pulls : k # n => pulls'[k] = pulls[k]
                                    /\ \A k \in DOMAIN pulls : pulls'[k].head = pulls[k].head
                                                               /\ pulls'[k].rem = pulls[k].rem
                                    /\ Merge(n) \/ UNCHANGED <<base, branch, commits>>
<1>0. pulls \in Seq(PullRequest)
  BY DEF TypeOK
<1>1. ASSUME NEW a \in Apps, Opens(a)
      PROVE  /\ DOMAIN pulls' = DOMAIN pulls \cup {Len(pulls) + 1}
             /\ Len(pulls) + 1 \notin DOMAIN pulls
             /\ pulls'[Len(pulls) + 1].head = BranchOf[doing[a]]
             /\ pulls'[Len(pulls) + 1].rem = doing[a]
             /\ \A k \in DOMAIN pulls : pulls'[k] = pulls[k]
  <2> DEFINE p == [head |-> BranchOf[doing[a]], rem |-> doing[a], state |-> "open"]
  <2>1. /\ p \in PullRequest /\ pulls' = Append(pulls, p)
        /\ p.head = BranchOf[doing[a]] /\ p.rem = doing[a]
    BY <1>1, NamesAssumption DEF Opens, PullRequest
  <2> HIDE DEF p
  <2> QED
    BY <1>0, <2>1, AppendedPull
<1>2. ASSUME NEW n \in DOMAIN pulls, NEW s \in {"merged", "closed"}, SetPull(n, s)
      PROVE  /\ DOMAIN pulls' = DOMAIN pulls
             /\ pulls'[n].state # "open"
             /\ \A k \in DOMAIN pulls : k # n => pulls'[k] = pulls[k]
             /\ \A k \in DOMAIN pulls : pulls'[k].head = pulls[k].head
                                        /\ pulls'[k].rem = pulls[k].rem
  BY <1>0, <1>2, SetPullFields
<1>3. ASSUME NEW n \in DOMAIN pulls, Merge(n) PROVE SetPull(n, "merged")
  BY <1>3 DEF Merge
<1>4. CASE PeopleStep
  BY <1>2, <1>3, <1>4, PeopleMove
<1> QED
  BY <1>1, <1>4, RepoStep DEF repo, Moves, CommitsTo

\* What becomes of a branch that is ahead of the base branch after a step.
LEMMA AheadStep ==
  ASSUME TypeOK, LocalInv, HistoryInv, OpenInv, [Next]_vars,
         NEW b \in Branches, Ahead(branch[b])'
  PROVE  \/ /\ Ahead(branch[b]) /\ branch'[b].files = branch[b].files
         \/ \E a \in Apps : CommitsTo(a) /\ BranchOf[doing[a]] = b
         \/ \E n \in DOMAIN pulls, e \in Edits :
               /\ pulls[n].head = b /\ pulls[n].state = "open"
               /\ branch'[b].files = [branch[b].files EXCEPT ![FileOf[pulls[n].rem]] =
                                         branch[b].files[FileOf[pulls[n].rem]] \cup {<<e, 1>>}]
<1> USE DEF Ahead
<1>0. /\ base.history \subseteq base'.history
      /\ branch \in [Branches -> Commit] /\ pulls \in Seq(PullRequest)
  BY BaseStep DEF TypeOK
<1>1. CASE UNCHANGED branch
  BY <1>0, <1>1
<1>2. ASSUME NEW a \in Apps, Moves(a) PROVE branch'[b] = branch[b]
  BY <1>0, <1>2, NamesAssumption DEF Moves, LocalInv
<1>3. ASSUME NEW a \in Apps, CommitsTo(a), BranchOf[doing[a]] # b PROVE branch'[b] = branch[b]
  BY <1>3, CommitStep
<1>4. ASSUME NEW n \in DOMAIN pulls, Merge(n)
      PROVE  branch'[b].history = branch[b].history /\ branch'[b].files = branch[b].files
  BY <1>4, MergeStep
<1>5. ASSUME NEW x \in Branches, branch' = [branch EXCEPT ![x] = NoCommit]
      PROVE  branch'[b] = branch[b]
  BY <1>0, <1>5, CommitsTyped
<1>6. ASSUME NEW n \in DOMAIN pulls, NEW e \in Edits,
             branch' = [branch EXCEPT ![pulls[n].head] = Edited(@, FileOf[pulls[n].rem], e)]
      PROVE  IF pulls[n].head = b
             THEN branch'[b].files = [branch[b].files EXCEPT ![FileOf[pulls[n].rem]] =
                                         branch[b].files[FileOf[pulls[n].rem]] \cup {<<e, 1>>}]
             ELSE branch'[b] = branch[b]
  BY <1>6, PushStep
<1>7. CASE PeopleStep
  BY <1>0, <1>1, <1>4, <1>5, <1>6, <1>7, PeopleMove
<1> QED
  BY <1>0, <1>1, <1>2, <1>3, <1>7, RepoStep DEF repo, Opens

\* A branch with an open pull request stays ahead, but for the one merged.
LEMMA StaysAhead ==
  ASSUME TypeOK, LocalInv, HistoryInv, OpenInv, [Next]_vars,
         NEW n \in DOMAIN pulls, pulls[n].state = "open", pulls'[n].state = "open"
  PROVE  Ahead(branch[pulls[n].head])'
<1> DEFINE b == pulls[n].head
<1> USE DEF Ahead
<1>0. /\ pulls \in Seq(PullRequest) /\ b \in Branches /\ pulls'[n].head = b
      /\ branch \in [Branches -> Commit] /\ commits \in Nat
      /\ n \in DOMAIN pulls'
  <2>1. pulls[n] \in PullRequest
    BY LenProperties, ElementOfSeq DEF TypeOK
  <2> QED
    BY <2>1, PullsStay DEF PullRequest, TypeOK
<1>1. PICK k \in branch[b].history : k \notin base.history
  BY DEF OpenInv
<1>2. k \in 0 .. commits - 1
  BY <1>0, <1>1 DEF HistoryInv
<1>3. ASSUME NEW a \in Apps, Moves(a) PROVE k \in branch'[b].history /\ k \notin base'.history
  BY <1>0, <1>1, <1>3, NamesAssumption DEF Moves, LocalInv
<1>4. ASSUME NEW a \in Apps, CommitsTo(a) PROVE k \in branch'[b].history /\ k \notin base'.history
  <2>1. base' = base
    BY <1>4 DEF CommitsTo
  <2> QED
    BY <1>0, <1>1, <1>4, <2>1, CommitStep
<1>5. ASSUME NEW m \in DOMAIN pulls, Merge(m)
      PROVE  k \in branch'[b].history /\ k \notin base'.history
  <2> DEFINE c == pulls[m].head
  <2>1. /\ c \in Branches /\ pulls[m].state = "open" /\ SetPull(m, "merged")
        /\ base'.history \in {base.history \cup {commits},
                              base.history \cup branch[c].history \cup {commits}}
        /\ branch'[b].history = branch[b].history
    BY <1>0, <1>5, MergeStep
  <2>2. m # n
    BY <1>0, <2>1, SetPullFields
  <2>3. b # c
    BY <2>1, <2>2 DEF OpenInv
  <2>4. k \notin branch[c].history
    BY <1>0, <1>1, <2>1, <2>3 DEF HistoryInv
  <2> QED
    BY <1>0, <1>1, <1>2, <2>1, <2>4
<1>6. CASE PeopleStep
  <2>1. ASSUME NEW x \in Branches, branch' = [branch EXCEPT ![x] = NoCommit], base' = base,
               \A m \in DOMAIN pulls : pulls[m].head = x => pulls[m].state # "open"
        PROVE  k \in branch'[b].history /\ k \notin base'.history
    BY <1>0, <1>1, <2>1
  <2>2. ASSUME NEW f \in Files, NEW e \in Edits, base' = Edited(base, f, e), UNCHANGED branch
        PROVE  k \in branch'[b].history /\ k \notin base'.history
    <3>1. base'.history = base.history \cup {commits}
      BY <2>2, EditStep
    <3>2. k # commits
      BY <1>0, <1>2
    <3> QED
      BY <1>1, <2>2, <3>1, <3>2
  <2>3. ASSUME NEW m \in DOMAIN pulls, NEW e \in Edits, base' = base,
               branch' = [branch EXCEPT ![pulls[m].head] = Edited(@, FileOf[pulls[m].rem], e)]
        PROVE  k \in branch'[b].history /\ k \notin base'.history
    BY <1>0, <1>1, <2>3, PushStep
  <2> QED
    BY <1>0, <1>1, <1>5, <1>6, <2>1, <2>2, <2>3, PeopleMove
<1> QED
  BY <1>0, <1>1, <1>3, <1>4, <1>6, RepoStep DEF repo, Opens

\* Every step keeps branches with an open pull request ahead of the base branch.
LEMMA OpenStep ==
  ASSUME TypeOK, LocalInv, HistoryInv, OpenInv, [Next]_vars
  PROVE  OpenInv'
<1>0. branch \in [Branches -> Commit] /\ pulls \in Seq(PullRequest)
  BY DEF TypeOK
<1>1. \A n \in DOMAIN pulls' : pulls'[n].head = BranchOf[pulls'[n].rem]
  BY PullsStep DEF OpenInv
<1>2. ASSUME NEW n \in DOMAIN pulls', pulls'[n].state = "open"
      PROVE  /\ Ahead(branch[pulls[n].head])'
             /\ \A m \in DOMAIN pulls' \ {n} :
                    pulls'[m].state = "open" => pulls'[m].head # pulls'[n].head
  <2>1. CASE \E a \in Apps : Opens(a) /\ n = Len(pulls) + 1 /\ n \notin DOMAIN pulls
    <3>1. PICK a \in Apps : Opens(a) /\ n = Len(pulls) + 1 /\ n \notin DOMAIN pulls
      BY <2>1
    <3>2. /\ UNCHANGED <<base, branch>> /\ Ahead(branch[BranchOf[doing[a]]])
          /\ \A m \in DOMAIN pulls : pulls[m].head = BranchOf[doing[a]] => pulls[m].state # "open"
      BY <3>1 DEF Opens, Pullable
    <3>3. /\ DOMAIN pulls' = DOMAIN pulls \cup {n}
          /\ pulls'[n].head = BranchOf[doing[a]]
          /\ \A m \in DOMAIN pulls : pulls'[m] = pulls[m]
      <4> DEFINE p == [head |-> BranchOf[doing[a]], rem |-> doing[a], state |-> "open"]
      <4>1. /\ p \in PullRequest /\ pulls' = Append(pulls, p) /\ p.head = BranchOf[doing[a]]
        BY <3>1, NamesAssumption DEF Opens, PullRequest
      <4> HIDE DEF p
      <4> QED
        BY <1>0, <3>1, <4>1, AppendedPull
    <3> QED
      BY <3>2, <3>3 DEF Ahead
  <2>2. CASE n \in DOMAIN pulls
    <3>1. /\ pulls[n].state = "open" /\ pulls'[n].head = pulls[n].head
          /\ \A m \in DOMAIN pulls : /\ pulls'[m].head = pulls[m].head
                                     /\ pulls'[m].state = "open" => pulls[m].state = "open"
      BY <1>2, <2>2, PullsStep
    <3>2. Ahead(branch[pulls[n].head])'
      BY <1>2, <2>2, <3>1, StaysAhead
    <3>3. ASSUME NEW m \in DOMAIN pulls' \ {n}, pulls'[m].state = "open"
          PROVE  pulls'[m].head # pulls'[n].head
      <4>1. CASE m \in DOMAIN pulls
        BY <2>2, <3>1, <3>3, <4>1 DEF OpenInv
      <4>2. CASE m \notin DOMAIN pulls
        <5>1. PICK a \in Apps : Opens(a) /\ pulls'[m].head = BranchOf[doing[a]]
          BY <3>3, <4>2, PullsStep
        <5> QED
          BY <2>2, <3>1, <5>1 DEF Opens, Pullable
      <4> QED
        BY <4>1, <4>2
    <3> QED
      BY <3>2, <3>3
  <2> QED
    BY <1>2, <2>1, <2>2, PullsStep
<1>3. ASSUME NEW r \in Rems, SoleOwner(r), Ahead(branch[BranchOf[r]])'
      PROVE  Carries(branch'[BranchOf[r]].files[FileOf[r]], r)
  <2> DEFINE b == BranchOf[r]
  <2>0. b \in Branches /\ FileOf[r] \in Files /\ branch[b] \in Commit
    BY <1>0, NamesAssumption
  <2>1. CASE Ahead(branch[b]) /\ branch'[b].files = branch[b].files
    BY <1>3, <2>1 DEF OpenInv
  <2>2. ASSUME NEW a \in Apps, CommitsTo(a), BranchOf[doing[a]] = b
        PROVE  Carries(branch'[b].files[FileOf[r]], r)
    <3>1. doing[a] = r /\ Carries(file[a], r)
      BY <1>3, <2>2 DEF CommitsTo, SoleOwner, LocalInv
    <3>2. branch'[b].files = [branch[b].files EXCEPT ![FileOf[r]] = file[a]]
      BY <2>2, <3>1, CommitStep
    <3> QED
      BY <2>0, <3>1, <3>2 DEF Commit
  <2>3. ASSUME NEW n \in DOMAIN pulls, NEW e \in Edits,
               pulls[n].head = b, pulls[n].state = "open",
               branch'[b].files = [branch[b].files EXCEPT ![FileOf[pulls[n].rem]] =
                                      branch[b].files[FileOf[pulls[n].rem]] \cup {<<e, 1>>}]
        PROVE  Carries(branch'[b].files[FileOf[r]], r)
    <3>1. Carries(branch[b].files[FileOf[r]], r)
      BY <1>3, <2>3 DEF OpenInv
    <3>2. branch[b].files[FileOf[r]] \subseteq branch'[b].files[FileOf[r]]
      BY <2>0, <2>3 DEF Commit
    <3> QED
      BY <3>1, <3>2 DEF Carries
  <2>4. \/ /\ Ahead(branch[b]) /\ branch'[b].files = branch[b].files
        \/ \E a \in Apps : CommitsTo(a) /\ BranchOf[doing[a]] = b
        \/ \E n \in DOMAIN pulls, e \in Edits :
              /\ pulls[n].head = b /\ pulls[n].state = "open"
              /\ branch'[b].files = [branch[b].files EXCEPT ![FileOf[pulls[n].rem]] =
                                        branch[b].files[FileOf[pulls[n].rem]] \cup {<<e, 1>>}]
    BY <1>3, <2>0, AheadStep, Zenon
  <2> QED
    BY <2>1, <2>2, <2>3, <2>4, Zenon
<1> QED
  BY <1>1, <1>2, <1>3 DEF OpenInv

\* What holds of the repository and of the instances at any time.
RepoInv == TypeOK /\ LocalInv /\ HistoryInv /\ OpenInv

\* The invariants of the repository hold at the start.
LEMMA InitRepo == Init => LocalInv /\ UnmergedInv /\ HistoryInv /\ OpenInv
<1> SUFFICES ASSUME Init PROVE LocalInv /\ UnmergedInv /\ HistoryInv /\ OpenInv
  OBVIOUS
<1> USE CommitsTyped DEF Init, Exists, Ahead
<1>1. LocalInv
  BY DEF LocalInv
<1>2. UnmergedInv
  BY NamesAssumption DEF UnmergedInv, Carries, NoFiles
<1>3. HistoryInv
  BY DEF HistoryInv
<1>4. OpenInv
  BY NamesAssumption DEF OpenInv
<1> QED
  BY <1>1, <1>2, <1>3, <1>4

\* The repository's invariants hold in every reachable state: histories, open
\* pull requests, and what instances hold in between calls.
THEOREM RepositoryHolds == Spec => []RepoInv
<1>1. Init => RepoInv
  BY InitRepo, TypeInit DEF RepoInv
<1>2. RepoInv /\ [Next]_vars => RepoInv'
  BY TypeStep, LocalInvStep, HistoryStep, OpenStep DEF RepoInv
<1> QED
  BY <1>1, <1>2, PTL DEF Spec

\* An open pull request starts from the base branch, is ahead of it and has
\* the change it was opened for.
THEOREM PullsCarry == Spec => []PullCarriesPatch
<1>1. RepoInv => PullCarriesPatch
  <2> SUFFICES ASSUME RepoInv, NEW n \in DOMAIN pulls, pulls[n].state = "open"
               PROVE  LET head == branch[pulls[n].head] IN
                      /\ 0 \in head.history /\ Ahead(head)
                      /\ SoleOwner(pulls[n].rem) =>
                            Carries(head.files[FileOf[pulls[n].rem]], pulls[n].rem)
    BY DEF PullCarriesPatch
  <2>1. pulls[n] \in PullRequest
    BY LenProperties, ElementOfSeq DEF RepoInv, TypeOK
  <2>2. pulls[n].head \in Branches /\ pulls[n].rem \in Rems
    BY <2>1 DEF PullRequest
  <2> QED
    BY <2>2 DEF RepoInv, HistoryInv, OpenInv, Exists, Ahead
<1> QED
  BY <1>1, RepositoryHolds, PTL

-----------------------------------------------------------------------------
(* Changes reach the base branch by pull requests only. *)

\* After a reviewer's push a manifest on a branch is what it was, or has the
\* reviewer's change as well.
LEMMA PushedFiles ==
  ASSUME TypeOK, NEW n \in DOMAIN pulls, NEW e \in Edits,
         branch' = [branch EXCEPT ![pulls[n].head] = Edited(@, FileOf[pulls[n].rem], e)],
         NEW b \in Branches, NEW f \in Files
  PROVE  branch'[b].files[f] \in {branch[b].files[f], branch[b].files[f] \cup {<<e, 1>>}}
<1> DEFINE head == pulls[n].head
           k == FileOf[pulls[n].rem]
<1>1. /\ branch[head] \in Commit
      /\ branch'[head].files = [branch[head].files EXCEPT ![k] = branch[head].files[k] \cup {<<e, 1>>}]
      /\ \A c \in Branches : c # head => branch'[c] = branch[c]
  BY PushStep
<1> HIDE DEF head, k
<1>2. branch[head].files \in [Files -> Manifest]
  BY <1>1 DEF Commit
<1>3. branch'[head].files[f] \in {branch[head].files[f], branch[head].files[f] \cup {<<e, 1>>}}
  <2>1. CASE f = k
    BY <1>1, <1>2, <2>1
  <2>2. CASE f # k
    BY <1>1, <1>2, <2>2
  <2> QED
    BY <2>1, <2>2
<1>4. CASE b = head
  BY <1>3, <1>4
<1>5. CASE b # head
  BY <1>1, <1>5
<1> QED
  BY <1>4, <1>5

\* Every step keeps unmerged changes where they belong.
LEMMA UnmergedStep ==
  ASSUME RepoInv, UnmergedInv, [Next]_vars
  PROVE  UnmergedInv'
<1> SUFFICES ASSUME NEW r \in Rems, ~MergedFrom(BranchOf[r])'
             PROVE  /\ \A f \in Files : ~Carries(base'.files[f], r)
                    /\ \A b \in Branches, f \in Files :
                           Carries(branch'[b].files[f], r) => b = BranchOf[r]
                    /\ \A a \in Apps : /\ \A f \in Files : ~Carries(ref'[a].files[f], r)
                                       /\ Carries(file'[a], r) => r = doing'[a]
  BY DEF UnmergedInv
<1> USE DEF RepoInv
<1>0. /\ branch \in [Branches -> Commit] /\ base \in Commit /\ pulls \in Seq(PullRequest)
      /\ ref \in [Apps -> Commit]
  BY DEF TypeOK
<1>1. /\ \A f \in Files : ~Carries(base.files[f], r)
      /\ \A b \in Branches, f \in Files : Carries(branch[b].files[f], r) => b = BranchOf[r]
      /\ \A a \in Apps : /\ \A f \in Files : ~Carries(ref[a].files[f], r)
                         /\ Carries(file[a], r) => r = doing[a]
  BY MergedStays DEF UnmergedInv
<1>2. ASSUME NEW e \in Edits, NEW manifest, Carries(manifest \cup {<<e, 1>>}, r)
      PROVE  Carries(manifest, r)
  BY <1>2, NamesAssumption DEF Carries
<1>3. ASSUME NEW n \in DOMAIN pulls, Merge(n)
      PROVE  /\ \A f \in Files : ~Carries(base'.files[f], r)
             /\ \A b \in Branches : branch'[b].files = branch[b].files
  <2>1. /\ pulls[n].head \in Branches /\ SetPull(n, "merged")
        /\ \A f \in Files : base'.files[f] \in {branch[pulls[n].head].files[f], base.files[f]}
        /\ \A b \in Branches : branch'[b].files = branch[b].files
    BY <1>3, MergeStep
  <2>2. pulls[n].head # BranchOf[r]
    BY <1>0, <2>1, SetPullFields DEF MergedFrom
  <2> QED
    BY <1>1, <2>1, <2>2
<1>4. \A f \in Files : ~Carries(base'.files[f], r)
  <2>1. CASE UNCHANGED base
    BY <1>1, <2>1
  <2>2. ASSUME NEW f \in Files, NEW e \in Edits, base' = Edited(base, f, e)
        PROVE  \A g \in Files : ~Carries(base'.files[g], r)
    <3>1. base'.files = [base.files EXCEPT ![f] = base.files[f] \cup {<<e, 1>>}]
      BY <2>2, EditStep
    <3> QED
      BY <1>0, <1>1, <1>2, <3>1 DEF Commit
  <2>3. CASE PeopleStep
    BY <1>3, <2>1, <2>2, <2>3, PeopleMove
  <2> QED
    BY <2>1, <2>3, RepoStep DEF repo, Moves, CommitsTo, Opens
<1>5. ASSUME NEW b \in Branches, NEW f \in Files, Carries(branch'[b].files[f], r)
      PROVE  b = BranchOf[r]
  <2>1. CASE branch'[b].files = branch[b].files
    BY <1>1, <1>5, <2>1
  <2>2. ASSUME NEW a \in Apps, Moves(a) PROVE b = BranchOf[r]
    <3>1. branch'[b] = branch[b] \/ branch'[b] = ref[a]
      BY <1>0, <2>2, NamesAssumption DEF Moves
    <3> QED
      BY <1>1, <1>5, <3>1
  <2>3. ASSUME NEW a \in Apps, CommitsTo(a) PROVE b = BranchOf[r]
    <3>1. CASE b # BranchOf[doing[a]]
      BY <2>1, <2>3, <3>1, CommitStep
    <3>2. CASE b = BranchOf[doing[a]]
      <4>1. /\ branch'[b].files = [branch[b].files EXCEPT ![FileOf[doing[a]]] = file[a]]
            /\ branch[b] \in Commit
        BY <2>3, <3>2, CommitStep
      <4>2. Carries(branch[b].files[f], r) \/ Carries(file[a], r)
        BY <1>5, <4>1 DEF Commit
      <4> QED
        BY <1>1, <3>2, <4>2
    <3> QED
      BY <3>1, <3>2
  <2>4. ASSUME NEW n \in DOMAIN pulls, NEW e \in Edits,
               branch' = [branch EXCEPT ![pulls[n].head] = Edited(@, FileOf[pulls[n].rem], e)]
        PROVE  b = BranchOf[r]
    <3>1. branch'[b].files[f] \in {branch[b].files[f], branch[b].files[f] \cup {<<e, 1>>}}
      BY <2>4, PushedFiles
    <3>2. Carries(branch[b].files[f], r)
      BY <1>2, <1>5, <3>1
    <3> QED
      BY <1>1, <3>2
  <2>5. ASSUME NEW x \in Branches, branch' = [branch EXCEPT ![x] = NoCommit]
        PROVE  b = BranchOf[r]
    <3>1. branch'[b] = branch[b] \/ branch'[b].files = NoFiles
      BY <1>0, <2>5, CommitsTyped
    <3>2. branch'[b].files # NoFiles
      BY <1>5 DEF Carries, NoFiles
    <3> QED
      BY <2>1, <3>1, <3>2
  <2>6. CASE PeopleStep
    BY <1>3, <2>1, <2>4, <2>5, <2>6, PeopleMove
  <2> QED
    BY <2>1, <2>2, <2>3, <2>6, RepoStep DEF repo, Opens
<1>6. ASSUME NEW a \in Apps
      PROVE  /\ \A f \in Files : ~Carries(ref'[a].files[f], r)
             /\ Carries(file'[a], r) => r = doing'[a]
  <2>1. CASE Same(a) \/ Proceeds(a)
    BY <1>1, <2>1 DEF Same, Proceeds
  <2>2. CASE Released(a)
    BY <2>2, CommitsTyped DEF Released, NoFiles, Carries
  <2>3. ASSUME NEW q \in Rems, Fetches(a, q)
        PROVE  /\ \A f \in Files : ~Carries(ref'[a].files[f], r)
               /\ Carries(file'[a], r) => r = doing'[a]
    <3>1. base.files[FileOf[q]] \in Manifest /\ FileOf[q] \in Files
      BY <1>0, NamesAssumption DEF Commit
    <3>2. Carries(Patched(base.files[FileOf[q]], q), r) => r = q
      BY <1>1, <3>1, PatchedManifest DEF Carries
    <3>3. file[a] = {}
      BY <2>3 DEF Fetches, LocalInv
    <3> QED
      BY <1>1, <2>3, <3>2, <3>3 DEF Fetches, Carries
  <2>4. CASE Reads(a)
    <3>1. [base EXCEPT !.from = base.files].files = base.files
      BY <1>0 DEF Commit
    <3> QED
      BY <1>1, <2>4, <3>1 DEF Reads
  <2> QED
    BY <2>1, <2>2, <2>3, <2>4, LocalStep
<1> QED
  BY <1>4, <1>5, <1>6

\* "All changes via Pull Requests": a remediation's change is on the base
\* branch only after a pull request from its branch was merged.
THEOREM ByPullRequestOnly == Spec => []ChangesByPullRequest
<1>1. Init => UnmergedInv
  BY InitRepo
<1>2. RepoInv /\ UnmergedInv /\ [Next]_vars => UnmergedInv'
  BY UnmergedStep
<1>3. UnmergedInv => ChangesByPullRequest
  BY DEF UnmergedInv, ChangesByPullRequest
<1> QED
  BY <1>1, <1>2, <1>3, RepositoryHolds, PTL DEF Spec

-----------------------------------------------------------------------------
(* Objects, and the copies that instances have listed. *)

\* The moves that a status update other than PRCreated makes.
Moved == {<<"New", "Pending">>, <<"Pending", "Analyzing">>, <<"Pending", "Failed">>,
          <<"Analyzing", "Pending">>, <<"Analyzing", "Applying">>, <<"Analyzing", "Failed">>,
          <<"Applying", "Succeeded">>, <<"Applying", "Failed">>, <<"PRCreated", "Expired">>}

\* Instance a writes PRCreated over the pending object o replaces.
Announces(a, r, o) ==
    /\ pc[a] = "created" /\ doing[a] = r
    /\ cr[r].phase = "Pending" /\ o.phase = "PRCreated"
    /\ prNumber' = [prNumber EXCEPT ![r] = pull[a]]

\* What a step writes: nothing, or the next version of one object.
LEMMA ObjectChange ==
  ASSUME TypeOK, ListedInv, [Next]_vars
  PROVE  \/ UNCHANGED api
         \/ /\ UNCHANGED repo
            /\ \E r \in Rems, o \in Remediation :
                  /\ cr' = [cr EXCEPT ![r] = o] /\ o.rv = cr[r].rv + 1
                  /\ \/ UNCHANGED prNumber /\ o.phase = cr[r].phase
                     \/ UNCHANGED prNumber /\ <<cr[r].phase, o.phase>> \in Moved
                     \/ \E a \in Apps : Announces(a, r, o)
<1> DEFINE Writes(r, o) ==
             /\ cr' = [cr EXCEPT ![r] = o] /\ o.rv = cr[r].rv + 1
             /\ \/ UNCHANGED prNumber /\ o.phase = cr[r].phase
                \/ UNCHANGED prNumber /\ <<cr[r].phase, o.phase>> \in Moved
                \/ \E a \in Apps : Announces(a, r, o)
<1> USE DEF api
<1>1. ASSUME NEW q \in Rems, NEW o, ControllerWrites(q, o)
      PROVE  UNCHANGED repo /\ \E w \in Remediation : Writes(q, w)
  <2>1. cr[q] \in Remediation /\ Computed(cr[q], o)
    BY <1>1 DEF ControllerWrites, TypeOK
  <2>2. o \in Remediation /\ o.rv = cr[q].rv
    <3>1. o \in {NewStatus(cr[q]), AnalyzingStatus(cr[q]), WaitingStatus(cr[q]),
                 ApplyingStatus(cr[q]), SucceededStatus(cr[q]), FailedStatus(cr[q]),
                 ExpiredStatus(cr[q])}
      BY <2>1 DEF Computed
    <3>2. o \in Remediation
      BY <2>1, <3>1, StatusesTyped
    <3>3. o.rv = cr[q].rv
      BY <2>1, <3>1, StatusFields
    <3> QED
      BY <3>2, <3>3
  <2>3. Bump(o) \in Remediation /\ Bump(o).rv = cr[q].rv + 1 /\ Bump(o).phase = o.phase
    BY <2>2, BumpFields
  <2>4. <<cr[q].phase, o.phase>> \in Moved
    BY <2>1, ComputedPhases DEF Moved
  <2>5. Writes(q, Bump(o)) /\ UNCHANGED repo
    BY <1>1, <2>3, <2>4 DEF ControllerWrites, ApiStep
  <2> QED
    BY <2>3, <2>5
<1>2. ASSUME NEW q \in Rems, NEW s \in Specs,
             CreateRemediation(q, s) \/ EditSpec(q, s) \/ DeleteRemediation(q)
      PROVE  UNCHANGED repo /\ \E w \in Remediation : Writes(q, w)
  <2>0. cr[q] \in Remediation
    BY DEF TypeOK
  <2>1. CASE CreateRemediation(q, s)
    <3>1. cr[q] = NoRemediation /\ cr[q].rv = 0
      BY <2>1 DEF CreateRemediation, ListedInv
    <3>2. cr[q].phase = "New"
      BY <3>1 DEF NoRemediation
    <3>a. Created(s) \in Remediation /\ Created(s).rv = 1 /\ Created(s).phase = "New"
      BY CreatedFields
    <3>3. Created(s) \in Remediation /\ Created(s).rv = cr[q].rv + 1 /\ Created(s).phase = cr[q].phase
      BY <3>1, <3>2, <3>a
    <3>4. Writes(q, Created(s)) /\ UNCHANGED repo
      BY <2>1, <3>3 DEF CreateRemediation, ApiStep
    <3> QED
      BY <3>3, <3>4
  <2>2. ASSUME NEW w \in {Respecified(cr[q], s), Deleted(cr[q])}, cr' = [cr EXCEPT ![q] = w],
               UNCHANGED prNumber
        PROVE  w \in Remediation /\ Writes(q, w)
    <3>1. w \in Remediation /\ w.rv = cr[q].rv + 1 /\ w.phase = cr[q].phase
      BY <2>0, UserWriteFields
    <3> QED
      BY <2>2, <3>1
  <2> HIDE DEF Writes
  <2>3. CASE EditSpec(q, s)
    BY <2>2, <2>3 DEF EditSpec, ApiStep
  <2>4. CASE DeleteRemediation(q)
    BY <2>2, <2>4 DEF DeleteRemediation, ApiStep
  <2> QED
    BY <1>2, <2>1, <2>3, <2>4
<1>3. ASSUME NEW r \in Rems, RemediationStep(r)
      PROVE  UNCHANGED repo /\ \E w \in Remediation : Writes(r, w)
  <2> HIDE DEF Writes
  <2>1. PICK s \in Specs : TRUE
    BY SpecsAssumption
  <2> QED
    BY <1>1, <1>2, <1>3, <2>1
       DEF RemediationStep, Accept, Analyze, LeaveAnalyzing, TargetMissing, EndDirect, Expire
<1>4. ASSUME NEW a \in Apps, WriteStatus(a), ~UNCHANGED api
      PROVE  UNCHANGED repo /\ \E r \in Rems, w \in Remediation : Writes(r, w)
  <2> DEFINE q == doing[a]
             c == listed[a][q]
  <2>1. /\ q \in Rems /\ SetStatus(a, q) /\ Current(c, cr[q]) /\ UNCHANGED repo
    BY <1>4 DEF WriteStatus, TypeOK
  <2>2. c = cr[q] /\ Listable(c) /\ c \in Remediation
    BY <2>1 DEF ListedInv, TypeOK
  <2>3. cr[q].phase = "Pending"
    BY <2>2 DEF Listable
  <2>4. \A o \in {PRCreatedStatus(c), FailedStatus(c)} :
           Bump(o) \in Remediation /\ Bump(o).rv = cr[q].rv + 1 /\ Bump(o).phase = o.phase
    <3>1. PRCreatedStatus(c) \in Remediation /\ FailedStatus(c) \in Remediation
      BY <2>2, StatusesTyped
    <3>2. PRCreatedStatus(c).rv = c.rv /\ FailedStatus(c).rv = c.rv
      BY <2>2, StatusFields
    <3> QED
      BY <2>2, <3>1, <3>2, BumpFields
  <2>5. PRCreatedStatus(c).phase = "PRCreated" /\ FailedStatus(c).phase = "Failed"
    BY <2>2, StatusFields
  <2> HIDE DEF q, c
  <2>6. CASE /\ pc[a] = "created"
             /\ cr' = [cr EXCEPT ![q] = Bump(PRCreatedStatus(c))]
             /\ prNumber' = [prNumber EXCEPT ![q] = pull[a]]
    <3>1. Announces(a, q, Bump(PRCreatedStatus(c)))
      BY <2>3, <2>4, <2>5, <2>6 DEF Announces, q
    <3> QED
      BY <2>1, <2>4, <2>6, <3>1
  <2>7. CASE cr' = [cr EXCEPT ![q] = Bump(FailedStatus(c))] /\ UNCHANGED prNumber
    <3>1. <<cr[q].phase, Bump(FailedStatus(c)).phase>> \in Moved
      BY <2>3, <2>4, <2>5 DEF Moved
    <3> QED
      BY <2>1, <2>4, <2>7, <3>1
  <2> QED
    BY <2>1, <2>6, <2>7 DEF SetStatus, q, c
<1>5. ASSUME NEW a \in Apps, Work(a), ~WriteStatus(a) PROVE UNCHANGED api
  BY <1>5 DEF Work, List, Fetch, GetBase, CreateRef, UpdateRef, GetFile, PutFile, PutAgain,
              CreatePull, Call, NothingDone, SetBranch, CommitFile, Restart
<1>6. ASSUME PeopleStep \/ (\E a \in Apps : Crash(a)) \/ UNCHANGED vars PROVE UNCHANGED api
  BY <1>6 DEF PeopleStep, Merge, ClosePull, PushToBranch, DeleteBranch, EditBase,
              Crash, Restart, vars
<1> HIDE DEF Writes
<1>7. UNCHANGED api \/ (UNCHANGED repo /\ \E r \in Rems, w \in Remediation : Writes(r, w))
  <2>1. CASE \E a \in Apps : Work(a)
    BY <1>4, <1>5, <2>1
  <2>2. CASE \E r \in Rems : RemediationStep(r)
    BY <1>3, <2>2
  <2> QED
    BY <1>6, <2>1, <2>2 DEF Next
<1> QED
  BY <1>7 DEF Writes

\* The copies of an instance stay, are listed, are taken up, or are dropped.
Keeps(a) == todo'[a] = todo[a] /\ listed'[a] = listed[a] /\ doing'[a] = doing[a]
Lists(a) ==
    /\ UNCHANGED cr
    /\ doing'[a] = NoRem /\ todo'[a] = Found
    /\ \A r \in Rems : listed'[a][r] = IF r \in Found THEN cr[r] ELSE NoRemediation
Takes(a) ==
    \E r \in todo[a] : doing'[a] = r /\ todo'[a] = todo[a] \ {r} /\ listed'[a] = listed[a]
Drops(a) ==
    /\ doing'[a] = NoRem /\ todo'[a] \subseteq todo[a]
    /\ \A r \in Rems : \/ listed'[a][r] = NoRemediation /\ r \notin todo'[a]
                       \/ listed'[a][r] = listed[a][r]

\* What a step may do to the copies of one instance.
LEMMA CopyStep ==
  ASSUME TypeOK, ListedInv, [Next]_vars, NEW a \in Apps
  PROVE  Keeps(a) \/ Lists(a) \/ Takes(a) \/ Drops(a)
<1> USE DEF locals
<1>1. CASE UNCHANGED <<todo, listed, doing>>
  BY <1>1 DEF Keeps
<1>2. ASSUME NEW b \in Apps, b # a, Work(b) \/ Crash(b) PROVE Keeps(a)
  <2>1. CASE List(b) \/ (\E r \in Rems : Fetch(b, r)) \/ WriteStatus(b) \/ Crash(b)
    BY <1>2, <2>1 DEF List, Fetch, WriteStatus, Release, Crash, Restart, Keeps, TypeOK
  <2>2. CASE GetBase(b) \/ CreateRef(b) \/ UpdateRef(b) \/ GetFile(b)
    BY <1>2, <2>2 DEF GetBase, CreateRef, UpdateRef, GetFile, Call, NothingDone, SetBranch,
                      Restart, Keeps, TypeOK
  <2>3. CASE PutFile(b) \/ PutAgain(b) \/ CreatePull(b)
    BY <1>2, <2>3 DEF PutFile, PutAgain, CreatePull, Call, NothingDone, CommitFile, SetBranch, Keeps
  <2> QED
    BY <1>2, <2>1, <2>2, <2>3 DEF Work
<1>3. ASSUME Work(a) \/ Crash(a)
      PROVE  Keeps(a) \/ Lists(a) \/ Takes(a) \/ Drops(a)
  <2>1. CASE List(a)
    <3> DEFINE copy == [r \in Rems |-> IF r \in Found THEN cr[r] ELSE NoRemediation]
    <3>1. /\ todo' = [todo EXCEPT ![a] = Found] /\ listed' = [listed EXCEPT ![a] = copy]
          /\ UNCHANGED <<cr, doing>> /\ doing[a] = NoRem
      BY <2>1 DEF List, api, TypeOK
    <3>2. todo'[a] = Found /\ listed'[a] = copy
      BY <3>1 DEF TypeOK
    <3> QED
      BY <3>1, <3>2 DEF Lists
  <2>2. CASE \E r \in Rems : Fetch(a, r)
    BY <2>2 DEF Fetch, Takes, TypeOK
  <2>3. CASE WriteStatus(a)
    <3>1. doing[a] \in Rems \ todo[a]
      BY <2>3 DEF WriteStatus, TypeOK, ListedInv
    <3> QED
      BY <2>3, <3>1 DEF WriteStatus, Release, Drops, TypeOK
  <2>4. CASE Restart(a)
    BY <2>4 DEF Restart, NoCopies, Drops, TypeOK
  <2>5. CASE GetBase(a) \/ CreateRef(a) \/ UpdateRef(a) \/ (GetFile(a) /\ ~Restart(a))
    BY <1>1, <2>5 DEF GetBase, CreateRef, UpdateRef, GetFile, Call, NothingDone, SetBranch
  <2>6. CASE PutFile(a) \/ PutAgain(a) \/ CreatePull(a)
    BY <1>1, <2>6 DEF PutFile, PutAgain, CreatePull, Call, NothingDone, CommitFile, SetBranch
  <2> QED
    BY <1>3, <2>1, <2>2, <2>3, <2>4, <2>5, <2>6 DEF Work, Crash
<1>4. CASE \E r \in Rems : RemediationStep(r)
  BY <1>1, <1>4 DEF RemediationStep, Accept, Analyze, LeaveAnalyzing, TargetMissing, EndDirect,
       Expire, ControllerWrites, CreateRemediation, EditSpec, DeleteRemediation, ApiStep, Theirs
<1>5. CASE PeopleStep
  BY <1>1, <1>5 DEF PeopleStep, Merge, ClosePull, PushToBranch, DeleteBranch, EditBase, Theirs
<1>6. CASE UNCHANGED vars
  BY <1>1, <1>6 DEF vars
<1> QED
  BY <1>2, <1>3, <1>4, <1>5, <1>6 DEF Next

\* Every step leaves listed copies exact or old.
LEMMA ListedStep ==
  ASSUME TypeOK, ListedInv, [Next]_vars
  PROVE  ListedInv'
<1> DEFINE Fits(c, r) == c.rv <= cr'[r].rv /\ (Current(c, cr'[r]) => c = cr'[r])
<1>0. NoRemediation.rv = 0 /\ NoRemediation.exists = FALSE
  BY DEF NoRemediation
<1>1. /\ \A r \in Rems : cr'[r] = cr[r] \/ cr'[r].rv = cr[r].rv + 1
  BY ObjectChange DEF api, TypeOK
<1>2. /\ \A r \in Rems : cr[r].rv \in Nat
      /\ \A a \in Apps, r \in Rems : listed[a][r].rv \in Nat
  BY DEF TypeOK, Remediation
<1>3. \A r \in Rems : cr'[r].rv = 0 => cr'[r] = NoRemediation
  BY <1>1, <1>2 DEF ListedInv
<1>4. ASSUME NEW a \in Apps, NEW r \in Rems PROVE Fits(listed[a][r], r)
  BY <1>1, <1>2 DEF ListedInv, Current
<1>5. ASSUME NEW r \in Rems PROVE Fits(NoRemediation, r)
  BY <1>0, <1>1, <1>2, <1>3 DEF Current
<1>6. ASSUME NEW r \in Rems, cr'[r] = cr[r] PROVE Fits(cr[r], r)
  BY <1>2, <1>6
<1> SUFFICES ASSUME NEW a \in Apps
             PROVE  /\ doing'[a] \notin todo'[a]
                    /\ \A r \in Rems : /\ Fits(listed'[a][r], r)
                                       /\ r \in todo'[a] \cup {doing'[a]} => Listable(listed'[a][r])
  BY <1>3 DEF ListedInv
<1> HIDE DEF Fits
<1>7. todo[a] \subseteq Rems /\ NoRem \notin Rems /\ Watched \subseteq Rems
  BY NoRemAssumption DEF TypeOK
<1>8. CASE Keeps(a)
  BY <1>4, <1>8 DEF Keeps, ListedInv
<1>9. CASE Lists(a)
  BY <1>5, <1>6, <1>7, <1>9 DEF Lists, Found
<1>10. CASE Takes(a)
  BY <1>4, <1>7, <1>10 DEF Takes, ListedInv
<1>11. CASE Drops(a)
  BY <1>4, <1>5, <1>7, <1>11 DEF Drops, ListedInv
<1> QED
  BY <1>8, <1>9, <1>10, <1>11, CopyStep

-----------------------------------------------------------------------------
(* GitHubApp implements PullRequests. *)

\* A step changes the base branch's manifests by a merge only, as far as the
\* changes of remediations go.
LEMMA LandedStep ==
  ASSUME TypeOK, [Next]_vars
  PROVE  Landed' = Landed \/ \E n \in DOMAIN pulls : Merge(n)
<1>1. CASE UNCHANGED base
  BY <1>1 DEF Landed, Carries
<1>2. ASSUME NEW f \in Files, NEW e \in Edits, base' = Edited(base, f, e)
      PROVE  Landed' = Landed
  <2>1. base'.files = [base.files EXCEPT ![f] = base.files[f] \cup {<<e, 1>>}]
    BY <1>2, EditStep
  <2>2. base.files \in [Files -> Manifest]
    BY DEF TypeOK, Commit
  <2>3. \A r \in Rems : r # e
    BY NamesAssumption
  <2>4. \A r \in Rems, g \in Files : Carries(base'.files[g], r) <=> Carries(base.files[g], r)
    BY <2>1, <2>2, <2>3 DEF Carries
  <2> QED
    BY <2>4 DEF Landed, Carries
<1>3. CASE PeopleStep
  BY <1>1, <1>2, <1>3, PeopleMove
<1> QED
  BY <1>1, <1>3, RepoStep DEF repo, Moves, CommitsTo, Opens

\* A write of an object, as a step of PullRequests.
LEMMA PromiseWrite ==
  ASSUME TypeOK, PullInv, UNCHANGED repo, NEW r \in Rems, NEW o \in Remediation,
         cr' = [cr EXCEPT ![r] = o],
         \/ UNCHANGED prNumber /\ o.phase = cr[r].phase
         \/ UNCHANGED prNumber /\ <<cr[r].phase, o.phase>> \in Moved
         \/ \E a \in Apps : Announces(a, r, o)
  PROVE  [Promise!Next]_(Promise!promised)
<1>1. Phase' = [Phase EXCEPT ![r] = o.phase] /\ Phase[r] = cr[r].phase
  BY DEF Phase, TypeOK
<1>2. Landed' = Landed /\ UNCHANGED pulls
  BY DEF repo, Landed, Carries
<1>3. CASE UNCHANGED prNumber /\ o.phase = cr[r].phase
  <2>1. Phase' = Phase
    BY <1>1, <1>3 DEF Phase
  <2> QED
    BY <1>2, <1>3, <2>1 DEF Promise!promised
<1>4. CASE UNCHANGED prNumber /\ <<cr[r].phase, o.phase>> \in Moved
  <2>1. Promise!Move(r, Phase[r], o.phase)
    BY <1>1, <1>2 DEF Promise!Move
  <2>2. Promise!Refuse(r) \/ Promise!Operate(r)
    BY <1>1, <1>4, <2>1 DEF Moved, Promise!Refuse, Promise!Operate
  <2> QED
    BY <2>2 DEF Promise!Next
<1>5. ASSUME NEW a \in Apps, Announces(a, r, o) PROVE Promise!Next
  <2>1. pull[a] \in DOMAIN pulls /\ pulls[pull[a]].rem = r
    BY <1>5 DEF Announces, PullInv
  <2>2. Promise!Announce(r, pull[a])
    BY <1>1, <1>2, <1>5, <2>1 DEF Announces, Promise!Announce, Promise!Move
  <2> QED
    BY <2>1, <2>2 DEF Promise!Next
<1> QED
  BY <1>3, <1>4, <1>5

\* Every step of the App is one of PullRequests, or changes nothing in it.
LEMMA PromiseStep ==
  ASSUME TypeOK, ListedInv, PullInv, OpenInv, ChangesByPullRequest', [Next]_vars
  PROVE  [Promise!Next]_(Promise!promised)
<1>1. CASE UNCHANGED repo /\ ~UNCHANGED api
  BY <1>1, ObjectChange, PromiseWrite
<1>2. UNCHANGED cr => Phase' = Phase
  BY DEF Phase
<1>3. CASE UNCHANGED <<api, pulls>> /\ Landed' = Landed
  BY <1>2, <1>3 DEF api, Promise!promised
<1>4. ASSUME UNCHANGED api, NEW a \in Apps, Opens(a) PROVE Promise!Next
  <2>1. doing[a] \in Rems /\ Landed' = Landed
    BY <1>4 DEF Opens, Landed, Carries
  <2>2. Promise!Open(doing[a])
    BY <1>2, <1>4, <2>1 DEF Opens, Pullable, api, Promise!Open
  <2> QED
    BY <2>1, <2>2 DEF Promise!Next
<1>5. ASSUME UNCHANGED api, NEW n \in DOMAIN pulls, Merge(n) PROVE Promise!Next
  <2>1. Promise!End(n, "merged")
    BY <1>2, <1>5 DEF Merge, SetPull, api, Promise!End
  <2>2. Landed' \subseteq {r \in Rems : \E m \in DOMAIN pulls' :
                              pulls'[m].head = BranchOf[r] /\ pulls'[m].state = "merged"}
    BY DEF Landed, ChangesByPullRequest, MergedFrom, Carries
  <2> QED
    BY <2>1, <2>2 DEF Promise!Next, Promise!Merge
<1>6. ASSUME UNCHANGED api, NEW n \in DOMAIN pulls, ClosePull(n) PROVE Promise!Next
  <2>1. Landed' = Landed
    BY <1>6 DEF ClosePull, Landed, Carries
  <2>2. Promise!Close(n)
    BY <1>2, <1>6, <2>1 DEF ClosePull, SetPull, api, Promise!Close, Promise!End
  <2> QED
    BY <2>2 DEF Promise!Next
<1>7. ASSUME UNCHANGED api, PeopleStep, ~ \E n \in DOMAIN pulls : Merge(n) \/ ClosePull(n)
      PROVE  UNCHANGED pulls /\ Landed' = Landed
  BY <1>7, LandedStep DEF PeopleStep, PushToBranch, DeleteBranch, EditBase
<1>8. ASSUME UNCHANGED api, NEW a \in Apps, Moves(a) \/ CommitsTo(a)
      PROVE  UNCHANGED pulls /\ Landed' = Landed
  BY <1>8 DEF Moves, CommitsTo, Landed, Carries
<1>9. UNCHANGED repo => UNCHANGED pulls /\ Landed' = Landed
  BY DEF repo, Landed, Carries
<1>10. UNCHANGED api \/ UNCHANGED repo
  BY ObjectChange
<1> QED
  BY <1>1, <1>3, <1>4, <1>5, <1>6, <1>7, <1>8, <1>9, <1>10, RepoStep

\* What an instance has listed is exact or old, in every reachable state.
LEMMA ListedHolds == Spec => []ListedInv
<1>1. Init => ListedInv
  <2> SUFFICES ASSUME Init PROVE ListedInv
    OBVIOUS
  <2>1. NoRemediation.rv = 0 /\ NoRemediation.exists = FALSE
    BY DEF NoRemediation
  <2>2. /\ \A r \in Rems : cr[r] = NoRemediation
        /\ \A a \in Apps : todo[a] = {} /\ doing[a] = NoRem
        /\ \A a \in Apps, r \in Rems : listed[a][r] = NoRemediation
    BY DEF Init, NoCopies
  <2> QED
    BY <2>1, <2>2, NoRemAssumption DEF ListedInv, Current
<1>2. TypeOK /\ ListedInv /\ [Next]_vars => ListedInv'
  BY ListedStep
<1> QED
  BY <1>1, <1>2, TypeCorrect, PTL DEF Spec

\* The App, for any number of instances, repository, edits, failed calls and
\* restarts, does only what PullRequests promises.
THEOREM ImplementsPromise == Spec => PromiseSpec
<1>1. Init => Promise!Init
  <2> SUFFICES ASSUME Init PROVE Promise!Init
    OBVIOUS
  <2>1. Phase = [r \in Rems |-> "New"]
    BY DEF Init, Phase, NoCopies, NoRemediation
  <2>2. Landed = {}
    BY NamesAssumption DEF Init, Landed, FirstCommit, NoCommit, NoFiles, Carries
  <2> QED
    BY <2>1, <2>2 DEF Init, Promise!Init
<1>2. /\ TypeOK /\ ListedInv /\ PullInv /\ OpenInv /\ ChangesByPullRequest'
      /\ [Next]_vars
      => [Promise!Next]_(Promise!promised)
  BY PromiseStep
<1>3. RepoInv => OpenInv
  BY DEF RepoInv
<1> QED
  BY <1>1, <1>2, <1>3, TypeCorrect, ListedHolds, PullInvHolds, RepositoryHolds,
     ByPullRequestOnly, PTL DEF Spec, PromiseSpec, Promise!Spec
=============================================================================
