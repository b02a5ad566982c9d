-------------------------------- MODULE Heal8s --------------------------------
(***************************************************************************)
(* The operator and the GitHub App at work on the same Remediation objects, *)
(* with people at the repository and the Actions workflow of               *)
(* examples/github-workflows/apply-remediation.yaml.                       *)
(*                                                                         *)
(* The controller's variables and steps are those of RemediationController, *)
(* the App's those of GitHubApp; cr is the one thing they share.  A step   *)
(* that both modules describe (a user's write) is the conjunction of the   *)
(* two descriptions.  The steps that each module only guesses, the App's   *)
(* writes in one and the controller's in the other, are absent: the other  *)
(* module's real steps take their place.                                   *)
(***************************************************************************)
EXTENDS RemediationController, Sequences

CONSTANTS
    Apps, Watched, NoRem, Branches, BranchOf, Files, FileOf, MaxCommits,
    ManifestEdits,   \* changes people make to manifests
    AppFaultKinds,   \* faults of the App's calls
    MaxAppTroubles   \* bound: App faults, acts of people other than merges

ASSUME AppAssumption == Watched \subseteq Rems /\ NoRem \notin Rems
ASSUME RepositoryAssumption == /\ BranchOf \in [Rems -> Branches]
                               /\ FileOf \in [Rems -> Files]
                               /\ ManifestEdits \cap Rems = {}
                               /\ MaxAppTroubles \in Nat /\ MaxCommits \in Nat

VARIABLES
    prNumber, base, branch, pulls, todo, listed, appPc, doing, file, ref, sha, pull,
    commits, appFaults, appIntrusions,
    labelled,        \* pull requests with the label "heal8s"
    finished         \* pull requests the workflow has run for

App == INSTANCE GitHubApp WITH pc <- appPc, faults <- appFaults,
           intrusions <- appIntrusions, Edits <- ManifestEdits,
           FaultKinds <- AppFaultKinds, MaxTroubles <- MaxAppTroubles

controllerVars == <<target, caches, queues, worker, dashboard, overdue, history, counters>>
appVars == <<prNumber, base, branch, pulls, commits, todo, listed, appPc, doing,
             file, ref, sha, pull, appFaults, appIntrusions>>
workflowVars == <<labelled, finished>>
systemVars == <<cr, controllerVars, appVars, workflowVars>>

SystemInit == Init /\ App!Init /\ labelled = {} /\ finished = {}

-----------------------------------------------------------------------------
\* The controller, other writers of workloads, and the clock.
OperatorStep ==
    /\ \/ \E m \in Managers : ManagerStep(m)
       \/ \E t \in Targets : TargetStep(t)
       \/ \E r \in Rems : TtlElapses(r)
    /\ UNCHANGED <<appVars, workflowVars>>

\* The webhook and users write Remediation objects.
UserStep ==
    /\ \E r \in Rems :
           \/ \E s \in Specs : \/ CreateRemediation(r, s) /\ App!CreateRemediation(r, s)
                               \/ EditSpec(r, s) /\ App!EditSpec(r, s)
           \/ DeleteRemediation(r) /\ App!DeleteRemediation(r)
    /\ UNCHANGED workflowVars

AppWork(a) == App!Work(a) /\ UNCHANGED <<controllerVars, workflowVars>>
AppCrash(a) == App!Crash(a) /\ UNCHANGED <<controllerVars, workflowVars>>

RepositoryStep == App!PeopleStep /\ UNCHANGED <<controllerVars, workflowVars>>

\* The App sets no label on its pull requests (PRLabels is read nowhere), but
\* people may.
Label(n) ==
    /\ n \in DOMAIN pulls /\ n \notin labelled
    /\ pulls[n].state = "open"
    /\ labelled' = labelled \cup {n}
    /\ UNCHANGED <<cr, controllerVars, appVars, finished>>

\* actions/checkout fetches one commit when it is given no depth; git diff then
\* knows no HEAD~1 and names no file.
FetchDepth == 1
ChangedFiles(n) == IF FetchDepth > 1 THEN {FileOf[pulls[n].rem]} ELSE {}

\* The step ends at once when no file has changed; its loop is never reached.
ApplyManifests(n) == ChangedFiles(n) = {} /\ UNCHANGED controllerVars

\* A patch that does not name the status subresource: the API server keeps the
\* stored status, and stores no new version when nothing else differs.
PatchedWithoutStatus(stored, patch) ==
    IF patch.spec = stored.spec THEN stored ELSE Respecified(stored, patch.spec)

ReportedStatus(o) == [o EXCEPT !.phase = "Succeeded", !.waiting = FALSE, !.appliedAt = TRUE]

\* The remediations with the number of the pull request are patched.
UpdateRemediations(n) ==
    cr' = [r \in Rems |-> IF cr[r].exists /\ prNumber[r] = n
                          THEN PatchedWithoutStatus(cr[r], ReportedStatus(cr[r]))
                          ELSE cr[r]]

\* The workflow runs once, when a labelled pull request is merged.  A step that
\* fails ends it: "Verify deployment" asks for a deployment "unknown", because
\* the pattern "Target: " is not in the text of the pull request, and only if
\* there is one of that name are the remediations updated.
Workflow(n) ==
    /\ n \in labelled \ finished
    /\ pulls[n].state = "merged"
    /\ finished' = finished \cup {n}
    /\ ApplyManifests(n)
    /\ UpdateRemediations(n) \/ UNCHANGED cr
    /\ UNCHANGED <<appVars, labelled>>

SystemNext ==
    \/ OperatorStep \/ UserStep
    \/ \E a \in Apps : AppWork(a) \/ AppCrash(a)
    \/ RepositoryStep
    \/ \E n \in DOMAIN pulls : Label(n) \/ Workflow(n)

SystemSpec == SystemInit /\ [][SystemNext]_systemVars

\* The App goes on; the operator may be slow, or down, at any moment.
AppFairSpec == SystemSpec /\ \A a \in Apps : WF_systemVars(AppWork(a))

\* The fairness of both programs, and of the service that runs workflows.
SystemFairness ==
    /\ Fairness
    /\ \A a \in Apps : WF_systemVars(AppWork(a))
    /\ WF_systemVars(\E n \in DOMAIN pulls : Workflow(n))

SystemFairSpec == SystemSpec /\ SystemFairness

-----------------------------------------------------------------------------
(* Properties *)

\* With the real App in place of the guess AppSetsStatus, the controller still
\* behaves as RemediationController says: the App, which writes what it listed
\* many calls earlier, changes only objects that are still pending.
ControllerSpec == Spec

\* With the real controller, its caches and its competing managers in place of
\* the guess RemediationStep, the App and the repository still behave as
\* GitHubApp says.
AppSpec == App!Spec

\* A remediation announced with a pull request is never patched directly, nor
\* the other way round, although the App lists remediations in direct mode
\* while the controller works on them: whichever of the two commits first
\* makes the other's write conflict.
PulledOrPatched == \A r \in Rems : prNumber[r] # 0 => applied[r] = 0

\* No remediation is left pending for ever while nobody writes it: in spite of
\* failed calls, lost replies, a crash in any step and branches that earlier
\* attempts left behind, the App's polls go on until it is answered, with a pull
\* request or with Failed, or is no longer one to list.  A write of somebody
\* else makes the App's conflict, so nothing is promised of a remediation that
\* is rewritten without end, as the controller does in GitOps mode.
AnsweredUnlessRewritten ==
    \A r \in Watched : \/ []<>~Listable(cr[r])
                       \/ []<><<cr'[r] # cr[r]>>_cr

\* "Update CR: Patches Remediation CR status to Succeeded": when the workflow
\* has run for a pull request, its remediation does not stay in PRCreated.
MergeIsReported ==
    \A r \in Rems :
        prNumber[r] \in finished ~> ~cr[r].exists \/ cr[r].phase # "PRCreated"

-----------------------------------------------------------------------------
(* The inductive invariants behind the safety properties. *)

\* What an instance of the App has listed is the stored object or an older
\* version of it, and the copies it still works with were listable.
ListedInv ==
    /\ \A r \in Rems : cr[r].exists => cr[r].rv # 0
    /\ \A a \in Apps :
           /\ appPc[a] # "idle" => doing[a] \in Rems \ todo[a]
           /\ \A r \in Rems :
                  /\ listed[a][r].rv <= cr[r].rv
                  /\ Current(listed[a][r], cr[r]) => listed[a][r] = cr[r]
                  /\ r \in todo[a] \/ (appPc[a] # "idle" /\ doing[a] = r) => Listable(listed[a][r])

\* Only a pull request gives a remediation a number, and what follows PRCreated
\* is Expired.
NumberedInv == \A r \in Rems : prNumber[r] # 0 => cr[r].phase \in {"PRCreated", "Expired"}
=============================================================================
