--------------------------- MODULE RemediationTypes ---------------------------
(***************************************************************************)
(* The Remediation object that the operator and the GitHub App share       *)
(* through the API server: operator/api/v1alpha1/remediation_types.go and  *)
(* its copy in github-app/pkg/api/v1alpha1.  Each status below is what one *)
(* handler of the two programs assigns to the fields that code tests.      *)
(***************************************************************************)
EXTENDS Naturals

CONSTANT Specs   \* the specs a user or the webhook may write

DirectActions == {"IncreaseMemory", "ScaleUp", "RollbackImage"}
ActionTypes == DirectActions \cup {"CustomScript"}

\* ttl: TTL parses to a duration; github: GitHub is present and enabled.
SpecType == [mode : {"GitOps", "Direct"}, requireApproval : BOOLEAN,
             action : ActionTypes, ttl : BOOLEAN, github : BOOLEAN]

ASSUME SpecsAssumption == Specs \subseteq SpecType /\ Specs # {}

Terminal == {"Succeeded", "Failed", "Expired"}
\* "New" stands for the empty phase of an object no handler has seen.
Phases == {"New", "Pending", "Analyzing", "PRCreated", "Applying"} \cup Terminal

\* rv and generation are metadata: the version, and the version of the spec.
\* waiting: the Reason set by the GitOps wait.  The pull request's number is
\* kept by the model of the App, the only program that reads or writes it.
Remediation == [exists : BOOLEAN, rv : Nat, generation : Nat, spec : Specs,
                phase : Phases, waiting : BOOLEAN, attempts : Nat,
                appliedAt : BOOLEAN, resolvedAt : BOOLEAN]

NoRemediation == [exists |-> FALSE, rv |-> 0, generation |-> 0,
                  spec |-> CHOOSE s \in Specs : TRUE,
                  phase |-> "New", waiting |-> FALSE, attempts |-> 0,
                  appliedAt |-> FALSE, resolvedAt |-> FALSE]

\* An object as the API server stores it when it is created.
Created(s) == [NoRemediation EXCEPT !.exists = TRUE, !.rv = 1, !.generation = 1, !.spec = s]

-----------------------------------------------------------------------------
(* The API server. *)

\* Variant: writes are not versioned.
CurrentUnversioned(copy, stored) == stored.exists

\* The API server accepts an update only for the version it stores.
Current(copy, stored) == stored.exists /\ copy.rv = stored.rv
Bump(o) == [o EXCEPT !.rv = @ + 1]

Respecified(o, s) == Bump([o EXCEPT !.spec = s, !.generation = @ + 1])
Deleted(o) == Bump([o EXCEPT !.exists = FALSE])

-----------------------------------------------------------------------------
(* The new status each handler writes. *)

NewStatus(o) == [o EXCEPT !.phase = "Pending", !.waiting = FALSE]
AnalyzingStatus(o) == [o EXCEPT !.phase = "Analyzing", !.waiting = FALSE]
WaitingStatus(o) == [o EXCEPT !.phase = "Pending", !.waiting = TRUE]
PRCreatedStatus(o) == [o EXCEPT !.phase = "PRCreated", !.waiting = FALSE]
ApplyingStatus(o) == [o EXCEPT !.phase = "Applying", !.waiting = FALSE,
                               !.attempts = @ + 1]
SucceededStatus(o) == [o EXCEPT !.phase = "Succeeded", !.waiting = FALSE,
                                !.appliedAt = TRUE, !.resolvedAt = TRUE]
FailedStatus(o) == [o EXCEPT !.phase = "Failed", !.waiting = FALSE,
                             !.resolvedAt = TRUE]

\* Variant: the resolution time is forgotten.
ExpiredUnresolvedStatus(o) == [o EXCEPT !.phase = "Expired", !.waiting = FALSE]

ExpiredStatus(o) == [o EXCEPT !.phase = "Expired", !.waiting = FALSE,
                              !.resolvedAt = TRUE]

-----------------------------------------------------------------------------
(* What the programs ask of an object. *)

\* Variant: approval is not looked at.
IsDirectUnapproved(s) == s.mode = "Direct"

IsDirect(s) == s.mode = "Direct" /\ ~s.requireApproval

\* ListPendingRemediations keeps it.
Listable(o) == o.exists /\ o.phase = "Pending" /\ o.spec.github

\* Handlers of the controller compute status o from a stored object c.
Computed(c, o) ==
    \/ c.phase = "New" /\ o = NewStatus(c)
    \/ c.phase = "Pending" /\ o \in {AnalyzingStatus(c), FailedStatus(c)}
    \/ c.phase = "Analyzing" /\ ~IsDirect(c.spec) /\ o = WaitingStatus(c)
    \/ c.phase = "Analyzing" /\ IsDirect(c.spec) /\ o \in {ApplyingStatus(c), FailedStatus(c)}
    \/ c.phase = "PRCreated" /\ o = ExpiredStatus(c)
    \/ c.phase = "Applying" /\ o \in {SucceededStatus(c), FailedStatus(c)}
=============================================================================
