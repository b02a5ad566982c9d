------------------------ MODULE RemediationLifecycle ------------------------
(***************************************************************************)
(* What the status of a Remediation promises its readers (users, the      *)
(* dashboard, the GitHub App), whatever managers and services write it:   *)
(* the legal phase changes of operator/api/v1alpha1/remediation_types.go,  *)
(* and that the target is patched in Applying only, and once.              *)
(***************************************************************************)
EXTENDS Naturals

CONSTANT Rems

VARIABLES phase, patches
lifecycle == <<phase, patches>>

Init == /\ phase = [r \in Rems |-> "New"]
        /\ patches = [r \in Rems |-> 0]

Move(r, from, to) == /\ phase[r] = from
                     /\ phase' = [phase EXCEPT ![r] = to]
                     /\ UNCHANGED patches

Accept(r) == Move(r, "New", "Pending")
Analyze(r) == Move(r, "Pending", "Analyzing")
AwaitPR(r) == Move(r, "Analyzing", "Pending")
OpenPR(r) == Move(r, "Pending", "PRCreated")
Expire(r) == Move(r, "PRCreated", "Expired")
Commit(r) == Move(r, "Analyzing", "Applying")
Succeed(r) == patches[r] = 1 /\ Move(r, "Applying", "Succeeded")
Fail(r) == \E from \in {"Pending", "Analyzing", "Applying"} : Move(r, from, "Failed")

Patch(r) == /\ phase[r] = "Applying" /\ patches[r] = 0
            /\ patches' = [patches EXCEPT ![r] = 1]
            /\ UNCHANGED phase

Next == \E r \in Rems :
    \/ Accept(r) \/ Analyze(r) \/ AwaitPR(r) \/ OpenPR(r) \/ Expire(r)
    \/ Commit(r) \/ Patch(r) \/ Succeed(r) \/ Fail(r)

Spec == Init /\ [][Next]_lifecycle
=============================================================================
