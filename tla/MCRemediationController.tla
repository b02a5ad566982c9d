----------------------- MODULE MCRemediationController -----------------------
(* Small instances of the Remediation controller. *)
EXTENDS RemediationController, TLC

CONSTANTS m1, m2, r1, t1, e1

\* The webhook's default (RouteAlert) with GitHub enabled, and the emergency mode.
GitOps == [mode |-> "GitOps", requireApproval |-> TRUE,
           action |-> "IncreaseMemory", ttl |-> TRUE, github |-> TRUE]
Direct == [mode |-> "Direct", requireApproval |-> FALSE,
           action |-> "IncreaseMemory", ttl |-> FALSE, github |-> FALSE]
DirectWithApproval == [Direct EXCEPT !.requireApproval = TRUE]
\* Direct mode does not keep the GitHub App away (ListPendingRemediations).
DirectWithPull == [Direct EXCEPT !.ttl = TRUE, !.github = TRUE]

TwoManagers == {m1, m2}
OneManager == {m1}
OneRem == {r1}
OneTarget == {t1}
OneEdit == {e1}
NoEdits == {}
EveryRemTarget == [r \in Rems |-> t1]
AllDeployments == [t \in Targets |-> "Deployment"]
DirectOnly == {Direct}
DirectWithPullOnly == {DirectWithPull}
DirectOrApproval == {Direct, DirectWithApproval}
GitOpsOnly == {GitOps}
NoFaults == {}
AllFaults == {"error", "lost", "crash"}
Crashes == {"crash"}
ErrorsAndCrashes == {"error", "crash"}

Symmetry == Permutations({m1, m2})
=============================================================================
