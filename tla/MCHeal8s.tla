------------------------------- MODULE MCHeal8s -------------------------------
(* Small instances of the whole system. *)
EXTENDS Heal8s, TLC

CONSTANTS m1, a1, r1, t1, b1, f1

\* The App lists both: direct mode does not keep it away.
GitOps == [mode |-> "GitOps", requireApproval |-> TRUE,
           action |-> "IncreaseMemory", ttl |-> FALSE, github |-> TRUE]
Direct == [GitOps EXCEPT !.mode = "Direct", !.requireApproval = FALSE, !.ttl = TRUE]

OneManager == {m1}
OneApp == {a1}
OneRem == {r1}
OneTarget == {t1}
OneBranch == {b1}
OneFile == {f1}
NoEdits == {}
EveryRemTarget == [r \in Rems |-> t1]
EveryRemBranch == [r \in Rems |-> b1]
EveryRemFile == [r \in Rems |-> f1]
AllDeployments == [t \in Targets |-> "Deployment"]
GitOpsOnly == {GitOps}
GitOpsOrDirect == {GitOps, Direct}
NoFaults == {}
AllFaults == {"error", "lost", "crash"}
=============================================================================
