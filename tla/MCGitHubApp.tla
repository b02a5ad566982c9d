----------------------------- MODULE MCGitHubApp -----------------------------
(* Small instances of the GitHub App. *)
EXTENDS GitHubApp, TLC

CONSTANTS a1, a2, r1, b1, f1, e1

GitOps == [mode |-> "GitOps", requireApproval |-> TRUE,
           action |-> "IncreaseMemory", ttl |-> TRUE, github |-> TRUE]
Direct == [GitOps EXCEPT !.mode = "Direct", !.requireApproval = FALSE]

TwoApps == {a1, a2}
OneApp == {a1}
OneRem == {r1}
OneBranch == {b1}
OneFile == {f1}
OneEdit == {e1}
NoEdits == {}
EveryRemBranch == [r \in Rems |-> b1]
EveryRemFile == [r \in Rems |-> f1]
GitOpsOnly == {GitOps}
GitOpsOrDirect == {GitOps, Direct}
NoFaults == {}
AllFaults == {"error", "lost", "crash"}

Symmetry == Permutations({a1, a2})
=============================================================================
