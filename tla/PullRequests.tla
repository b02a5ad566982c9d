---------------------------- MODULE PullRequests ----------------------------
(***************************************************************************)
(* What the GitHub App promises those who read statuses and review pull    *)
(* requests (github-app/internal/remediation/processor.go), without its    *)
(* polls, branches, commits, calls and restarts: a pull request is opened  *)
(* while none is open on the remediation's branch, announced after it was  *)
(* opened and to a remediation that still waits for it, and a remediation's *)
(* change reaches the base branch by a merge.                              *)
(***************************************************************************)
EXTENDS Naturals, Sequences

CONSTANTS Rems, BranchOf

VARIABLES
    phase, number,   \* status of each remediation: phase and prNumber
    pulls,           \* pull requests, by number
    landed           \* remediations whose change is on the base branch

promised == <<phase, number, pulls, landed>>

Init ==
    /\ phase = [r \in Rems |-> "New"]
    /\ number = [r \in Rems |-> 0]
    /\ pulls = <<>>
    /\ landed = {}

Open(r) ==
    /\ \A n \in DOMAIN pulls : pulls[n].head = BranchOf[r] => pulls[n].state # "open"
    /\ pulls' = Append(pulls, [head |-> BranchOf[r], rem |-> r, state |-> "open"])
    /\ UNCHANGED <<phase, number, landed>>

Move(r, from, to) == /\ phase[r] = from
                     /\ phase' = [phase EXCEPT ![r] = to]
                     /\ UNCHANGED <<pulls, landed>>

Announce(r, n) ==
    /\ pulls[n].rem = r
    /\ Move(r, "Pending", "PRCreated")
    /\ number' = [number EXCEPT ![r] = n]

\* Either program gives up a pending remediation.
Refuse(r) == Move(r, "Pending", "Failed") /\ UNCHANGED number

\* What the operator does meanwhile.
Operate(r) ==
    /\ \/ Move(r, "New", "Pending") \/ Move(r, "Pending", "Analyzing")
       \/ Move(r, "Analyzing", "Pending") \/ Move(r, "Analyzing", "Applying")
       \/ Move(r, "Applying", "Succeeded") \/ Move(r, "PRCreated", "Expired")
       \/ Move(r, "Analyzing", "Failed") \/ Move(r, "Applying", "Failed")
    /\ UNCHANGED number

End(n, state) == /\ pulls[n].state = "open"
                 /\ pulls' = [pulls EXCEPT ![n].state = state]
                 /\ UNCHANGED <<phase, number>>

\* A merge brings changes of remediations whose branch has been merged, and
\* may take others back.
Merge(n) ==
    /\ End(n, "merged")
    /\ landed' \subseteq {r \in Rems : \E m \in DOMAIN pulls' :
                             pulls'[m].head = BranchOf[r] /\ pulls'[m].state = "merged"}

Close(n) == End(n, "closed") /\ UNCHANGED landed

Next ==
    \/ \E r \in Rems : \/ Open(r) \/ Refuse(r) \/ Operate(r)
                       \/ \E n \in DOMAIN pulls : Announce(r, n)
    \/ \E n \in DOMAIN pulls : Merge(n) \/ Close(n)

Spec == Init /\ [][Next]_promised
=============================================================================
