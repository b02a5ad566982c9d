----------------------------- MODULE AlertIntake -----------------------------
(***************************************************************************)
(* What the webhook promises (operator/internal/webhooks/alertmanager_     *)
(* handler.go), without its map of seen alerts, its cleanup, its requests, *)
(* goroutines and caches: a process lets a firing alert through once in    *)
(* every TTL; an alert let through leads to at most one Remediation, the   *)
(* one its route asks for, and never in place of another.                  *)
(***************************************************************************)
EXTENDS Naturals

CONSTANTS
    Replicas, TTL,
    KeyOf,         \* the deduplication key of each alert
    NameOf,        \* the name of each alert's Remediation
    RemediationOf, \* the Remediation of each alert that has a route
    Firing         \* alerts with status "firing"

VARIABLES
    age,    \* age[p][k]: time since process p let key k through, up to the TTL
    owed,   \* owed[p][a]: times alert a was let through and may still be created
    object  \* Remediations, by name

intake == <<age, owed, object>>

Sent == DOMAIN KeyOf
Keys == {KeyOf[a] : a \in Sent}
Names == {NameOf[a] : a \in Sent}
Routed == DOMAIN RemediationOf

Init ==
    /\ age = [p \in Replicas |-> [k \in Keys |-> TTL]]
    /\ owed = [p \in Replicas |-> [a \in Sent |-> 0]]
    /\ object = [n \in Names |-> [exists |-> FALSE]]

\* An alert is let through; work on it that is still going on may serve both.
LetThrough(p, a) ==
    /\ a \in Firing
    /\ age[p][KeyOf[a]] = TTL
    /\ age' = [age EXCEPT ![p][KeyOf[a]] = 0]
    /\ owed' \in {owed, [owed EXCEPT ![p][a] = @ + 1]}
    /\ UNCHANGED object

Settle(p, a) == /\ owed[p][a] > 0
                /\ owed' = [owed EXCEPT ![p][a] = @ - 1]
                /\ UNCHANGED age

Drop(p, a) == Settle(p, a) /\ UNCHANGED object

Create(p, a) ==
    /\ Settle(p, a)
    /\ a \in Routed
    /\ ~object[NameOf[a]].exists
    /\ object' = [object EXCEPT ![NameOf[a]] = RemediationOf[a]]

Tick == /\ age' = [p \in Replicas |-> [k \in Keys |->
                      IF age[p][k] < TTL THEN age[p][k] + 1 ELSE TTL]]
        /\ UNCHANGED <<owed, object>>

\* A process restarts with an empty memory.
Restart(p) == /\ age' = [age EXCEPT ![p] = [k \in Keys |-> TTL]]
              /\ owed' = [owed EXCEPT ![p] = [a \in Sent |-> 0]]
              /\ UNCHANGED object

Delete(n) == /\ object[n].exists
             /\ object' = [object EXCEPT ![n] = [exists |-> FALSE]]
             /\ UNCHANGED <<age, owed>>

Next ==
    \/ Tick
    \/ \E p \in Replicas :
          Restart(p) \/ \E a \in Sent : LetThrough(p, a) \/ Drop(p, a) \/ Create(p, a)
    \/ \E n \in Names : Delete(n)

Spec == Init /\ [][Next]_intake
=============================================================================
