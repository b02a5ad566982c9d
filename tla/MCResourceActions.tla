-------------------------- MODULE MCResourceActions --------------------------
(* Small instances of the actions on workloads. *)
EXTENDS ResourceActions

CONSTANTS v1, v2, proxy

TwoNames == {"app", "sidecar"}
SomeImages == {v1, v2, proxy}

C(name, limit, image) == [name |-> name, limit |-> limit, request |-> limit, image |-> image]
W(kind, containers, replicas) ==
    [kind |-> kind, containers |-> containers, replicas |-> replicas,
     stable |-> None, attempted |-> None]

\* One container or two, with limits and replica counts about the boundaries.
Limits == {0, 1, 64, 100, 2048, 3000}
OneContainer == {W(kind, <<C("app", limit, v1)>>, n) :
                    kind \in {"Deployment", "DaemonSet"}, limit \in Limits,
                    n \in {Unset, 0, 1, 10, 15}}
TwoContainers == {W("Deployment", <<C("app", limit, v1), C("sidecar", 100, proxy)>>, 1) :
                     limit \in Limits}
AllWorkloads == OneContainer \cup TwoContainers

Memory(container, percent, max) ==
    [type |-> "IncreaseMemory", container |-> container, percent |-> percent, max |-> max]
Scale(percent, max) ==
    [type |-> "ScaleUp", container |-> None, percent |-> percent, max |-> max]
Rollback == [type |-> "RollbackImage", container |-> None, percent |-> Absent, max |-> Absent]

DefaultRequests ==
    {Memory(None, Absent, Absent), Memory("app", Number(10), Absent), Scale(Absent, Absent)}
AllRequests == DefaultRequests \cup
    {Memory("app", Garbage, Number(512)), Memory("app", Number(-50), Absent),
     Scale(Number(100), Garbage), Scale(Number(10), Number(4)), Scale(Number(-50), Absent),
     Rollback}
=============================================================================
