--------------------------- MODULE ResourceActions ---------------------------
(***************************************************************************)
(* What a remediation does to a workload: the operator's functions          *)
(* (operator/internal/remediate: oom.go, scale.go, rollback.go), which      *)
(* change the object in the cluster, and those of the GitHub App            *)
(* (github-app/internal/yaml/patcher.go), which change the manifest.        *)
(*                                                                         *)
(* Memory is in Mi, 0 for a limit that is absent or zero.  For limits in    *)
(* whole Mi the code's float product, cut to bytes and rounded up to 64Mi,  *)
(* is the exact product rounded up; replica products stay far below 2^31.   *)
(***************************************************************************)
EXTENDS Integers, Sequences

CONSTANTS
    Names,       \* names of containers
    Images,
    Workloads,   \* the workloads to start with
    Requests     \* the actions asked for: [type, container, percent, max]

None == "none"
Unset == -1      \* spec.replicas is nil

DefaultLimit == 256
RoundTo == 64

(* A parameter's text, by how it is read: strconv.Atoi (and ParseQuantity) take
   the whole text, fmt.Sscanf the digits it starts with; {} is an error. *)
Absent == [given |-> FALSE, atoi |-> {}, scan |-> {}]
Number(n) == [given |-> TRUE, atoi |-> {n}, scan |-> {n}]
WithUnit(n) == [given |-> TRUE, atoi |-> {}, scan |-> {n}]
Garbage == [given |-> TRUE, atoi |-> {}, scan |-> {}]

Container == [name : Names, limit : Nat, request : Nat, image : Images]

Workload == [kind : {"Deployment", "StatefulSet", "DaemonSet"},
             containers : Seq(Container) \ {<<>>},
             replicas : Nat \cup {Unset},
             stable : Images \cup {None},
             attempted : Images \cup {None}]

Read(value, default) == IF value = {} THEN default ELSE CHOOSE n \in value : TRUE

VARIABLE workload

ASSUME ImagesAssumption == None \notin Images
ASSUME WorkloadsAssumption == Workloads \subseteq Workload

MinOf(a, b) == IF a <= b THEN a ELSE b
CeilDiv(a, b) == (a + b - 1) \div b

\* Both resources of container i become memory.
WithMemory(w, i, memory) ==
    [w EXCEPT !.containers =
        [w.containers EXCEPT ![i] = [@ EXCEPT !.limit = memory, !.request = memory]]]

WithReplicas(w, n) == [w EXCEPT !.replicas = n]

-----------------------------------------------------------------------------
(* The operator.  The result of an action is a set: empty if it fails. *)

MemoryPercent(req) == Read(req.percent.atoi, 25)
ScalePercent(req) == Read(req.percent.atoi, 50)

\* maxMemory is a quantity, which both programs read alike.
MaxMemory(req) == Read(req.max.atoi, 2048)
MaxReplicas(req) == Read(req.max.atoi, 10)

\* A percentage below -100 would make a limit that the API server refuses.
ASSUME RequestsAssumption ==
    \A req \in Requests :
        /\ req.type \in {"IncreaseMemory", "ScaleUp", "RollbackImage"}
        /\ MemoryPercent(req) \in Int /\ MemoryPercent(req) >= -100
        /\ ScalePercent(req) \in Int
        /\ MaxMemory(req) \in Nat /\ MaxReplicas(req) \in Nat

\* Variant: without a name, the first container.
ChosenOrFirst(w, name) ==
    {i \in DOMAIN w.containers : IF name = None THEN i = 1 ELSE w.containers[i].name = name}

\* The first container of that name; without a name, the only one.
Chosen(w, name) ==
    IF name = None /\ Len(w.containers) = 1
    THEN {1}
    ELSE {i \in DOMAIN w.containers :
            /\ w.containers[i].name = name
            /\ \A j \in 1 .. i - 1 : w.containers[j].name # name}

StartingLimit(limit) == IF limit = 0 THEN DefaultLimit ELSE limit

\* Variant: rounded to the nearest step, as the code's comment says.
CalculateMemoryIncreaseNearest(current, percent, max) ==
    LET rounded == RoundTo * ((current * (100 + percent) + 50 * RoundTo) \div (100 * RoundTo))
    IN  MinOf(rounded, max)

CalculateMemoryIncrease(current, percent, max) ==
    MinOf(RoundTo * CeilDiv(current * (100 + percent), 100 * RoundTo), max)

ApplyIncreaseMemory(w, req) ==
    {WithMemory(w, i, CalculateMemoryIncrease(StartingLimit(w.containers[i].limit),
                                              MemoryPercent(req), MaxMemory(req)))
        : i \in Chosen(w, req.container)}

StartingReplicas(n) == IF n = Unset THEN 1 ELSE n

\* Variant: without the increase of at least one.
CalculateScaleUpPlain(current, percent, max) ==
    MinOf(current + (current * percent) \div 100, max)

CalculateScaleUp(current, percent, max) ==
    LET increase == (current * percent) \div 100
    IN  MinOf(current + (IF increase < 1 THEN 1 ELSE increase), max)

ApplyScaleUp(w, req) ==
    IF w.kind \in {"Deployment", "StatefulSet"}
    THEN {WithReplicas(w, CalculateScaleUp(StartingReplicas(w.replicas),
                                           ScalePercent(req), MaxReplicas(req)))}
    ELSE {}

\* Variant: the annotation is not looked at.
RollbackUnchecked(w, req) ==
    {[w EXCEPT !.attempted = w.containers[Len(w.containers)].image,
               !.containers = [i \in DOMAIN w.containers |->
                                  [w.containers[i] EXCEPT !.image = image]]]
        : image \in IF w.kind = "Deployment" THEN {w.stable} ELSE {}}

\* Every container gets the one stable image; the last one's image is kept.
ApplyRollbackImage(w, req) ==
    {[w EXCEPT !.attempted = w.containers[Len(w.containers)].image,
               !.containers = [i \in DOMAIN w.containers |->
                                  [w.containers[i] EXCEPT !.image = image]]]
        : image \in IF w.kind = "Deployment" THEN {w.stable} \ {None} ELSE {}}

\* What the operator makes of a workload.
Results(w, req) ==
    CASE req.type = "IncreaseMemory" -> ApplyIncreaseMemory(w, req)
      [] req.type = "ScaleUp" -> ApplyScaleUp(w, req)
      [] req.type = "RollbackImage" -> ApplyRollbackImage(w, req)

-----------------------------------------------------------------------------
(* The GitHub App: the same sums in other words, with other parsers. *)

PatchIncreaseMemory(w, req) ==
    LET percent == Read(req.percent.scan, 25)
        patched(limit) == MinOf(RoundTo * CeilDiv(StartingLimit(limit) * (100 + percent),
                                                  100 * RoundTo), MaxMemory(req))
    IN {WithMemory(w, i, patched(w.containers[i].limit)) : i \in Chosen(w, req.container)}

\* Variant: a replica count that is not set counts as none.
PatchScaleUpFromZero(w, req) ==
    LET percent == Read(req.percent.scan, 50)
        max == IF req.max.given THEN Read(req.max.scan, 0) ELSE 10
        current == IF w.replicas = Unset THEN 0 ELSE w.replicas
    IN IF w.kind \in {"Deployment", "StatefulSet"}
       THEN {WithReplicas(w, CalculateScaleUp(current, percent, max))}
       ELSE {}

\* A maxReplicas that cannot be read is 0, where the operator takes 10.
PatchScaleUp(w, req) ==
    LET percent == Read(req.percent.scan, 50)
        max == IF req.max.given THEN Read(req.max.scan, 0) ELSE 10
        current == IF w.replicas = Unset THEN 1 ELSE w.replicas
        increase == (current * percent) \div 100
        patched == current + (IF increase < 1 THEN 1 ELSE increase)
    IN IF w.kind \in {"Deployment", "StatefulSet"}
       THEN {WithReplicas(w, MinOf(patched, max))}
       ELSE {}

\* What the App makes of a manifest; other action types are refused.
PatchManifest(w, req) ==
    CASE req.type = "IncreaseMemory" -> PatchIncreaseMemory(w, req)
      [] req.type = "ScaleUp" -> PatchScaleUp(w, req)
      [] OTHER -> {}

-----------------------------------------------------------------------------
(* A workload through many remediations. *)

Init == workload \in Workloads

Remediate(req) == workload' \in Results(workload, req)

\* The annotation a deployment pipeline is to set after a success.
MarkImageAsStable ==
    /\ workload.kind = "Deployment"
    /\ workload' = [workload EXCEPT !.stable = workload.containers[1].image]

\* A user rolls out another image of a container.
Deploy(i, image) ==
    workload' = [workload EXCEPT !.containers =
                    [workload.containers EXCEPT ![i] = [@ EXCEPT !.image = image]]]

Next ==
    \/ \E req \in Requests : Remediate(req)
    \/ MarkImageAsStable
    \/ \E i \in DOMAIN workload.containers, image \in Images : Deploy(i, image)

Spec == Init /\ [][Next]_workload

-----------------------------------------------------------------------------
(* Properties *)

\* The workload stays a workload; limits and replica counts are never negative.
TypeOK == workload \in Workload

\* Both programs take the texts of the request for the same numbers.
ReadAlike(req) ==
    /\ req.percent.atoi = req.percent.scan
    /\ req.type = "ScaleUp" =>
          /\ req.max.atoi = req.max.scan
          /\ req.max.given <=> req.max.atoi # {}

\* A remediation means the same in both modes: the App's patch of a manifest is
\* what the operator would do to the object, refusals included.
PatchersAgree ==
    \A req \in Requests :
        req.type # "RollbackImage" /\ ReadAlike(req)
            => PatchManifest(workload, req) = Results(workload, req)

\* A limit or a replica count below its cap grows with every remediation that
\* asks for more, however small it and the percentage are, and never passes the
\* cap.  A result that leaves the value where it was, because the rounding or
\* the whole-number percentage holds it, is a violation.
BelowCapGrows ==
    \A req \in Requests : \A result \in Results(workload, req) :
        /\ req.type = "IncreaseMemory" =>
              \A i \in Chosen(workload, req.container) :
                  LET before == StartingLimit(workload.containers[i].limit)
                      after == result.containers[i].limit
                  IN  MemoryPercent(req) >= 1 /\ before < MaxMemory(req)
                          => before < after /\ after <= MaxMemory(req)
        /\ req.type = "ScaleUp" =>
              LET before == StartingReplicas(workload.replicas)
              IN  before < MaxReplicas(req)
                      => before < result.replicas /\ result.replicas <= MaxReplicas(req)

\* A container that was not asked for is not touched, and neither is any when
\* the request does not say which of several it means.
OnlyTheChosen ==
    [][\A req \in Requests : req.type = "IncreaseMemory" /\ Remediate(req) =>
          \A i \in DOMAIN workload.containers :
              workload'.containers[i] # workload.containers[i] =>
                  \/ workload.containers[i].name = req.container
                  \/ Len(workload.containers) = 1]_workload
=============================================================================
