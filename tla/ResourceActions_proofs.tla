------------------------ MODULE ResourceActions_proofs ------------------------
(***************************************************************************)
(* The calculations for every limit, replica count, percentage and cap, and *)
(* every workload they are applied to.                                      *)
(***************************************************************************)
EXTENDS ResourceActions, TLAPS

\* Rounding up to a multiple of RoundTo loses nothing.
LEMMA RoundedUp ==
    ASSUME NEW x \in Nat
    PROVE  /\ RoundTo * CeilDiv(x, 100 * RoundTo) \in Nat
           /\ 100 * (RoundTo * CeilDiv(x, 100 * RoundTo)) >= x
<1>1. 100 * RoundTo = 6400
  BY DEF RoundTo
<1>2. CeilDiv(x, 6400) \in Nat /\ 6400 * CeilDiv(x, 6400) >= x
  BY DEF CeilDiv
<1> QED
  BY <1>1, <1>2 DEF RoundTo

\* The product the code rounds.
LEMMA Product ==
    ASSUME NEW current \in Nat, NEW percent \in Int, percent >= -100
    PROVE  /\ current * (100 + percent) \in Nat
           /\ percent >= 1 => current * (100 + percent) >= 101 * current
<1> DEFINE factor == 100 + percent
<1>1. factor \in Nat
  OBVIOUS
<1>2. \A a, b \in Nat : a * b \in Nat
  OBVIOUS
<1>3. ASSUME percent >= 1 PROVE current * factor >= 101 * current
  <2>1. PICK more \in Nat : factor = 101 + more
    <3>1. percent - 1 \in Nat /\ factor = 101 + (percent - 1)
      BY <1>3
    <3> QED
      BY <3>1
  <2>2. current * factor = 101 * current + current * more
    BY <2>1
  <2>3. current * more \in Nat
    BY <1>2, <2>1
  <2> QED
    BY <2>2, <2>3
<1> QED
  BY <1>1, <1>2, <1>3

\* The new limit is a limit, at most the cap, and larger than one below the cap
\* when the percentage is positive.
LEMMA MemoryCalculation ==
    ASSUME NEW current \in Nat, NEW percent \in Int, percent >= -100, NEW max \in Nat
    PROVE  /\ CalculateMemoryIncrease(current, percent, max) \in Nat
           /\ CalculateMemoryIncrease(current, percent, max) <= max
           /\ percent >= 1 /\ 0 < current /\ current < max =>
                 current < CalculateMemoryIncrease(current, percent, max)
<1> DEFINE x == current * (100 + percent)
           rounded == RoundTo * CeilDiv(x, 100 * RoundTo)
<1>1. x \in Nat /\ (percent >= 1 => x >= 101 * current)
  BY Product
<1>2. rounded \in Nat /\ 100 * rounded >= x
  BY <1>1, RoundedUp
<1>3. CalculateMemoryIncrease(current, percent, max) = MinOf(rounded, max)
  BY DEF CalculateMemoryIncrease
<1> HIDE DEF x, rounded
<1>4. percent >= 1 /\ 0 < current => current < rounded
  BY <1>1, <1>2
<1> QED
  BY <1>2, <1>3, <1>4 DEF MinOf

\* The new replica count is one, and at most the cap.
LEMMA ScaleCalculation ==
    ASSUME NEW current \in Nat, NEW percent \in Int, NEW max \in Nat
    PROVE  /\ CalculateScaleUp(current, percent, max) \in Nat
           /\ CalculateScaleUp(current, percent, max) <= max
           /\ current < max => current < CalculateScaleUp(current, percent, max)
<1> DEFINE increase == (current * percent) \div 100
           step == IF increase < 1 THEN 1 ELSE increase
<1>1. current * percent \in Int
  OBVIOUS
<1>2. \A y \in Int : y \div 100 \in Int
  OBVIOUS
<1>3. increase \in Int
  BY <1>1, <1>2
<1>4. CalculateScaleUp(current, percent, max) = MinOf(current + step, max)
  BY DEF CalculateScaleUp
<1> HIDE DEF increase
<1>5. step \in Nat /\ step >= 1
  BY <1>3
<1> QED
  BY <1>4, <1>5 DEF MinOf

-----------------------------------------------------------------------------
\* The parts of a workload.
LEMMA Fields ==
    ASSUME NEW w \in Workload
    PROVE  /\ w.kind \in {"Deployment", "StatefulSet", "DaemonSet"}
           /\ w.containers \in Seq(Container) /\ w.containers # <<>>
           /\ w.replicas \in Nat \cup {Unset}
           /\ w.stable \in Images \cup {None}
           /\ \A i \in DOMAIN w.containers : w.containers[i] \in Container
  BY DEF Workload

\* The container a request means is one of the workload.
LEMMA ChosenExists ==
    ASSUME NEW w \in Workload, NEW name
    PROVE  Chosen(w, name) \subseteq DOMAIN w.containers
  BY DEF Workload, Chosen

\* A request means at most one container.
LEMMA ChosenIsOne ==
    ASSUME NEW w \in Workload, NEW name,
           NEW i \in Chosen(w, name), NEW j \in Chosen(w, name)
    PROVE  i = j
<1>1. i \in DOMAIN w.containers /\ j \in DOMAIN w.containers
  BY ChosenExists
<1>2. i \in Nat /\ j \in Nat /\ i >= 1 /\ j >= 1
  BY <1>1, Fields
<1> QED
  BY <1>1, <1>2 DEF Chosen

\* Replacing a container by another one keeps a list of containers.
LEMMA ContainerReplaced ==
    ASSUME NEW cs \in Seq(Container) \ {<<>>}, NEW i \in DOMAIN cs, NEW c \in Container
    PROVE  [cs EXCEPT ![i] = c] \in Seq(Container) \ {<<>>}
  OBVIOUS

\* What WithMemory changes, and that the result is a workload.
LEMMA WithMemoryFacts ==
    ASSUME NEW w \in Workload, NEW i \in DOMAIN w.containers, NEW memory \in Nat
    PROVE  LET v == WithMemory(w, i, memory) IN
           /\ v \in Workload
           /\ v.containers[i].limit = memory
           /\ DOMAIN v.containers = DOMAIN w.containers
           /\ \A j \in DOMAIN w.containers \ {i} : v.containers[j] = w.containers[j]
<1> DEFINE c == [w.containers[i] EXCEPT !.limit = memory, !.request = memory]
           cs == [w.containers EXCEPT ![i] = c]
           v == [w EXCEPT !.containers = cs]
<1>1. w.containers[i] \in Container
  BY Fields
<1>2. c \in Container /\ c.limit = memory
  BY <1>1 DEF Container
<1>3. cs \in Seq(Container) \ {<<>>}
  BY <1>2, Fields, ContainerReplaced
<1>4. cs[i] = c /\ DOMAIN cs = DOMAIN w.containers
      /\ \A j \in DOMAIN w.containers \ {i} : cs[j] = w.containers[j]
  BY Fields
<1> HIDE DEF c, cs
<1>5. v \in Workload /\ v.containers = cs
  BY <1>3 DEF Workload
<1>6. WithMemory(w, i, memory) = v
  BY DEF WithMemory, c, cs
<1> QED
  BY <1>2, <1>4, <1>5, <1>6

\* How the memory action makes its result.
LEMMA MemoryResult ==
    ASSUME NEW w \in Workload, NEW req \in Requests, NEW v \in ApplyIncreaseMemory(w, req)
    PROVE  \E i \in Chosen(w, req.container) :
              /\ i \in DOMAIN w.containers
              /\ StartingLimit(w.containers[i].limit) \in Nat \ {0}
              /\ CalculateMemoryIncrease(StartingLimit(w.containers[i].limit),
                                         MemoryPercent(req), MaxMemory(req)) \in Nat
              /\ v = WithMemory(w, i, CalculateMemoryIncrease(
                                         StartingLimit(w.containers[i].limit),
                                         MemoryPercent(req), MaxMemory(req)))
<1>1. PICK i \in Chosen(w, req.container) :
          v = WithMemory(w, i, CalculateMemoryIncrease(StartingLimit(w.containers[i].limit),
                                                       MemoryPercent(req), MaxMemory(req)))
  BY DEF ApplyIncreaseMemory
<1>2. i \in DOMAIN w.containers
  BY ChosenExists
<1>3. StartingLimit(w.containers[i].limit) \in Nat \ {0}
  BY <1>2, Fields DEF Container, StartingLimit, DefaultLimit
<1>4. MemoryPercent(req) \in Int /\ MemoryPercent(req) >= -100 /\ MaxMemory(req) \in Nat
  BY RequestsAssumption
<1>5. CalculateMemoryIncrease(StartingLimit(w.containers[i].limit),
                              MemoryPercent(req), MaxMemory(req)) \in Nat
  BY <1>3, <1>4, MemoryCalculation
<1> QED
  BY <1>1, <1>2, <1>3, <1>5

\* Scaling and rolling back make workloads of workloads.
LEMMA ScaleResult ==
    ASSUME NEW w \in Workload, NEW req \in Requests, NEW v \in ApplyScaleUp(w, req)
    PROVE  v \in Workload
<1> DEFINE n == CalculateScaleUp(StartingReplicas(w.replicas), ScalePercent(req), MaxReplicas(req))
<1>1. v = WithReplicas(w, n)
  BY DEF ApplyScaleUp
<1>2. StartingReplicas(w.replicas) \in Nat
  BY Fields DEF StartingReplicas
<1>3. n \in Nat
  BY <1>2, ScaleCalculation, RequestsAssumption
<1> HIDE DEF n
<1> QED
  BY <1>1, <1>3 DEF WithReplicas, Workload

\* What the image rollback returns.
LEMMA RollbackResult ==
    ASSUME NEW w \in Workload, NEW req \in Requests, NEW v \in ApplyRollbackImage(w, req)
    PROVE  v \in Workload
<1>1. PICK image \in Images :
          v = [w EXCEPT !.attempted = w.containers[Len(w.containers)].image,
                        !.containers = [i \in DOMAIN w.containers |->
                                           [w.containers[i] EXCEPT !.image = image]]]
  BY Fields DEF ApplyRollbackImage
<1> DEFINE cs == [i \in DOMAIN w.containers |-> [w.containers[i] EXCEPT !.image = image]]
           last == w.containers[Len(w.containers)].image
<1>2. \A i \in DOMAIN w.containers : [w.containers[i] EXCEPT !.image = image] \in Container
  BY Fields DEF Container
<1>3. cs \in Seq(Container) \ {<<>>}
  <2>1. PICK n \in Nat : DOMAIN w.containers = 1 .. n /\ n # 0
    BY Fields
  <2>2. cs \in [1 .. n -> Container]
    BY <1>2, <2>1
  <2> HIDE DEF cs
  <2> QED
    BY <2>1, <2>2
<1>4. last \in Images
  <2>1. Len(w.containers) \in DOMAIN w.containers
    BY Fields
  <2> QED
    BY <2>1, Fields DEF Container
<1>5. v = [w EXCEPT !.attempted = last, !.containers = cs]
  BY <1>1
<1> HIDE DEF cs, last
<1> QED
  BY <1>3, <1>4, <1>5 DEF Workload

\* A step keeps a workload a workload.
LEMMA StepKeepsType ==
    ASSUME TypeOK, [Next]_workload
    PROVE  TypeOK'
<1> USE DEF TypeOK
<1>1. ASSUME NEW req \in Requests, Remediate(req) PROVE TypeOK'
  <2>1. CASE req.type = "IncreaseMemory"
    <3>1. workload' \in ApplyIncreaseMemory(workload, req)
      BY <1>1, <2>1 DEF Remediate, Results
    <3> QED
      BY <3>1, MemoryResult, WithMemoryFacts
  <2>2. CASE req.type = "ScaleUp"
    BY <1>1, <2>2, ScaleResult DEF Remediate, Results
  <2>3. CASE req.type = "RollbackImage"
    BY <1>1, <2>3, RollbackResult DEF Remediate, Results
  <2> QED
    BY <2>1, <2>2, <2>3, RequestsAssumption
<1>2. CASE MarkImageAsStable
  <2>1. workload.containers[1].image \in Images
    BY Fields DEF Container
  <2> QED
    BY <1>2, <2>1 DEF MarkImageAsStable, Workload
<1>3. ASSUME NEW i \in DOMAIN workload.containers, NEW image \in Images, Deploy(i, image)
      PROVE  TypeOK'
  <2> DEFINE c == [workload.containers[i] EXCEPT !.image = image]
             cs == [workload.containers EXCEPT ![i] = c]
  <2>1. c \in Container
    BY Fields DEF Container
  <2>2. cs \in Seq(Container) \ {<<>>}
    BY <2>1, Fields, ContainerReplaced
  <2>3. workload' = [workload EXCEPT !.containers = cs]
    BY <1>3 DEF Deploy
  <2> HIDE DEF cs
  <2> QED
    BY <2>2, <2>3 DEF Workload
<1>4. CASE UNCHANGED workload
  BY <1>4
<1> QED
  BY <1>1, <1>2, <1>3, <1>4 DEF Next

\* No sequence of remediations, markings and roll-outs spoils a workload: no
\* limit or replica count becomes negative, no container loses its image.
THEOREM TypeCorrect == Spec => []TypeOK
<1>1. Init => TypeOK
  BY WorkloadsAssumption DEF Init, TypeOK
<1> QED
  BY <1>1, StepKeepsType, PTL DEF Spec

\* Every result for a limit or a replica count below its cap is larger, and at
\* most the cap: no rounding holds a value, whatever the percentage.
THEOREM GrowsBelowCap == Spec => []BelowCapGrows
<1>1. ASSUME TypeOK, NEW req \in Requests, req.type = "IncreaseMemory",
             NEW result \in Results(workload, req), NEW j \in Chosen(workload, req.container),
             MemoryPercent(req) >= 1, StartingLimit(workload.containers[j].limit) < MaxMemory(req)
      PROVE  /\ StartingLimit(workload.containers[j].limit) < result.containers[j].limit
             /\ result.containers[j].limit <= MaxMemory(req)
  <2> DEFINE limit(i) == StartingLimit(workload.containers[i].limit)
             new(i) == CalculateMemoryIncrease(limit(i), MemoryPercent(req), MaxMemory(req))
  <2>1. result \in ApplyIncreaseMemory(workload, req)
    BY <1>1 DEF Results
  <2>2. PICK i \in Chosen(workload, req.container) :
            /\ i \in DOMAIN workload.containers
            /\ limit(i) \in Nat \ {0}
            /\ new(i) \in Nat
            /\ result = WithMemory(workload, i, new(i))
    BY <1>1, <2>1, MemoryResult DEF TypeOK
  <2>3. result.containers[i].limit = new(i)
    BY <1>1, <2>2, WithMemoryFacts DEF TypeOK
  <2>4. j = i
    BY <1>1, <2>2, ChosenIsOne DEF TypeOK
  <2>5. /\ MemoryPercent(req) \in Int /\ MemoryPercent(req) >= -100
        /\ MaxMemory(req) \in Nat
    BY RequestsAssumption
  <2>6. limit(i) < new(i) /\ new(i) <= MaxMemory(req)
    <3>1. limit(i) \in Nat /\ 0 < limit(i) /\ limit(i) < MaxMemory(req)
      BY <1>1, <2>2, <2>4
    <3> HIDE DEF limit
    <3> QED
      BY <1>1, <2>5, <3>1, MemoryCalculation
  <2> QED
    BY <2>3, <2>4, <2>6
<1>2. ASSUME TypeOK, NEW req \in Requests, req.type = "ScaleUp",
             NEW result \in Results(workload, req),
             StartingReplicas(workload.replicas) < MaxReplicas(req)
      PROVE  /\ StartingReplicas(workload.replicas) < result.replicas
             /\ result.replicas <= MaxReplicas(req)
  <2> DEFINE old == StartingReplicas(workload.replicas)
             new == CalculateScaleUp(old, ScalePercent(req), MaxReplicas(req))
  <2>1. result = WithReplicas(workload, new)
    BY <1>2 DEF Results, ApplyScaleUp
  <2>2. result.replicas = new
    <3> HIDE DEF new
    <3> QED
      BY <1>2, <2>1 DEF WithReplicas, TypeOK, Workload
  <2>3. old \in Nat
    BY <1>2, Fields DEF StartingReplicas, TypeOK
  <2>4. ScalePercent(req) \in Int /\ MaxReplicas(req) \in Nat
    BY RequestsAssumption
  <2> HIDE DEF old
  <2> QED
    BY <1>2, <2>2, <2>3, <2>4, ScaleCalculation DEF old
<1>3. TypeOK => BelowCapGrows
  BY <1>1, <1>2 DEF BelowCapGrows
<1> QED
  BY <1>3, TypeCorrect, PTL

\* A request changes no container but the one it means.
THEOREM TouchesOnlyTheChosen == Spec => OnlyTheChosen
<1> DEFINE Only(req) ==
        \A i \in DOMAIN workload.containers :
            workload'.containers[i] # workload.containers[i] =>
                \/ workload.containers[i].name = req.container
                \/ Len(workload.containers) = 1
<1>1. ASSUME TypeOK, NEW req \in Requests, req.type = "IncreaseMemory", Remediate(req)
      PROVE  Only(req)
  <2>1. workload' \in ApplyIncreaseMemory(workload, req)
    BY <1>1 DEF Remediate, Results
  <2>2. PICK i \in Chosen(workload, req.container), memory \in Nat :
            /\ i \in DOMAIN workload.containers
            /\ workload' = WithMemory(workload, i, memory)
    BY <1>1, <2>1, MemoryResult DEF TypeOK
  <2>3. \A j \in DOMAIN workload.containers \ {i} :
            workload'.containers[j] = workload.containers[j]
    BY <1>1, <2>2, WithMemoryFacts DEF TypeOK
  <2>4. workload.containers[i].name = req.container \/ Len(workload.containers) = 1
    BY <2>2 DEF Chosen
  <2> QED
    BY <2>3, <2>4
<1>2. TypeOK /\ [Next]_workload =>
         [\A req \in Requests : req.type = "IncreaseMemory" /\ Remediate(req) => Only(req)]_workload
  BY <1>1
<1> QED
  BY <1>2, TypeCorrect, PTL DEF Spec, OnlyTheChosen

\* The App's patch and the operator's change agree on every workload and for
\* every request both programs read alike, refusals included.
THEOREM ModesAgree == Spec => []PatchersAgree
<1>1. ASSUME NEW req \in Requests, req.type # "RollbackImage", ReadAlike(req)
      PROVE  PatchManifest(workload, req) = Results(workload, req)
  <2>1. CASE req.type = "IncreaseMemory"
    <3>1. PatchIncreaseMemory(workload, req) = ApplyIncreaseMemory(workload, req)
      BY <1>1 DEF PatchIncreaseMemory, ApplyIncreaseMemory, CalculateMemoryIncrease,
                  MemoryPercent, ReadAlike
    <3> QED
      BY <2>1, <3>1 DEF PatchManifest, Results
  <2>2. CASE req.type = "ScaleUp"
    <3>1. (IF req.max.given THEN Read(req.max.scan, 0) ELSE 10) = MaxReplicas(req)
      <4>1. CASE req.max.given
        <5>1. req.max.scan = req.max.atoi /\ req.max.atoi # {}
          BY <1>1, <2>2, <4>1 DEF ReadAlike
        <5>2. Read(req.max.atoi, 0) = Read(req.max.atoi, 10)
          BY <5>1 DEF Read
        <5> QED
          BY <4>1, <5>1, <5>2 DEF MaxReplicas
      <4>2. CASE ~req.max.given
        BY <1>1, <2>2, <4>2 DEF MaxReplicas, ReadAlike, Read
      <4> QED
        BY <4>1, <4>2
    <3>2. Read(req.percent.scan, 50) = ScalePercent(req)
      BY <1>1 DEF ScalePercent, ReadAlike
    <3>3. PatchScaleUp(workload, req) = ApplyScaleUp(workload, req)
      BY <3>1, <3>2 DEF PatchScaleUp, ApplyScaleUp, CalculateScaleUp, StartingReplicas
    <3> QED
      BY <2>2, <3>3 DEF PatchManifest, Results
  <2> QED
    BY <1>1, <2>1, <2>2, RequestsAssumption
<1>2. PatchersAgree
  BY <1>1 DEF PatchersAgree
<1> QED
  BY <1>2, PTL
=============================================================================
