------------------------- MODULE AlertWebhook_proofs -------------------------
(***************************************************************************)
(* The deduplicator, for any number of replicas, handlers and alerts, any  *)
(* TTL and any requests.  The invariant compares the map with one that     *)
(* never forgets: an entry is the same in both, or too old in both.        *)
(***************************************************************************)
EXTENDS AlertWebhook, TLAPS

AllAges == Ages \cup {Never}

\* The inductive form of CleanupInvisible.
SameOrOld == \A p \in Replicas, k \in Keys :
                 \/ seen[p][k] = granted[p][k]
                 \/ ~Recent(seen[p][k]) /\ ~Recent(granted[p][k])

DedupType == /\ seen \in [Replicas -> [Keys -> AllAges]]
             /\ granted \in [Replicas -> [Keys -> AllAges]]

WorkType ==
    /\ request \in [Handlers -> Seq(Alerts)]
    /\ jobs \subseteq Jobs
    /\ \A job \in jobs : job.step = "create" => Routable(job.alert.labels, Routes)

StoreType == /\ object \in [Names -> {NoObject} \cup Objects]
             /\ known \in [Replicas -> SUBSET Names]

LimitsType == faults \in Nat /\ deletions \in Nat

IInv == DedupType /\ SameOrOld /\ WorkType /\ StoreType /\ LimitsType

-----------------------------------------------------------------------------
\* Ages stay in their type, and one that is not recent never becomes recent.
LEMMA AgeFacts ==
    /\ 0 \in AllAges /\ Never \in AllAges /\ ~Recent(Never)
    /\ \A age \in AllAges :
          /\ Older(age) \in AllAges
          /\ ~Recent(age) => ~Recent(Older(age))
          /\ age > TTL => ~Recent(age)
  BY TTLAssumption DEF AllAges, Ages, Never, Recent, Older

\* Alerts give keys and names of the model's sets, and goroutines for them.
LEMMA AlertFacts ==
    ASSUME NEW a \in Alerts
    PROVE  /\ Key(a) \in Keys
           /\ Name(a) \in Names
           /\ \A p \in Replicas :
                 /\ [replica |-> p, alert |-> a, step |-> "get"] \in Jobs
                 /\ [replica |-> p, alert |-> a, step |-> "create"] \in Jobs
  BY DEF Keys, Names, Jobs

\* A handler that goes on has an alert to look at.
LEMMA HeadFacts ==
    ASSUME WorkType, NEW h \in Handlers, HandleAlert(h)
    PROVE  /\ Head(request[h]) \in Alerts
           /\ Tail(request[h]) \in Seq(Alerts)
           /\ ReplicaOf[h] \in Replicas
<1>1. request[h] \in Seq(Alerts)
  BY DEF WorkType
<1>2. request[h] # <<>>
  BY DEF HandleAlert
<1>3. ASSUME NEW s \in Seq(Alerts), s # <<>>
      PROVE  Head(s) \in Alerts /\ Tail(s) \in Seq(Alerts)
  BY <1>3
<1> QED
  BY <1>1, <1>2, <1>3, HandlersAssumption

\* The fields of a goroutine, before and after it goes on to the create.
LEMMA JobFacts ==
    ASSUME NEW job \in Jobs
    PROVE  /\ job.replica \in Replicas /\ job.alert \in Alerts
           /\ [job EXCEPT !.step = "create"] \in Jobs
           /\ [job EXCEPT !.step = "create"].step = "create"
           /\ [job EXCEPT !.step = "create"].alert = job.alert
  BY DEF Jobs

-----------------------------------------------------------------------------
\* A process starts with an empty map, no requests and no goroutines.
LEMMA InitIInv == Init => IInv
<1> SUFFICES ASSUME Init PROVE IInv
  OBVIOUS
<1>1. DedupType /\ SameOrOld
  BY AgeFacts DEF Init, DedupType, SameOrOld
<1>2. WorkType
  BY DEF Init, WorkType
<1>3. StoreType /\ LimitsType
  BY DEF Init, StoreType, LimitsType
<1> QED
  BY <1>1, <1>2, <1>3 DEF IInv

\* Marking a key makes both maps agree on it.
LEMMA MarkSeenKeeps ==
    ASSUME DedupType, SameOrOld, NEW p \in Replicas, NEW k \in Keys, MarkSeen(p, k)
    PROVE  DedupType' /\ SameOrOld'
<1>1. DedupType'
  BY AgeFacts DEF DedupType, MarkSeen
<1>2. ASSUME NEW q \in Replicas, NEW j \in Keys
      PROVE  \/ seen'[q][j] = granted'[q][j]
             \/ ~Recent(seen'[q][j]) /\ ~Recent(granted'[q][j])
  <2>1. CASE q = p /\ j = k
    <3>1. seen'[q][j] = 0 /\ granted'[q][j] = 0
      BY <2>1 DEF DedupType, MarkSeen
    <3> QED
      BY <3>1
  <2>2. CASE ~(q = p /\ j = k)
    <3>1. seen'[q][j] = seen[q][j] /\ granted'[q][j] = granted[q][j]
      BY <2>2 DEF DedupType, MarkSeen
    <3> QED
      BY <3>1 DEF SameOrOld
  <2> QED
    BY <2>1, <2>2
<1>3. SameOrOld'
  BY <1>2 DEF SameOrOld
<1> QED
  BY <1>1, <1>3

\* Cleanup replaces an age that is not recent by another one.
LEMMA CleanupKeeps ==
    ASSUME DedupType, SameOrOld, NEW p \in Replicas, Cleanup(p)
    PROVE  DedupType' /\ SameOrOld'
<1> DEFINE swept == [k \in Keys |-> IF seen[p][k] > TTL THEN Never ELSE seen[p][k]]
<1>1. seen' = [seen EXCEPT ![p] = swept] /\ granted' = granted
  BY DEF Cleanup
<1>2. swept \in [Keys -> AllAges]
  BY AgeFacts DEF DedupType
<1>3. DedupType'
  BY <1>1, <1>2 DEF DedupType
<1>4. ASSUME NEW q \in Replicas, NEW k \in Keys
      PROVE  \/ seen'[q][k] = granted'[q][k]
             \/ ~Recent(seen'[q][k]) /\ ~Recent(granted'[q][k])
  <2>0. seen[q][k] \in AllAges
    BY DEF DedupType
  <2>1. \/ seen'[q][k] = seen[q][k]
        \/ seen[q][k] > TTL /\ seen'[q][k] = Never
    BY <1>1 DEF DedupType
  <2>2. CASE seen'[q][k] = seen[q][k]
    BY <1>1, <2>2 DEF SameOrOld
  <2>3. CASE seen[q][k] > TTL /\ seen'[q][k] = Never
    <3>1. ~Recent(seen[q][k]) /\ ~Recent(seen'[q][k])
      BY <2>0, <2>3, AgeFacts
    <3>2. ~Recent(granted'[q][k])
      BY <1>1, <3>1 DEF SameOrOld
    <3> QED
      BY <3>1, <3>2
  <2> QED
    BY <2>1, <2>2, <2>3
<1>5. SameOrOld'
  BY <1>4 DEF SameOrOld
<1> QED
  BY <1>3, <1>5

\* Time passes for both maps.
LEMMA TickKeeps ==
    ASSUME DedupType, SameOrOld, Tick
    PROVE  DedupType' /\ SameOrOld'
<1>1. /\ seen' = [p \in Replicas |-> [k \in Keys |-> Older(seen[p][k])]]
      /\ granted' = [p \in Replicas |-> [k \in Keys |-> Older(granted[p][k])]]
  BY DEF Tick
<1>2. \A p \in Replicas, k \in Keys : seen[p][k] \in AllAges /\ granted[p][k] \in AllAges
  BY DEF DedupType
<1>3. DedupType'
  BY <1>1, <1>2, AgeFacts DEF DedupType
<1>4. SameOrOld'
  BY <1>1, <1>2, AgeFacts DEF SameOrOld
<1> QED
  BY <1>3, <1>4

\* A crash empties both maps of its process.
LEMMA CrashKeeps ==
    ASSUME DedupType, SameOrOld, NEW p \in Replicas, Crash(p)
    PROVE  DedupType' /\ SameOrOld'
<1> DEFINE empty == [k \in Keys |-> Never]
<1>1. seen' = [seen EXCEPT ![p] = empty] /\ granted' = [granted EXCEPT ![p] = empty]
  BY DEF Crash
<1>2. empty \in [Keys -> AllAges]
  BY AgeFacts
<1>3. DedupType'
  BY <1>1, <1>2 DEF DedupType
<1>4. ASSUME NEW q \in Replicas, NEW k \in Keys
      PROVE  \/ seen'[q][k] = granted'[q][k]
             \/ ~Recent(seen'[q][k]) /\ ~Recent(granted'[q][k])
  <2>1. CASE q = p
    BY <1>1, <2>1 DEF DedupType
  <2>2. CASE q # p
    BY <1>1, <2>2 DEF DedupType, SameOrOld
  <2> QED
    BY <2>1, <2>2
<1>5. SameOrOld'
  BY <1>4 DEF SameOrOld
<1> QED
  BY <1>3, <1>5

\* The maps of the step that no action of the deduplicator takes.
LEMMA SameMaps ==
    ASSUME DedupType, SameOrOld, UNCHANGED dedup
    PROVE  DedupType' /\ SameOrOld'
  BY DEF dedup, DedupType, SameOrOld

\* Every step keeps the two maps in agreement.
LEMMA MapsKept ==
    ASSUME IInv, [Next]_vars
    PROVE  DedupType' /\ SameOrOld'
<1> USE DEF IInv
<1>1. CASE Tick
  BY <1>1, TickKeeps
<1>2. ASSUME NEW p \in Replicas, Cleanup(p) \/ CacheSync(p) \/ Crash(p)
      PROVE  DedupType' /\ SameOrOld'
  BY <1>2, CleanupKeeps, CrashKeeps, SameMaps DEF CacheSync
<1>3. ASSUME NEW h \in Handlers, NEW q \in Requests, Receive(h, q)
      PROVE  DedupType' /\ SameOrOld'
  BY <1>3, SameMaps DEF Receive
<1>4. ASSUME NEW h \in Handlers, HandleAlert(h)
      PROVE  DedupType' /\ SameOrOld'
  <2> DEFINE a == Head(request[h])
  <2>1. a \in Alerts /\ ReplicaOf[h] \in Replicas
    BY <1>4, HeadFacts
  <2>2. Key(a) \in Keys
    BY <2>1, AlertFacts
  <2>3. MarkSeen(ReplicaOf[h], Key(a)) \/ UNCHANGED dedup
    BY <1>4 DEF HandleAlert, dedup
  <2> QED
    BY <2>1, <2>2, <2>3, MarkSeenKeeps, SameMaps
<1>5. ASSUME NEW job \in jobs, ProcessAlert(job)
      PROVE  DedupType' /\ SameOrOld'
  BY <1>5, SameMaps DEF ProcessAlert, RouteFails, GetExisting, Create
<1>6. ASSUME NEW n \in Names, DeleteRemediation(n)
      PROVE  DedupType' /\ SameOrOld'
  BY <1>6, SameMaps DEF DeleteRemediation
<1>7. CASE UNCHANGED vars
  BY <1>7, SameMaps DEF vars
<1> QED
  BY <1>1, <1>2, <1>3, <1>4, <1>5, <1>6, <1>7 DEF Next

-----------------------------------------------------------------------------
\* Goroutines that end leave the others as they are.
LEMMA DoneKeeps ==
    ASSUME WorkType, NEW job \in jobs, Done(job), UNCHANGED request
    PROVE  WorkType'
  BY DEF WorkType, Done

\* Every step keeps the requests and the goroutines in their types; only a
\* routable alert reaches the create.
LEMMA WorkKept ==
    ASSUME IInv, [Next]_vars
    PROVE  WorkType'
<1> USE DEF IInv
<1>0. ASSUME UNCHANGED <<request, jobs>> PROVE WorkType'
  BY <1>0 DEF WorkType
<1>1. CASE Tick
  BY <1>0, <1>1 DEF Tick
<1>2. ASSUME NEW p \in Replicas, Cleanup(p) \/ CacheSync(p) PROVE WorkType'
  BY <1>0, <1>2 DEF Cleanup, CacheSync
<1>3. ASSUME NEW p \in Replicas, Crash(p) PROVE WorkType'
  <2>1. request' \in [Handlers -> Seq(Alerts)]
    BY <1>3 DEF Crash, WorkType
  <2>2. jobs' \subseteq jobs
    BY <1>3 DEF Crash
  <2> QED
    BY <2>1, <2>2 DEF WorkType
<1>4. ASSUME NEW h \in Handlers, NEW q \in Requests, Receive(h, q) PROVE WorkType'
  <2>1. q \in Seq(Alerts)
    BY RequestsAssumption
  <2> QED
    BY <1>4, <2>1 DEF Receive, WorkType
<1>5. ASSUME NEW h \in Handlers, HandleAlert(h) PROVE WorkType'
  <2> DEFINE a == Head(request[h])
             job == [replica |-> ReplicaOf[h], alert |-> a, step |-> "get"]
  <2>1. /\ a \in Alerts /\ ReplicaOf[h] \in Replicas
        /\ Tail(request[h]) \in Seq(Alerts)
    BY <1>5, HeadFacts
  <2>2. request' = [request EXCEPT ![h] = Tail(request[h])]
    BY <1>5 DEF HandleAlert
  <2>3. request' \in [Handlers -> Seq(Alerts)]
    BY <2>1, <2>2 DEF WorkType
  <2>4. job \in Jobs /\ job.step = "get"
    BY <2>1, AlertFacts
  <2>5. jobs' = jobs \cup {job} \/ jobs' = jobs
    BY <1>5 DEF HandleAlert
  <2> HIDE DEF job
  <2> QED
    BY <2>3, <2>4, <2>5 DEF WorkType
<1>6. ASSUME NEW job \in jobs, RouteFails(job) \/ Create(job) PROVE WorkType'
  BY <1>6, DoneKeeps DEF RouteFails, Create
<1>7. ASSUME NEW job \in jobs, GetExisting(job) PROVE WorkType'
  <2> DEFINE next == [job EXCEPT !.step = "create"]
  <2>1. job \in Jobs /\ Routable(job.alert.labels, Routes) /\ UNCHANGED request
    BY <1>7 DEF GetExisting, WorkType
  <2>2. next \in Jobs /\ next.alert = job.alert
    BY <2>1, JobFacts
  <2>3. Done(job) \/ jobs' = (jobs \ {job}) \cup {next}
    BY <1>7 DEF GetExisting
  <2>4. CASE Done(job)
    BY <2>1, <2>4, DoneKeeps
  <2>5. CASE jobs' = (jobs \ {job}) \cup {next}
    <3> HIDE DEF next
    <3> QED
      BY <2>1, <2>2, <2>5 DEF WorkType
  <2> QED
    BY <2>3, <2>4, <2>5
<1>8. ASSUME NEW n \in Names, DeleteRemediation(n) PROVE WorkType'
  BY <1>0, <1>8 DEF DeleteRemediation
<1>9. CASE UNCHANGED vars
  BY <1>0, <1>9 DEF vars
<1> QED
  BY <1>1, <1>2, <1>3, <1>4, <1>5, <1>6, <1>7, <1>8, <1>9 DEF Next, ProcessAlert

-----------------------------------------------------------------------------
\* Every step keeps the objects, the caches and the bounds in their types.
LEMMA StoreKept ==
    ASSUME IInv, [Next]_vars
    PROVE  StoreType' /\ LimitsType'
<1> USE DEF IInv
<1>0. ASSUME UNCHANGED <<object, known>> PROVE StoreType'
  BY <1>0 DEF StoreType
<1>a. ASSUME UNCHANGED limits PROVE LimitsType'
  BY <1>a DEF limits, LimitsType
<1>b. ASSUME NEW kind, Fault(kind) PROVE LimitsType'
  BY <1>b DEF Fault, LimitsType
<1>c. {n \in Names : object[n].exists} \in SUBSET Names
  OBVIOUS
<1>1. CASE Tick
  BY <1>0, <1>1, <1>a DEF Tick
<1>2. ASSUME NEW p \in Replicas, Cleanup(p) \/ CacheSync(p) \/ Crash(p)
      PROVE  StoreType' /\ LimitsType'
  <2>1. CASE Cleanup(p)
    BY <1>0, <1>a, <2>1 DEF Cleanup
  <2>2. CASE CacheSync(p)
    BY <1>a, <1>c, <2>2 DEF CacheSync, StoreType
  <2>3. CASE Crash(p)
    BY <1>b, <1>c, <2>3 DEF Crash, StoreType
  <2> QED
    BY <1>2, <2>1, <2>2, <2>3
<1>3. ASSUME NEW h \in Handlers, NEW q \in Requests, Receive(h, q)
      PROVE  StoreType' /\ LimitsType'
  BY <1>0, <1>3, <1>a DEF Receive
<1>4. ASSUME NEW h \in Handlers, HandleAlert(h)
      PROVE  StoreType' /\ LimitsType'
  BY <1>0, <1>4, <1>a DEF HandleAlert
<1>5. ASSUME NEW job \in jobs, RouteFails(job)
      PROVE  StoreType' /\ LimitsType'
  BY <1>0, <1>5, <1>a DEF RouteFails
<1>6. ASSUME NEW job \in jobs, GetExisting(job)
      PROVE  StoreType' /\ LimitsType'
  <2>1. LimitsType'
    BY <1>6, <1>a, <1>b DEF GetExisting
  <2> QED
    BY <1>0, <1>6, <2>1 DEF GetExisting
<1>7. ASSUME NEW job \in jobs, Create(job)
      PROVE  StoreType' /\ LimitsType'
  <2> DEFINE a == job.alert
  <2>1. a \in Alerts /\ Routable(a.labels, Routes)
    BY <1>7, JobFacts DEF WorkType, Create
  <2>2. Remediation(a) \in Objects
    BY <2>1 DEF Objects, RoutableAlerts
  <2>3. /\ UNCHANGED known
        /\ object' = [object EXCEPT ![Name(a)] = Remediation(a)] \/ UNCHANGED object
    BY <1>7 DEF Create
  <2>4. LimitsType'
    BY <1>7, <1>a, <1>b DEF Create
  <2> HIDE DEF a
  <2> QED
    BY <2>2, <2>3, <2>4 DEF StoreType
<1>8. ASSUME NEW n \in Names, DeleteRemediation(n)
      PROVE  StoreType' /\ LimitsType'
  BY <1>8 DEF DeleteRemediation, StoreType, LimitsType
<1>9. CASE UNCHANGED vars
  BY <1>0, <1>9, <1>a DEF vars
<1> QED
  BY <1>1, <1>2, <1>3, <1>4, <1>5, <1>6, <1>7, <1>8, <1>9 DEF Next, ProcessAlert

-----------------------------------------------------------------------------
\* The invariant holds in every reachable state.
LEMMA InvariantHolds == Spec => []IInv
<1>1. IInv /\ [Next]_vars => IInv'
  BY MapsKept, WorkKept, StoreKept DEF IInv
<1> QED
  BY InitIInv, <1>1, PTL DEF Spec

\* Every variable of the webhook keeps its type, however long it runs.
THEOREM TypeCorrect == Spec => []TypeOK
<1>1. IInv => TypeOK
  BY DEF IInv, DedupType, WorkType, StoreType, LimitsType, TypeOK, AllAges
<1> QED
  BY <1>1, InvariantHolds, PTL

\* The cleanup goroutine never changes the answer of a lookup, for any TTL and
\* whenever it runs between the requests of however many handlers.
THEOREM ForgettingInvisible == Spec => []CleanupInvisible
<1>1. IInv => CleanupInvisible
  BY DEF IInv, SameOrOld, CleanupInvisible
<1> QED
  BY <1>1, InvariantHolds, PTL

\* No replica starts a second goroutine for a key within the TTL.
THEOREM ProcessedOncePerTTL == Spec => OncePerTTL
<1>1. ASSUME IInv, [Next]_vars, NEW job \in jobs' \ jobs, job.step = "get"
      PROVE  ~Recent(granted[job.replica][Key(job.alert)])
  <2> USE DEF IInv
  <2>1. PICK h \in Handlers : HandleAlert(h)
    <3>1. ASSUME NEW old \in jobs, GetExisting(old) PROVE FALSE
      <4>1. old \in Jobs
        BY <1>1 DEF WorkType
      <4> QED
        BY <1>1, <3>1, <4>1, JobFacts DEF GetExisting, Done
    <3>2. ~(UNCHANGED jobs)
      BY <1>1
    <3>3. ~ \E old \in jobs : RouteFails(old) \/ Create(old)
      BY <1>1 DEF RouteFails, Create, Done
    <3>4. ~ \E p \in Replicas : Crash(p)
      BY <1>1 DEF Crash
    <3> QED
      BY <1>1, <3>1, <3>2, <3>3, <3>4
      DEF Next, ProcessAlert, vars, Tick, Cleanup, CacheSync, Receive, DeleteRemediation
  <2> DEFINE a == Head(request[h])
             p == ReplicaOf[h]
             new == [replica |-> p, alert |-> a, step |-> "get"]
  <2>2. job = new /\ ShouldProcess(p, Key(a))
    BY <1>1, <2>1 DEF HandleAlert
  <2>3. a \in Alerts /\ p \in Replicas
    BY <1>1, <2>1, HeadFacts
  <2>4. ~Recent(granted[p][Key(a)])
    BY <1>1, <2>2, <2>3, AlertFacts DEF SameOrOld, ShouldProcess
  <2> QED
    BY <2>2, <2>4
<1>2. IInv /\ [Next]_vars =>
         [\A job \in jobs' \ jobs :
             job.step = "get" => ~Recent(granted[job.replica][Key(job.alert)])]_vars
  BY <1>1
<1> QED
  BY <1>2, InvariantHolds, PTL DEF Spec, OncePerTTL

-----------------------------------------------------------------------------
(* Objects. *)

\* How each step changes the objects: a create adds one where there is none, a
\* user's deletion takes one away, nothing else touches them.
LEMMA ObjectSteps ==
    ASSUME IInv, [Next]_vars
    PROVE  \/ UNCHANGED object
           \/ \E job \in jobs : Create(job) /\ Creatable(job.alert)
           \/ \E n \in Names : DeleteRemediation(n)
  BY DEF Next, ProcessAlert, vars, Tick, Cleanup, CacheSync, Crash, HandleAlert, Receive,
         RouteFails, GetExisting, Create

\* No step replaces an object: Get may have read a stale cache, but the server
\* refuses a second create of a name, whoever sends it.
THEOREM ObjectsAreKept == Spec => ObjectIsKept
<1>1. ASSUME IInv, [Next]_vars, NEW n \in Names, object[n].exists, object'[n].exists
      PROVE  object'[n] = object[n]
  <2> USE DEF IInv
  <2>1. CASE UNCHANGED object
    BY <2>1
  <2>2. ASSUME NEW job \in jobs, Create(job), Creatable(job.alert)
        PROVE  object'[n] = object[n]
    <3>1. Name(job.alert) # n
      BY <1>1, <2>2 DEF Creatable
    <3> QED
      BY <1>1, <2>2, <3>1 DEF Create, StoreType
  <2>3. ASSUME NEW d \in Names, DeleteRemediation(d)
        PROVE  object'[n] = object[n]
    <3>1. object'[d] = NoObject
      BY <1>1, <2>3 DEF DeleteRemediation, StoreType
    <3>2. d # n
      BY <1>1, <3>1 DEF NoObject
    <3> QED
      BY <1>1, <2>3, <3>2 DEF DeleteRemediation, StoreType
  <2> QED
    BY <1>1, <2>1, <2>2, <2>3, ObjectSteps
<1>2. IInv /\ [Next]_vars =>
         [\A n \in Names :
             object[n].exists /\ object'[n].exists => object'[n] = object[n]]_vars
  BY <1>1
<1> QED
  BY <1>2, InvariantHolds, PTL DEF Spec, ObjectIsKept

-----------------------------------------------------------------------------
(* AlertWebhook implements AlertIntake. *)

\* The abstract sets are the webhook's.
LEMMA IntakeSets ==
    /\ Intake!Sent = Alerts /\ Intake!Keys = Keys /\ Intake!Names = Names
    /\ Intake!Routed = RoutableAlerts
<1>1. Intake!Sent = Alerts
  BY DEF Intake!Sent, KeyOf
<1>2. Intake!Keys = Keys
  BY <1>1 DEF Intake!Keys, Keys, KeyOf
<1>3. Intake!Names = Names
  BY <1>1 DEF Intake!Names, Names, NameOf
<1>4. Intake!Routed = RoutableAlerts
  BY DEF Intake!Routed, RemediationOf
<1> QED
  BY <1>1, <1>2, <1>3, <1>4

\* The abstract age of a key that is let through, forgotten, or a tick older.
LEMMA CappedFacts ==
    /\ Capped(0) = 0 /\ Capped(Never) = TTL
    /\ \A age \in AllAges :
          /\ Capped(age) \in Nat
          /\ ~Recent(age) => Capped(age) = TTL
          /\ Capped(Older(age)) = IF Capped(age) < TTL THEN Capped(age) + 1 ELSE TTL
  BY TTLAssumption DEF AllAges, Ages, Never, Recent, Older, Capped

\* What the map of seen alerts is, abstractly, after each of its operations.
LEMMA AgeSteps ==
    ASSUME DedupType
    PROVE  /\ UNCHANGED seen => Age' = Age
           /\ Tick => Age' = [p \in Replicas |-> [k \in Keys |->
                                IF Age[p][k] < TTL THEN Age[p][k] + 1 ELSE TTL]]
           /\ \A p \in Replicas : Cleanup(p) => Age' = Age
           /\ \A p \in Replicas : Crash(p) => Age' = [Age EXCEPT ![p] = [k \in Keys |-> TTL]]
           /\ \A p \in Replicas, k \in Keys :
                 MarkSeen(p, k) => Age' = [Age EXCEPT ![p][k] = 0]
<1>0. \A p \in Replicas, k \in Keys : seen[p][k] \in AllAges
  BY DEF DedupType
<1>1. UNCHANGED seen => Age' = Age
  BY DEF Age, Capped
<1>2. ASSUME Tick
      PROVE  Age' = [p \in Replicas |-> [k \in Keys |->
                        IF Age[p][k] < TTL THEN Age[p][k] + 1 ELSE TTL]]
  <2>1. Age' = [p \in Replicas |-> [k \in Keys |-> Capped(Older(seen[p][k]))]]
    BY <1>2 DEF Tick, Age, Capped
  <2> QED
    BY <1>0, <2>1, CappedFacts DEF Age
<1>3. ASSUME NEW p \in Replicas, Cleanup(p) PROVE Age' = Age
  <2>1. ASSUME NEW q \in Replicas, NEW k \in Keys
        PROVE  Capped(seen'[q][k]) = Capped(seen[q][k])
    <3> DEFINE swept == [j \in Keys |-> IF seen[p][j] > TTL THEN Never ELSE seen[p][j]]
    <3>1. seen' = [seen EXCEPT ![p] = swept]
      BY <1>3 DEF Cleanup
    <3>2. \/ seen'[q][k] = seen[q][k]
          \/ seen'[q][k] = Never /\ seen[q][k] > TTL
      BY <3>1 DEF DedupType
    <3> QED
      BY <1>0, <3>2, AgeFacts, CappedFacts
  <2>2. Age' = [q \in Replicas |-> [k \in Keys |-> Capped(seen'[q][k])]]
    BY DEF Age, Capped
  <2> QED
    BY <2>1, <2>2 DEF Age
<1>4. ASSUME NEW p \in Replicas, Crash(p)
      PROVE  Age' = [Age EXCEPT ![p] = [k \in Keys |-> TTL]]
  <2>1. Age' = [q \in Replicas |-> [k \in Keys |-> Capped(seen'[q][k])]]
    BY DEF Age, Capped
  <2>2. \A q \in Replicas, k \in Keys :
           seen'[q][k] = IF q = p THEN Never ELSE seen[q][k]
    BY <1>4 DEF Crash, DedupType
  <2> QED
    BY <2>1, <2>2, CappedFacts DEF Age
<1>5. ASSUME NEW p \in Replicas, NEW k \in Keys, MarkSeen(p, k)
      PROVE  Age' = [Age EXCEPT ![p][k] = 0]
  <2>1. Age' = [q \in Replicas |-> [j \in Keys |-> Capped(seen'[q][j])]]
    BY DEF Age, Capped
  <2>2. \A q \in Replicas, j \in Keys :
           seen'[q][j] = IF q = p /\ j = k THEN 0 ELSE seen[q][j]
    BY <1>5 DEF MarkSeen, DedupType
  <2>3. Age' = [q \in Replicas |-> [j \in Keys |-> IF q = p /\ j = k THEN 0 ELSE Age[q][j]]]
    BY <2>1, <2>2, CappedFacts DEF Age
  <2>4. [Age EXCEPT ![p][k] = 0]
           = [q \in Replicas |-> [j \in Keys |-> IF q = p /\ j = k THEN 0 ELSE Age[q][j]]]
    BY DEF Age
  <2> QED
    BY <2>3, <2>4
<1> QED
  BY <1>1, <1>2, <1>3, <1>4, <1>5

\* A goroutine of an alert is one of two records.
LEMMA JobRecords ==
    ASSUME NEW p \in Replicas, NEW a \in Alerts, NEW job \in Jobs
    PROVE  /\ job.step \in {"get", "create"}
           /\ job = [replica |-> job.replica, alert |-> job.alert, step |-> job.step]
           /\ [job EXCEPT !.step = "create"]
                 = [replica |-> job.replica, alert |-> job.alert, step |-> "create"]
  BY DEF Jobs

\* What an alert is owed after a goroutine is started, moves on, ends, or dies.
LEMMA OwedSteps ==
    ASSUME WorkType
    PROVE  /\ UNCHANGED jobs => Owed' = Owed
           /\ \A p \in Replicas, a \in Alerts :
                 jobs' = jobs \cup {[replica |-> p, alert |-> a, step |-> "get"]} =>
                     Owed' \in {Owed, [Owed EXCEPT ![p][a] = Owed[p][a] + 1]}
           /\ \A job \in jobs : Done(job) =>
                 /\ Owed[job.replica][job.alert] > 0
                 /\ Owed' = [Owed EXCEPT ![job.replica][job.alert]
                                 = Owed[job.replica][job.alert] - 1]
           /\ \A job \in jobs :
                 /\ job.step = "get"
                 /\ jobs' = (jobs \ {job}) \cup {[job EXCEPT !.step = "create"]}
                 => \/ Owed' = Owed
                    \/ /\ Owed[job.replica][job.alert] > 0
                       /\ Owed' = [Owed EXCEPT ![job.replica][job.alert]
                                       = Owed[job.replica][job.alert] - 1]
           /\ \A p \in Replicas : jobs' = {job \in jobs : job.replica # p} =>
                 Owed' = [Owed EXCEPT ![p] = [a \in Alerts |-> 0]]
<1> DEFINE Rec(p, a, step) == [replica |-> p, alert |-> a, step |-> step]
           In(J, p, a, step) == IF Rec(p, a, step) \in J THEN 1 ELSE 0
           Count(J, p, a) == In(J, p, a, "get") + In(J, p, a, "create")
           After(x, y, n) == [Owed EXCEPT ![x][y] = n]
<1>1. /\ Owed = [p \in Replicas |-> [a \in Alerts |-> Count(jobs, p, a)]]
      /\ Owed' = [p \in Replicas |-> [a \in Alerts |-> Count(jobs', p, a)]]
  BY DEF Owed, Running
<1>2. ASSUME NEW p \in Replicas, NEW a \in Alerts PROVE Owed[p][a] = Count(jobs, p, a)
  BY <1>1
<1> HIDE DEF Rec
<1>3. ASSUME NEW p \in Replicas, NEW a \in Alerts, NEW n,
             \A q \in Replicas, b \in Alerts :
                Count(jobs', q, b) = IF q = p /\ b = a THEN n ELSE Owed[q][b]
      PROVE  Owed' = After(p, a, n)
  <2> HIDE DEF Count
  <2>1. Owed' = [q \in Replicas |-> [b \in Alerts |-> IF q = p /\ b = a THEN n ELSE Owed[q][b]]]
    BY <1>1, <1>3
  <2>2. After(p, a, n)
           = [q \in Replicas |-> [b \in Alerts |-> IF q = p /\ b = a THEN n ELSE Owed[q][b]]]
    BY <1>1
  <2> QED
    BY <2>1, <2>2
<1>r. \A p, q, a, b, s, t : Rec(p, a, s) = Rec(q, b, t) <=> p = q /\ a = b /\ s = t
  BY DEF Rec
<1> HIDE DEF After
<1>4. UNCHANGED jobs => Owed' = Owed
  BY <1>1
<1>5. ASSUME NEW p \in Replicas, NEW a \in Alerts, jobs' = jobs \cup {Rec(p, a, "get")}
      PROVE  Owed' \in {Owed, After(p, a, Owed[p][a] + 1)}
  <2>1. CASE Rec(p, a, "get") \in jobs
    BY <1>1, <1>5, <2>1
  <2>2. CASE Rec(p, a, "get") \notin jobs
    <3>1. ASSUME NEW q \in Replicas, NEW b \in Alerts
          PROVE  Count(jobs', q, b) = IF q = p /\ b = a THEN Owed[p][a] + 1 ELSE Owed[q][b]
      BY <1>2, <1>5, <1>r, <2>2
    <3> QED
      BY <1>3, <3>1
  <2> QED
    BY <2>1, <2>2
<1>6. ASSUME NEW job \in jobs, Done(job)
      PROVE  /\ Owed[job.replica][job.alert] > 0
             /\ Owed' = After(job.replica, job.alert, Owed[job.replica][job.alert] - 1)
  <2> DEFINE p == job.replica
             a == job.alert
  <2>1. p \in Replicas /\ a \in Alerts /\ job = Rec(p, a, job.step) /\ job.step \in {"get", "create"}
    BY JobFacts, JobRecords DEF WorkType, Rec
  <2> HIDE DEF p, a
  <2>2. Owed[p][a] > 0
    BY <1>2, <2>1
  <2>3. ASSUME NEW q \in Replicas, NEW b \in Alerts
        PROVE  Count(jobs', q, b) = IF q = p /\ b = a THEN Owed[p][a] - 1 ELSE Owed[q][b]
    BY <1>2, <1>6, <1>r, <2>1 DEF Done
  <2>4. Owed' = After(p, a, Owed[p][a] - 1)
    BY <1>3, <2>1, <2>3
  <2> QED
    BY <2>2, <2>4 DEF p, a
<1>7. ASSUME NEW job \in jobs, job.step = "get",
             jobs' = (jobs \ {job}) \cup {[job EXCEPT !.step = "create"]}
      PROVE  \/ Owed' = Owed
             \/ /\ Owed[job.replica][job.alert] > 0
                /\ Owed' = After(job.replica, job.alert, Owed[job.replica][job.alert] - 1)
  <2> DEFINE p == job.replica
             a == job.alert
             next == Rec(p, a, "create")
  <2>1. /\ p \in Replicas /\ a \in Alerts /\ job = Rec(p, a, "get")
        /\ [job EXCEPT !.step = "create"] = Rec(p, a, "create")
    BY <1>7, JobFacts, JobRecords DEF WorkType, Rec
  <2>0. jobs' = (jobs \ {Rec(p, a, "get")}) \cup {Rec(p, a, "create")} /\ Rec(p, a, "get") \in jobs
    BY <1>7, <2>1
  <2> HIDE DEF p, a
  <2>2. CASE next \in jobs
    <3>1. Owed[p][a] > 0
      BY <1>2, <2>1, <2>2
    <3>2. ASSUME NEW q \in Replicas, NEW b \in Alerts
          PROVE  Count(jobs', q, b) = IF q = p /\ b = a THEN Owed[p][a] - 1 ELSE Owed[q][b]
      BY <1>2, <1>r, <2>0, <2>1, <2>2
    <3>3. Owed' = After(p, a, Owed[p][a] - 1)
      BY <1>3, <2>1, <3>2
    <3> QED
      BY <3>1, <3>3 DEF p, a
  <2>3. CASE next \notin jobs
    <3>1. ASSUME NEW q \in Replicas, NEW b \in Alerts
          PROVE  Count(jobs', q, b) = Owed[q][b]
      BY <1>2, <1>r, <2>0, <2>1, <2>3
    <3> QED
      BY <1>1, <3>1
  <2> QED
    BY <2>2, <2>3
<1>8. ASSUME NEW p \in Replicas, jobs' = {job \in jobs : job.replica # p}
      PROVE  Owed' = [Owed EXCEPT ![p] = [a \in Alerts |-> 0]]
  <2>1. ASSUME NEW q \in Replicas, NEW b \in Alerts
        PROVE  Count(jobs', q, b) = IF q = p THEN 0 ELSE Owed[q][b]
    BY <1>2, <1>8, <1>r DEF Rec
  <2> QED
    BY <1>1, <2>1
<1> QED
  BY <1>4, <1>5, <1>6, <1>7, <1>8 DEF After, Rec

-----------------------------------------------------------------------------
\* The webhook starts where AlertIntake does.
LEMMA IntakeInit == Init => Intake!Init
<1> SUFFICES ASSUME Init PROVE Intake!Init
  OBVIOUS
<1>1. Age = [p \in Replicas |-> [k \in Keys |-> TTL]]
  BY CappedFacts DEF Init, Age
<1>2. Owed = [p \in Replicas |-> [a \in Alerts |-> 0]]
  BY DEF Init, Owed, Running
<1>3. object = [n \in Names |-> [exists |-> FALSE]]
  BY DEF Init, NoObject
<1> QED
  BY <1>1, <1>2, <1>3, IntakeSets DEF Intake!Init

\* Every step of the webhook is one of AlertIntake, or changes nothing in it.
LEMMA IntakeStep ==
    ASSUME IInv, [Next]_vars
    PROVE  [Intake!Next]_(Intake!intake)
<1> USE DEF IInv
<1>0. ASSUME Age' = Age, Owed' = Owed, UNCHANGED object
      PROVE  UNCHANGED Intake!intake
  BY <1>0 DEF Intake!intake
<1>1. CASE Tick
  <2>1. Intake!Tick
    BY <1>1, AgeSteps, OwedSteps, IntakeSets DEF Tick, Intake!Tick
  <2> QED
    BY <2>1 DEF Intake!Next
<1>2. ASSUME NEW p \in Replicas, Cleanup(p) \/ CacheSync(p)
      PROVE  UNCHANGED Intake!intake
  BY <1>0, <1>2, AgeSteps, OwedSteps DEF Cleanup, CacheSync, dedup
<1>3. ASSUME NEW p \in Replicas, Crash(p)
      PROVE  Intake!Next
  <2>1. Intake!Restart(p)
    BY <1>3, AgeSteps, OwedSteps, IntakeSets DEF Crash, Intake!Restart
  <2> QED
    BY <2>1 DEF Intake!Next
<1>4. ASSUME NEW h \in Handlers, NEW q \in Requests, Receive(h, q)
      PROVE  UNCHANGED Intake!intake
  BY <1>0, <1>4, AgeSteps, OwedSteps DEF Receive, dedup
<1>5. ASSUME NEW h \in Handlers, HandleAlert(h)
      PROVE  [Intake!Next]_(Intake!intake)
  <2> DEFINE p == ReplicaOf[h]
             a == Head(request[h])
             job == [replica |-> p, alert |-> a, step |-> "get"]
  <2>1. p \in Replicas /\ a \in Alerts /\ Key(a) \in Keys
    BY <1>5, HeadFacts, AlertFacts
  <2>2. CASE UNCHANGED <<dedup, jobs>>
    BY <1>0, <1>5, <2>2, AgeSteps, OwedSteps DEF HandleAlert, dedup
  <2>3. CASE /\ a.status = "firing" /\ ShouldProcess(p, Key(a))
             /\ MarkSeen(p, Key(a))
             /\ jobs' = jobs \cup {job}
    <3>1. a \in Firing /\ KeyOf[a] = Key(a)
      BY <2>1, <2>3 DEF Firing, KeyOf
    <3>2. Age[p][Key(a)] = TTL
      BY <2>1, <2>3, CappedFacts DEF ShouldProcess, DedupType, Age
    <3>3. Age' = [Age EXCEPT ![p][Key(a)] = 0]
      BY <2>1, <2>3, AgeSteps
    <3>4. Owed' \in {Owed, [Owed EXCEPT ![p][a] = Owed[p][a] + 1]}
      BY <2>1, <2>3, OwedSteps
    <3>5. UNCHANGED object
      BY <1>5 DEF HandleAlert
    <3> HIDE DEF p, a
    <3>6. Intake!LetThrough(p, a)
      BY <3>1, <3>2, <3>3, <3>4, <3>5 DEF Intake!LetThrough
    <3> QED
      BY <2>1, <3>6, IntakeSets DEF Intake!Next
  <2> QED
    BY <1>5, <2>2, <2>3 DEF HandleAlert
<1>6. ASSUME NEW job \in jobs, ProcessAlert(job)
      PROVE  [Intake!Next]_(Intake!intake)
  <2> DEFINE p == job.replica
             a == job.alert
  <2>1. p \in Replicas /\ a \in Alerts /\ job \in Jobs
    BY JobFacts DEF WorkType
  <2>2. Age' = Age
    BY <1>6, AgeSteps DEF ProcessAlert, RouteFails, GetExisting, Create, dedup
  <2>3. ASSUME Owed[p][a] > 0, Owed' = [Owed EXCEPT ![p][a] = Owed[p][a] - 1]
        PROVE  Intake!Settle(p, a)
    BY <2>2, <2>3 DEF Intake!Settle
  <2>4. Done(job) => Intake!Settle(p, a)
    BY <2>3, OwedSteps
  <2>5. ASSUME Intake!Settle(p, a), UNCHANGED object PROVE Intake!Next
    BY <2>1, <2>5, IntakeSets DEF Intake!Next, Intake!Drop
  <2>6. CASE RouteFails(job)
    BY <2>4, <2>5, <2>6 DEF RouteFails
  <2>7. CASE GetExisting(job)
    <3>1. \/ Done(job)
          \/ jobs' = (jobs \ {job}) \cup {[job EXCEPT !.step = "create"]}
      BY <2>7 DEF GetExisting
    <3>2. job.step = "get" /\ UNCHANGED object
      BY <2>7 DEF GetExisting
    <3>3. Intake!Settle(p, a) \/ Owed' = Owed
      BY <2>3, <2>4, <3>1, <3>2, OwedSteps
    <3> QED
      BY <1>0, <2>2, <2>5, <3>2, <3>3
  <2>8. CASE Create(job)
    <3>1. Intake!Settle(p, a)
      BY <2>4, <2>8 DEF Create
    <3>2. CASE UNCHANGED object
      BY <2>5, <3>1, <3>2
    <3>3. CASE /\ Creatable(a)
               /\ object' = [object EXCEPT ![Name(a)] = Remediation(a)]
      <4>1. a \in RoutableAlerts
        BY <2>1, <2>8 DEF Create, WorkType, RoutableAlerts
      <4>2. NameOf[a] = Name(a) /\ RemediationOf[a] = Remediation(a)
        BY <2>1, <4>1 DEF NameOf, RemediationOf
      <4>3. ~object[Name(a)].exists
        BY <3>3 DEF Creatable
      <4>4. Intake!Create(p, a)
        BY <3>1, <3>3, <4>1, <4>2, <4>3, IntakeSets DEF Intake!Create
      <4> QED
        BY <2>1, <4>4, IntakeSets DEF Intake!Next
    <3> QED
      BY <2>8, <3>2, <3>3 DEF Create
  <2> QED
    BY <1>6, <2>6, <2>7, <2>8 DEF ProcessAlert
<1>7. ASSUME NEW n \in Names, DeleteRemediation(n)
      PROVE  Intake!Next
  <2>1. Intake!Delete(n)
    BY <1>7, AgeSteps, OwedSteps DEF DeleteRemediation, dedup, NoObject, Intake!Delete
  <2> QED
    BY <2>1, IntakeSets DEF Intake!Next
<1>8. CASE UNCHANGED vars
  BY <1>0, <1>8, AgeSteps, OwedSteps DEF vars, dedup
<1> QED
  BY <1>1, <1>2, <1>3, <1>4, <1>5, <1>6, <1>7, <1>8 DEF Next

\* The webhook, with its cleanup, goroutines, stale caches, failed calls and
\* crashes, does only what AlertIntake promises.
THEOREM ImplementsIntake == Spec => IntakeSpec
  BY IntakeInit, IntakeStep, InvariantHolds, PTL DEF Spec, IntakeSpec, Intake!Spec
=============================================================================
