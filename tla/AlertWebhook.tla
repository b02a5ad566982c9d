----------------------------- MODULE AlertWebhook -----------------------------
(***************************************************************************)
(* The Alertmanager webhook of the operator                                *)
(* (operator/internal/webhooks/alertmanager_handler.go): every replica has  *)
(* an in-memory deduplicator with a cleanup goroutine, HTTP handlers that   *)
(* go through the alerts of a request, and a goroutine per alert that       *)
(* creates its Remediation after the request may have been answered.       *)
(*                                                                         *)
(* Time is kept as ages: seen[p][k] is the time since key k was processed, *)
(* in units of Ttl/TTL, and stops at TTL + 1, because the code compares it  *)
(* with the TTL only.                                                      *)
(***************************************************************************)
EXTENDS Naturals, Sequences, FiniteSets, AlertRouter

CONSTANTS
    Replicas,      \* operator processes that serve the webhook
    Handlers, ReplicaOf, \* HTTP handlers, and the replica of each
    Alerts,        \* alerts of requests: [status, fingerprint, startsAt, labels]
    Routes,        \* the RouterConfig
    ValidNames,    \* alert names the API server accepts in an object's name
    TTL,           \* the deduplicator's ttl
    Requests,      \* the parsed requests of Alertmanager: sequences of alerts
    Repeated,      \* those it repeats for ever
    FaultKinds,    \* which of "error", "lost", "crash" may happen
    MaxFaults,     \* bound: failed calls and crashes
    MaxDeletions   \* bound: remediations deleted by users

ASSUME HandlersAssumption == ReplicaOf \in [Handlers -> Replicas]
ASSUME TTLAssumption == TTL \in Nat \ {0}
ASSUME RequestsAssumption == Requests \subseteq Seq(Alerts) /\ Repeated \subseteq Requests
ASSUME LimitsAssumption == MaxFaults \in Nat /\ MaxDeletions \in Nat

Key(a) == <<a.fingerprint, a.startsAt>>
Keys == {Key(a) : a \in Alerts}

\* remediationName, with the namespace the object is created in.
Name(a) == <<a.labels.namespace, a.labels.alertname, a.startsAt>>
Names == {Name(a) : a \in Alerts}

Never == TTL + 2
Ages == 0 .. TTL + 1

NoObject == [exists |-> FALSE]

VARIABLES
    seen,     \* seen[p]: the deduplicator of replica p, Never when absent
    granted,  \* history: time since key k was last let through, without cleanup
    request,  \* request[h]: alerts handler h has still to look at
    jobs,     \* goroutines of processAlert; one that outlives the TTL is not doubled
    object,   \* Remediations in the API server, by name
    known,    \* known[p]: names in the cache of replica p
    faults, deletions   \* bound counters

dedup == <<seen, granted>>
limits == <<faults, deletions>>
vars == <<dedup, request, jobs, object, known, limits>>

Jobs == [replica : Replicas, alert : Alerts, step : {"get", "create"}]

Init ==
    /\ seen = [p \in Replicas |-> [k \in Keys |-> Never]]
    /\ granted = seen
    /\ request = [h \in Handlers |-> <<>>]
    /\ jobs = {}
    /\ object = [n \in Names |-> NoObject]
    /\ known = [p \in Replicas |-> {}]
    /\ faults = 0
    /\ deletions = 0

Fault(kind) == /\ kind \in FaultKinds
               /\ faults < MaxFaults
               /\ faults' = faults + 1
               /\ UNCHANGED deletions

-----------------------------------------------------------------------------
(* AlertDeduplicator *)

\* A key that was let through less than the TTL ago.
Recent(age) == age < TTL

ShouldProcess(p, k) == ~Recent(seen[p][k])

\* Variant: the time is not stored.
MarkSeenNot(p, k) == /\ granted' = [granted EXCEPT ![p][k] = 0]
                     /\ UNCHANGED seen

MarkSeen(p, k) == /\ seen' = [seen EXCEPT ![p][k] = 0]
                  /\ granted' = [granted EXCEPT ![p][k] = 0]

\* Variant: cleanup starts with an empty map.
CleanupEager(p) ==
    /\ seen' = [seen EXCEPT ![p] = [k \in Keys |-> Never]]
    /\ UNCHANGED <<granted, request, jobs, object, known, limits>>

\* Variant: the lock is taken but nothing is deleted.
CleanupNothing(p) == UNCHANGED vars

\* A tick of the cleanup goroutine: forget entries older than the TTL.
Cleanup(p) ==
    /\ seen' = [seen EXCEPT ![p] =
                   [k \in Keys |-> IF seen[p][k] > TTL THEN Never ELSE seen[p][k]]]
    /\ UNCHANGED <<granted, request, jobs, object, known, limits>>

\* Variant: an absent entry counts as the zero time and ages.
OlderAbsent(age) == age + 1

\* now.Sub(last): an absent entry has no age, and ages above the TTL are one.
Older(age) == IF age \in 0 .. TTL THEN age + 1 ELSE age

Tick ==
    /\ seen' = [p \in Replicas |-> [k \in Keys |-> Older(seen[p][k])]]
    /\ granted' = [p \in Replicas |-> [k \in Keys |-> Older(granted[p][k])]]
    /\ UNCHANGED <<request, jobs, object, known, limits>>

-----------------------------------------------------------------------------
(* HandleWebhook *)

\* A request arrives; Alertmanager repeats and retries.
Receive(h, alerts) ==
    /\ request[h] = <<>>
    /\ request' = [request EXCEPT ![h] = alerts]
    /\ UNCHANGED <<dedup, jobs, object, known, limits>>

\* Variant: the key is stored before the status is looked at.
HandleAlertAnyStatus(h) ==
    LET p == ReplicaOf[h]
        a == Head(request[h])
        job == [replica |-> p, alert |-> a, step |-> "get"]
    IN
    /\ request[h] # <<>>
    /\ request' = [request EXCEPT ![h] = Tail(@)]
    /\ \/ /\ ShouldProcess(p, Key(a))
          /\ MarkSeen(p, Key(a))
          /\ jobs' = IF a.status = "firing" THEN jobs \cup {job} ELSE jobs
       \/ /\ ~ShouldProcess(p, Key(a))
          /\ UNCHANGED <<dedup, jobs>>
    /\ UNCHANGED <<object, known, limits>>

\* The next alert of the request; after the last one the answer is 200.
HandleAlert(h) ==
    LET p == ReplicaOf[h]
        a == Head(request[h])
        job == [replica |-> p, alert |-> a, step |-> "get"]
    IN
    /\ request[h] # <<>>
    /\ request' = [request EXCEPT ![h] = Tail(@)]
    /\ \/ /\ a.status = "firing" /\ ShouldProcess(p, Key(a))
          /\ MarkSeen(p, Key(a))
          /\ jobs' = jobs \cup {job}
       \/ /\ a.status # "firing" \/ ~ShouldProcess(p, Key(a))
          /\ UNCHANGED <<dedup, jobs>>
    /\ UNCHANGED <<object, known, limits>>

-----------------------------------------------------------------------------
(* processAlert *)

Done(job) == jobs' = jobs \ {job}

RouteFails(job) ==
    /\ job.step = "get"
    /\ ~Routable(job.alert.labels, Routes)
    /\ Done(job)
    /\ UNCHANGED <<dedup, request, object, known, limits>>

\* Look the object up in the cache; any error counts as not found.
GetExisting(job) ==
    LET found == Name(job.alert) \in known[job.replica] IN
    /\ job.step = "get"
    /\ Routable(job.alert.labels, Routes)
    /\ \/ /\ found
          /\ Done(job)
          /\ UNCHANGED limits
       \/ /\ (~found /\ UNCHANGED limits) \/ Fault("error")
          /\ jobs' = (jobs \ {job}) \cup {[job EXCEPT !.step = "create"]}
    /\ UNCHANGED <<dedup, request, object, known>>

\* The API server accepts an object with a lower-case name and a severity of
\* the schema's enumeration, if there is none of that name.
Creatable(a) == /\ a.labels.alertname \in ValidNames
                /\ a.labels.severity \in {"critical", "warning", "info"}
                /\ ~object[Name(a)].exists

Remediation(a) == [exists |-> TRUE, fingerprint |-> a.fingerprint,
                   spec |-> RouteAlert(a.labels, Routes)]

RoutableAlerts == {a \in Alerts : Routable(a.labels, Routes)}
Objects == {Remediation(a) : a \in RoutableAlerts}

\* Variant: the goroutine retries as long as it does not hear of an object.
CreateRetrying(job) ==
    /\ job.step = "create"
    /\ \/ /\ Creatable(job.alert)
          /\ object' = [object EXCEPT ![Name(job.alert)] = Remediation(job.alert)]
          /\ \/ Done(job) /\ UNCHANGED limits
             \/ Fault("lost") /\ UNCHANGED jobs
       \/ ~Creatable(job.alert) /\ Done(job) /\ UNCHANGED <<object, limits>>
       \/ UNCHANGED <<object, jobs>> /\ Fault("error")
    /\ UNCHANGED <<dedup, request, known>>

\* Variant: an existing object is replaced.
CreateOverwriting(job) ==
    /\ job.step = "create"
    /\ object' = [object EXCEPT ![Name(job.alert)] = Remediation(job.alert)]
    /\ UNCHANGED limits
    /\ Done(job)
    /\ UNCHANGED <<dedup, request, known>>

\* Create the object; every error is logged and the alert dropped.
Create(job) ==
    /\ job.step = "create"
    /\ \/ /\ Creatable(job.alert)
          /\ object' = [object EXCEPT ![Name(job.alert)] = Remediation(job.alert)]
          /\ (UNCHANGED limits \/ Fault("lost"))
       \/ ~Creatable(job.alert) /\ UNCHANGED <<object, limits>>
       \/ UNCHANGED object /\ Fault("error")
    /\ Done(job)
    /\ UNCHANGED <<dedup, request, known>>

-----------------------------------------------------------------------------
(* The process, its cache, and users. *)

\* The process dies with its goroutines and its memory; Alertmanager gets no
\* answer to open requests.
Crash(p) ==
    /\ Fault("crash")
    /\ seen' = [seen EXCEPT ![p] = [k \in Keys |-> Never]]
    /\ granted' = [granted EXCEPT ![p] = [k \in Keys |-> Never]]
    /\ request' = [h \in Handlers |-> IF ReplicaOf[h] = p THEN <<>> ELSE request[h]]
    /\ jobs' = {job \in jobs : job.replica # p}
    /\ known' = [known EXCEPT ![p] = {n \in Names : object[n].exists}]
    /\ UNCHANGED object

CacheSync(p) ==
    LET there == {n \in Names : object[n].exists} IN
    /\ known[p] # there
    /\ known' = [known EXCEPT ![p] = there]
    /\ UNCHANGED <<dedup, request, jobs, object, limits>>

DeleteRemediation(n) ==
    /\ object[n].exists
    /\ deletions < MaxDeletions /\ deletions' = deletions + 1
    /\ object' = [object EXCEPT ![n] = NoObject]
    /\ UNCHANGED <<dedup, request, jobs, known, faults>>

-----------------------------------------------------------------------------
ProcessAlert(job) == RouteFails(job) \/ GetExisting(job) \/ Create(job)

Next ==
    \/ Tick
    \/ \E p \in Replicas : Cleanup(p) \/ CacheSync(p) \/ Crash(p)
    \/ \E h \in Handlers : HandleAlert(h) \/ \E q \in Requests : Receive(h, q)
    \/ \E job \in jobs : ProcessAlert(job)
    \/ \E n \in Names : DeleteRemediation(n)

Spec == Init /\ [][Next]_vars

\* Alertmanager repeats what keeps firing (repeat_interval), goroutines and
\* handlers are scheduled, the cleanup timer ticks and caches catch up.
Fairness ==
    /\ WF_vars(Tick)
    /\ \A q \in Repeated : SF_vars(\E h \in Handlers : Receive(h, q))
    /\ \A h \in Handlers : WF_vars(HandleAlert(h))
    /\ \A job \in Jobs : WF_vars(job \in jobs /\ ProcessAlert(job))
    /\ \A p \in Replicas : WF_vars(CacheSync(p)) /\ SF_vars(Cleanup(p))

FairSpec == Spec /\ Fairness

-----------------------------------------------------------------------------
(* Properties *)

\* Every variable keeps its type.
TypeOK ==
    /\ seen \in [Replicas -> [Keys -> Ages \cup {Never}]]
    /\ granted \in [Replicas -> [Keys -> Ages \cup {Never}]]
    /\ request \in [Handlers -> Seq(Alerts)]
    /\ jobs \subseteq Jobs
    /\ \A job \in jobs : job.step = "create" => Routable(job.alert.labels, Routes)
    /\ object \in [Names -> {NoObject} \cup Objects]
    /\ known \in [Replicas -> SUBSET Names]
    /\ faults \in Nat
    /\ deletions \in Nat

\* A replica starts no second goroutine for a key within the TTL, whatever
\* requests its handlers serve at the same time and whenever cleanup runs.
OncePerTTL ==
    [][\A job \in jobs' \ jobs :
          job.step = "get" => ~Recent(granted[job.replica][Key(job.alert)])]_vars

\* Forgetting is invisible: the deduplicator with its cleanup answers every
\* lookup like one that remembers all keys for ever.
CleanupInvisible ==
    \A p \in Replicas, k \in Keys : Recent(seen[p][k]) <=> Recent(granted[p][k])

\* An entry that is too old to matter does not stay, even when its alert does
\* not fire again: the map does not grow for ever.
StaleIsForgotten ==
    \A p \in Replicas, k \in Keys : []<>(seen[p][k] # TTL + 1)

\* The webhook never replaces an object, although Get reads a stale cache
\* and two goroutines may create the same name at the same time.
ObjectIsKept ==
    [][\A n \in Names :
          object[n].exists /\ object'[n].exists => object'[n] = object[n]]_vars

\* The state and the constants of AlertIntake: ages up to the TTL, and the
\* goroutines that may still create the Remediation of an alert.
Capped(age) == IF Recent(age) THEN age ELSE TTL
Age == [p \in Replicas |-> [k \in Keys |-> Capped(seen[p][k])]]

Running(p, a, step) ==
    IF [replica |-> p, alert |-> a, step |-> step] \in jobs THEN 1 ELSE 0
Owed == [p \in Replicas |-> [a \in Alerts |-> Running(p, a, "get") + Running(p, a, "create")]]

KeyOf == [a \in Alerts |-> Key(a)]
NameOf == [a \in Alerts |-> Name(a)]
RemediationOf == [a \in RoutableAlerts |-> Remediation(a)]
Firing == {a \in Alerts : a.status = "firing"}

Intake == INSTANCE AlertIntake WITH age <- Age, owed <- Owed

\* The webhook, with its map and cleanup, its goroutines, stale caches, failed
\* calls and crashes, does what AlertIntake promises: it lets a firing alert
\* through once per TTL, and each one let through is created at most once.
IntakeSpec == Intake!Spec

\* An alert that keeps firing gets its Remediation (again, if it is deleted),
\* although a create that fails, or a crash after the request was answered,
\* loses it, and the deduplicator then drops what Alertmanager repeats.
FiringIsRemediated ==
    \A q \in Repeated : \A i \in DOMAIN q :
        q[i].status = "firing" /\ Routable(q[i].labels, Routes)
            => []<>object[Name(q[i])].exists
=============================================================================
