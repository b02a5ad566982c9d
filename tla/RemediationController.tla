------------------------ MODULE RemediationController ------------------------
(***************************************************************************)
(* The reconciler of operator/internal/controller/remediation_controller.go *)
(* as it runs under controller-runtime: every manager keeps a lagging      *)
(* informer cache, a work queue and one worker; a reconcile reads the      *)
(* cache, computes a new status locally, and writes it to the API server,  *)
(* which accepts a write only when it carries the stored resourceVersion.  *)
(* Leader election is off by default, so several managers may be active.   *)
(*                                                                         *)
(* A handler runs as one step up to its first call to the API server; each *)
(* call is a step of its own, with all the outcomes it can have.  Reads    *)
(* come from the cache: reading the Remediation and its target in the same *)
(* step loses nothing, because a cache may lag by any amount.              *)
(***************************************************************************)
EXTENDS RemediationTypes, FiniteSets

CONSTANTS
    Managers,      \* the operator replicas, all reconciling
    Rems,          \* names of Remediation objects
    NoKey,         \* no request is being reconciled
    Targets,       \* workloads that remediations point at
    TargetOf,      \* the target of each remediation
    KindOf,        \* the kind of each target
    Edits,         \* changes other writers make to targets
    FaultKinds,    \* which of "error", "lost", "crash" may happen
    MaxTroubles,   \* bound: failed calls, crashes, and acts of other writers
    MaxRv          \* bound: versions at which Pending is analyzed

WorkloadKinds == {"Deployment", "StatefulSet", "DaemonSet"}

ASSUME NoKeyAssumption == NoKey \notin Rems
ASSUME TargetsAssumption == /\ TargetOf \in [Rems -> Targets]
                            /\ KindOf \in [Targets -> WorkloadKinds]
ASSUME BoundsAssumption == MaxTroubles \in Nat /\ MaxRv \in Nat

VARIABLES
    cr,         \* Remediation objects in the API server
    target,     \* workloads in the API server
    cache,      \* cache[m][r]: manager m's copy of a Remediation
    tcache,     \* tcache[m][t]: manager m's copy of a workload
    queue,      \* queue[m]: requests waiting for the worker
    delayed,    \* delayed[m]: requests waiting for their RequeueAfter
    pc,         \* what the worker does next: "idle", "status", "target"
    key,        \* the request being reconciled
    obj,        \* the worker's local Remediation, with its new status
    dep,        \* the worker's local workload, read from the cache
    dashboard,  \* events manager m has recorded in memory
    overdue,    \* remediations older than their TTL
    applied,    \* history: writes of a remediation that reached its target
    landed,     \* history: every change a target has accepted
    faults, intrusions   \* bound counters

store == <<cr, target>>
caches == <<cache, tcache>>
queues == <<queue, delayed>>
worker == <<pc, key, obj, dep>>
history == <<applied, landed>>
counters == <<faults, intrusions>>
vars == <<store, caches, queues, worker, dashboard, overdue, history, counters>>

Events == {"alert_received", "remediation_applied", "remediation_failed"}
Changes == Rems \cup Edits

Workload == [exists : BOOLEAN, rv : Nat, changes : SUBSET Changes]

NoWorkload == [exists |-> FALSE, rv |-> 0, changes |-> {}]
NewWorkload == [NoWorkload EXCEPT !.exists = TRUE, !.rv = 1]

Init ==
    /\ cr = [r \in Rems |-> NoRemediation]
    /\ target \in [Targets -> {NoWorkload, NewWorkload}]
    /\ cache = [m \in Managers |-> cr]
    /\ tcache = [m \in Managers |-> target]
    /\ queue = [m \in Managers |-> {}]
    /\ delayed = [m \in Managers |-> {}]
    /\ pc = [m \in Managers |-> "idle"]
    /\ key = [m \in Managers |-> NoKey]
    /\ obj = [m \in Managers |-> NoRemediation]
    /\ dep = [m \in Managers |-> NoWorkload]
    /\ dashboard = [m \in Managers |-> {}]
    /\ overdue = {}
    /\ applied = [r \in Rems |-> 0]
    /\ landed = [t \in Targets |-> {}]
    /\ faults = 0
    /\ intrusions = 0

-----------------------------------------------------------------------------
\* A workload with change c.
Gains(d, c) == [d EXCEPT !.changes = @ \cup {c}]

Fault(kind) == /\ kind \in FaultKinds
               /\ faults + intrusions < MaxTroubles
               /\ faults' = faults + 1
               /\ UNCHANGED intrusions

Intrusion == /\ faults + intrusions < MaxTroubles
             /\ intrusions' = intrusions + 1
             /\ UNCHANGED faults

-----------------------------------------------------------------------------
(* Reconcile: one action per handler, up to its first API server call. *)

\* The worker takes request r.
Dequeue(m, r) == /\ pc[m] = "idle"
                 /\ r \in queue[m]

\* The handler returns without writing; later tells whether RequeueAfter is set.
Return(m, r, later) ==
    /\ queue' = [queue EXCEPT ![m] = @ \ {r}]
    /\ delayed' = [delayed EXCEPT ![m] = IF later THEN @ \cup {r} ELSE @]
    /\ UNCHANGED <<store, caches, worker, dashboard, overdue, history, counters>>

\* The handler has computed status o (and workload d) and is about to write it.
WillWrite(m, r, o, d) ==
    /\ queue' = [queue EXCEPT ![m] = @ \ {r}]
    /\ pc' = [pc EXCEPT ![m] = "status"]
    /\ key' = [key EXCEPT ![m] = r]
    /\ obj' = [obj EXCEPT ![m] = o]
    /\ dep' = [dep EXCEPT ![m] = d]
    /\ UNCHANGED <<store, caches, delayed, overdue, history>>

Record(m, r, event) == dashboard' = [dashboard EXCEPT ![m] = @ \cup {<<r, event>>}]

\* Not found, or a terminal phase.
ReconcileNothing(m, r) ==
    LET o == cache[m][r] IN
    /\ Dequeue(m, r)
    /\ ~o.exists \/ o.phase \in Terminal
    /\ Return(m, r, FALSE)

HandleNew(m, r) ==
    LET o == cache[m][r] IN
    /\ Dequeue(m, r)
    /\ o.exists /\ o.phase = "New"
    /\ Record(m, r, "alert_received")
    /\ WillWrite(m, r, NewStatus(o), NoWorkload)
    /\ UNCHANGED counters

\* MaxRv is the bound, not the code: nothing there stops Pending and Analyzing
\* from taking turns.
HandlePending(m, r) ==
    LET o == cache[m][r]
        d == tcache[m][TargetOf[r]]
    IN
    /\ Dequeue(m, r)
    /\ o.exists /\ o.phase = "Pending"
    /\ o.rv < MaxRv
    /\ \/ d.exists /\ WillWrite(m, r, AnalyzingStatus(o), NoWorkload)
       \/ ~d.exists /\ WillWrite(m, r, FailedStatus(o), NoWorkload)
    /\ UNCHANGED <<dashboard, counters>>

\* Reading the target fails with an error other than not-found: try again.
HandlePendingError(m, r) ==
    LET o == cache[m][r] IN
    /\ Dequeue(m, r)
    /\ o.exists /\ o.phase = "Pending"
    /\ Fault("error")
    /\ UNCHANGED <<store, caches, queues, worker, dashboard, overdue, history>>

HandleAnalyzing(m, r) ==
    LET o == cache[m][r] IN
    /\ Dequeue(m, r)
    /\ o.exists /\ o.phase = "Analyzing"
    /\ ~IsDirect(o.spec)
    /\ WillWrite(m, r, WaitingStatus(o), NoWorkload)
    /\ UNCHANGED <<dashboard, counters>>

\* Analyzing in direct mode, up to the status update that precedes the patch.
HandleDirect(m, r) ==
    LET o == cache[m][r]
        t == TargetOf[r]
        d == tcache[m][t]
        Supported == o.spec.action \in DirectActions
    IN
    /\ Dequeue(m, r)
    /\ o.exists /\ o.phase = "Analyzing"
    /\ IsDirect(o.spec)
    /\ \/ /\ KindOf[t] = "Deployment" /\ d.exists /\ Supported
          /\ WillWrite(m, r, ApplyingStatus(o), d)
          /\ UNCHANGED <<dashboard, counters>>
       \/ \* the calculation rejects the parameters or the workload
          /\ KindOf[t] = "Deployment" /\ d.exists /\ Supported
          /\ WillWrite(m, r, FailedStatus(o), NoWorkload)
          /\ Record(m, r, "remediation_failed")
          /\ UNCHANGED counters
       \/ /\ KindOf[t] # "Deployment" \/ ~d.exists \/ ~Supported
          /\ WillWrite(m, r, FailedStatus(o), NoWorkload)
          /\ UNCHANGED <<dashboard, counters>>
       \/ \* reading the target fails: unlike HandlePending, this is final
          /\ KindOf[t] = "Deployment"
          /\ Fault("error")
          /\ WillWrite(m, r, FailedStatus(o), NoWorkload)
          /\ UNCHANGED dashboard

\* Variant: a remediation found in Applying is patched again.
HandleApplyingAgain(m, r) ==
    LET o == cache[m][r] IN
    /\ Dequeue(m, r)
    /\ o.exists /\ o.phase = "Applying"
    /\ WillWrite(m, r, ApplyingStatus(o), tcache[m][TargetOf[r]])
    /\ UNCHANGED <<dashboard, counters>>

\* Variant: a remediation found in Applying is given up.
HandleApplyingAbandoned(m, r) ==
    LET o == cache[m][r] IN
    /\ Dequeue(m, r)
    /\ o.exists /\ o.phase = "Applying"
    /\ WillWrite(m, r, FailedStatus(o), NoWorkload)
    /\ UNCHANGED <<dashboard, counters>>

HandleApplying(m, r) ==
    LET o == cache[m][r] IN
    /\ Dequeue(m, r)
    /\ o.exists /\ o.phase = "Applying"
    /\ Return(m, r, TRUE)

\* Variant: the wait for the merge sets no timer.
HandlePRCreatedUntimed(m, r) ==
    LET o == cache[m][r]
        Expires == o.spec.ttl /\ r \in overdue
    IN
    /\ Dequeue(m, r)
    /\ o.exists /\ o.phase = "PRCreated"
    /\ \/ ~Expires /\ Return(m, r, FALSE)
       \/ /\ Expires
          /\ WillWrite(m, r, ExpiredStatus(o), NoWorkload)
          /\ UNCHANGED <<dashboard, counters>>

HandlePRCreated(m, r) ==
    LET o == cache[m][r]
        Expires == o.spec.ttl /\ r \in overdue
    IN
    /\ Dequeue(m, r)
    /\ o.exists /\ o.phase = "PRCreated"
    /\ \/ ~Expires /\ Return(m, r, TRUE)
       \/ /\ Expires
          /\ WillWrite(m, r, ExpiredStatus(o), NoWorkload)
          /\ UNCHANGED <<dashboard, counters>>

Reconcile(m, r) ==
    \/ ReconcileNothing(m, r) \/ HandleNew(m, r) \/ HandlePending(m, r)
    \/ HandleAnalyzing(m, r) \/ HandleDirect(m, r)
    \/ HandleApplying(m, r) \/ HandlePRCreated(m, r)

-----------------------------------------------------------------------------
(* r.Status().Update *)

\* Variant: the worker is not released.
FinishUnreleased(m, again) ==
    /\ key' = [key EXCEPT ![m] = NoKey]
    /\ obj' = [obj EXCEPT ![m] = NoRemediation]
    /\ dep' = [dep EXCEPT ![m] = NoWorkload]
    /\ queue' = [queue EXCEPT ![m] = IF again THEN @ \cup {key[m]} ELSE @]
    /\ UNCHANGED <<pc, delayed>>

\* The reconcile ends; again tells whether it asks for an immediate requeue,
\* by Requeue or by returning an error.
Finish(m, again) ==
    /\ pc' = [pc EXCEPT ![m] = "idle"]
    /\ key' = [key EXCEPT ![m] = NoKey]
    /\ obj' = [obj EXCEPT ![m] = NoRemediation]
    /\ dep' = [dep EXCEPT ![m] = NoWorkload]
    /\ queue' = [queue EXCEPT ![m] = IF again THEN @ \cup {key[m]} ELSE @]
    /\ UNCHANGED delayed

\* New and Pending handlers end with Requeue: true.
Requeues(o) == o.phase = "Analyzing" \/ (o.phase = "Pending" /\ ~o.waiting)

WriteStatus(m) == cr' = [cr EXCEPT ![key[m]] = Bump(obj[m])]

StatusAccepted(m) ==
    /\ pc[m] = "status"
    /\ Current(obj[m], cr[key[m]])
    /\ WriteStatus(m)
    /\ \/ /\ obj[m].phase = "Applying"
          /\ obj' = [obj EXCEPT ![m] = Bump(@)]
          /\ pc' = [pc EXCEPT ![m] = "target"]
          /\ UNCHANGED <<key, dep, queues>>
       \/ /\ obj[m].phase # "Applying"
          /\ Finish(m, Requeues(obj[m]))
    /\ UNCHANGED <<target, caches, dashboard, overdue, history, counters>>

\* Conflict or not found: the error is returned and the request retried.
StatusRejected(m) ==
    /\ pc[m] = "status"
    /\ ~Current(obj[m], cr[key[m]])
    /\ Finish(m, TRUE)
    /\ UNCHANGED <<store, caches, dashboard, overdue, history, counters>>

\* Variant: the error is logged and the request not retried.
StatusErrorLogged(m) ==
    /\ pc[m] = "status"
    /\ Fault("error")
    /\ Finish(m, FALSE)
    /\ UNCHANGED <<store, caches, dashboard, overdue, history>>

\* The call fails before the server stores anything.
StatusError(m) ==
    /\ pc[m] = "status"
    /\ Fault("error")
    /\ Finish(m, TRUE)
    /\ UNCHANGED <<store, caches, dashboard, overdue, history>>

\* The server stores the status but the reply is lost.
StatusReplyLost(m) ==
    /\ pc[m] = "status"
    /\ Current(obj[m], cr[key[m]])
    /\ Fault("lost")
    /\ WriteStatus(m)
    /\ Finish(m, TRUE)
    /\ UNCHANGED <<target, caches, dashboard, overdue, history>>

-----------------------------------------------------------------------------
(* r.Update of the target, then the final status. *)

NextStatus(m, o) == /\ obj' = [obj EXCEPT ![m] = o]
                    /\ pc' = [pc EXCEPT ![m] = "status"]
                    /\ UNCHANGED <<key, dep>>

WriteTarget(m) ==
    LET r == key[m]
        t == TargetOf[r]
    IN
    /\ target' = [target EXCEPT ![t] = Bump(Gains(dep[m], r))]
    /\ applied' = [applied EXCEPT ![r] = @ + 1]
    /\ landed' = [landed EXCEPT ![t] = @ \cup {r}]

TargetAccepted(m) ==
    /\ pc[m] = "target"
    /\ Current(dep[m], target[TargetOf[key[m]]])
    /\ WriteTarget(m)
    /\ Record(m, key[m], "remediation_applied")
    /\ NextStatus(m, SucceededStatus(obj[m]))
    /\ UNCHANGED <<cr, caches, queues, overdue, counters>>

\* Variant: the error is ignored.
TargetRejectedIgnored(m) ==
    /\ pc[m] = "target"
    /\ ~Current(dep[m], target[TargetOf[key[m]]])
    /\ Record(m, key[m], "remediation_failed")
    /\ NextStatus(m, SucceededStatus(obj[m]))
    /\ UNCHANGED <<store, caches, queues, overdue, history, counters>>

\* Variant: the error is returned for a retry, and the status left as it is.
TargetRejectedRetried(m) ==
    /\ pc[m] = "target"
    /\ ~Current(dep[m], target[TargetOf[key[m]]])
    /\ Record(m, key[m], "remediation_failed")
    /\ Finish(m, TRUE)
    /\ UNCHANGED <<store, caches, overdue, history, counters>>

\* Every error of the target update, a conflict included, fails the remediation.
TargetRejected(m) ==
    /\ pc[m] = "target"
    /\ ~Current(dep[m], target[TargetOf[key[m]]])
    /\ Record(m, key[m], "remediation_failed")
    /\ NextStatus(m, FailedStatus(obj[m]))
    /\ UNCHANGED <<store, caches, queues, overdue, history, counters>>

TargetError(m) ==
    /\ pc[m] = "target"
    /\ Fault("error")
    /\ Record(m, key[m], "remediation_failed")
    /\ NextStatus(m, FailedStatus(obj[m]))
    /\ UNCHANGED <<store, caches, queues, overdue, history>>

TargetReplyLost(m) ==
    /\ pc[m] = "target"
    /\ Current(dep[m], target[TargetOf[key[m]]])
    /\ Fault("lost")
    /\ WriteTarget(m)
    /\ Record(m, key[m], "remediation_failed")
    /\ NextStatus(m, FailedStatus(obj[m]))
    /\ UNCHANGED <<cr, caches, queues, overdue>>

-----------------------------------------------------------------------------
(* controller-runtime: watches, timers, restarts. *)

\* A watch event: the cache catches up and the request is enqueued.  No
\* predicate filters events, so the controller's own writes enqueue too.
CacheSync(m, r) ==
    /\ cache[m][r] # cr[r]
    /\ cache' = [cache EXCEPT ![m][r] = cr[r]]
    /\ queue' = [queue EXCEPT ![m] = @ \cup {r}]
    /\ UNCHANGED <<store, tcache, delayed, worker, dashboard, overdue, history, counters>>

TargetCacheSync(m, t) ==
    /\ tcache[m][t] # target[t]
    /\ tcache' = [tcache EXCEPT ![m][t] = target[t]]
    /\ UNCHANGED <<store, cache, queues, worker, dashboard, overdue, history, counters>>

DelayExpires(m, r) ==
    /\ r \in delayed[m]
    /\ delayed' = [delayed EXCEPT ![m] = @ \ {r}]
    /\ queue' = [queue EXCEPT ![m] = @ \cup {r}]
    /\ UNCHANGED <<store, caches, worker, dashboard, overdue, history, counters>>

\* The process dies and is restarted: memory is lost, the caches are listed
\* afresh and every object found is enqueued.
Crash(m) ==
    /\ Fault("crash")
    /\ cache' = [cache EXCEPT ![m] = cr]
    /\ tcache' = [tcache EXCEPT ![m] = target]
    /\ queue' = [queue EXCEPT ![m] = {r \in Rems : cr[r].exists}]
    /\ delayed' = [delayed EXCEPT ![m] = {}]
    /\ pc' = [pc EXCEPT ![m] = "idle"]
    /\ key' = [key EXCEPT ![m] = NoKey]
    /\ obj' = [obj EXCEPT ![m] = NoRemediation]
    /\ dep' = [dep EXCEPT ![m] = NoWorkload]
    /\ dashboard' = [dashboard EXCEPT ![m] = {}]
    /\ UNCHANGED <<store, overdue, history>>

-----------------------------------------------------------------------------
(* The other writers of the API server. *)

CreateRemediation(r, s) ==
    /\ cr[r].rv = 0
    /\ cr' = [cr EXCEPT ![r] = Created(s)]
    /\ UNCHANGED <<target, caches, queues, worker, dashboard, overdue, history, counters>>

DeleteRemediation(r) ==
    /\ cr[r].exists
    /\ Intrusion
    /\ cr' = [cr EXCEPT ![r] = Deleted(@)]
    /\ UNCHANGED <<target, caches, queues, worker, dashboard, overdue, history>>

EditSpec(r, s) ==
    /\ cr[r].exists /\ cr[r].spec # s
    /\ Intrusion
    /\ cr' = [cr EXCEPT ![r] = Respecified(@, s)]
    /\ UNCHANGED <<target, caches, queues, worker, dashboard, overdue, history>>

\* The GitHub App, which lists Pending remediations and updates their status
\* with the version it listed: the write succeeds only if nothing changed since.
AppSetsStatus(r) ==
    /\ Listable(cr[r])
    /\ \/ cr' = [cr EXCEPT ![r] = Bump(PRCreatedStatus(@))]
       \/ cr' = [cr EXCEPT ![r] = Bump(FailedStatus(@))]
    /\ UNCHANGED <<target, caches, queues, worker, dashboard, overdue, history, counters>>

EditTarget(t, e) ==
    /\ target[t].exists /\ e \notin landed[t]
    /\ Intrusion
    /\ target' = [target EXCEPT ![t] = Bump(Gains(@, e))]
    /\ landed' = [landed EXCEPT ![t] = @ \cup {e}]
    /\ UNCHANGED <<cr, caches, queues, worker, dashboard, overdue, applied>>

DeleteTarget(t) ==
    /\ target[t].exists
    /\ Intrusion
    /\ target' = [target EXCEPT ![t] = Bump([@ EXCEPT !.exists = FALSE])]
    /\ UNCHANGED <<cr, caches, queues, worker, dashboard, overdue, history>>

\* The object's age passes spec.strategy.ttl.
TtlElapses(r) ==
    /\ cr[r].exists /\ cr[r].spec.ttl /\ r \notin overdue
    /\ overdue' = overdue \cup {r}
    /\ UNCHANGED <<store, caches, queues, worker, dashboard, history, counters>>

-----------------------------------------------------------------------------
ManagerStep(m) ==
    \/ \E r \in Rems : \/ Reconcile(m, r) \/ HandlePendingError(m, r)
                       \/ CacheSync(m, r) \/ DelayExpires(m, r)
    \/ StatusAccepted(m) \/ StatusRejected(m) \/ StatusError(m) \/ StatusReplyLost(m)
    \/ TargetAccepted(m) \/ TargetRejected(m) \/ TargetError(m) \/ TargetReplyLost(m)
    \/ \E t \in Targets : TargetCacheSync(m, t)
    \/ Crash(m)

RemediationStep(r) ==
    \/ \E s \in Specs : CreateRemediation(r, s) \/ EditSpec(r, s)
    \/ DeleteRemediation(r) \/ AppSetsStatus(r) \/ TtlElapses(r)

TargetStep(t) == DeleteTarget(t) \/ \E e \in Edits : EditTarget(t, e)

Next == \/ \E m \in Managers : ManagerStep(m)
        \/ \E r \in Rems : RemediationStep(r)
        \/ \E t \in Targets : TargetStep(t)

Spec == Init /\ [][Next]_vars

\* Workers, watches and timers make progress.  A request that keeps coming
\* back to the queue is served, because the work queue is first in, first out.
Fairness ==
    \A m \in Managers :
        /\ \A r \in Rems : /\ SF_vars(Reconcile(m, r))
                           /\ WF_vars(CacheSync(m, r))
                           /\ WF_vars(DelayExpires(m, r))
        /\ WF_vars(StatusAccepted(m) \/ StatusRejected(m))
        /\ WF_vars(TargetAccepted(m) \/ TargetRejected(m))
        /\ \A t \in Targets : WF_vars(TargetCacheSync(m, t))

FairSpec == Spec /\ Fairness

-----------------------------------------------------------------------------
(* Properties *)

\* Every variable keeps its type.
TypeOK ==
    /\ cr \in [Rems -> Remediation]
    /\ target \in [Targets -> Workload]
    /\ cache \in [Managers -> [Rems -> Remediation]]
    /\ tcache \in [Managers -> [Targets -> Workload]]
    /\ queue \in [Managers -> SUBSET Rems]
    /\ delayed \in [Managers -> SUBSET Rems]
    /\ pc \in [Managers -> {"idle", "status", "target"}]
    /\ key \in [Managers -> Rems \cup {NoKey}]
    /\ \A m \in Managers : pc[m] # "idle" => key[m] \in Rems
    /\ obj \in [Managers -> Remediation]
    /\ dep \in [Managers -> Workload]
    /\ dashboard \in [Managers -> SUBSET (Rems \X Events)]
    /\ overdue \in SUBSET Rems
    /\ applied \in [Rems -> Nat]
    /\ landed \in [Targets -> SUBSET Changes]
    /\ faults \in Nat
    /\ intrusions \in Nat

\* A remediation changes its target at most once, and counts at most one
\* attempt, although several managers reconcile it from stale caches, calls
\* are retried and managers crash (handleDirectRemediation writes Applying
\* before it patches, and handleApplyingRemediation never patches).
AppliedAtMostOnce ==
    \A r \in Rems : applied[r] <= 1 /\ cr[r].attempts <= 1

\* A remediation reported Succeeded, and an appliedAt time, stand for a change
\* that reached the target; a dashboard never shows an applied change that
\* did not.
SucceededMeansApplied ==
    \A r \in Rems :
        /\ cr[r].phase = "Succeeded" \/ cr[r].appliedAt => applied[r] = 1
        /\ \A m \in Managers :
               <<r, "remediation_applied">> \in dashboard[m] => applied[r] = 1

\* A remediation reported Failed or Expired left its target alone, unless a
\* call failed: handleDirectRemediation takes any error of the target update,
\* a reply that is lost too, for a failure to apply.
FailedMeansNotApplied ==
    \A r \in Rems : cr[r].phase \in {"Failed", "Expired"} => applied[r] = 0 \/ faults > 0

\* Patching a target from a stale copy never undoes a change another writer,
\* or another remediation, made to it in between.
NoLostUpdate ==
    \A t \in Targets : target[t].changes = landed[t]

\* resolvedAt is set exactly in the terminal phases, appliedAt exactly on
\* success, whichever handler, manager or service wrote the status.
ResolvedIffTerminal ==
    \A r \in Rems : /\ cr[r].resolvedAt <=> cr[r].phase \in Terminal
                    /\ cr[r].appliedAt <=> cr[r].phase = "Succeeded"

\* While nothing fails and nobody edits its spec, a remediation in Applying has
\* a worker that is finishing it with the stored version: the phase that
\* handleApplyingRemediation leaves alone is never abandoned.
ApplyingIsOwned ==
    \A r \in Rems :
        cr[r].exists /\ cr[r].phase = "Applying" /\ faults = 0 /\ cr[r].generation = 1 =>
            \E m \in Managers : /\ pc[m] # "idle" /\ key[m] = r
                                /\ Current(obj[m], cr[r])

\* Manager m will look at remediation r again: it is queued or has a timer, the
\* worker has it, or a watch event of it is on the way.
Awaited(m, r) ==
    \/ r \in queue[m] \cup delayed[m]
    \/ pc[m] # "idle" /\ key[m] = r
    \/ cache[m][r] # cr[r]

\* No manager forgets a remediation that has not ended: whatever writes fail,
\* conflict or lose their reply, whoever else writes the object, and after every
\* restart, something makes each manager reconcile it once more.
NoWakeupLost ==
    \A m \in Managers, r \in Rems :
        cr[r].exists /\ cr[r].phase \notin Terminal => Awaited(m, r)

\* A terminal phase is final: no manager with an old copy reopens it.
TerminalIsForever ==
    [][\A r \in Rems : cr[r].phase \in Terminal => cr'[r].phase = cr[r].phase]_vars

\* The step that commits to patching the cluster is taken only while the
\* stored spec still asks for direct mode without approval, even when the spec
\* was edited after the manager read it.
ApprovalGate ==
    [][\A r \in Rems :
          cr[r].phase # "Applying" /\ cr'[r].phase = "Applying" =>
              cr[r].spec.mode = "Direct" /\ ~cr[r].spec.requireApproval]_vars

\* The controller, for all its managers, caches and retries, moves each
\* remediation through the phases of RemediationLifecycle and nothing else, and
\* patches its target only in Applying and only once.
Lifecycle == INSTANCE RemediationLifecycle
                 WITH phase <- [r \in Rems |-> cr[r].phase], patches <- applied
LifecycleSpec == Lifecycle!Spec

\* A direct remediation whose spec is not edited ends, or is taken over by a
\* pull request, although managers compete for it and other writers change the
\* target.  A failed call or a crash can do no worse than leave it in Applying.
DirectResolves ==
    \A r \in Rems :
        cr[r].exists /\ IsDirect(cr[r].spec)
            ~> \/ ~cr[r].exists \/ cr[r].generation > 1
               \/ cr[r].phase \in Terminal \cup {"PRCreated"}
               \/ cr[r].phase = "Applying" /\ faults > 0

\* A remediation whose pull request outlives the TTL is expired, across
\* crashes, failed calls and competing managers, unless it is deleted or the
\* TTL is removed from its spec.
OverduePRExpires ==
    \A r \in Rems :
        cr[r].exists /\ cr[r].phase = "PRCreated" /\ cr[r].spec.ttl /\ r \in overdue
            ~> ~cr[r].exists \/ cr[r].phase = "Expired" \/ ~cr[r].spec.ttl

\* "Waiting for GitHub App service to create PR": a remediation in GitOps mode
\* that waits for the external service is left alone by the controller.
WaitsForExternalService ==
    [][\A r \in Rems : cr[r].waiting => cr'[r].phase # "Analyzing"]_vars

\* A direct remediation whose change reached the cluster is reported Succeeded.
AppliedIsReported ==
    \A r \in Rems : applied[r] = 1 ~> ~cr[r].exists \/ cr[r].phase = "Succeeded"

-----------------------------------------------------------------------------
(* The inductive invariant behind the safety properties. *)

\* A copy is older than the stored object, or is that object.
Copy(copy, stored) == /\ copy.rv <= stored.rv
                      /\ copy.rv = stored.rv => copy = stored

\* The status fields agree with each other, in the store and in every copy.
Coherent(o) ==
    /\ o.attempts \in {0, 1}
    /\ o.phase \in {"New", "Pending", "Analyzing", "PRCreated", "Expired"} => o.attempts = 0
    /\ o.phase \in {"Applying", "Succeeded"} => o.attempts = 1
    /\ o.resolvedAt <=> o.phase \in Terminal
    /\ o.appliedAt <=> o.phase = "Succeeded"

\* Manager m won the write of Applying for r and has not written the outcome.
Holds(m, r) == /\ key[m] = r
               /\ \/ pc[m] = "target"
                  \/ pc[m] = "status" /\ obj[m].attempts = 1 /\ obj[m].phase # "Applying"

CopiesInv == /\ \A r \in Rems : cr[r].rv = 0 => cr[r].phase = "New"
             /\ \A m \in Managers, r \in Rems : Copy(cache[m][r], cr[r])
             /\ \A m \in Managers, t \in Targets : Copy(tcache[m][t], target[t])

CoherentInv == /\ \A r \in Rems : Coherent(cr[r])
               /\ \A m \in Managers, r \in Rems : Coherent(cache[m][r])
               /\ \A m \in Managers : Coherent(obj[m])

WorkerInv ==
    \A m \in Managers :
        /\ pc[m] # "idle" => obj[m].rv <= cr[key[m]].rv
        /\ pc[m] = "status" /\ obj[m].rv = cr[key[m]].rv => Computed(cr[key[m]], obj[m])
        /\ pc[m] = "target" => /\ obj[m].phase = "Applying"
                               /\ obj[m].rv = cr[key[m]].rv => obj[m] = cr[key[m]]
        /\ pc[m] = "target" \/ (pc[m] = "status" /\ obj[m].phase = "Applying") =>
               Copy(dep[m], target[TargetOf[key[m]]])

HolderInv ==
    /\ \A m \in Managers, r \in Rems : Holds(m, r) => cr[r].phase = "Applying"
    /\ \A m, n \in Managers, r \in Rems : Holds(m, r) /\ Holds(n, r) => m = n

AppliedInv ==
    /\ \A r \in Rems :
           /\ applied[r] \in {0, 1}
           /\ cr[r].phase \in {"New", "Pending", "Analyzing", "PRCreated", "Expired"} =>
                  applied[r] = 0
           /\ cr[r].phase = "Succeeded" => applied[r] = 1
    /\ \A m \in Managers :
           /\ pc[m] = "target" => applied[key[m]] = 0
           /\ pc[m] = "status" /\ obj[m].phase = "Succeeded" => applied[key[m]] = 1
           /\ \A r \in Rems : <<r, "remediation_applied">> \in dashboard[m] => applied[r] = 1

\* The inductive invariant: copies are old or exact, a worker whose copy is
\* exact computed its status from the stored one, and whoever may still patch
\* a target is alone and finds its remediation in Applying.
IInv == /\ CopiesInv /\ CoherentInv /\ WorkerInv
        /\ HolderInv /\ AppliedInv /\ NoLostUpdate

\* Behind FailedMeansNotApplied: whoever is to write Failed over Applying was
\* refused by the server, or saw a call fail.
OutcomeInv ==
    /\ FailedMeansNotApplied
    /\ \A m \in Managers :
           pc[m] = "status" /\ obj[m].phase = "Failed" /\ obj[m].attempts = 1 =>
               applied[key[m]] = 0 \/ faults > 0

\* Behind ApplyingIsOwned: every edit of a spec raises its generation above 1.
OwnerInv == /\ ApplyingIsOwned
            /\ \A r \in Rems : cr[r].exists => cr[r].generation >= 1

\* The bound on analyses is looked at before the write, and still holds at it.
AnalyzingInv ==
    \A m \in Managers : pc[m] = "status" /\ obj[m].phase = "Analyzing" => obj[m].rv < MaxRv
=============================================================================
