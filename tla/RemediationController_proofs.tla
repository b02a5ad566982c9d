-------------------- MODULE RemediationController_proofs --------------------
(* Proofs about RemediationController, for every value of its constants. *)
EXTENDS RemediationController, RemediationTypes_proofs

\* The placeholders for an absent remediation and workload are typed.
LEMMA ConstantsTyped == /\ NoRemediation \in Remediation
                        /\ NoWorkload \in Workload
                        /\ NewWorkload \in Workload
BY NoRemediationTyped DEF NoWorkload, NewWorkload, Workload

\* What handlers, users and the API server make of a workload is one.
LEMMA WorkloadsTyped ==
  ASSUME NEW d \in Workload, NEW c \in Changes
  PROVE  /\ Bump(d) \in Workload
         /\ Gains(d, c) \in Workload
         /\ [d EXCEPT !.exists = FALSE] \in Workload
<1>1. d.rv + 1 \in Nat /\ d.changes \cup {c} \in SUBSET Changes
  BY DEF Workload
<1> QED
  BY <1>1, Zenon DEF Workload, Bump, Gains

\* The initial state is typed.
LEMMA TypeInit == Init => TypeOK
<1> SUFFICES ASSUME Init PROVE TypeOK
  OBVIOUS
<1> QED
  BY ConstantsTyped DEF Init, TypeOK

\* A handler that leaves a typed status to be written leaves a typed worker.
LEMMA TypeWillWrite ==
  ASSUME TypeOK, NEW m \in Managers, NEW r \in Rems, NEW o \in Remediation, NEW d \in Workload,
         WillWrite(m, r, o, d),
         dashboard' \in [Managers -> SUBSET (Rems \X Events)],
         faults' \in Nat /\ intrusions' \in Nat
  PROVE  TypeOK'
BY DEF TypeOK, WillWrite, store, caches, history

\* Recording an event keeps the dashboard typed.
LEMMA TypeRecord ==
  ASSUME TypeOK, NEW m \in Managers, NEW r \in Rems, NEW e \in Events, Record(m, r, e)
  PROVE  dashboard' \in [Managers -> SUBSET (Rems \X Events)]
BY DEF TypeOK, Record

\* The counter of faults stays a number.
LEMMA TypeFault ==
  ASSUME TypeOK, \/ UNCHANGED counters \/ Intrusion \/ \E k \in FaultKinds : Fault(k)
  PROVE  faults' \in Nat /\ intrusions' \in Nat
BY DEF TypeOK, counters, Fault, Intrusion

\* Every handler of Reconcile keeps the types.
LEMMA TypeReconcile ==
  ASSUME TypeOK, NEW m \in Managers, NEW r \in Rems,
         Reconcile(m, r) \/ HandlePendingError(m, r)
  PROVE  TypeOK'
<1> DEFINE o == cache[m][r]
           d == tcache[m][TargetOf[r]]
<1>0. /\ o \in Remediation /\ d \in Workload /\ NoWorkload \in Workload
      /\ dashboard \in [Managers -> SUBSET (Rems \X Events)]
  BY TargetsAssumption, ConstantsTyped DEF TypeOK
<1>1. ASSUME NEW later \in BOOLEAN, Return(m, r, later)
      PROVE  TypeOK'
  <2>1. queue' \in [Managers -> SUBSET Rems]
    BY <1>1 DEF Return, TypeOK
  <2>2. delayed' \in [Managers -> SUBSET Rems]
    BY <1>1 DEF Return, TypeOK
  <2>3. UNCHANGED <<store, caches, worker, dashboard, overdue, history, counters>>
    BY <1>1 DEF Return
  <2> QED
    BY <2>1, <2>2, <2>3 DEF TypeOK, store, caches, worker, history, counters
<1>2. CASE HandleNew(m, r)
  <2>1. Record(m, r, "alert_received") /\ WillWrite(m, r, NewStatus(o), NoWorkload)
        /\ UNCHANGED counters
    BY <1>2 DEF HandleNew
  <2> QED
    BY <1>0, <2>1, StatusesTyped, TypeWillWrite, TypeRecord, TypeFault DEF Events
<1>3. CASE HandlePending(m, r)
  <2>1. /\ WillWrite(m, r, AnalyzingStatus(o), NoWorkload)
           \/ WillWrite(m, r, FailedStatus(o), NoWorkload)
        /\ UNCHANGED dashboard /\ UNCHANGED counters
    BY <1>3 DEF HandlePending
  <2> QED
    BY <1>0, <2>1, StatusesTyped, TypeWillWrite, TypeFault
<1>4. CASE HandlePendingError(m, r)
  BY <1>4 DEF HandlePendingError, Fault, TypeOK, store, caches, queues, worker, history
<1>5. CASE HandleAnalyzing(m, r)
  <2>1. /\ WillWrite(m, r, WaitingStatus(o), NoWorkload)
        /\ UNCHANGED dashboard /\ UNCHANGED counters
    BY <1>5 DEF HandleAnalyzing
  <2> QED
    BY <1>0, <2>1, StatusesTyped, TypeWillWrite, TypeFault
<1>6. CASE HandleDirect(m, r)
  <2>1. /\ WillWrite(m, r, ApplyingStatus(o), d) \/ WillWrite(m, r, FailedStatus(o), NoWorkload)
        /\ UNCHANGED dashboard \/ Record(m, r, "remediation_failed")
        /\ UNCHANGED counters \/ Fault("error")
    BY <1>6 DEF HandleDirect
  <2>2. dashboard' \in [Managers -> SUBSET (Rems \X Events)]
    BY <1>0, <2>1, TypeRecord DEF Events
  <2>3. faults' \in Nat /\ intrusions' \in Nat
    BY <2>1, TypeFault DEF Fault
  <2> QED
    BY <1>0, <2>1, <2>2, <2>3, StatusesTyped, TypeWillWrite
<1>7. CASE HandlePRCreated(m, r) /\ ~Return(m, r, TRUE)
  <2>1. /\ WillWrite(m, r, ExpiredStatus(o), NoWorkload)
        /\ UNCHANGED dashboard /\ UNCHANGED counters
    BY <1>7 DEF HandlePRCreated
  <2> QED
    BY <1>0, <2>1, StatusesTyped, TypeWillWrite, TypeFault
<1> QED
  BY <1>1, <1>2, <1>3, <1>4, <1>5, <1>6, <1>7
     DEF Reconcile, ReconcileNothing, HandleApplying, HandlePRCreated

\* Types after a reconcile ends or moves to its final status.
LEMMA TypeFinish ==
  ASSUME TypeOK, NEW m \in Managers, pc[m] # "idle", NEW again \in BOOLEAN, Finish(m, again)
  PROVE  /\ queue' \in [Managers -> SUBSET Rems] /\ delayed' = delayed
         /\ pc' \in [Managers -> {"idle", "status", "target"}]
         /\ key' \in [Managers -> Rems \cup {NoKey}]
         /\ \A n \in Managers : pc'[n] # "idle" => key'[n] \in Rems
         /\ obj' \in [Managers -> Remediation] /\ dep' \in [Managers -> Workload]
BY ConstantsTyped DEF TypeOK, Finish

\* An accepted status update keeps the store and the histories typed.
LEMMA TypeWriteStatus ==
  ASSUME TypeOK, NEW m \in Managers, pc[m] # "idle", WriteStatus(m)
  PROVE  cr' \in [Rems -> Remediation]
<1>1. key[m] \in Rems /\ Bump(obj[m]) \in Remediation
  BY BumpFields DEF TypeOK
<1> QED
  BY <1>1 DEF TypeOK, WriteStatus

\* Every outcome of a status update keeps the types.
LEMMA TypeStatus ==
  ASSUME TypeOK, NEW m \in Managers,
         StatusAccepted(m) \/ StatusRejected(m) \/ StatusError(m) \/ StatusReplyLost(m)
  PROVE  TypeOK'
<1> USE DEF store, caches, history, counters
<1>0. pc[m] # "idle"
  BY DEF StatusAccepted, StatusRejected, StatusError, StatusReplyLost
<1>1. CASE StatusAccepted(m)
  <2>1. cr' \in [Rems -> Remediation]
    BY <1>0, <1>1, TypeWriteStatus DEF StatusAccepted
  <2>2. CASE obj[m].phase = "Applying"
    <3>1. Bump(obj[m]) \in Remediation
      BY BumpFields DEF TypeOK
    <3> QED
      BY <1>0, <1>1, <2>1, <2>2, <3>1 DEF StatusAccepted, TypeOK, queues
  <2>3. CASE obj[m].phase # "Applying"
    <3>1. Requeues(obj[m]) \in BOOLEAN
      BY DEF Requeues
    <3> QED
      BY <1>0, <1>1, <2>1, <2>3, <3>1, TypeFinish DEF StatusAccepted, TypeOK
  <2> QED
    BY <2>2, <2>3
<1>2. CASE StatusRejected(m)
  BY <1>0, <1>2, TypeFinish DEF StatusRejected, TypeOK
<1>3. CASE StatusError(m)
  <2>1. faults' \in Nat /\ intrusions' \in Nat
    BY <1>3, TypeFault DEF StatusError, Fault
  <2> QED
    BY <1>0, <1>3, <2>1, TypeFinish DEF StatusError, TypeOK
<1>4. CASE StatusReplyLost(m)
  <2>1. faults' \in Nat /\ intrusions' \in Nat
    BY <1>4, TypeFault DEF StatusReplyLost, Fault
  <2>2. cr' \in [Rems -> Remediation]
    BY <1>0, <1>4, TypeWriteStatus DEF StatusReplyLost
  <2> QED
    BY <1>0, <1>4, <2>1, <2>2, TypeFinish DEF StatusReplyLost, TypeOK
<1> QED
  BY <1>1, <1>2, <1>3, <1>4

\* Every outcome of a target update keeps the types.
LEMMA TypeTarget ==
  ASSUME TypeOK, NEW m \in Managers,
         TargetAccepted(m) \/ TargetRejected(m) \/ TargetError(m) \/ TargetReplyLost(m)
  PROVE  TypeOK'
<1> DEFINE r == key[m]
           t == TargetOf[r]
           w == Gains(dep[m], r)
<1>1. pc[m] = "target" /\ r \in Rems /\ t \in Targets
      /\ dep[m] \in Workload /\ obj[m] \in Remediation /\ r \in Changes
  BY TargetsAssumption
     DEF TypeOK, Changes, TargetAccepted, TargetRejected, TargetError, TargetReplyLost
<1>2. SucceededStatus(obj[m]) \in Remediation /\ FailedStatus(obj[m]) \in Remediation
  BY <1>1, StatusesTyped
<1>3. w \in Workload
  BY <1>1, WorkloadsTyped
<1>4. Bump(w) \in Workload
  BY <1>1, <1>3, WorkloadsTyped
<1>5. ASSUME WriteTarget(m)
      PROVE  /\ target' \in [Targets -> Workload] /\ applied' \in [Rems -> Nat]
             /\ landed' \in [Targets -> SUBSET Changes]
  <2>1. target' = [target EXCEPT ![t] = Bump(w)]
    BY <1>5 DEF WriteTarget
  <2>2. applied' \in [Rems -> Nat] /\ landed' \in [Targets -> SUBSET Changes]
    BY <1>1, <1>5 DEF WriteTarget, TypeOK
  <2> QED
    BY <1>4, <2>1, <2>2 DEF TypeOK
<1>6. ASSUME NEW o \in Remediation, NextStatus(m, o)
      PROVE  /\ obj' \in [Managers -> Remediation]
             /\ pc' \in [Managers -> {"idle", "status", "target"}]
             /\ key' = key /\ dep' = dep
             /\ \A n \in Managers : pc'[n] # "idle" => key'[n] \in Rems
  BY <1>1, <1>6 DEF NextStatus, TypeOK
<1>7. dashboard' \in [Managers -> SUBSET (Rems \X Events)]
  BY <1>1, TypeRecord
     DEF Events, TargetAccepted, TargetRejected, TargetError, TargetReplyLost
<1>8. faults' \in Nat /\ intrusions' \in Nat
  BY TypeFault DEF Fault, TargetAccepted, TargetRejected, TargetError, TargetReplyLost
<1> USE DEF store, caches, queues, history
<1>9. CASE TargetAccepted(m)
  BY <1>2, <1>5, <1>6, <1>7, <1>8, <1>9 DEF TargetAccepted, TypeOK
<1>10. CASE TargetRejected(m)
  BY <1>2, <1>6, <1>7, <1>8, <1>10 DEF TargetRejected, TypeOK
<1>11. CASE TargetError(m)
  BY <1>2, <1>6, <1>7, <1>8, <1>11 DEF TargetError, TypeOK
<1>12. CASE TargetReplyLost(m)
  BY <1>2, <1>5, <1>6, <1>7, <1>8, <1>12 DEF TargetReplyLost, TypeOK
<1> QED
  BY <1>9, <1>10, <1>11, <1>12

\* Watches, timers and restarts keep the types.
LEMMA TypeRuntime ==
  ASSUME TypeOK, NEW m \in Managers,
         \/ \E r \in Rems : CacheSync(m, r) \/ DelayExpires(m, r)
         \/ \E t \in Targets : TargetCacheSync(m, t)
         \/ Crash(m)
  PROVE  TypeOK'
<1> USE DEF TypeOK, store, queues, worker, history, counters, caches
<1>1. ASSUME NEW r \in Rems, CacheSync(m, r) PROVE TypeOK'
  BY <1>1 DEF CacheSync
<1>2. ASSUME NEW r \in Rems, DelayExpires(m, r) PROVE TypeOK'
  BY <1>2 DEF DelayExpires
<1>3. ASSUME NEW t \in Targets, TargetCacheSync(m, t) PROVE TypeOK'
  BY <1>3 DEF TargetCacheSync
<1>4. ASSUME Crash(m) PROVE TypeOK'
  BY <1>4, ConstantsTyped DEF Crash, Fault
<1> QED
  BY <1>1, <1>2, <1>3, <1>4

\* The other writers and the clock keep the types.
LEMMA TypeOthers ==
  ASSUME TypeOK,
         \/ \E r \in Rems : RemediationStep(r)
         \/ \E t \in Targets : TargetStep(t)
  PROVE  TypeOK'
<1> USE DEF store, caches, queues, worker, history, counters
<1>1. ASSUME NEW r \in Rems, NEW o \in Remediation, cr' = [cr EXCEPT ![r] = o]
      PROVE  cr' \in [Rems -> Remediation]
  BY <1>1 DEF TypeOK
<1>2. ASSUME NEW r \in Rems, NEW s \in Specs, CreateRemediation(r, s) PROVE TypeOK'
  <2>1. cr' \in [Rems -> Remediation]
    BY <1>1, <1>2, CreatedFields DEF CreateRemediation
  <2> QED
    BY <1>2, <2>1 DEF CreateRemediation, TypeOK
<1>3. ASSUME NEW r \in Rems, NEW s \in Specs, EditSpec(r, s) PROVE TypeOK'
  <2>1. cr[r] \in Remediation
    BY DEF TypeOK
  <2>2. cr' \in [Rems -> Remediation]
    BY <1>1, <1>3, <2>1, UserWriteFields DEF EditSpec
  <2> QED
    BY <1>3, <2>2 DEF EditSpec, TypeOK, Intrusion
<1>4. ASSUME NEW r \in Rems, DeleteRemediation(r) PROVE TypeOK'
  <2>1. cr[r] \in Remediation /\ \E s \in Specs : TRUE
    BY SpecsAssumption DEF TypeOK
  <2>2. cr' \in [Rems -> Remediation]
    BY <1>1, <1>4, <2>1, UserWriteFields DEF DeleteRemediation
  <2> QED
    BY <1>4, <2>2 DEF DeleteRemediation, TypeOK, Intrusion
<1>5. ASSUME NEW r \in Rems, AppSetsStatus(r) PROVE TypeOK'
  <2>1. cr[r] \in Remediation
    BY DEF TypeOK
  <2>2. PRCreatedStatus(cr[r]) \in Remediation /\ FailedStatus(cr[r]) \in Remediation
    BY <2>1, StatusesTyped
  <2>3. cr' \in [Rems -> Remediation]
    BY <1>1, <1>5, <2>2, BumpFields DEF AppSetsStatus
  <2> QED
    BY <1>5, <2>3 DEF AppSetsStatus, TypeOK
<1>6. ASSUME NEW r \in Rems, TtlElapses(r) PROVE TypeOK'
  BY <1>6 DEF TtlElapses, TypeOK
<1>7. ASSUME NEW t \in Targets, NEW e \in Edits, EditTarget(t, e) PROVE TypeOK'
  <2> DEFINE w == Gains(target[t], e)
  <2>1. target[t] \in Workload /\ e \in Changes
    BY DEF TypeOK, Changes
  <2>2. Bump(w) \in Workload
    <3>1. w \in Workload
      BY <2>1, WorkloadsTyped
    <3> QED
      BY <2>1, <3>1, WorkloadsTyped
  <2>3. target' \in [Targets -> Workload]
    <3>1. target' = [target EXCEPT ![t] = Bump(w)]
      BY <1>7 DEF EditTarget
    <3> HIDE DEF w
    <3> QED
      BY <2>2, <3>1 DEF TypeOK
  <2> QED
    BY <1>7, <2>3 DEF EditTarget, TypeOK, Intrusion, Changes
<1>8. ASSUME NEW t \in Targets, DeleteTarget(t) PROVE TypeOK'
  <2>1. target[t] \in Workload
    BY DEF TypeOK
  <2>2. Bump([target[t] EXCEPT !.exists = FALSE]) \in Workload
    <3> DEFINE w == [target[t] EXCEPT !.exists = FALSE]
    <3>1. w \in Workload
      BY <2>1, Zenon DEF Workload
    <3>2. w.rv + 1 \in Nat
      BY <3>1 DEF Workload
    <3> QED
      BY <3>1, <3>2, Zenon DEF Workload, Bump
  <2> QED
    BY <1>8, <2>2 DEF DeleteTarget, TypeOK, Intrusion
<1> QED
  BY <1>2, <1>3, <1>4, <1>5, <1>6, <1>7, <1>8 DEF RemediationStep, TargetStep

\* Every step keeps the types.
LEMMA TypeStep == TypeOK /\ [Next]_vars => TypeOK'
<1> SUFFICES ASSUME TypeOK, [Next]_vars PROVE TypeOK'
  OBVIOUS
<1>1. CASE UNCHANGED vars
  BY <1>1 DEF TypeOK, vars, store, caches, queues, worker, history, counters
<1>2. CASE \E m \in Managers : ManagerStep(m)
  BY <1>2, TypeReconcile, TypeStatus, TypeTarget, TypeRuntime DEF ManagerStep
<1>3. CASE \/ \E r \in Rems : RemediationStep(r)
           \/ \E t \in Targets : TargetStep(t)
  BY <1>3, TypeOthers
<1> QED
  BY <1>1, <1>2, <1>3 DEF Next

\* Every reachable state is well typed: the statuses handlers compute from
\* copies, and the copies themselves, never leave the declared API types.
THEOREM TypeCorrect == Spec => []TypeOK
<1>1. Init => TypeOK
  BY TypeInit
<1>2. TypeOK /\ [Next]_vars => TypeOK'
  BY TypeStep
<1> QED
  BY <1>1, <1>2, PTL DEF Spec

-----------------------------------------------------------------------------
(* The inductive invariant. *)

\* What a handler computes from an object c, whatever the handler.
LEMMA ComputedFacts ==
  ASSUME NEW c \in Remediation, NEW o, Computed(c, o), Coherent(c)
  PROVE  /\ o \in Remediation /\ Coherent(o)
         /\ o.rv = c.rv /\ o.spec = c.spec /\ o.exists = c.exists
         /\ o.generation = c.generation
         /\ o.phase = "Applying" => c.phase = "Analyzing" /\ IsDirect(c.spec)
         /\ c.phase = "Applying" => o.phase \in {"Succeeded", "Failed"} /\ o.attempts = 1
         /\ c.phase # "Applying" => /\ o.attempts = 0 \/ o.phase = "Applying"
                                   /\ o.phase # "Succeeded"
         /\ c.phase \in {"New", "Pending", "Analyzing", "PRCreated", "Applying"}
         /\ o.phase # "New"
<1>1. c.attempts \in Nat
  BY DEF Remediation
<1>2. o \in {NewStatus(c), AnalyzingStatus(c), WaitingStatus(c), ApplyingStatus(c),
            SucceededStatus(c), FailedStatus(c), ExpiredStatus(c)}
  BY DEF Computed
<1>3. /\ o \in Remediation /\ o.rv = c.rv /\ o.spec = c.spec /\ o.exists = c.exists
      /\ o.generation = c.generation
  <2>1. o \in Remediation
    BY <1>2, StatusesTyped
  <2>2. /\ o.rv = c.rv /\ o.spec = c.spec /\ o.exists = c.exists
        /\ o.generation = c.generation
    BY <1>2, StatusFields
  <2> QED
    BY <2>1, <2>2
<1>4. CASE c.phase = "New" /\ o = NewStatus(c)
  BY <1>1, <1>3, <1>4, StatusFields DEF Coherent, Terminal
<1>5. CASE c.phase = "Pending" /\ o = AnalyzingStatus(c)
  BY <1>1, <1>3, <1>5, StatusFields DEF Coherent, Terminal
<1>6. CASE c.phase = "Pending" /\ o = FailedStatus(c)
  BY <1>1, <1>3, <1>6, StatusFields DEF Coherent, Terminal
<1>7. CASE c.phase = "Analyzing" /\ ~IsDirect(c.spec) /\ o = WaitingStatus(c)
  BY <1>1, <1>3, <1>7, StatusFields DEF Coherent, Terminal
<1>8. CASE c.phase = "Analyzing" /\ IsDirect(c.spec) /\ o = FailedStatus(c)
  BY <1>1, <1>3, <1>8, StatusFields DEF Coherent, Terminal
<1>9. CASE c.phase = "Analyzing" /\ IsDirect(c.spec) /\ o = ApplyingStatus(c)
  BY <1>1, <1>3, <1>9, StatusFields DEF Coherent, Terminal
<1>10. CASE c.phase = "PRCreated" /\ o = ExpiredStatus(c)
  BY <1>1, <1>3, <1>10, StatusFields DEF Coherent, Terminal
<1>11. CASE c.phase = "Applying" /\ o = SucceededStatus(c)
  BY <1>1, <1>3, <1>11, StatusFields DEF Coherent, Terminal
<1>12. CASE c.phase = "Applying" /\ o = FailedStatus(c)
  BY <1>1, <1>3, <1>12, StatusFields DEF Coherent, Terminal
<1> QED
  BY <1>4, <1>5, <1>6, <1>7, <1>8, <1>9, <1>10, <1>11, <1>12 DEF Computed

\* A reconcile writes nothing to the server: it returns, or it holds a status
\* computed from its cached copy, and never one of Applying's outcomes.
LEMMA ReconcileComputes ==
  ASSUME TypeOK, NEW m \in Managers, NEW r \in Rems, Reconcile(m, r)
  PROVE  \/ \E later \in BOOLEAN : Return(m, r, later)
         \/ \E o, d :
              /\ WillWrite(m, r, o, d)
              /\ Computed(cache[m][r], o) /\ cache[m][r].phase # "Applying"
              /\ cache[m][r].exists /\ pc[m] = "idle"
              /\ o.phase = "Analyzing" => o.rv < MaxRv
              /\ UNCHANGED faults \/ Fault("error")
              /\ cache[m][r].phase = "Analyzing" /\ IsDirect(cache[m][r].spec)
                    => d = tcache[m][TargetOf[r]] \/ o = FailedStatus(cache[m][r])
              /\ \E e \in Events \ {"remediation_applied"} :
                     UNCHANGED dashboard \/ Record(m, r, e)
<1> DEFINE c == cache[m][r]
<1> USE DEF Events, Computed, Dequeue, counters
<1>0. /\ NewStatus(c).phase # "Analyzing" /\ WaitingStatus(c).phase # "Analyzing"
      /\ ApplyingStatus(c).phase # "Analyzing" /\ FailedStatus(c).phase # "Analyzing"
      /\ ExpiredStatus(c).phase # "Analyzing" /\ AnalyzingStatus(c).rv = c.rv
  <2>1. c \in Remediation
    BY DEF TypeOK
  <2> QED
    BY <2>1, StatusFields
<1>1. CASE ReconcileNothing(m, r) \/ HandleApplying(m, r)
  BY <1>1 DEF ReconcileNothing, HandleApplying
<1>2. CASE HandleNew(m, r)
  <2>1. /\ WillWrite(m, r, NewStatus(c), NoWorkload) /\ Computed(c, NewStatus(c))
        /\ c.phase = "New" /\ c.exists /\ Record(m, r, "alert_received")
        /\ pc[m] = "idle" /\ UNCHANGED faults
    BY <1>2 DEF HandleNew
  <2> QED
    BY <1>0, <2>1
<1>3. CASE HandlePending(m, r)
  <2>1. /\ \/ WillWrite(m, r, AnalyzingStatus(c), NoWorkload)
           \/ WillWrite(m, r, FailedStatus(c), NoWorkload)
        /\ c.phase = "Pending" /\ c.exists /\ UNCHANGED dashboard
        /\ pc[m] = "idle" /\ UNCHANGED faults /\ c.rv < MaxRv
    BY <1>3 DEF HandlePending
  <2> QED
    BY <1>0, <2>1
<1>4. CASE HandleAnalyzing(m, r)
  <2>1. /\ WillWrite(m, r, WaitingStatus(c), NoWorkload) /\ ~IsDirect(c.spec)
        /\ c.phase = "Analyzing" /\ c.exists /\ UNCHANGED dashboard
        /\ pc[m] = "idle" /\ UNCHANGED faults
    BY <1>4 DEF HandleAnalyzing
  <2> QED
    BY <1>0, <2>1
<1>5. CASE HandleDirect(m, r)
  <2>1. /\ \/ WillWrite(m, r, ApplyingStatus(c), tcache[m][TargetOf[r]])
           \/ WillWrite(m, r, FailedStatus(c), NoWorkload)
        /\ UNCHANGED dashboard \/ Record(m, r, "remediation_failed")
        /\ c.phase = "Analyzing" /\ IsDirect(c.spec) /\ c.exists
        /\ pc[m] = "idle" /\ (UNCHANGED faults \/ Fault("error"))
    BY <1>5 DEF HandleDirect
  <2>2. \E e \in Events \ {"remediation_applied"} : UNCHANGED dashboard \/ Record(m, r, e)
    BY <2>1
  <2>3. /\ Computed(c, ApplyingStatus(c)) /\ ApplyingStatus(c).phase # "Analyzing"
        /\ Computed(c, FailedStatus(c)) /\ FailedStatus(c).phase # "Analyzing"
    BY <1>0, <2>1
  <2> HIDE DEF Computed
  <2> QED
    BY <2>1, <2>2, <2>3
<1>6. CASE HandlePRCreated(m, r)
  <2>1. /\ c.phase = "PRCreated" /\ c.exists /\ pc[m] = "idle"
        /\ \/ Return(m, r, TRUE)
           \/ /\ WillWrite(m, r, ExpiredStatus(c), NoWorkload)
              /\ UNCHANGED dashboard /\ UNCHANGED faults
    BY <1>6 DEF HandlePRCreated
  <2>2. CASE Return(m, r, TRUE)
    BY <2>2
  <2>3. CASE /\ WillWrite(m, r, ExpiredStatus(c), NoWorkload)
             /\ UNCHANGED dashboard /\ UNCHANGED faults
    BY <1>0, <2>1, <2>3
  <2> QED
    BY <2>1, <2>2, <2>3
<1> QED
  BY <1>1, <1>2, <1>3, <1>4, <1>5, <1>6 DEF Reconcile

\* A handler up to its first call keeps the inductive invariant.
LEMMA InvReconcile ==
  ASSUME TypeOK, IInv, NEW m \in Managers, NEW r \in Rems,
         Reconcile(m, r) \/ HandlePendingError(m, r)
  PROVE  IInv'
<1> USE DEF store, caches, worker, history
<1>1. CASE HandlePendingError(m, r) \/ \E later \in BOOLEAN : Return(m, r, later)
  <2>1. UNCHANGED <<cr, target, cache, tcache, pc, key, obj, dep, dashboard, applied, landed>>
    BY <1>1 DEF HandlePendingError, Return
  <2> QED
    BY <2>1 DEF IInv, CopiesInv, CoherentInv, WorkerInv, HolderInv, AppliedInv, NoLostUpdate, Holds
<1>2. ASSUME NEW o, NEW d,
             WillWrite(m, r, o, d),
             Computed(cache[m][r], o), cache[m][r].phase # "Applying",
             cache[m][r].phase = "Analyzing" /\ IsDirect(cache[m][r].spec)
               => d = tcache[m][TargetOf[r]] \/ o = FailedStatus(cache[m][r]),
             NEW e \in Events \ {"remediation_applied"},
             UNCHANGED dashboard \/ Record(m, r, e)
      PROVE  IInv'
  <2> DEFINE c == cache[m][r]
  <2>1. c \in Remediation /\ Coherent(c) /\ Copy(c, cr[r]) /\ cr[r] \in Remediation
    BY DEF TypeOK, IInv, CopiesInv, CoherentInv
  <2>2. /\ o \in Remediation /\ Coherent(o) /\ o.rv = c.rv
        /\ o.attempts = 0 \/ o.phase = "Applying"
        /\ o.phase # "Succeeded"
        /\ o.phase = "Applying" => c.phase = "Analyzing" /\ IsDirect(c.spec)
    BY <1>2, <2>1, ComputedFacts
  <2>3. /\ UNCHANGED <<cr, target, cache, tcache, applied, landed>>
        /\ pc' = [pc EXCEPT ![m] = "status"] /\ key' = [key EXCEPT ![m] = r]
        /\ obj' = [obj EXCEPT ![m] = o] /\ dep' = [dep EXCEPT ![m] = d]
    BY <1>2 DEF WillWrite
  <2>4. /\ pc'[m] = "status" /\ key'[m] = r /\ obj'[m] = o /\ dep'[m] = d
        /\ \A n \in Managers \ {m} : /\ pc'[n] = pc[n] /\ key'[n] = key[n]
                                     /\ obj'[n] = obj[n] /\ dep'[n] = dep[n]
    BY <2>3 DEF TypeOK
  <2>5. CopiesInv' /\ NoLostUpdate'
    BY <2>3 DEF IInv, CopiesInv, NoLostUpdate
  <2>6. CoherentInv'
    BY <2>2, <2>3, <2>4 DEF IInv, CoherentInv
  <2>7. WorkerInv'
    <3>1. o.rv <= cr[r].rv /\ (o.rv = cr[r].rv => Computed(cr[r], o))
      BY <1>2, <2>1, <2>2 DEF Copy
    <3>2. o.phase = "Applying" => Copy(d, target[TargetOf[r]])
      <4>1. FailedStatus(c).phase = "Failed"
        BY <2>1, StatusFields
      <4> QED
        BY <1>2, <2>2, <4>1, TargetsAssumption DEF IInv, CopiesInv
    <3> QED
      BY <2>3, <2>4, <3>1, <3>2 DEF IInv, WorkerInv
  <2>8. HolderInv'
    <3>1. \A q \in Rems : ~Holds(m, q)'
      BY <2>2, <2>4 DEF Holds
    <3>2. \A n \in Managers \ {m}, q \in Rems : Holds(n, q)' <=> Holds(n, q)
      BY <2>4 DEF Holds
    <3> QED
      BY <2>3, <3>1, <3>2 DEF IInv, HolderInv
  <2>9. AppliedInv'
    <3>1. \A n \in Managers, q \in Rems :
             <<q, "remediation_applied">> \in dashboard'[n] =>
                <<q, "remediation_applied">> \in dashboard[n]
      BY <1>2 DEF Record, TypeOK, Events
    <3> QED
      BY <2>2, <2>3, <2>4, <3>1 DEF IInv, AppliedInv
  <2> QED
    BY <2>5, <2>6, <2>7, <2>8, <2>9 DEF IInv
<1> QED
  BY <1>1, <1>2, ReconcileComputes

\* A write of object o over remediation k, with the next version: every copy
\* becomes old, and no worker's write of k can succeed any more.
LEMMA WriteMakesCopiesOld ==
  ASSUME TypeOK, IInv, NEW k \in Rems, NEW o \in Remediation, o.rv = cr[k].rv + 1,
         o.phase # "New" \/ cr[k].phase = "New",
         cr' = [cr EXCEPT ![k] = o], UNCHANGED <<cache, tcache, target>>
  PROVE  /\ CopiesInv'
         /\ cr'[k] = o /\ \A r \in Rems \ {k} : cr'[r] = cr[r]
         /\ \A m \in Managers : pc[m] # "idle" /\ key[m] = k => obj[m].rv < cr'[k].rv
<1>1. cr'[k] = o /\ \A r \in Rems \ {k} : cr'[r] = cr[r]
  BY DEF TypeOK
<1>2. CopiesInv'
  <2>1. cr[k].rv \in Nat /\ \A m \in Managers : cache[m][k].rv \in Nat
    BY DEF TypeOK, Remediation
  <2>2. \A m \in Managers : Copy(cache[m][k], o)
    BY <2>1 DEF IInv, CopiesInv, Copy
  <2>3. o.rv # 0
    BY <2>1
  <2> QED
    BY <1>1, <2>2, <2>3 DEF IInv, CopiesInv
<1>3. ASSUME NEW m \in Managers, pc[m] # "idle", key[m] = k PROVE obj[m].rv < cr'[k].rv
  <2>1. obj[m].rv \in Nat /\ cr[k].rv \in Nat
    BY DEF TypeOK, Remediation
  <2>2. obj[m].rv <= cr[k].rv
    BY <1>3 DEF IInv, WorkerInv
  <2> QED
    BY <1>1, <2>1, <2>2
<1> QED
  BY <1>1, <1>2, <1>3

\* Another writer's update of a remediation keeps the invariant when it leaves
\* the fields coherent and touches the phase of unclaimed remediations only.
LEMMA InvOtherWrite ==
  ASSUME TypeOK, IInv, NEW k \in Rems, NEW o \in Remediation, o.rv = cr[k].rv + 1,
         Coherent(o),
         \/ o.phase = cr[k].phase
         \/ cr[k].phase = "Pending" /\ o.phase \in {"PRCreated", "Failed"},
         cr' = [cr EXCEPT ![k] = o],
         UNCHANGED <<target, caches, worker, dashboard, history>>
  PROVE  IInv'
<1> USE DEF caches, worker, history
<1>1. /\ CopiesInv'
      /\ cr'[k] = o /\ \A r \in Rems \ {k} : cr'[r] = cr[r]
      /\ \A m \in Managers : pc[m] # "idle" /\ key[m] = k => obj[m].rv < cr'[k].rv
  BY WriteMakesCopiesOld
<1>2. CoherentInv' /\ NoLostUpdate'
  BY <1>1 DEF IInv, CoherentInv, NoLostUpdate
<1>3. WorkerInv'
  <2>1. \A m \in Managers : pc[m] # "idle" => key[m] \in Rems
    BY DEF TypeOK
  <2>2. o.rv \in Nat /\ \A m \in Managers : obj[m].rv \in Nat
    BY DEF TypeOK, Remediation
  <2> QED
    BY <1>1, <2>1, <2>2 DEF IInv, WorkerInv
<1>4. HolderInv'
  BY <1>1 DEF IInv, HolderInv, Holds
<1>5. AppliedInv'
  BY <1>1 DEF IInv, AppliedInv
<1> QED
  BY <1>1, <1>2, <1>3, <1>4, <1>5 DEF IInv

\* Worker m writes its status, and goes idle or on to the target.
LEMMA InvWriteStatus ==
  ASSUME TypeOK, IInv, NEW m \in Managers, pc[m] = "status",
         Current(obj[m], cr[key[m]]), WriteStatus(m),
         \/ \E again \in BOOLEAN : Finish(m, again)
         \/ /\ obj[m].phase = "Applying"
            /\ obj' = [obj EXCEPT ![m] = Bump(obj[m])]
            /\ pc' = [pc EXCEPT ![m] = "target"]
            /\ UNCHANGED <<key, dep>>,
         UNCHANGED <<target, caches, dashboard, history>>
  PROVE  IInv'
<1> DEFINE k == key[m]
           o == obj[m]
           w == Bump(o)
<1> USE DEF caches, history
<1>1. /\ k \in Rems /\ cr[k] \in Remediation /\ Coherent(cr[k])
      /\ Computed(cr[k], o) /\ o.rv = cr[k].rv
      /\ o \in Remediation
  BY DEF TypeOK, IInv, WorkerInv, CoherentInv, Current
<1>2. /\ Coherent(o)
      /\ o.phase = "Applying" => cr[k].phase = "Analyzing"
      /\ cr[k].phase = "Applying" => o.phase \in {"Succeeded", "Failed"} /\ o.attempts = 1
      /\ o.phase # "New"
      /\ o.phase = "Expired" => cr[k].phase = "PRCreated"
      /\ o.phase \in {"Pending", "Analyzing"} =>
            cr[k].phase \in {"New", "Pending", "Analyzing"}
  <2>1. o.phase = "Expired" => cr[k].phase = "PRCreated"
    BY <1>1, StatusFields DEF Computed
  <2>2. o.phase \in {"Pending", "Analyzing"} => cr[k].phase \in {"New", "Pending", "Analyzing"}
    BY <1>1, StatusFields DEF Computed
  <2> QED
    BY <1>1, <2>1, <2>2, ComputedFacts
<1>3. /\ w \in Remediation /\ w.rv = cr[k].rv + 1 /\ w.phase = o.phase
      /\ w.attempts = o.attempts /\ w.resolvedAt = o.resolvedAt /\ w.appliedAt = o.appliedAt
  BY <1>1, BumpFields
<1>4. Coherent(w)
  BY <1>2, <1>3 DEF Coherent
<1>5. cr' = [cr EXCEPT ![k] = w]
  BY DEF WriteStatus
<1> HIDE DEF w
<1>6. /\ CopiesInv'
      /\ cr'[k] = w /\ \A r \in Rems \ {k} : cr'[r] = cr[r]
      /\ \A n \in Managers : pc[n] # "idle" /\ key[n] = k => obj[n].rv < cr'[k].rv
  BY <1>1, <1>2, <1>3, <1>5, WriteMakesCopiesOld
<1>7. /\ \/ pc'[m] = "idle" /\ obj'[m] = NoRemediation
         \/ /\ pc'[m] = "target" /\ o.phase = "Applying"
            /\ obj'[m] = w /\ key'[m] = k /\ dep'[m] = dep[m]
      /\ \A n \in Managers \ {m} : /\ pc'[n] = pc[n] /\ key'[n] = key[n]
                                   /\ obj'[n] = obj[n] /\ dep'[n] = dep[n]
  BY DEF Finish, TypeOK, w
<1>8. CoherentInv' /\ NoLostUpdate'
  <2>1. Coherent(NoRemediation)
    BY DEF NoRemediation, Coherent, Terminal
  <2> QED
    BY <1>4, <1>6, <1>7, <2>1 DEF IInv, CoherentInv, NoLostUpdate
<1>9. WorkerInv'
  <2>1. \A n \in Managers : pc[n] # "idle" => key[n] \in Rems
    BY DEF TypeOK
  <2>2. w.rv \in Nat /\ \A n \in Managers : obj[n].rv \in Nat
    BY <1>3 DEF TypeOK, Remediation
  <2>3. ASSUME NEW n \in Managers \ {m}, pc[n] # "idle"
        PROVE  /\ obj[n].rv <= cr'[key[n]].rv
               /\ obj[n].rv = cr'[key[n]].rv => key[n] # k
    BY <1>6, <2>1, <2>2, <2>3 DEF IInv, WorkerInv
  <2>4. Copy(dep[m], target[TargetOf[k]]) \/ o.phase # "Applying"
    BY DEF IInv, WorkerInv
  <2> QED
    BY <1>3, <1>6, <1>7, <2>1, <2>2, <2>3, <2>4 DEF IInv, WorkerInv
<1>10. HolderInv'
  <2>1. cr[k].phase = "Applying" => Holds(m, k)
    BY <1>2 DEF Holds
  <2>2. \A n \in Managers \ {m} : ~Holds(n, k)
    <3>1. CASE cr[k].phase = "Applying"
      BY <1>1, <2>1, <3>1 DEF IInv, HolderInv
    <3>2. CASE cr[k].phase # "Applying"
      BY <1>1, <3>2 DEF IInv, HolderInv
    <3> QED
      BY <3>1, <3>2
  <2>3. \A n \in Managers \ {m}, r \in Rems : Holds(n, r)' <=> Holds(n, r)
    BY <1>7 DEF Holds
  <2>4. \A r \in Rems : Holds(m, r)' => r = k /\ o.phase = "Applying"
    BY <1>7 DEF Holds
  <2> QED
    BY <1>3, <1>6, <2>2, <2>3, <2>4 DEF IInv, HolderInv
<1>11. AppliedInv'
  <2>1. /\ o.phase \in {"Pending", "Analyzing", "PRCreated", "Expired"} => applied[k] = 0
        /\ o.phase = "Applying" => applied[k] = 0
        /\ o.phase = "Succeeded" => applied[k] = 1
    <3>1. o.phase # "PRCreated"
      BY <1>1, StatusFields DEF Computed
    <3> QED
      BY <1>1, <1>2, <3>1 DEF IInv, AppliedInv
  <2> QED
    BY <1>2, <1>3, <1>6, <1>7, <2>1 DEF IInv, AppliedInv
<1> QED
  BY <1>6, <1>8, <1>9, <1>10, <1>11 DEF IInv

\* Worker m loses the status it was to write, and goes idle.
LEMMA InvFinish ==
  ASSUME TypeOK, IInv, NEW m \in Managers, NEW again \in BOOLEAN, Finish(m, again),
         UNCHANGED <<store, caches, dashboard, history>>
  PROVE  IInv'
<1> USE DEF store, caches, history
<1>1. /\ pc'[m] = "idle" /\ obj'[m] = NoRemediation
      /\ \A n \in Managers \ {m} : /\ pc'[n] = pc[n] /\ key'[n] = key[n]
                                   /\ obj'[n] = obj[n] /\ dep'[n] = dep[n]
  BY DEF Finish, TypeOK
<1>2. Coherent(NoRemediation)
  BY DEF NoRemediation, Coherent, Terminal
<1>3. CopiesInv' /\ CoherentInv' /\ NoLostUpdate'
  BY <1>1, <1>2 DEF IInv, CopiesInv, CoherentInv, NoLostUpdate
<1>4. WorkerInv' /\ AppliedInv'
  BY <1>1 DEF IInv, WorkerInv, AppliedInv
<1>5. HolderInv'
  <2>1. \A n \in Managers, r \in Rems : Holds(n, r)' => n # m /\ Holds(n, r)
    BY <1>1 DEF Holds
  <2> QED
    BY <2>1 DEF IInv, HolderInv
<1> QED
  BY <1>3, <1>4, <1>5 DEF IInv

\* Every outcome of a status update keeps the inductive invariant.
LEMMA InvStatus ==
  ASSUME TypeOK, IInv, NEW m \in Managers,
         StatusAccepted(m) \/ StatusRejected(m) \/ StatusError(m) \/ StatusReplyLost(m)
  PROVE  IInv'
<1>1. CASE StatusAccepted(m)
  <2>1. Requeues(obj[m]) \in BOOLEAN
    BY DEF Requeues
  <2>2. /\ pc[m] = "status" /\ Current(obj[m], cr[key[m]]) /\ WriteStatus(m)
        /\ UNCHANGED <<target, caches, dashboard, history>>
        /\ \/ /\ obj[m].phase = "Applying"
              /\ obj' = [obj EXCEPT ![m] = Bump(obj[m])]
              /\ pc' = [pc EXCEPT ![m] = "target"]
              /\ UNCHANGED <<key, dep>>
           \/ Finish(m, Requeues(obj[m]))
    BY <1>1 DEF StatusAccepted
  <2> QED
    BY <2>1, <2>2, InvWriteStatus
<1>2. CASE StatusReplyLost(m)
  <2>1. /\ pc[m] = "status" /\ Current(obj[m], cr[key[m]]) /\ WriteStatus(m)
        /\ Finish(m, TRUE) /\ UNCHANGED <<target, caches, dashboard, history>>
    BY <1>2 DEF StatusReplyLost
  <2> QED
    BY <2>1, InvWriteStatus
<1>3. CASE StatusRejected(m) \/ StatusError(m)
  <2>1. Finish(m, TRUE) /\ UNCHANGED <<store, caches, dashboard, history>>
    BY <1>3 DEF StatusRejected, StatusError
  <2> QED
    BY <2>1, InvFinish
<1> QED
  BY <1>1, <1>2, <1>3

\* The call that patches the target returns: whatever its outcome, m goes on to
\* write Succeeded or Failed over the Applying it wrote before.
LEMMA InvTarget ==
  ASSUME TypeOK, IInv, NEW m \in Managers,
         TargetAccepted(m) \/ TargetRejected(m) \/ TargetError(m) \/ TargetReplyLost(m)
  PROVE  IInv'
<1> DEFINE k == key[m]
           o == obj[m]
           t == TargetOf[k]
           Landed == Current(dep[m], target[t]) /\ WriteTarget(m)
<1> USE DEF store, caches, history
<1>1. /\ pc[m] = "target" /\ k \in Rems /\ t \in Targets /\ o \in Remediation
      /\ dep[m] \in Workload /\ target[t] \in Workload /\ k \in Changes
  BY TargetsAssumption
     DEF TypeOK, Changes, TargetAccepted, TargetRejected, TargetError, TargetReplyLost
<1>2. PICK s : /\ NextStatus(m, s)
               /\ (s = SucceededStatus(o) /\ Landed) \/ s = FailedStatus(o)
  <2>1. CASE TargetAccepted(m)
    BY <2>1 DEF TargetAccepted
  <2>2. CASE TargetRejected(m) \/ TargetError(m) \/ TargetReplyLost(m)
    <3>1. NextStatus(m, FailedStatus(o))
      BY <2>2 DEF TargetRejected, TargetError, TargetReplyLost
    <3> QED
      BY <3>1
  <2> QED
    BY <2>1, <2>2
<1>3. UNCHANGED <<cr, cache, tcache>>
      /\ \/ Landed
         \/ UNCHANGED <<target, applied, landed>>
  BY DEF TargetAccepted, TargetRejected, TargetError, TargetReplyLost
<1>4. \/ Record(m, k, "remediation_applied") /\ Landed
      \/ Record(m, k, "remediation_failed")
  BY DEF TargetAccepted, TargetRejected, TargetError, TargetReplyLost
<1>5. /\ o.phase = "Applying" /\ Coherent(o) /\ Holds(m, k) /\ cr[k].phase = "Applying"
      /\ applied[k] = 0 /\ o.rv <= cr[k].rv /\ (o.rv = cr[k].rv => o = cr[k])
      /\ Copy(dep[m], target[t])
  BY <1>1 DEF IInv, WorkerInv, CoherentInv, HolderInv, AppliedInv, Holds
<1>6. /\ s.rv = o.rv /\ s.attempts = o.attempts /\ o.attempts = 1
      /\ s.phase \in {"Succeeded", "Failed"} /\ Coherent(s)
      /\ s.phase = "Succeeded" => Landed
      /\ Computed(o, s)
  <2>1. o.attempts = 1
    BY <1>5 DEF Coherent
  <2>2. CASE s = SucceededStatus(o) /\ Landed
    BY <1>1, <1>2, <1>5, <2>1, <2>2, StatusFields DEF Coherent, Computed, Terminal
  <2>3. CASE s = FailedStatus(o)
    BY <1>1, <1>2, <1>5, <2>1, <2>3, StatusFields DEF Coherent, Computed, Terminal
  <2> QED
    BY <1>2, <2>2, <2>3
<1>7. /\ pc'[m] = "status" /\ key'[m] = k /\ obj'[m] = s
      /\ \A n \in Managers \ {m} : /\ pc'[n] = pc[n] /\ key'[n] = key[n]
                                   /\ obj'[n] = obj[n]
      /\ UNCHANGED dep
  BY <1>2 DEF NextStatus, TypeOK
<1>8. \A n \in Managers \ {m} : pc[n] = "target" => key[n] # k
  BY <1>1, <1>5 DEF IInv, HolderInv, Holds
<1>9. ASSUME Landed
      PROVE  /\ applied'[k] = 1 /\ \A r \in Rems \ {k} : applied'[r] = applied[r]
             /\ target'[t].rv = target[t].rv + 1
             /\ target'[t].changes = target[t].changes \cup {k}
             /\ landed'[t] = landed[t] \cup {k}
             /\ \A u \in Targets \ {t} : target'[u] = target[u] /\ landed'[u] = landed[u]
  <2> DEFINE g == Gains(dep[m], k)
  <2>1. dep[m] = target[t]
    BY <1>5, <1>9 DEF Copy, Current
  <2>2. /\ g \in Workload /\ g.rv = target[t].rv
        /\ g.changes = target[t].changes \cup {k}
    BY <1>1, <2>1, WorkloadsTyped DEF Gains, Workload
  <2>3. Bump(g).rv = g.rv + 1 /\ Bump(g).changes = g.changes
    BY <2>2, Zenon DEF Bump, Workload
  <2>4. /\ target' = [target EXCEPT ![t] = Bump(g)]
        /\ applied' = [applied EXCEPT ![k] = @ + 1]
        /\ landed' = [landed EXCEPT ![t] = @ \cup {k}]
    BY <1>9 DEF WriteTarget
  <2> HIDE DEF g
  <2>5. target'[t] = Bump(g) /\ \A u \in Targets \ {t} : target'[u] = target[u]
    BY <1>1, <2>4 DEF TypeOK
  <2>6. /\ applied'[k] = applied[k] + 1
        /\ \A r \in Rems \ {k} : applied'[r] = applied[r]
        /\ landed'[t] = landed[t] \cup {k}
        /\ \A u \in Targets \ {t} : landed'[u] = landed[u]
    BY <1>1, <2>4 DEF TypeOK
  <2> QED
    BY <1>5, <2>2, <2>3, <2>5, <2>6
<1>10. ASSUME NEW u \in Targets, NEW c \in Workload, Copy(c, target[u])
       PROVE  Copy(c, target'[u])
  <2>1. c.rv \in Nat /\ target[u].rv \in Nat
    BY DEF Workload, TypeOK
  <2>2. CASE UNCHANGED target
    BY <1>10, <2>2
  <2>3. CASE Landed
    BY <1>9, <1>10, <2>1, <2>3 DEF Copy
  <2> QED
    BY <1>3, <2>2, <2>3
<1> HIDE DEF Landed
<1>11. CopiesInv' /\ CoherentInv'
  <2>1. \A n \in Managers, u \in Targets : tcache[n][u] \in Workload
    BY DEF TypeOK
  <2> QED
    BY <1>3, <1>6, <1>7, <1>10, <2>1 DEF IInv, CopiesInv, CoherentInv
<1>12. WorkerInv'
  <2>1. \A n \in Managers : dep[n] \in Workload
    BY DEF TypeOK
  <2>2. \A n \in Managers : pc[n] # "idle" => TargetOf[key[n]] \in Targets
    BY TargetsAssumption DEF TypeOK
  <2>3. o.rv = cr[k].rv => Computed(cr[k], s)
    BY <1>5, <1>6
  <2> QED
    BY <1>3, <1>5, <1>6, <1>7, <1>10, <2>1, <2>2, <2>3 DEF IInv, WorkerInv
<1>13. HolderInv'
  <2>1. \A n \in Managers, r \in Rems : Holds(n, r)' <=> Holds(n, r)
    BY <1>1, <1>6, <1>7 DEF Holds
  <2> QED
    BY <1>3, <2>1 DEF IInv, HolderInv
<1>14. AppliedInv'
  <2>1. \A n \in Managers, r \in Rems :
           <<r, "remediation_applied">> \in dashboard'[n] =>
              \/ <<r, "remediation_applied">> \in dashboard[n]
              \/ r = k /\ Landed
    <3>1. ASSUME NEW e \in {"remediation_applied", "remediation_failed"}, Record(m, k, e),
                 NEW n \in Managers, NEW r \in Rems,
                 <<r, "remediation_applied">> \in dashboard'[n],
                 <<r, "remediation_applied">> \notin dashboard[n]
          PROVE  r = k /\ e = "remediation_applied"
      BY <3>1 DEF Record, TypeOK
    <3>2. CASE Record(m, k, "remediation_applied") /\ Landed
      BY <3>1, <3>2
    <3>3. CASE Record(m, k, "remediation_failed")
      BY <3>1, <3>3
    <3> QED
      BY <1>4, <3>2, <3>3
  <2>2. CASE Landed
    <3>1. \A r \in Rems : applied'[r] = applied[r] \/ r = k
      BY <1>9, <2>2
    <3>2. \A r \in Rems :
             /\ applied'[r] \in {0, 1}
             /\ cr'[r].phase \in {"New", "Pending", "Analyzing", "PRCreated", "Expired"} =>
                    applied'[r] = 0
             /\ cr'[r].phase = "Succeeded" => applied'[r] = 1
      BY <1>3, <1>5, <1>9, <2>2, <3>1 DEF IInv, AppliedInv
    <3>3. \A n \in Managers :
             /\ pc'[n] = "target" => applied'[key'[n]] = 0
             /\ pc'[n] = "status" /\ obj'[n].phase = "Succeeded" => applied'[key'[n]] = 1
      <4>1. \A n \in Managers : pc[n] # "idle" => key[n] \in Rems
        BY DEF TypeOK
      <4> QED
        BY <1>7, <1>8, <1>9, <2>2, <3>1, <4>1 DEF IInv, AppliedInv
    <3>4. \A n \in Managers, r \in Rems :
             <<r, "remediation_applied">> \in dashboard'[n] => applied'[r] = 1
      BY <1>9, <2>1, <2>2, <3>1 DEF IInv, AppliedInv
    <3> QED
      BY <3>2, <3>3, <3>4 DEF AppliedInv
  <2>3. CASE ~Landed
    BY <1>3, <1>5, <1>6, <1>7, <1>8, <2>1, <2>3 DEF IInv, AppliedInv
  <2> QED
    BY <2>2, <2>3
<1>15. NoLostUpdate'
  BY <1>3, <1>9 DEF IInv, NoLostUpdate
<1> QED
  BY <1>11, <1>12, <1>13, <1>14, <1>15 DEF IInv

\* Watches, timers and restarts keep the inductive invariant.
LEMMA InvRuntime ==
  ASSUME TypeOK, IInv, NEW m \in Managers,
         \/ \E r \in Rems : CacheSync(m, r) \/ DelayExpires(m, r)
         \/ \E t \in Targets : TargetCacheSync(m, t)
         \/ Crash(m)
  PROVE  IInv'
<1> USE DEF store, worker, history
<1>1. ASSUME NEW r \in Rems, CacheSync(m, r) PROVE IInv'
  <2>1. /\ cache'[m][r] = cr[r]
        /\ \A n \in Managers, q \in Rems : cache'[n][q] = cache[n][q] \/ (n = m /\ q = r)
        /\ UNCHANGED <<cr, target, tcache, pc, key, obj, dep, dashboard, applied, landed>>
    BY <1>1 DEF CacheSync, TypeOK
  <2>2. Copy(cr[r], cr[r])
    BY DEF Copy, TypeOK, Remediation
  <2>3. CopiesInv' /\ CoherentInv'
    BY <2>1, <2>2 DEF IInv, CopiesInv, CoherentInv
  <2> QED
    BY <2>1, <2>3 DEF IInv, WorkerInv, HolderInv, AppliedInv, NoLostUpdate, Holds
<1>2. ASSUME NEW t \in Targets, TargetCacheSync(m, t) PROVE IInv'
  <2>1. /\ tcache'[m][t] = target[t]
        /\ \A n \in Managers, u \in Targets : tcache'[n][u] = tcache[n][u] \/ (n = m /\ u = t)
        /\ UNCHANGED <<cr, target, cache, pc, key, obj, dep, dashboard, applied, landed>>
    BY <1>2 DEF TargetCacheSync, TypeOK
  <2>2. Copy(target[t], target[t])
    BY DEF Copy, TypeOK, Workload
  <2>3. CopiesInv'
    BY <2>1, <2>2 DEF IInv, CopiesInv
  <2> QED
    BY <2>1, <2>3 DEF IInv, CoherentInv, WorkerInv, HolderInv, AppliedInv, NoLostUpdate, Holds
<1>3. ASSUME NEW r \in Rems, DelayExpires(m, r) PROVE IInv'
  BY <1>3 DEF DelayExpires, caches, IInv, CopiesInv, CoherentInv, WorkerInv, HolderInv,
              AppliedInv, NoLostUpdate, Holds
<1>4. ASSUME Crash(m) PROVE IInv'
  <2>1. /\ pc'[m] = "idle" /\ obj'[m] = NoRemediation /\ dashboard'[m] = {}
        /\ cache'[m] = cr /\ tcache'[m] = target
        /\ \A n \in Managers \ {m} :
              /\ pc'[n] = pc[n] /\ key'[n] = key[n] /\ obj'[n] = obj[n] /\ dep'[n] = dep[n]
              /\ dashboard'[n] = dashboard[n] /\ cache'[n] = cache[n] /\ tcache'[n] = tcache[n]
        /\ UNCHANGED <<cr, target, applied, landed>>
    BY <1>4 DEF Crash, TypeOK
  <2>2. /\ Coherent(NoRemediation)
        /\ \A r \in Rems : Copy(cr[r], cr[r])
        /\ \A t \in Targets : Copy(target[t], target[t])
    BY DEF NoRemediation, Coherent, Terminal, Copy, TypeOK, Remediation, Workload
  <2>3. CopiesInv' /\ CoherentInv' /\ NoLostUpdate'
    BY <2>1, <2>2 DEF IInv, CopiesInv, CoherentInv, NoLostUpdate
  <2>4. WorkerInv' /\ AppliedInv'
    BY <2>1 DEF IInv, WorkerInv, AppliedInv
  <2>5. \A n \in Managers, r \in Rems : Holds(n, r)' => n # m /\ Holds(n, r)
    BY <2>1 DEF Holds
  <2> QED
    BY <2>1, <2>3, <2>4, <2>5 DEF IInv, HolderInv
<1> QED
  BY <1>1, <1>2, <1>3, <1>4

\* The other writers and the clock keep the inductive invariant.
LEMMA InvOthers ==
  ASSUME TypeOK, IInv,
         \/ \E r \in Rems : RemediationStep(r)
         \/ \E t \in Targets : TargetStep(t)
  PROVE  IInv'
<1>1. ASSUME NEW r \in Rems, NEW s \in Specs, CreateRemediation(r, s) PROVE IInv'
  <2>1. /\ cr' = [cr EXCEPT ![r] = Created(s)] /\ cr[r].rv = 0
        /\ UNCHANGED <<target, caches, worker, dashboard, history>>
    BY <1>1 DEF CreateRemediation
  <2>2. Coherent(Created(s))
    BY CreatedFields DEF Coherent, Terminal
  <2>0. 0 + 1 = 1
    OBVIOUS
  <2>3. Created(s).rv = cr[r].rv + 1 /\ Created(s).phase = cr[r].phase
    <3>1. cr[r].phase = "New"
      BY <2>1 DEF IInv, CopiesInv
    <3> QED
      BY <2>0, <2>1, <3>1, CreatedFields, Zenon
  <2> QED
    BY <2>1, <2>2, <2>3, CreatedFields, InvOtherWrite
<1>2. ASSUME NEW r \in Rems, NEW s \in Specs,
             EditSpec(r, s) \/ DeleteRemediation(r)
      PROVE IInv'
  <2>1. PICK o \in {Respecified(cr[r], s), Deleted(cr[r])} :
           /\ cr' = [cr EXCEPT ![r] = o]
           /\ UNCHANGED <<target, caches, worker, dashboard, history>>
    BY <1>2 DEF EditSpec, DeleteRemediation
  <2>2. cr[r] \in Remediation /\ Coherent(cr[r])
    BY DEF TypeOK, IInv, CoherentInv
  <2>3. /\ o \in Remediation /\ o.rv = cr[r].rv + 1 /\ o.phase = cr[r].phase
        /\ o.attempts = cr[r].attempts /\ o.resolvedAt = cr[r].resolvedAt
        /\ o.appliedAt = cr[r].appliedAt
    BY <2>2, UserWriteFields
  <2>4. Coherent(o)
    BY <2>2, <2>3 DEF Coherent
  <2> QED
    BY <2>1, <2>3, <2>4, InvOtherWrite
<1>3. \E s \in Specs : TRUE
  BY SpecsAssumption
<1>4. ASSUME NEW r \in Rems, AppSetsStatus(r) PROVE IInv'
  <2>1. /\ cr[r] \in Remediation /\ Coherent(cr[r]) /\ cr[r].phase = "Pending"
        /\ UNCHANGED <<target, caches, worker, dashboard, history>>
    BY <1>4 DEF TypeOK, IInv, CoherentInv, AppSetsStatus, Listable
  <2>2. PICK s \in {PRCreatedStatus(cr[r]), FailedStatus(cr[r])} : cr' = [cr EXCEPT ![r] = Bump(s)]
    BY <1>4 DEF AppSetsStatus
  <2>3. s \in Remediation /\ s.rv = cr[r].rv /\ s.phase \in {"PRCreated", "Failed"} /\ Coherent(s)
    <3>1. CASE s = PRCreatedStatus(cr[r])
      BY <2>1, <3>1, StatusesTyped, StatusFields DEF Coherent, Terminal
    <3>2. CASE s = FailedStatus(cr[r])
      BY <2>1, <3>2, StatusesTyped, StatusFields DEF Coherent, Terminal
    <3> QED
      BY <2>2, <3>1, <3>2
  <2>4. /\ Bump(s) \in Remediation /\ Bump(s).rv = cr[r].rv + 1
        /\ Bump(s).phase = s.phase /\ Coherent(Bump(s))
    BY <2>3, BumpFields DEF Coherent
  <2> QED
    BY <2>1, <2>2, <2>3, <2>4, InvOtherWrite
<1>5. ASSUME NEW r \in Rems, TtlElapses(r) PROVE IInv'
  BY <1>5 DEF TtlElapses, store, caches, worker, history, IInv, CopiesInv, CoherentInv,
              WorkerInv, HolderInv, AppliedInv, NoLostUpdate, Holds
<1>6. ASSUME NEW t \in Targets, NEW d \in Workload,
             d.rv = target[t].rv + 1, target' = [target EXCEPT ![t] = d],
             d.changes = landed'[t], \A u \in Targets \ {t} : landed'[u] = landed[u],
             UNCHANGED <<cr, caches, worker, dashboard, applied>>
      PROVE  IInv'
  <2> USE DEF caches, worker
  <2>1. target'[t] = d /\ \A u \in Targets \ {t} : target'[u] = target[u]
    BY <1>6 DEF TypeOK
  <2>2. ASSUME NEW u \in Targets, NEW c \in Workload, Copy(c, target[u])
        PROVE  Copy(c, target'[u])
    <3>1. c.rv \in Nat /\ target[u].rv \in Nat
      BY DEF Workload, TypeOK
    <3> QED
      BY <1>6, <2>1, <2>2, <3>1 DEF Copy
  <2>3. /\ \A n \in Managers, u \in Targets : tcache[n][u] \in Workload
        /\ \A n \in Managers : dep[n] \in Workload
        /\ \A n \in Managers : pc[n] # "idle" => TargetOf[key[n]] \in Targets
    BY TargetsAssumption DEF TypeOK
  <2>4. CopiesInv' /\ CoherentInv'
    BY <1>6, <2>2, <2>3 DEF IInv, CopiesInv, CoherentInv
  <2>5. WorkerInv'
    BY <1>6, <2>2, <2>3 DEF IInv, WorkerInv
  <2>6. HolderInv' /\ AppliedInv' /\ NoLostUpdate'
    BY <1>6, <2>1 DEF IInv, HolderInv, AppliedInv, NoLostUpdate, Holds
  <2> QED
    BY <2>4, <2>5, <2>6 DEF IInv
<1>7. ASSUME NEW t \in Targets, NEW e \in Edits, EditTarget(t, e) PROVE IInv'
  <2> DEFINE g == Gains(target[t], e)
  <2>1. /\ target' = [target EXCEPT ![t] = Bump(g)]
        /\ landed' = [landed EXCEPT ![t] = @ \cup {e}]
        /\ UNCHANGED <<cr, caches, worker, dashboard, applied>>
    BY <1>7 DEF EditTarget
  <2>2. target[t] \in Workload /\ e \in Changes /\ target[t].changes = landed[t]
    BY DEF TypeOK, Changes, IInv, NoLostUpdate
  <2>3. /\ g \in Workload /\ g.rv = target[t].rv /\ g.changes = landed[t] \cup {e}
    BY <2>2, WorkloadsTyped DEF Gains, Workload
  <2>4. Bump(g) \in Workload /\ Bump(g).rv = g.rv + 1 /\ Bump(g).changes = g.changes
    <3>1. Bump(g) \in Workload
      BY <2>2, <2>3, WorkloadsTyped
    <3> QED
      BY <2>3, <3>1, Zenon DEF Bump, Workload
  <2> HIDE DEF g
  <2>5. /\ landed'[t] = landed[t] \cup {e}
        /\ \A u \in Targets \ {t} : landed'[u] = landed[u]
    BY <2>1 DEF TypeOK
  <2> QED
    BY <1>6, <2>1, <2>3, <2>4, <2>5
<1>8. ASSUME NEW t \in Targets, DeleteTarget(t) PROVE IInv'
  <2> DEFINE g == [target[t] EXCEPT !.exists = FALSE]
  <2>1. /\ target' = [target EXCEPT ![t] = Bump(g)]
        /\ UNCHANGED <<cr, caches, worker, dashboard, applied, landed>>
    BY <1>8 DEF DeleteTarget, history
  <2>2. target[t] \in Workload /\ target[t].changes = landed[t]
    BY DEF TypeOK, IInv, NoLostUpdate
  <2>3. g \in Workload /\ g.rv = target[t].rv /\ g.changes = landed[t] /\ g.rv + 1 \in Nat
    <3>1. g \in Workload /\ g.rv = target[t].rv /\ g.changes = landed[t]
      BY <2>2, Zenon DEF Workload
    <3> HIDE DEF g
    <3> QED
      BY <3>1 DEF Workload
  <2> HIDE DEF g
  <2>4. Bump(g) \in Workload /\ Bump(g).rv = g.rv + 1 /\ Bump(g).changes = g.changes
    BY <2>3, Zenon DEF Bump, Workload
  <2> QED
    BY <1>6, <2>1, <2>3, <2>4
<1> QED
  BY <1>1, <1>2, <1>3, <1>4, <1>5, <1>7, <1>8 DEF RemediationStep, TargetStep

\* The inductive invariant holds initially.
LEMMA InvInit == Init => IInv
<1> SUFFICES ASSUME Init PROVE IInv
  OBVIOUS
<1>1. /\ Coherent(NoRemediation) /\ Copy(NoRemediation, NoRemediation)
      /\ NoRemediation.phase = "New"
  BY DEF NoRemediation, Coherent, Terminal, Copy
<1>2. /\ Copy(NoWorkload, NoWorkload) /\ Copy(NewWorkload, NewWorkload)
      /\ NoWorkload.changes = {} /\ NewWorkload.changes = {}
  BY DEF NoWorkload, NewWorkload, Copy
<1>3. CopiesInv /\ CoherentInv /\ NoLostUpdate
  BY <1>1, <1>2 DEF Init, CopiesInv, CoherentInv, NoLostUpdate
<1>4. WorkerInv /\ HolderInv /\ AppliedInv
  BY <1>1 DEF Init, WorkerInv, HolderInv, AppliedInv, Holds
<1> QED
  BY <1>3, <1>4 DEF IInv

\* Every step keeps the inductive invariant.
LEMMA InvStep == TypeOK /\ IInv /\ [Next]_vars => IInv'
<1> SUFFICES ASSUME TypeOK, IInv, [Next]_vars PROVE IInv'
  OBVIOUS
<1>1. CASE UNCHANGED vars
  BY <1>1 DEF vars, store, caches, worker, history, IInv, CopiesInv, CoherentInv,
              WorkerInv, HolderInv, AppliedInv, NoLostUpdate, Holds
<1>2. CASE \E m \in Managers : ManagerStep(m)
  BY <1>2, InvReconcile, InvStatus, InvTarget, InvRuntime DEF ManagerStep
<1>3. CASE \/ \E r \in Rems : RemediationStep(r)
           \/ \E t \in Targets : TargetStep(t)
  BY <1>3, InvOthers
<1> QED
  BY <1>1, <1>2, <1>3 DEF Next

\* The inductive invariant holds in every reachable state.
THEOREM InvariantHolds == Spec => []IInv
<1>1. Init => IInv
  BY InvInit
<1>2. TypeOK /\ IInv /\ [Next]_vars => IInv'
  BY InvStep
<1> QED
  BY <1>1, <1>2, TypeCorrect, PTL DEF Spec

\* However many managers reconcile from stale caches, and whatever crashes,
\* errors and lost replies happen, a remediation patches its target at most once.
THEOREM AtMostOnce == Spec => []AppliedAtMostOnce
<1>1. TypeOK /\ IInv => AppliedAtMostOnce
  BY DEF IInv, AppliedInv, CoherentInv, Coherent, AppliedAtMostOnce
<1> QED
  BY <1>1, TypeCorrect, InvariantHolds, PTL

\* Succeeded, appliedAt and the dashboard's applied events are only reported
\* for changes that reached the target.
THEOREM SuccessIsReal == Spec => []SucceededMeansApplied
<1>1. TypeOK /\ IInv => SucceededMeansApplied
  BY DEF IInv, AppliedInv, CoherentInv, Coherent, SucceededMeansApplied
<1> QED
  BY <1>1, TypeCorrect, InvariantHolds, PTL

\* resolvedAt and appliedAt agree with the phase in every reachable state.
THEOREM TimesAgree == Spec => []ResolvedIffTerminal
<1>1. IInv => ResolvedIffTerminal
  BY DEF IInv, CoherentInv, Coherent, ResolvedIffTerminal
<1> QED
  BY <1>1, InvariantHolds, PTL

\* No write of a target, from however old a copy, undoes another writer's change.
THEOREM ChangesSurvive == Spec => []NoLostUpdate
<1>1. IInv => NoLostUpdate
  BY DEF IInv
<1> QED
  BY <1>1, InvariantHolds, PTL

-----------------------------------------------------------------------------
(* What a step may do: the abstract lifecycle is implemented. *)

SamePhase(r) == cr'[r].phase = cr[r].phase

\* The phase of k changes as a handler computed it from the stored object, or
\* as the GitHub App writes it.
PhaseChange(k) ==
    /\ applied' = applied
    /\ \A r \in Rems \ {k} : SamePhase(r)
    /\ \/ cr[k].phase = "Pending" /\ cr'[k].phase \in {"PRCreated", "Failed"}
       \/ \E o : /\ Computed(cr[k], o) /\ cr'[k].phase = o.phase
                 /\ o.phase = "Succeeded" => applied[k] = 1

FirstPatch(k) == /\ cr[k].phase = "Applying" /\ applied[k] = 0
                 /\ applied' = [applied EXCEPT ![k] = 1]
                 /\ \A r \in Rems : SamePhase(r)

\* What a step does to one remediation, seen from outside: a legal change of
\* phase, its one patch, or neither.
LEMMA StepShape ==
  ASSUME TypeOK, IInv, [Next]_vars
  PROVE  \/ applied' = applied /\ \A r \in Rems : SamePhase(r)
         \/ \E k \in Rems : PhaseChange(k) \/ FirstPatch(k)
<1> USE DEF SamePhase
<1>1. CASE UNCHANGED <<cr, applied>>
  BY <1>1
<1>2. ASSUME NEW m \in Managers, WriteStatus(m), pc[m] = "status",
             Current(obj[m], cr[key[m]]), applied' = applied
      PROVE  \E k \in Rems : PhaseChange(k)
  <2> DEFINE k == key[m]
  <2>1. /\ k \in Rems /\ obj[m] \in Remediation /\ Computed(cr[k], obj[m])
        /\ obj[m].phase = "Succeeded" => applied[k] = 1
    BY <1>2 DEF TypeOK, IInv, WorkerInv, AppliedInv, Current
  <2>2. cr'[k] = Bump(obj[m]) /\ \A r \in Rems \ {k} : cr'[r] = cr[r]
    BY <1>2, <2>1 DEF WriteStatus, TypeOK
  <2>3. cr'[k].phase = obj[m].phase
    BY <2>1, <2>2, BumpFields
  <2>4. PhaseChange(k)
    BY <1>2, <2>1, <2>2, <2>3 DEF PhaseChange
  <2> QED
    BY <2>1, <2>4
<1>3. ASSUME NEW m \in Managers, WriteTarget(m), pc[m] = "target", UNCHANGED cr
      PROVE  \E k \in Rems : FirstPatch(k)
  <2> DEFINE k == key[m]
  <2>1. k \in Rems /\ cr[k].phase = "Applying" /\ applied[k] = 0
    BY <1>3 DEF TypeOK, IInv, HolderInv, Holds, AppliedInv
  <2>2. applied' = [applied EXCEPT ![k] = 1]
    BY <1>3, <2>1 DEF WriteTarget
  <2>3. FirstPatch(k)
    BY <1>3, <2>1, <2>2 DEF FirstPatch
  <2> QED
    BY <2>1, <2>3
<1>4. ASSUME NEW k \in Rems, NEW o, cr' = [cr EXCEPT ![k] = o], o.phase = cr[k].phase,
             applied' = applied
      PROVE  applied' = applied /\ \A r \in Rems : SamePhase(r)
  BY <1>4 DEF TypeOK
<1>5. ASSUME NEW m \in Managers, ManagerStep(m)
      PROVE  \/ UNCHANGED <<cr, applied>>
             \/ \E k \in Rems : PhaseChange(k) \/ FirstPatch(k)
  <2> USE DEF store, history
  <2>1. ASSUME NEW r \in Rems, Reconcile(m, r) PROVE UNCHANGED <<cr, applied>>
    <3>1. CASE \E later \in BOOLEAN : Return(m, r, later)
      BY <3>1 DEF Return
    <3>2. CASE \E o, d : WillWrite(m, r, o, d)
      BY <3>2 DEF WillWrite
    <3> QED
      BY <2>1, <3>1, <3>2, ReconcileComputes
  <2>2. CASE \/ \E r \in Rems : HandlePendingError(m, r) \/ CacheSync(m, r) \/ DelayExpires(m, r)
             \/ \E t \in Targets : TargetCacheSync(m, t)
             \/ Crash(m) \/ StatusRejected(m) \/ StatusError(m)
             \/ TargetRejected(m) \/ TargetError(m)
    BY <2>2 DEF HandlePendingError, CacheSync, DelayExpires, TargetCacheSync, Crash,
                StatusRejected, StatusError, TargetRejected, TargetError
  <2>3. CASE StatusAccepted(m) \/ StatusReplyLost(m)
    BY <1>2, <2>3 DEF StatusAccepted, StatusReplyLost
  <2>4. CASE TargetAccepted(m) \/ TargetReplyLost(m)
    BY <1>3, <2>4 DEF TargetAccepted, TargetReplyLost
  <2> QED
    BY <1>5, <2>1, <2>2, <2>3, <2>4 DEF ManagerStep
<1>6. ASSUME NEW r \in Rems, RemediationStep(r)
      PROVE  \/ applied' = applied /\ \A q \in Rems : SamePhase(q)
             \/ PhaseChange(r)
  <2> USE DEF history
  <2>0. cr[r] \in Remediation
    BY DEF TypeOK
  <2>1. CASE \E s \in Specs : CreateRemediation(r, s)
    <3>1. PICK s \in Specs : CreateRemediation(r, s)
      BY <2>1
    <3>3. cr[r].phase = "New" /\ applied' = applied
      BY <3>1 DEF CreateRemediation, IInv, CopiesInv
    <3> QED
      BY <1>4, <3>1, <3>3, CreatedFields DEF CreateRemediation
  <2>2. CASE (\E s \in Specs : EditSpec(r, s)) \/ DeleteRemediation(r)
    <3>1. PICK s \in Specs : EditSpec(r, s) \/ DeleteRemediation(r)
      BY <2>2, SpecsAssumption
    <3>2. PICK o \in {Respecified(cr[r], s), Deleted(cr[r])} :
             cr' = [cr EXCEPT ![r] = o] /\ applied' = applied
      BY <3>1 DEF EditSpec, DeleteRemediation
    <3>3. o.phase = cr[r].phase
      BY <2>0, UserWriteFields
    <3> QED
      BY <1>4, <3>2, <3>3
  <2>4. CASE AppSetsStatus(r)
    <3>1. PICK s \in {PRCreatedStatus(cr[r]), FailedStatus(cr[r])} :
             /\ cr' = [cr EXCEPT ![r] = Bump(s)]
             /\ cr[r].phase = "Pending" /\ applied' = applied
      BY <2>4 DEF AppSetsStatus, Listable
    <3>2. Bump(s).phase \in {"PRCreated", "Failed"}
      <4>1. s \in Remediation
        BY <2>0, StatusesTyped
      <4>2. s.phase \in {"PRCreated", "Failed"}
        BY <2>0, StatusFields
      <4> QED
        BY <4>1, <4>2, BumpFields
    <3>3. cr'[r].phase \in {"PRCreated", "Failed"} /\ \A q \in Rems \ {r} : cr'[q] = cr[q]
      BY <3>1, <3>2 DEF TypeOK
    <3> QED
      BY <3>1, <3>3 DEF PhaseChange
  <2>5. CASE TtlElapses(r)
    BY <2>5 DEF TtlElapses, store
  <2> QED
    BY <1>6, <2>1, <2>2, <2>4, <2>5 DEF RemediationStep
<1>7. CASE \E t \in Targets : TargetStep(t)
  BY <1>7 DEF TargetStep, EditTarget, DeleteTarget, history
<1>8. CASE UNCHANGED vars
  BY <1>8 DEF vars, store, history
<1> QED
  BY <1>1, <1>5, <1>6, <1>7, <1>8 DEF Next

\* No write, from however old a copy, moves a remediation out of Succeeded,
\* Failed or Expired.
THEOREM TerminalStays == Spec => TerminalIsForever
<1>1. ASSUME TypeOK, IInv, [Next]_vars, NEW r \in Rems, cr[r].phase \in Terminal
      PROVE  cr'[r].phase = cr[r].phase
  <2>1. cr[r] \in Remediation
    BY <1>1 DEF TypeOK
  <2>2. ASSUME PhaseChange(r) PROVE FALSE
    BY <1>1, <2>1, <2>2, ComputedPhases DEF PhaseChange, Terminal
  <2> QED
    BY <1>1, <2>2, StepShape DEF PhaseChange, FirstPatch, SamePhase
<1>2. TypeOK /\ IInv /\ [Next]_vars =>
         [\A r \in Rems : cr[r].phase \in Terminal => cr'[r].phase = cr[r].phase]_vars
  BY <1>1
<1> QED
  BY <1>2, TypeCorrect, InvariantHolds, PTL DEF Spec, TerminalIsForever

\* A manager commits to patching the cluster only while the stored spec asks
\* for direct mode without approval: approval required in the meantime wins.
THEOREM ApprovalRespected == Spec => ApprovalGate
<1>1. ASSUME TypeOK, IInv, [Next]_vars, NEW r \in Rems,
             cr[r].phase # "Applying", cr'[r].phase = "Applying"
      PROVE  cr[r].spec.mode = "Direct" /\ ~cr[r].spec.requireApproval
  <2>1. cr[r] \in Remediation
    BY <1>1 DEF TypeOK
  <2>2. PhaseChange(r)
    BY <1>1, StepShape DEF PhaseChange, FirstPatch, SamePhase
  <2> QED
    BY <1>1, <2>1, <2>2, ComputedPhases DEF PhaseChange, IsDirect
<1>2. TypeOK /\ IInv /\ [Next]_vars =>
         [\A r \in Rems : cr[r].phase # "Applying" /\ cr'[r].phase = "Applying" =>
              cr[r].spec.mode = "Direct" /\ ~cr[r].spec.requireApproval]_vars
  BY <1>1
<1> QED
  BY <1>2, TypeCorrect, InvariantHolds, PTL DEF Spec, ApprovalGate

\* The controller implements RemediationLifecycle: every step, of any manager
\* or service, is a step of the abstract lifecycle or leaves it unchanged.
THEOREM ImplementsLifecycle == Spec => LifecycleSpec
<1> DEFINE P == [r \in Rems |-> cr[r].phase]
<1>1. Init => Lifecycle!Init
  BY DEF Init, Lifecycle!Init, NoRemediation
<1>2. TypeOK /\ IInv /\ [Next]_vars => [Lifecycle!Next]_Lifecycle!lifecycle
  <2> SUFFICES ASSUME TypeOK, IInv, [Next]_vars
               PROVE  Lifecycle!Next \/ (P' = P /\ applied' = applied)
    BY DEF Lifecycle!lifecycle
  <2> USE DEF SamePhase
  <2>1. CASE applied' = applied /\ \A r \in Rems : SamePhase(r)
    BY <2>1
  <2>2. ASSUME NEW k \in Rems, FirstPatch(k) PROVE Lifecycle!Next
    <3>1. Lifecycle!Patch(k)
      BY <2>2 DEF FirstPatch, Lifecycle!Patch
    <3> QED
      BY <3>1 DEF Lifecycle!Next
  <2>3. ASSUME NEW k \in Rems, PhaseChange(k) PROVE Lifecycle!Next
    <3>1. cr[k] \in Remediation
      BY DEF TypeOK
    <3>2. /\ P' = [P EXCEPT ![k] = cr'[k].phase] /\ P[k] = cr[k].phase
          /\ applied' = applied
      BY <2>3 DEF PhaseChange
    <3>3. \A to : cr'[k].phase = to => Lifecycle!Move(k, cr[k].phase, to)
      BY <3>2 DEF Lifecycle!Move
    <3>4. \/ Lifecycle!Move(k, "New", "Pending")
          \/ Lifecycle!Move(k, "Pending", "Analyzing")
          \/ Lifecycle!Move(k, "Pending", "PRCreated")
          \/ Lifecycle!Move(k, "Analyzing", "Pending")
          \/ Lifecycle!Move(k, "Analyzing", "Applying")
          \/ Lifecycle!Move(k, "PRCreated", "Expired")
          \/ Lifecycle!Move(k, "Applying", "Succeeded") /\ applied[k] = 1
          \/ \E from \in {"Pending", "Analyzing", "Applying"} : Lifecycle!Move(k, from, "Failed")
      BY <2>3, <3>1, <3>3, ComputedPhases DEF PhaseChange
    <3> QED
      BY <3>4 DEF Lifecycle!Next, Lifecycle!Accept, Lifecycle!Analyze, Lifecycle!AwaitPR,
                  Lifecycle!OpenPR, Lifecycle!Expire, Lifecycle!Commit, Lifecycle!Succeed,
                  Lifecycle!Fail
  <2> QED
    BY <2>1, <2>2, <2>3, StepShape
<1> QED
  BY <1>1, <1>2, TypeCorrect, InvariantHolds, PTL DEF Spec, LifecycleSpec, Lifecycle!Spec

-----------------------------------------------------------------------------
(* Failed and Applying: what only a failed call can explain. *)

\* Other writers of a remediation leave its worker alone; the one they move out
\* of a phase was Pending, and a spec they edit has been created before.
LEMMA OtherWriters ==
  ASSUME TypeOK, IInv, OwnerInv, NEW k \in Rems, RemediationStep(k)
  PROVE  /\ UNCHANGED <<pc, key, obj, applied, faults>>
         /\ \A r \in Rems \ {k} : cr'[r] = cr[r]
         /\ \/ cr'[k] = cr[k]
            \/ cr'[k].phase # "Applying" /\ cr'[k].phase # "Failed"
            \/ cr'[k].phase = "Failed" /\ cr[k].phase = "Pending"
            \/ /\ cr'[k].phase = cr[k].phase
               /\ ~cr'[k].exists \/ cr'[k].generation > 1
         /\ cr'[k].exists => cr'[k].generation >= 1
<1> USE DEF worker, history, counters
<1>1. /\ cr[k] \in Remediation /\ cr[k].generation \in Nat
      /\ cr[k].exists => cr[k].generation >= 1
  BY DEF TypeOK, OwnerInv, Remediation
<1>2. ASSUME NEW o \in Remediation, cr' = [cr EXCEPT ![k] = o]
      PROVE  cr'[k] = o /\ \A r \in Rems \ {k} : cr'[r] = cr[r]
  BY <1>2 DEF TypeOK
<1>3. ASSUME NEW s \in Specs, CreateRemediation(k, s)
      PROVE  /\ UNCHANGED <<pc, key, obj, applied, faults>>
             /\ cr'[k].phase = "New" /\ cr'[k].generation = 1
             /\ \A r \in Rems \ {k} : cr'[r] = cr[r]
  <2>1. cr'[k] = Created(s) /\ \A r \in Rems \ {k} : cr'[r] = cr[r]
    BY <1>2, <1>3, CreatedFields DEF CreateRemediation
  <2> QED
    BY <1>3, <2>1, CreatedFields DEF CreateRemediation
<1>4. ASSUME NEW s \in Specs, EditSpec(k, s)
      PROVE  /\ UNCHANGED <<pc, key, obj, applied, faults>>
             /\ cr'[k].phase = cr[k].phase
             /\ cr'[k].generation > 1 /\ cr'[k].generation >= 1
             /\ \A r \in Rems \ {k} : cr'[r] = cr[r]
  <2> DEFINE o == Respecified(cr[k], s)
  <2>1. o \in Remediation /\ o.phase = cr[k].phase /\ o.generation = cr[k].generation + 1
    BY <1>1, UserWriteFields
  <2>2. cr[k].exists /\ cr' = [cr EXCEPT ![k] = o]
        /\ UNCHANGED <<pc, key, obj, applied, faults>>
    BY <1>4 DEF EditSpec, Intrusion
  <2> HIDE DEF o
  <2>3. cr'[k] = o /\ \A r \in Rems \ {k} : cr'[r] = cr[r]
    BY <1>2, <2>1, <2>2
  <2> QED
    BY <1>1, <2>1, <2>2, <2>3
<1>5. CASE DeleteRemediation(k)
  <2>1. PICK s \in Specs : TRUE
    BY SpecsAssumption
  <2>2. Deleted(cr[k]).exists = FALSE /\ Deleted(cr[k]).phase = cr[k].phase
    BY <1>1, <2>1, UserWriteFields
  <2> QED
    BY <1>5, <2>2 DEF DeleteRemediation, TypeOK, Intrusion
<1>6. CASE AppSetsStatus(k)
  <2>1. PICK s \in {PRCreatedStatus(cr[k]), FailedStatus(cr[k])} : cr' = [cr EXCEPT ![k] = Bump(s)]
    BY <1>6 DEF AppSetsStatus
  <2>2. /\ s \in Remediation /\ s.phase \in {"PRCreated", "Failed"}
        /\ s.exists = cr[k].exists /\ s.generation = cr[k].generation
    <3>1. CASE s = PRCreatedStatus(cr[k])
      BY <1>1, <3>1, StatusesTyped, StatusFields
    <3>2. CASE s = FailedStatus(cr[k])
      BY <1>1, <3>2, StatusesTyped, StatusFields
    <3> QED
      BY <3>1, <3>2
  <2>3. /\ Bump(s).phase = s.phase /\ Bump(s).exists = s.exists
        /\ Bump(s).generation = s.generation
    BY <2>2, BumpFields
  <2>4. cr[k].phase = "Pending" /\ UNCHANGED <<pc, key, obj, applied, faults>>
    BY <1>6 DEF AppSetsStatus, Listable
  <2>5. cr'[k] = Bump(s) /\ \A r \in Rems \ {k} : cr'[r] = cr[r]
    BY <2>1 DEF TypeOK
  <2> QED
    BY <1>1, <2>2, <2>3, <2>4, <2>5
<1>7. CASE TtlElapses(k)
  BY <1>1, <1>7 DEF TtlElapses, store
<1> QED
  <2>1. CASE \E s \in Specs : CreateRemediation(k, s)
    BY <1>3, <2>1
  <2>2. CASE \E s \in Specs : EditSpec(k, s)
    BY <1>4, <2>2
  <2> QED
    BY <1>5, <1>6, <1>7, <2>1, <2>2 DEF RemediationStep

\* Steps in which a call fails, a reply is lost or a manager crashes are counted.
LEMMA FaultsCounted == ASSUME TypeOK, NEW k, Fault(k) PROVE faults' > 0 /\ faults' # 0
BY DEF TypeOK, Fault

\* Whoever is to write Failed over Applying was refused or saw a call fail,
\* after every step too.
LEMMA OutcomeStep ==
  ASSUME TypeOK, IInv, OwnerInv, OutcomeInv, [Next]_vars
  PROVE  OutcomeInv'
<1> USE DEF OutcomeInv, FailedMeansNotApplied
<1> DEFINE Undecided(k) == cr[k].phase \in {"New", "Pending", "Analyzing", "PRCreated", "Expired"}
<1>1. /\ \A r \in Rems : Undecided(r) => applied[r] = 0
      /\ \A r \in Rems : cr'[r].phase = "Expired" => applied'[r] = 0
  <2>1. IInv'
    BY InvStep
  <2> QED
    BY <2>1 DEF IInv, AppliedInv
<1> SUFFICES ASSUME ~(faults' > 0) PROVE OutcomeInv'
  BY <1>1
<1>2. \A k : ~Fault(k)
  BY FaultsCounted
<1>3. CASE UNCHANGED <<cr, pc, key, obj, applied, faults>>
  BY <1>3
<1>4. ASSUME NEW m \in Managers, NEW r \in Rems, NEW o, NEW d, WillWrite(m, r, o, d),
             Computed(cache[m][r], o), cache[m][r].phase # "Applying", UNCHANGED faults
      PROVE  OutcomeInv'
  <2>1. o.attempts = 0 \/ o.phase = "Applying"
    BY <1>4, ComputedFacts DEF TypeOK, IInv, CoherentInv
  <2> QED
    BY <1>4, <2>1 DEF WillWrite, TypeOK, store, history
<1>5. ASSUME NEW m \in Managers, StatusAccepted(m) PROVE OutcomeInv'
  <2> DEFINE k == key[m]
  <2>1. /\ k \in Rems /\ obj[m] \in Remediation /\ Computed(cr[k], obj[m])
        /\ cr[k] \in Remediation /\ Coherent(cr[k]) /\ pc[m] = "status"
    BY <1>5 DEF StatusAccepted, TypeOK, IInv, WorkerInv, CoherentInv, Current
  <2>2. cr'[k] = Bump(obj[m]) /\ \A r \in Rems \ {k} : cr'[r] = cr[r]
    BY <1>5, <2>1 DEF StatusAccepted, WriteStatus, TypeOK
  <2>3. cr'[k].phase = obj[m].phase
    BY <2>1, <2>2, BumpFields
  <2>4. obj[m].phase = "Failed" => obj[m].attempts = 1 \/ Undecided(k)
    BY <2>1, ComputedFacts DEF Coherent
  <2>5. UNCHANGED <<applied, faults>>
    BY <1>5 DEF StatusAccepted, history, counters
  <2>6. \A n \in Managers : pc'[n] = "status" => pc[n] = "status" /\ key'[n] = key[n] /\ obj'[n] = obj[n]
    BY <1>5 DEF StatusAccepted, Finish, TypeOK
  <2> QED
    BY <1>1, <2>1, <2>2, <2>3, <2>4, <2>5, <2>6
<1>6. ASSUME NEW m \in Managers, StatusRejected(m) PROVE OutcomeInv'
  BY <1>6 DEF StatusRejected, Finish, TypeOK, store, history, counters
<1>7. ASSUME NEW m \in Managers, TargetAccepted(m) \/ TargetRejected(m) PROVE OutcomeInv'
  <2> DEFINE k == key[m]
  <2>1. /\ k \in Rems /\ Holds(m, k) /\ cr[k].phase = "Applying" /\ pc[m] = "target"
        /\ applied[k] = 0 /\ obj[m] \in Remediation
    BY <1>7 DEF TargetAccepted, TargetRejected, TypeOK, IInv, HolderInv, AppliedInv, Holds
  <2>2. /\ UNCHANGED <<cr, key, faults>>
        /\ \A n \in Managers \ {m} : pc'[n] = pc[n] /\ obj'[n] = obj[n]
        /\ \A r \in Rems \ {k} : applied'[r] = applied[r]
    BY <1>7, <2>1 DEF TargetAccepted, TargetRejected, NextStatus, WriteTarget, TypeOK,
                      store, history, counters
  <2>3. ASSUME NEW n \in Managers \ {m}, pc[n] = "status", obj[n].phase = "Failed", obj[n].attempts = 1
        PROVE  key[n] # k
    BY <2>1, <2>3 DEF Holds, IInv, HolderInv
  <2>4. obj'[m].phase = "Failed" => applied' = applied
    <3>1. CASE TargetAccepted(m)
      <4>1. obj'[m] = SucceededStatus(obj[m])
        BY <3>1 DEF TargetAccepted, NextStatus, TypeOK
      <4> QED
        BY <2>1, <4>1, StatusFields
    <3> QED
      BY <1>7, <3>1 DEF TargetRejected, history
  <2>5. \A n \in Managers : pc[n] # "idle" => key[n] \in Rems
    BY DEF TypeOK
  <2> QED
    BY <2>1, <2>2, <2>3, <2>4, <2>5
<1>8. ASSUME NEW k \in Rems, RemediationStep(k) PROVE OutcomeInv'
  BY <1>1, <1>8, OtherWriters
<1>9. ASSUME NEW m \in Managers, ManagerStep(m) PROVE OutcomeInv'
  <2>1. ASSUME NEW r \in Rems, Reconcile(m, r) PROVE OutcomeInv'
    <3>1. CASE \E later \in BOOLEAN : Return(m, r, later)
      BY <1>3, <3>1 DEF Return, store, worker, history, counters
    <3> QED
      BY <1>2, <1>4, <2>1, <3>1, ReconcileComputes
  <2>2. CASE \/ \E r \in Rems : CacheSync(m, r) \/ DelayExpires(m, r)
             \/ \E t \in Targets : TargetCacheSync(m, t)
    BY <1>3, <2>2 DEF CacheSync, DelayExpires, TargetCacheSync, store, worker, history, counters
  <2>3. /\ \A r \in Rems : ~HandlePendingError(m, r)
        /\ ~StatusError(m) /\ ~StatusReplyLost(m) /\ ~TargetError(m) /\ ~TargetReplyLost(m)
        /\ ~Crash(m)
    BY <1>2 DEF HandlePendingError, StatusError, StatusReplyLost, TargetError, TargetReplyLost, Crash
  <2> QED
    BY <1>5, <1>6, <1>7, <1>9, <2>1, <2>2, <2>3 DEF ManagerStep
<1>10. CASE \E t \in Targets : TargetStep(t)
  BY <1>3, <1>10 DEF TargetStep, EditTarget, DeleteTarget, Intrusion, worker, history
<1>11. CASE UNCHANGED vars
  BY <1>3, <1>11 DEF vars, store, worker, history, counters
<1> QED
  BY <1>8, <1>9, <1>10, <1>11 DEF Next

\* The holder of Applying keeps the stored version, after every step too.
LEMMA OwnerStep ==
  ASSUME TypeOK, IInv, OwnerInv, [Next]_vars
  PROVE  OwnerInv'
<1> DEFINE Owner(n, r) == pc[n] # "idle" /\ key[n] = r /\ Current(obj[n], cr[r])
           Owned(r) == cr[r].exists /\ cr[r].phase = "Applying" /\ faults = 0
                           /\ cr[r].generation = 1 => \E n \in Managers : Owner(n, r)
           Created1(r) == cr[r].exists => cr[r].generation >= 1
<1>0. \A r \in Rems : Owned(r) /\ Created1(r)
  BY DEF OwnerInv, ApplyingIsOwned
<1> SUFFICES ASSUME NEW r \in Rems PROVE Owned(r)' /\ Created1(r)'
  BY DEF OwnerInv, ApplyingIsOwned
<1>1. ASSUME cr'[r] = cr[r], faults' = 0 => faults = 0,
             faults' = 0 => \A n \in Managers : Owner(n, r) => Owner(n, r)'
      PROVE  Owned(r)' /\ Created1(r)'
  BY <1>0, <1>1
<1>2. ASSUME faults' > 0 PROVE Owned(r)'
  BY <1>2
<1>3. CASE UNCHANGED <<cr, pc, key, obj, faults>>
  BY <1>1, <1>3 DEF Current
<1>4. ASSUME NEW m \in Managers, NEW k \in Rems, NEW o, NEW d, WillWrite(m, k, o, d),
             pc[m] = "idle", UNCHANGED faults \/ Fault("error")
      PROVE  Owned(r)' /\ Created1(r)'
  BY <1>1, <1>4 DEF WillWrite, Fault, TypeOK, store, Current
<1>5. ASSUME NEW m \in Managers, StatusAccepted(m) \/ StatusReplyLost(m)
      PROVE  Owned(r)' /\ Created1(r)'
  <2> DEFINE k == key[m]
             o == obj[m]
  <2>1. /\ k \in Rems /\ o \in Remediation /\ Computed(cr[k], o) /\ cr[k] \in Remediation
        /\ Coherent(cr[k]) /\ WriteStatus(m) /\ pc[m] = "status" /\ cr[k].exists
    BY <1>5 DEF StatusAccepted, StatusReplyLost, TypeOK, IInv, WorkerInv, CoherentInv, Current
  <2>2. cr'[k] = Bump(o) /\ \A q \in Rems \ {k} : cr'[q] = cr[q]
    BY <2>1 DEF WriteStatus, TypeOK
  <2>3. /\ Bump(o).phase = o.phase /\ Bump(o).exists = o.exists
        /\ Bump(o).generation = o.generation
    BY <2>1, BumpFields
  <2>4. o.generation = cr[k].generation /\ o.exists = cr[k].exists
    BY <2>1, ComputedFacts
  <2>5. CASE r # k
    <3>1. \A n \in Managers \ {m} : pc'[n] = pc[n] /\ key'[n] = key[n] /\ obj'[n] = obj[n]
      BY <1>5 DEF StatusAccepted, StatusReplyLost, Finish, TypeOK
    <3>2. faults' = 0 => faults = 0
      BY <1>5, FaultsCounted DEF StatusAccepted, StatusReplyLost, counters
    <3> QED
      BY <1>1, <2>2, <2>5, <3>1, <3>2 DEF Current
  <2>6. CASE r = k
    <3>1. Created1(r)'
      BY <1>0, <2>1, <2>2, <2>3, <2>4, <2>6
    <3>2. CASE StatusReplyLost(m)
      BY <1>2, <3>1, <3>2, FaultsCounted DEF StatusReplyLost
    <3>3. CASE StatusAccepted(m) /\ o.phase # "Applying"
      BY <2>2, <2>3, <2>6, <3>1, <3>3
    <3>4. CASE StatusAccepted(m) /\ o.phase = "Applying"
      <4>1. obj'[m] = cr'[k] /\ pc'[m] = "target" /\ key'[m] = k
        BY <2>2, <3>4 DEF StatusAccepted, TypeOK
      <4> QED
        BY <2>6, <3>1, <4>1 DEF Current
    <3> QED
      BY <1>5, <3>2, <3>3, <3>4
  <2> QED
    BY <2>5, <2>6
<1>6. ASSUME NEW m \in Managers, StatusRejected(m) \/ StatusError(m) \/ Crash(m)
      PROVE  Owned(r)' /\ Created1(r)'
  <2>1. cr' = cr /\ (faults' = 0 => faults = 0)
    BY <1>6, FaultsCounted DEF StatusRejected, StatusError, Crash, store, counters
  <2>2. CASE StatusRejected(m)
    <3>1. ~Owner(m, r)
      BY <2>2 DEF StatusRejected
    <3>2. \A n \in Managers \ {m} : pc'[n] = pc[n] /\ key'[n] = key[n] /\ obj'[n] = obj[n]
      BY <2>2 DEF StatusRejected, Finish, TypeOK
    <3> QED
      BY <1>1, <2>1, <3>1, <3>2 DEF Current
  <2>3. CASE StatusError(m) \/ Crash(m)
    BY <1>0, <1>2, <2>1, <2>3, FaultsCounted DEF StatusError, Crash
  <2> QED
    BY <1>6, <2>2, <2>3
<1>7. ASSUME NEW m \in Managers,
             TargetAccepted(m) \/ TargetRejected(m) \/ TargetError(m) \/ TargetReplyLost(m)
      PROVE  Owned(r)' /\ Created1(r)'
  <2>1. cr' = cr /\ (faults' = 0 => faults = 0) /\ pc[m] = "target"
    BY <1>7, FaultsCounted
       DEF TargetAccepted, TargetRejected, TargetError, TargetReplyLost, store, counters
  <2>2. PICK s \in {SucceededStatus(obj[m]), FailedStatus(obj[m])} : NextStatus(m, s)
    BY <1>7 DEF TargetAccepted, TargetRejected, TargetError, TargetReplyLost
  <2>3. s.rv = obj[m].rv
    BY <2>2, StatusFields DEF TypeOK
  <2>4. /\ pc'[m] = "status" /\ obj'[m] = s /\ key' = key
        /\ \A n \in Managers \ {m} : pc'[n] = pc[n] /\ obj'[n] = obj[n]
    BY <2>2 DEF NextStatus, TypeOK
  <2> QED
    BY <1>1, <2>1, <2>3, <2>4 DEF Current
<1>8. ASSUME NEW k \in Rems, RemediationStep(k) PROVE Owned(r)' /\ Created1(r)'
  <2>1. /\ UNCHANGED <<pc, key, obj, faults>>
        /\ r # k => cr'[r] = cr[r]
    BY <1>8, OtherWriters
  <2>2. CASE cr'[r] = cr[r]
    BY <1>1, <2>1, <2>2 DEF Current
  <2>3. CASE cr'[r] # cr[r]
    <3>1. r = k
      BY <2>1, <2>3
    <3>2. /\ cr'[r].exists => cr'[r].generation >= 1
          /\ \/ cr'[r].phase # "Applying" \/ ~cr'[r].exists \/ cr'[r].generation > 1
      BY <1>8, <2>3, <3>1, OtherWriters
    <3> QED
      BY <3>2
  <2> QED
    BY <2>2, <2>3
<1>9. ASSUME NEW m \in Managers, ManagerStep(m) PROVE Owned(r)' /\ Created1(r)'
  <2>1. ASSUME NEW q \in Rems, Reconcile(m, q) PROVE Owned(r)' /\ Created1(r)'
    <3>1. CASE \E later \in BOOLEAN : Return(m, q, later)
      BY <1>3, <3>1 DEF Return, store, worker, counters
    <3> QED
      BY <1>4, <2>1, <3>1, ReconcileComputes
  <2>2. CASE \/ \E q \in Rems : CacheSync(m, q) \/ DelayExpires(m, q)
             \/ \E t \in Targets : TargetCacheSync(m, t)
    BY <1>3, <2>2 DEF CacheSync, DelayExpires, TargetCacheSync, store, worker, counters
  <2>3. CASE \E q \in Rems : HandlePendingError(m, q)
    BY <1>0, <1>2, <2>3, FaultsCounted DEF HandlePendingError, store
  <2> QED
    BY <1>5, <1>6, <1>7, <1>9, <2>1, <2>2, <2>3 DEF ManagerStep
<1>10. CASE \E t \in Targets : TargetStep(t)
  BY <1>3, <1>10 DEF TargetStep, EditTarget, DeleteTarget, Intrusion, worker
<1>11. CASE UNCHANGED vars
  BY <1>3, <1>11 DEF vars, store, worker, counters
<1> QED
  BY <1>8, <1>9, <1>10, <1>11 DEF Next

\* A write of Analyzing that may still be accepted is below the bound.
LEMMA AnalyzingStep ==
  ASSUME TypeOK, IInv, OwnerInv, AnalyzingInv, [Next]_vars
  PROVE  AnalyzingInv'
<1> USE DEF AnalyzingInv
<1>1. CASE UNCHANGED <<pc, obj>>
  BY <1>1
<1>2. ASSUME NEW m \in Managers, ManagerStep(m) PROVE AnalyzingInv'
  <2>1. ASSUME NEW r \in Rems, Reconcile(m, r) PROVE AnalyzingInv'
    <3>1. CASE \E later \in BOOLEAN : Return(m, r, later)
      BY <1>1, <3>1 DEF Return, worker
    <3>2. ASSUME NEW o, NEW d, WillWrite(m, r, o, d), o.phase = "Analyzing" => o.rv < MaxRv
          PROVE  AnalyzingInv'
      BY <3>2 DEF WillWrite, TypeOK
    <3> QED
      BY <2>1, <3>1, <3>2, ReconcileComputes
  <2>2. CASE \/ \E r \in Rems : HandlePendingError(m, r) \/ CacheSync(m, r) \/ DelayExpires(m, r)
             \/ \E t \in Targets : TargetCacheSync(m, t)
    BY <1>1, <2>2 DEF HandlePendingError, CacheSync, DelayExpires, TargetCacheSync, worker
  <2>3. CASE \/ StatusAccepted(m) \/ StatusRejected(m) \/ StatusError(m) \/ StatusReplyLost(m)
             \/ Crash(m)
    BY <2>3 DEF StatusAccepted, StatusRejected, StatusError, StatusReplyLost, Crash, Finish, TypeOK
  <2>4. CASE TargetAccepted(m) \/ TargetRejected(m) \/ TargetError(m) \/ TargetReplyLost(m)
    <3>1. PICK s \in {SucceededStatus(obj[m]), FailedStatus(obj[m])} : NextStatus(m, s)
      BY <2>4 DEF TargetAccepted, TargetRejected, TargetError, TargetReplyLost
    <3>2. s.phase # "Analyzing"
      BY StatusFields DEF TypeOK
    <3> QED
      BY <3>1, <3>2 DEF NextStatus, TypeOK
  <2> QED
    BY <1>2, <2>1, <2>2, <2>3, <2>4 DEF ManagerStep
<1>3. CASE (\E r \in Rems : RemediationStep(r)) \/ (\E t \in Targets : TargetStep(t))
  BY <1>1, <1>3, OtherWriters DEF TargetStep, EditTarget, DeleteTarget, worker
<1>4. CASE UNCHANGED vars
  BY <1>1, <1>4 DEF vars, worker
<1> QED
  BY <1>2, <1>3, <1>4 DEF Next

\* The further invariants hold initially.
LEMMA FateInit == Init => OutcomeInv /\ OwnerInv /\ AnalyzingInv
<1>1. NoRemediation.phase = "New" /\ NoRemediation.exists = FALSE
  BY DEF NoRemediation
<1> QED
  BY <1>1 DEF Init, OutcomeInv, OwnerInv, AnalyzingInv,
              FailedMeansNotApplied, ApplyingIsOwned

\* The further invariants hold in every reachable state.
LEMMA FateHolds == Spec => [](OutcomeInv /\ OwnerInv /\ AnalyzingInv)
<1>1. TypeOK /\ IInv /\ (OutcomeInv /\ OwnerInv /\ AnalyzingInv) /\ [Next]_vars
         => (OutcomeInv /\ OwnerInv /\ AnalyzingInv)'
  BY OutcomeStep, OwnerStep, AnalyzingStep
<1> QED
  BY <1>1, FateInit, TypeCorrect, InvariantHolds, PTL DEF Spec

\* While every call gets its answer, a remediation reported Failed or Expired has
\* left its target alone.
THEOREM FailureIsReal == Spec => []FailedMeansNotApplied
<1>1. OutcomeInv => FailedMeansNotApplied
  BY DEF OutcomeInv
<1> QED
  BY <1>1, FateHolds, PTL

\* Only a failed call, a crash or an edited spec leaves a remediation in Applying
\* with no manager about to finish it.
THEOREM ApplyingHasOwner == Spec => []ApplyingIsOwned
<1>1. OwnerInv => ApplyingIsOwned
  BY DEF OwnerInv
<1> QED
  BY <1>1, FateHolds, PTL

-----------------------------------------------------------------------------
(* No manager forgets a remediation that has not ended. *)

\* Every write of an object gives it the next version.
LEMMA VersionsGrow ==
  ASSUME TypeOK, [Next]_vars, NEW r \in Rems
  PROVE  cr'[r] = cr[r] \/ cr'[r].rv = cr[r].rv + 1
<1>0. cr \in [Rems -> Remediation]
  BY DEF TypeOK
<1>1. CASE UNCHANGED cr
  BY <1>1
<1>2. ASSUME NEW k \in Rems, NEW o, cr' = [cr EXCEPT ![k] = o], o.rv = cr[k].rv + 1
      PROVE  cr'[r] = cr[r] \/ cr'[r].rv = cr[r].rv + 1
  BY <1>0, <1>2
<1>3. ASSUME NEW m \in Managers, ManagerStep(m), cr' # cr
      PROVE  cr'[r] = cr[r] \/ cr'[r].rv = cr[r].rv + 1
  <2>1. pc[m] = "status" /\ WriteStatus(m) /\ Current(obj[m], cr[key[m]])
    BY <1>3 DEF ManagerStep, Reconcile, HandlePendingError, ReconcileNothing, HandleNew,
                HandlePending, HandleAnalyzing, HandleDirect, HandleApplying, HandlePRCreated,
                Return, WillWrite, CacheSync, DelayExpires, TargetCacheSync, Crash, store,
                StatusAccepted, StatusRejected, StatusError, StatusReplyLost,
                TargetAccepted, TargetRejected, TargetError, TargetReplyLost
  <2>2. key[m] \in Rems /\ Bump(obj[m]).rv = cr[key[m]].rv + 1
    BY <2>1, BumpFields DEF TypeOK, Current
  <2> QED
    BY <1>2, <2>1, <2>2 DEF WriteStatus
<1>4. ASSUME NEW k \in Rems, RemediationStep(k)
      PROVE  cr'[r] = cr[r] \/ cr'[r].rv = cr[r].rv + 1
  <2>1. ASSUME NEW s \in Specs, CreateRemediation(k, s)
        PROVE  cr' = [cr EXCEPT ![k] = Created(s)] /\ Created(s).rv = cr[k].rv + 1
    <3>1. cr' = [cr EXCEPT ![k] = Created(s)] /\ cr[k].rv = 0
      BY <2>1, Zenon DEF CreateRemediation
    <3>2. Created(s).rv = 1
      BY CreatedFields, Zenon
    <3> QED
      BY <3>1, <3>2
  <2>2. ASSUME NEW s \in Specs, EditSpec(k, s)
        PROVE  cr' = [cr EXCEPT ![k] = Respecified(cr[k], s)]
               /\ Respecified(cr[k], s).rv = cr[k].rv + 1
    BY <1>0, <2>2, UserWriteFields DEF EditSpec
  <2>3. ASSUME DeleteRemediation(k)
        PROVE  cr' = [cr EXCEPT ![k] = Deleted(cr[k])] /\ Deleted(cr[k]).rv = cr[k].rv + 1
    BY <1>0, <2>3, SpecsAssumption, UserWriteFields DEF DeleteRemediation
  <2>4. ASSUME AppSetsStatus(k)
        PROVE  \E o : cr' = [cr EXCEPT ![k] = o] /\ o.rv = cr[k].rv + 1
    <3>1. cr[k] \in Remediation
      BY <1>0
    <3>2. /\ Bump(PRCreatedStatus(cr[k])).rv = cr[k].rv + 1
          /\ Bump(FailedStatus(cr[k])).rv = cr[k].rv + 1
      <4>1. /\ PRCreatedStatus(cr[k]) \in Remediation /\ FailedStatus(cr[k]) \in Remediation
            /\ PRCreatedStatus(cr[k]).rv = cr[k].rv /\ FailedStatus(cr[k]).rv = cr[k].rv
        BY <3>1, StatusesTyped, StatusFields
      <4> QED
        BY <4>1, BumpFields
    <3> QED
      BY <2>4, <3>2 DEF AppSetsStatus
  <2>5. CASE TtlElapses(k)
    BY <1>1, <2>5 DEF TtlElapses, store
  <2> QED
    BY <1>2, <1>4, <2>1, <2>2, <2>3, <2>4, <2>5 DEF RemediationStep
<1>5. CASE (\E t \in Targets : TargetStep(t)) \/ UNCHANGED vars
  BY <1>1, <1>5 DEF TargetStep, EditTarget, DeleteTarget, vars, store
<1> QED
  BY <1>1, <1>3, <1>4, <1>5 DEF Next

\* A reconcile takes its request off the queue only when it is to write a
\* status, sets a timer, or has seen a copy that needs nothing more.
LEMMA ReconcileKeeps ==
  ASSUME NEW m \in Managers, NEW r \in Rems, Reconcile(m, r)
  PROVE  \/ Return(m, r, TRUE)
         \/ /\ Return(m, r, FALSE)
            /\ ~cache[m][r].exists \/ cache[m][r].phase \in Terminal
         \/ \E o, d : WillWrite(m, r, o, d)
BY DEF Reconcile, ReconcileNothing, HandleNew, HandlePending, HandleAnalyzing, HandleDirect,
       HandleApplying, HandlePRCreated

\* What manager m knows of r and what waits for it is as before, or more.
Remembers(m, r) ==
    /\ cache'[m][r] = cache[m][r]
    /\ r \in queue[m] \cup delayed[m] => r \in queue'[m] \cup delayed'[m]
    /\ pc[m] # "idle" /\ key[m] = r => pc'[m] # "idle" /\ key'[m] = r

\* The worker's own steps, on an object that does not change with them.
LEMMA WorkerRemembers ==
  ASSUME TypeOK, IInv, NEW m \in Managers, NEW n \in Managers, NEW r \in Rems, cr'[r] = cr[r],
         \/ StatusAccepted(n) \/ StatusRejected(n) \/ StatusError(n) \/ StatusReplyLost(n)
         \/ TargetAccepted(n) \/ TargetRejected(n) \/ TargetError(n) \/ TargetReplyLost(n)
  PROVE  Remembers(m, r) \/ Awaited(m, r)'
<1> USE DEF Remembers, queues, caches
<1>0. /\ queue \in [Managers -> SUBSET Rems] /\ delayed \in [Managers -> SUBSET Rems]
      /\ pc \in [Managers -> {"idle", "status", "target"}]
      /\ key \in [Managers -> Rems \cup {NoKey}]
  BY DEF TypeOK
<1>1. ASSUME NEW again \in BOOLEAN, Finish(n, again), again \/ n # m \/ key[n] # r,
             UNCHANGED cache
      PROVE  Remembers(m, r) \/ Awaited(m, r)'
  <2>1. CASE n # m \/ key[n] # r
    BY <1>0, <1>1, <2>1 DEF Finish
  <2>2. CASE n = m /\ key[n] = r /\ again
    BY <1>0, <1>1, <2>2 DEF Finish, Awaited
  <2> QED
    BY <1>1, <2>1, <2>2
<1>2. CASE StatusAccepted(n)
  <2>1. key[n] # r
    <3>1. /\ key[n] \in Rems /\ obj[n] \in Remediation /\ cr[key[n]].rv \in Nat
          /\ obj[n].rv = cr[key[n]].rv /\ cr' = [cr EXCEPT ![key[n]] = Bump(obj[n])]
      BY <1>2 DEF StatusAccepted, WriteStatus, Current, TypeOK, Remediation
    <3>2. cr'[key[n]] = Bump(obj[n]) /\ Bump(obj[n]).rv = obj[n].rv + 1
      BY <3>1, BumpFields DEF TypeOK
    <3> QED
      BY <3>1, <3>2
  <2>2. Requeues(obj[n]) \in BOOLEAN
    BY DEF Requeues
  <2>3. CASE obj[n].phase = "Applying"
    BY <1>0, <1>2, <2>3 DEF StatusAccepted
  <2>4. CASE obj[n].phase # "Applying"
    BY <1>1, <1>2, <2>1, <2>2, <2>4 DEF StatusAccepted
  <2> QED
    BY <2>3, <2>4
<1>3. CASE StatusRejected(n) \/ StatusError(n) \/ StatusReplyLost(n)
  BY <1>1, <1>3 DEF StatusRejected, StatusError, StatusReplyLost
<1>4. CASE TargetAccepted(n) \/ TargetRejected(n) \/ TargetError(n) \/ TargetReplyLost(n)
  BY <1>0, <1>4 DEF TargetAccepted, TargetRejected, TargetError, TargetReplyLost, NextStatus
<1> QED
  BY <1>2, <1>3, <1>4

\* A reconcile, and what the runtime does.
LEMMA RuntimeRemembers ==
  ASSUME TypeOK, NEW m \in Managers, NEW n \in Managers, NEW r \in Rems, NEW k \in Rems,
         cr' = cr, cr[r].exists, cr[r].phase \notin Terminal,
         \/ Reconcile(n, k) \/ HandlePendingError(n, k)
         \/ CacheSync(n, k) \/ DelayExpires(n, k) \/ Crash(n)
  PROVE  Remembers(m, r) \/ Awaited(m, r)'
<1> USE DEF Remembers, queues, caches, worker
<1>0. /\ queue \in [Managers -> SUBSET Rems] /\ delayed \in [Managers -> SUBSET Rems]
      /\ pc \in [Managers -> {"idle", "status", "target"}]
      /\ key \in [Managers -> Rems \cup {NoKey}]
      /\ cache \in [Managers -> [Rems -> Remediation]]
  BY DEF TypeOK
<1>1. CASE Reconcile(n, k)
  <2>1. pc[n] = "idle"
    BY <1>1 DEF Reconcile, ReconcileNothing, HandleNew, HandlePending, HandleAnalyzing,
                HandleDirect, HandleApplying, HandlePRCreated, Dequeue
  <2>2. CASE Return(n, k, TRUE)
    BY <1>0, <2>2 DEF Return
  <2>3. CASE Return(n, k, FALSE) /\ (~cache[n][k].exists \/ cache[n][k].phase \in Terminal)
    <3>1. CASE n = m /\ k = r
      <4>1. cache'[m][r] = cache[m][r] /\ cache[m][r] # cr[r]
        BY <2>3, <3>1 DEF Return
      <4> QED
        BY <4>1 DEF Awaited
    <3>2. CASE n # m \/ k # r
      BY <1>0, <2>3, <3>2 DEF Return
    <3> QED
      BY <3>1, <3>2
  <2>4. ASSUME NEW o, NEW d, WillWrite(n, k, o, d)
        PROVE  Remembers(m, r) \/ Awaited(m, r)'
    <3>1. CASE n = m /\ k = r
      BY <1>0, <2>4, <3>1 DEF WillWrite, Awaited
    <3>2. CASE n = m /\ k # r
      BY <1>0, <2>1, <2>4, <3>2 DEF WillWrite
    <3>3. CASE n # m
      BY <1>0, <2>4, <3>3 DEF WillWrite
    <3> QED
      BY <3>1, <3>2, <3>3
  <2> QED
    BY <1>1, <2>2, <2>3, <2>4, ReconcileKeeps
<1>2. CASE HandlePendingError(n, k)
  BY <1>2 DEF HandlePendingError
<1>3. CASE CacheSync(n, k)
  <2>1. CASE n = m /\ k = r
    BY <1>0, <1>3, <2>1 DEF CacheSync, Awaited
  <2>2. CASE n # m \/ k # r
    BY <1>0, <1>3, <2>2 DEF CacheSync
  <2> QED
    BY <2>1, <2>2
<1>4. CASE DelayExpires(n, k)
  BY <1>0, <1>4 DEF DelayExpires
<1>5. CASE Crash(n)
  <2>1. CASE n = m
    BY <1>0, <1>5, <2>1 DEF Crash, Awaited
  <2>2. CASE n # m
    BY <1>0, <1>5, <2>2 DEF Crash
  <2> QED
    BY <2>1, <2>2
<1> QED
  BY <1>1, <1>2, <1>3, <1>4, <1>5

\* Whoever writes an object leaves the copies of the managers as they are.
LEMMA WritesLeaveCaches ==
  ASSUME [Next]_vars, cr' # cr
  PROVE  cache' = cache
<1>1. ASSUME NEW m \in Managers, ManagerStep(m) PROVE cache' = cache
  BY <1>1 DEF ManagerStep, Reconcile, HandlePendingError, ReconcileNothing, HandleNew,
              HandlePending, HandleAnalyzing, HandleDirect, HandleApplying, HandlePRCreated,
              Return, WillWrite, CacheSync, DelayExpires, TargetCacheSync, Crash, store, caches,
              StatusAccepted, StatusRejected, StatusError, StatusReplyLost,
              TargetAccepted, TargetRejected, TargetError, TargetReplyLost
<1>2. ASSUME NEW r \in Rems, RemediationStep(r) PROVE cache' = cache
  BY <1>2 DEF RemediationStep, CreateRemediation, EditSpec, DeleteRemediation, AppSetsStatus,
              TtlElapses, caches
<1>3. CASE (\E t \in Targets : TargetStep(t)) \/ UNCHANGED vars
  BY <1>3 DEF TargetStep, EditTarget, DeleteTarget, vars, store
<1> QED
  BY <1>1, <1>2, <1>3 DEF Next

\* Every step keeps what makes a manager look at an unfinished remediation
\* again.
LEMMA WakeupStep ==
  ASSUME TypeOK, IInv, NoWakeupLost, [Next]_vars
  PROVE  NoWakeupLost'
<1> SUFFICES ASSUME NEW m \in Managers, NEW r \in Rems,
                    cr'[r].exists, cr'[r].phase \notin Terminal
             PROVE  Awaited(m, r)'
  BY DEF NoWakeupLost
<1>1. CASE cr'[r] # cr[r]
  <2>1. cr'[r].rv = cr[r].rv + 1 /\ cache' = cache
    BY <1>1, VersionsGrow, WritesLeaveCaches
  <2>2. cache[m][r].rv \in Nat /\ cr[r].rv \in Nat /\ cache[m][r].rv <= cr[r].rv
    BY DEF TypeOK, Remediation, IInv, CopiesInv, Copy
  <2>3. cache'[m][r] # cr'[r]
    BY <2>1, <2>2
  <2> QED
    BY <2>3 DEF Awaited
<1>2. CASE cr'[r] = cr[r]
  <2>1. Awaited(m, r) /\ cr[r].exists /\ cr[r].phase \notin Terminal
    BY <1>2 DEF NoWakeupLost
  <2>2. Remembers(m, r) => Awaited(m, r)'
    BY <1>2, <2>1 DEF Remembers, Awaited
  <2>3. CASE UNCHANGED <<cache, queue, delayed, pc, key>>
    BY <2>2, <2>3 DEF Remembers
  <2>4. ASSUME NEW n \in Managers, ManagerStep(n) PROVE Awaited(m, r)'
    <3>1. CASE \/ \E k \in Rems : \/ Reconcile(n, k) \/ HandlePendingError(n, k)
                                  \/ CacheSync(n, k) \/ DelayExpires(n, k)
               \/ Crash(n)
      <4>1. cr' = cr
        BY <3>1 DEF Reconcile, HandlePendingError, ReconcileNothing, HandleNew, HandlePending,
                    HandleAnalyzing, HandleDirect, HandleApplying, HandlePRCreated,
                    Return, WillWrite, CacheSync, DelayExpires, Crash, store
      <4> QED
        BY <2>1, <2>2, <3>1, <4>1, RuntimeRemembers
    <3>2. CASE \E t \in Targets : TargetCacheSync(n, t)
      BY <2>3, <3>2 DEF TargetCacheSync, queues, worker
    <3>3. CASE \/ StatusAccepted(n) \/ StatusRejected(n) \/ StatusError(n) \/ StatusReplyLost(n)
               \/ TargetAccepted(n) \/ TargetRejected(n) \/ TargetError(n) \/ TargetReplyLost(n)
      BY <1>2, <2>2, <3>3, WorkerRemembers
    <3> QED
      BY <2>4, <3>1, <3>2, <3>3 DEF ManagerStep
  <2>5. ASSUME NEW k \in Rems, RemediationStep(k) PROVE Awaited(m, r)'
    BY <2>3, <2>5 DEF RemediationStep, CreateRemediation, EditSpec, DeleteRemediation,
                      AppSetsStatus, TtlElapses, caches, queues, worker
  <2>6. CASE (\E t \in Targets : TargetStep(t)) \/ UNCHANGED vars
    BY <2>3, <2>6 DEF TargetStep, EditTarget, DeleteTarget, vars, caches, queues, worker
  <2> QED
    BY <2>4, <2>5, <2>6 DEF Next
<1> QED
  BY <1>1, <1>2

\* Whatever fails, conflicts, loses its reply or restarts, every manager still
\* has a reason to reconcile a remediation that has not ended.
THEOREM WakeupsSurvive == Spec => []NoWakeupLost
<1>1. Init => NoWakeupLost
  BY DEF Init, NoWakeupLost, NoRemediation
<1> QED
  BY <1>1, WakeupStep, TypeCorrect, InvariantHolds, PTL DEF Spec
=============================================================================
