----------------------------- MODULE Heal8s_proofs -----------------------------
(* Proofs about the composition, for every value of its constants. *)
EXTENDS Heal8s, RemediationController_proofs

\* Both programs mean the same by an object, a status and a write.
LEMMA SameTypes ==
  /\ App!NoRemediation = NoRemediation
  /\ \A c, o : /\ App!Current(c, o) <=> Current(c, o)
               /\ App!Computed(c, o) <=> Computed(c, o)
  /\ \A o : /\ App!Bump(o) = Bump(o) /\ (App!Listable(o) <=> Listable(o))
            /\ App!NewStatus(o) = NewStatus(o) /\ App!AnalyzingStatus(o) = AnalyzingStatus(o)
            /\ App!WaitingStatus(o) = WaitingStatus(o) /\ App!ApplyingStatus(o) = ApplyingStatus(o)
            /\ App!SucceededStatus(o) = SucceededStatus(o) /\ App!FailedStatus(o) = FailedStatus(o)
            /\ App!PRCreatedStatus(o) = PRCreatedStatus(o) /\ App!ExpiredStatus(o) = ExpiredStatus(o)
<1>1. App!NoRemediation = NoRemediation
  BY DEF App!NoRemediation, NoRemediation
<1>2. \A o : /\ App!Bump(o) = Bump(o) /\ (App!Listable(o) <=> Listable(o))
             /\ App!NewStatus(o) = NewStatus(o) /\ App!AnalyzingStatus(o) = AnalyzingStatus(o)
             /\ App!WaitingStatus(o) = WaitingStatus(o) /\ App!ApplyingStatus(o) = ApplyingStatus(o)
             /\ App!SucceededStatus(o) = SucceededStatus(o) /\ App!FailedStatus(o) = FailedStatus(o)
             /\ App!PRCreatedStatus(o) = PRCreatedStatus(o) /\ App!ExpiredStatus(o) = ExpiredStatus(o)
  BY DEF App!Bump, Bump, App!Listable, Listable, App!NewStatus, NewStatus,
         App!AnalyzingStatus, AnalyzingStatus, App!WaitingStatus, WaitingStatus,
         App!ApplyingStatus, ApplyingStatus, App!SucceededStatus, SucceededStatus,
         App!FailedStatus, FailedStatus, App!PRCreatedStatus, PRCreatedStatus,
         App!ExpiredStatus, ExpiredStatus
<1>3. \A s : App!IsDirect(s) <=> IsDirect(s)
  BY DEF App!IsDirect, IsDirect
<1>4. \A c, o : /\ App!Current(c, o) <=> Current(c, o)
                /\ App!Computed(c, o) <=> Computed(c, o)
  BY <1>2, <1>3 DEF App!Current, Current, App!Computed, Computed
<1> QED
  BY <1>1, <1>2, <1>4

\* What an instance of the App holds of the objects.
AppTypes ==
    /\ prNumber = [r \in Rems |-> prNumber[r]]
    /\ todo \in [Apps -> SUBSET Rems]
    /\ listed \in [Apps -> [Rems -> Remediation]]
    /\ appPc \in [Apps -> App!Steps]
    /\ doing \in [Apps -> Rems \cup {NoRem}]

SystemInv == TypeOK /\ AppTypes /\ ListedInv

-----------------------------------------------------------------------------
(* What a step of the App does to the objects and to its own copies. *)

Lists(a) ==
    LET Found == {r \in Watched : Listable(cr[r])} IN
    /\ appPc[a] = "idle" /\ todo[a] = {}
    /\ todo' = [todo EXCEPT ![a] = Found]
    /\ listed' = [listed EXCEPT ![a] = [r \in Rems |-> IF r \in Found THEN cr[r]
                                                                     ELSE NoRemediation]]
    /\ UNCHANGED <<cr, prNumber, appPc, doing>>

Takes(a, r) ==
    /\ appPc[a] = "idle" /\ r \in todo[a]
    /\ todo' = [todo EXCEPT ![a] = @ \ {r}]
    /\ doing' = [doing EXCEPT ![a] = r]
    /\ \E s \in App!Steps : appPc' = [appPc EXCEPT ![a] = s]
    /\ UNCHANGED <<cr, prNumber, listed>>

Goes(a) ==
    /\ appPc[a] # "idle"
    /\ \E s \in App!Steps : appPc' = [appPc EXCEPT ![a] = s]
    /\ UNCHANGED <<cr, prNumber, todo, doing, listed>>

Restarts(a) ==
    /\ todo' = [todo EXCEPT ![a] = {}]
    /\ listed' = [listed EXCEPT ![a] = [r \in Rems |-> NoRemediation]]
    /\ appPc' = [appPc EXCEPT ![a] = "idle"]
    /\ doing' = [doing EXCEPT ![a] = NoRem]
    /\ UNCHANGED <<cr, prNumber>>

LetsGo(a) ==
    /\ appPc[a] \in {"created", "failed"}
    /\ appPc' = [appPc EXCEPT ![a] = "idle"]
    /\ listed' = [listed EXCEPT ![a][doing[a]] = NoRemediation]
    /\ doing' = [doing EXCEPT ![a] = NoRem]
    /\ UNCHANGED todo

\* The write of a status, with the version that was listed.
Reports(a) ==
    LET r == doing[a] IN
    /\ Current(listed[a][r], cr[r])
    /\ \/ /\ cr' = [cr EXCEPT ![r] = Bump(PRCreatedStatus(listed[a][r]))]
          /\ prNumber' = [prNumber EXCEPT ![r] = pull[a]]
       \/ /\ cr' = [cr EXCEPT ![r] = Bump(FailedStatus(listed[a][r]))]
          /\ UNCHANGED prNumber

\* What a step of the App does to what it has listed and to the objects.
LEMMA WorkShape ==
  ASSUME NEW a \in Apps, App!Work(a) \/ App!Crash(a)
  PROVE  \/ Lists(a) \/ (\E r \in Rems : Takes(a, r)) \/ Goes(a) \/ Restarts(a)
         \/ LetsGo(a) /\ (Reports(a) \/ UNCHANGED <<cr, prNumber>>)
<1> USE SameTypes
<1>1. CASE App!List(a)
  BY <1>1 DEF App!List, App!Found, App!repo, App!api, Lists
<1>2. CASE \E r \in Rems : App!Fetch(a, r)
  <2>1. PICK r \in Rems : App!Fetch(a, r)
    BY <1>2
  <2>2. Takes(a, r)
    BY <2>1 DEF App!Fetch, App!Goto, App!repo, App!api, App!Steps, Takes
  <2> QED
    BY <2>2
<1>3. CASE App!WriteStatus(a)
  BY <1>3 DEF App!WriteStatus, App!Release, App!Goto, App!SetStatus, App!api, LetsGo, Reports
<1>4. CASE App!Restart(a)
  BY <1>4 DEF App!Restart, App!NoCopies, App!repo, App!api, Restarts
<1>5. CASE App!GetBase(a) \/ App!CreateRef(a) \/ App!UpdateRef(a)
  BY <1>5 DEF App!GetBase, App!CreateRef, App!UpdateRef, App!Call, App!SetBranch, App!NothingDone,
              App!Goto, App!repo, App!api, App!Steps, Goes
<1>6. CASE App!PutFile(a) \/ App!PutAgain(a) \/ App!CreatePull(a)
  BY <1>6 DEF App!PutFile, App!PutAgain, App!CreatePull, App!Call, App!CommitFile, App!SetBranch,
              App!NothingDone, App!Goto, App!repo, App!api, App!Steps, Goes
<1>7. CASE App!GetFile(a) /\ ~App!Restart(a)
  BY <1>7 DEF App!GetFile, App!NothingDone, App!Goto, App!repo, App!api, App!Steps, Goes
<1> QED
  BY <1>1, <1>2, <1>3, <1>4, <1>5, <1>6, <1>7 DEF App!Work, App!Crash

-----------------------------------------------------------------------------
(* The controller, in the composition. *)

copies == <<prNumber, todo, listed, appPc, doing>>

\* A run of the workflow ends with the objects and the cluster as they were.
LEMMA WorkflowIsIdle ==
  ASSUME TypeOK, NEW n, Workflow(n)
  PROVE  UNCHANGED <<cr, controllerVars, appVars>>
<1>1. UNCHANGED <<controllerVars, appVars>>
  BY DEF Workflow, ApplyManifests
<1>2. CASE UpdateRemediations(n)
  <2>1. ASSUME NEW r \in Rems PROVE PatchedWithoutStatus(cr[r], ReportedStatus(cr[r])) = cr[r]
    <3>1. cr[r] \in Remediation
      BY DEF TypeOK
    <3>2. ReportedStatus(cr[r]).spec = cr[r].spec
      BY <3>1 DEF ReportedStatus, Remediation
    <3> QED
      BY <3>2 DEF PatchedWithoutStatus
  <2>2. cr' = [r \in Rems |-> cr[r]]
    BY <1>2, <2>1 DEF UpdateRemediations
  <2>3. cr = [r \in Rems |-> cr[r]]
    BY DEF TypeOK
  <2> QED
    BY <1>1, <2>2, <2>3
<1> QED
  BY <1>1, <1>2 DEF Workflow

\* A step of the system either leaves the App's copies alone and is a step of
\* the controller's module, or is one of the App.
LEMMA SystemStep ==
  ASSUME TypeOK, [SystemNext]_systemVars
  PROVE  \/ /\ UNCHANGED copies
            /\ \/ UNCHANGED vars
               \/ \E m \in Managers : ManagerStep(m)
               \/ \E t \in Targets : TargetStep(t)
               \/ \E r \in Rems : RemediationStep(r)
         \/ \E a \in Apps : (App!Work(a) \/ App!Crash(a)) /\ UNCHANGED controllerVars
<1> USE DEF copies
<1>1. CASE UNCHANGED systemVars
  BY <1>1 DEF systemVars, controllerVars, appVars, vars, store
<1>2. CASE OperatorStep
  BY <1>2 DEF OperatorStep, appVars, RemediationStep
<1>3. CASE UserStep
  <2>1. PICK r \in Rems :
           \/ \E s \in Specs : \/ CreateRemediation(r, s) /\ App!CreateRemediation(r, s)
                               \/ EditSpec(r, s) /\ App!EditSpec(r, s)
           \/ DeleteRemediation(r) /\ App!DeleteRemediation(r)
    BY <1>3 DEF UserStep
  <2>2. RemediationStep(r)
    BY <2>1 DEF RemediationStep
  <2>3. UNCHANGED copies
    BY <2>1 DEF App!CreateRemediation, App!EditSpec, App!DeleteRemediation, App!ApiStep,
                App!Theirs, App!locals
  <2> QED
    BY <2>2, <2>3
<1>4. CASE \E a \in Apps : AppWork(a) \/ AppCrash(a)
  BY <1>4 DEF AppWork, AppCrash
<1>5. CASE RepositoryStep
  BY <1>5 DEF RepositoryStep, App!PeopleStep, App!Merge, App!ClosePull, App!PushToBranch,
              App!DeleteBranch, App!EditBase, App!Theirs, App!locals, App!api,
              controllerVars, vars, store
<1>6. CASE \E n \in DOMAIN pulls : Label(n) \/ Workflow(n)
  BY <1>6, WorkflowIsIdle DEF Label, controllerVars, appVars, vars, store
<1> QED
  BY <1>1, <1>2, <1>3, <1>4, <1>5, <1>6 DEF SystemNext

\* A step of the App is one the controller's model allows for: a write of a
\* status over an object that is still the pending one that was listed.
LEMMA AppIsGuessed ==
  ASSUME SystemInv, NEW a \in Apps, App!Work(a) \/ App!Crash(a), UNCHANGED controllerVars
  PROVE  [Next]_vars
<1> USE DEF controllerVars
<1>1. CASE UNCHANGED cr
  BY <1>1 DEF vars, store
<1>2. CASE LetsGo(a) /\ Reports(a)
  <2> DEFINE r == doing[a]
  <2>1. /\ r \in Rems /\ listed[a][r] = cr[r] /\ Listable(cr[r])
    BY <1>2 DEF LetsGo, Reports, SystemInv, ListedInv
  <2>2. AppSetsStatus(r)
    BY <1>2, <2>1 DEF Reports, AppSetsStatus
  <2> QED
    BY <2>1, <2>2 DEF Next, RemediationStep
<1> QED
  BY <1>1, <1>2, WorkShape DEF Lists, Takes, Goes, Restarts

\* A step of the system is a step of RemediationController.
LEMMA SystemIsController ==
  ASSUME SystemInv, [SystemNext]_systemVars
  PROVE  [Next]_vars
BY SystemStep, AppIsGuessed DEF Next, SystemInv

-----------------------------------------------------------------------------
(* What the App has listed. *)

\* Every step keeps the types of what the App has listed.
LEMMA AppTypesStep ==
  ASSUME SystemInv, [SystemNext]_systemVars
  PROVE  AppTypes'
<1> USE DEF SystemInv, AppTypes
<1>1. CASE UNCHANGED copies
  BY <1>1 DEF copies
<1>2. "idle" \in App!Steps
  BY DEF App!Steps
<1>3. ASSUME NEW a \in Apps, Lists(a) \/ (\E r \in Rems : Takes(a, r)) \/ Goes(a) \/ Restarts(a)
      PROVE  AppTypes'
  <2>1. CASE Lists(a)
    <3> DEFINE Found == {r \in Watched : Listable(cr[r])}
               copy == [r \in Rems |-> IF r \in Found THEN cr[r] ELSE NoRemediation]
    <3>1. Found \subseteq Rems /\ copy \in [Rems -> Remediation]
      BY AppAssumption, NoRemediationTyped DEF TypeOK
    <3>2. /\ todo' = [todo EXCEPT ![a] = Found] /\ listed' = [listed EXCEPT ![a] = copy]
          /\ UNCHANGED <<prNumber, appPc, doing>>
      BY <2>1 DEF Lists
    <3> HIDE DEF Found, copy
    <3> QED
      BY <3>1, <3>2
  <2>2. CASE \E r \in Rems : Takes(a, r)
    BY <2>2 DEF Takes
  <2>3. CASE Goes(a)
    BY <2>3 DEF Goes
  <2>4. CASE Restarts(a)
    BY <1>2, <2>4, NoRemediationTyped DEF Restarts
  <2> QED
    BY <1>3, <2>1, <2>2, <2>3, <2>4
<1>4. ASSUME NEW a \in Apps, LetsGo(a), Reports(a) \/ UNCHANGED <<cr, prNumber>> PROVE AppTypes'
  <2>1. doing[a] \in Rems
    BY <1>4 DEF LetsGo, ListedInv
  <2>2. prNumber' = [r \in Rems |-> prNumber'[r]]
    BY <1>4 DEF Reports
  <2>3. listed' \in [Apps -> [Rems -> Remediation]]
    BY <1>4, <2>1, NoRemediationTyped DEF LetsGo
  <2> QED
    BY <1>2, <1>4, <2>2, <2>3 DEF LetsGo
<1> QED
  BY <1>1, <1>3, <1>4, SystemStep, WorkShape

\* Every step leaves listed copies exact or old.
LEMMA ListedStep ==
  ASSUME SystemInv, [SystemNext]_systemVars
  PROVE  ListedInv'
<1> USE DEF SystemInv, AppTypes
<1>0. NoRemediation.rv = 0 /\ NoRemediation \in Remediation
  BY NoRemediationTyped DEF NoRemediation
<1>1. /\ cr \in [Rems -> Remediation] /\ cr' \in [Rems -> Remediation]
      /\ \A r \in Rems : cr'[r] = cr[r] \/ cr'[r].rv = cr[r].rv + 1
  <2>1. [Next]_vars
    BY SystemIsController
  <2> QED
    BY <2>1, TypeStep, VersionsGrow DEF TypeOK
<1>2. \A r \in Rems : cr[r].rv \in Nat /\ cr'[r].rv \in Nat
  BY <1>1 DEF Remediation
<1>3. \A a \in Apps, r \in Rems : listed[a][r].rv \in Nat
  BY DEF Remediation
<1>4. \A r \in Rems : cr'[r].exists => cr'[r].rv # 0
  BY <1>1, <1>2 DEF ListedInv
<1> DEFINE Fits(c, r) == c.rv <= cr'[r].rv /\ (Current(c, cr'[r]) => c = cr'[r])
<1>5. ASSUME NEW a \in Apps, NEW r \in Rems, cr'[r] = cr[r] \/ cr'[r].rv = cr[r].rv + 1
      PROVE  Fits(listed[a][r], r)
  BY <1>2, <1>3, <1>5 DEF ListedInv, Current
<1>6. ASSUME NEW r \in Rems PROVE Fits(NoRemediation, r)
  BY <1>0, <1>2, <1>4 DEF Current
<1>7. ASSUME NEW r \in Rems PROVE Fits(cr[r], r)
  BY <1>1, <1>2 DEF Current
<1> SUFFICES ASSUME NEW a \in Apps
             PROVE  /\ appPc'[a] # "idle" => doing'[a] \in Rems \ todo'[a]
                    /\ \A r \in Rems :
                          /\ Fits(listed'[a][r], r)
                          /\ r \in todo'[a] \/ (appPc'[a] # "idle" /\ doing'[a] = r)
                                 => Listable(listed'[a][r])
  BY <1>4 DEF ListedInv
<1> HIDE DEF Fits
<1>8. CASE /\ todo'[a] = todo[a] /\ listed'[a] = listed[a] /\ doing'[a] = doing[a]
           /\ appPc'[a] = "idle" <=> appPc[a] = "idle"
  BY <1>1, <1>5, <1>8 DEF ListedInv
<1>9. CASE UNCHANGED copies
  BY <1>8, <1>9 DEF copies
<1>10. ASSUME NEW b \in Apps, b # a,
              \/ Lists(b) \/ (\E r \in Rems : Takes(b, r)) \/ Goes(b) \/ Restarts(b) \/ LetsGo(b)
       PROVE  /\ todo'[a] = todo[a] /\ listed'[a] = listed[a] /\ doing'[a] = doing[a]
              /\ appPc'[a] = appPc[a]
  BY <1>10 DEF Lists, Takes, Goes, Restarts, LetsGo
<1>11. CASE Lists(a)
  <2> DEFINE Found == {r \in Watched : Listable(cr[r])}
  <2>1. /\ todo'[a] = Found /\ appPc'[a] = "idle"
        /\ \A r \in Rems : listed'[a][r] = IF r \in Found THEN cr[r] ELSE NoRemediation
    BY <1>11 DEF Lists
  <2> QED
    BY <1>6, <1>7, <2>1
<1>12. ASSUME NEW q \in Rems, Takes(a, q)
       PROVE  /\ todo'[a] = todo[a] \ {q} /\ listed'[a] = listed[a] /\ doing'[a] = q
              /\ Listable(listed[a][q]) /\ \A r \in todo[a] : Listable(listed[a][r])
  BY <1>12 DEF Takes, ListedInv
<1>13. CASE \E q \in Rems : Takes(a, q)
  BY <1>1, <1>5, <1>12, <1>13
<1>14. CASE Goes(a)
  <2>1. /\ todo'[a] = todo[a] /\ listed'[a] = listed[a] /\ doing'[a] = doing[a]
        /\ appPc[a] # "idle"
    BY <1>14 DEF Goes
  <2> QED
    BY <1>1, <1>5, <2>1 DEF ListedInv
<1>15. CASE Restarts(a)
  <2>1. /\ todo'[a] = {} /\ appPc'[a] = "idle"
        /\ \A r \in Rems : listed'[a][r] = NoRemediation
    BY <1>15 DEF Restarts
  <2> QED
    BY <1>6, <2>1
<1>16. CASE LetsGo(a)
  <2>1. /\ todo'[a] = todo[a] /\ appPc'[a] = "idle" /\ doing[a] \in Rems \ todo[a]
        /\ \A r \in Rems : listed'[a][r] = IF r = doing[a] THEN NoRemediation ELSE listed[a][r]
    BY <1>16 DEF LetsGo, ListedInv
  <2> QED
    BY <1>1, <1>5, <1>6, <2>1 DEF ListedInv
<1>17. ASSUME NEW b \in Apps, App!Work(b) \/ App!Crash(b)
       PROVE  \/ b # a /\ (\/ Lists(b) \/ (\E r \in Rems : Takes(b, r)) \/ Goes(b)
                           \/ Restarts(b) \/ LetsGo(b))
              \/ Lists(a) \/ (\E r \in Rems : Takes(a, r)) \/ Goes(a) \/ Restarts(a) \/ LetsGo(a)
  BY <1>17, WorkShape
<1> QED
  BY <1>8, <1>9, <1>10, <1>11, <1>13, <1>14, <1>15, <1>16, <1>17, SystemStep

\* The invariant of the composition holds in every reachable state.
LEMMA SystemInvHolds == SystemSpec => []SystemInv
<1>1. SystemInit => SystemInv
  <2> SUFFICES ASSUME SystemInit PROVE SystemInv
    OBVIOUS
  <2>1. TypeOK
    BY TypeInit DEF SystemInit
  <2>2. /\ prNumber = [r \in Rems |-> 0] /\ todo = [a \in Apps |-> {}]
        /\ listed = [a \in Apps |-> [r \in Rems |-> NoRemediation]]
        /\ appPc = [a \in Apps |-> "idle"] /\ doing = [a \in Apps |-> NoRem]
        /\ cr = [r \in Rems |-> NoRemediation]
    BY SameTypes DEF SystemInit, Init, App!Init, App!NoCopies
  <2>3. AppTypes
    BY <2>2, NoRemediationTyped DEF AppTypes, App!Steps
  <2>4. NoRemediation.rv = 0 /\ NoRemediation.exists = FALSE
    BY DEF NoRemediation
  <2>5. ListedInv
    BY <2>2, <2>4 DEF ListedInv
  <2> QED
    BY <2>1, <2>3, <2>5 DEF SystemInv
<1>2. SystemInv /\ [SystemNext]_systemVars => SystemInv'
  BY AppTypesStep, ListedStep, SystemIsController, TypeStep DEF SystemInv
<1> QED
  BY <1>1, <1>2, PTL DEF SystemSpec

\* With the real App in place of the guess, the controller behaves as its own
\* specification says, so that all its theorems hold in the composition.
THEOREM ControllerImplemented == SystemSpec => ControllerSpec
<1>1. SystemInit => Init
  BY DEF SystemInit
<1>2. SystemInv /\ [SystemNext]_systemVars => [Next]_vars
  BY SystemIsController
<1> QED
  BY <1>1, <1>2, SystemInvHolds, PTL DEF SystemSpec, ControllerSpec, Spec

-----------------------------------------------------------------------------
(* The App, in the composition. *)

\* The controller's invariants hold in the composition.
LEMMA ControllerHolds ==
  SystemSpec => [](TypeOK /\ IInv /\ OutcomeInv /\ OwnerInv /\ AnalyzingInv)
BY ControllerImplemented, TypeCorrect, InvariantHolds, FateHolds, PTL DEF ControllerSpec

\* A write of the controller is one the App's model allows for: it is computed
\* from the stored object, and starts an analysis below the bound only.
LEMMA WritesAreGuessed ==
  ASSUME TypeOK, IInv, AnalyzingInv, NEW m \in Managers, pc[m] = "status", WriteStatus(m),
         Current(obj[m], cr[key[m]]), UNCHANGED appVars
  PROVE  App!RemediationStep(key[m])
<1> DEFINE r == key[m]
           o == obj[m]
<1>1. /\ r \in Rems /\ cr[r].exists /\ o.rv = cr[r].rv /\ Computed(cr[r], o)
      /\ o.phase = "Analyzing" => cr[r].rv < MaxRv
      /\ cr[r] \in Remediation
  BY DEF TypeOK, IInv, WorkerInv, AnalyzingInv, Current
<1>2. cr' = [cr EXCEPT ![r] = Bump(o)]
  BY DEF WriteStatus
<1>3. App!ControllerWrites(r, o)
  BY <1>1, <1>2, SameTypes
     DEF appVars, App!ControllerWrites, App!ApiStep, App!Theirs, App!locals, App!repo, App!NoFault
<1>4. \/ o = NewStatus(cr[r]) \/ o = AnalyzingStatus(cr[r]) \/ o = ExpiredStatus(cr[r])
      \/ cr[r].phase = "Analyzing" /\ o \in {WaitingStatus(cr[r]), ApplyingStatus(cr[r]),
                                             FailedStatus(cr[r])}
      \/ cr[r].phase = "Pending" /\ o = FailedStatus(cr[r])
      \/ cr[r].phase = "Applying" /\ o \in {SucceededStatus(cr[r]), FailedStatus(cr[r])}
  BY <1>1 DEF Computed
<1> HIDE DEF o
<1> QED
  BY <1>3, <1>4, SameTypes
     DEF App!RemediationStep, App!Accept, App!Analyze, App!LeaveAnalyzing, App!TargetMissing,
         App!EndDirect, App!Expire

\* A step of the system is a step of GitHubApp.
LEMMA SystemIsApp ==
  ASSUME TypeOK, IInv, AnalyzingInv, [SystemNext]_systemVars
  PROVE  [App!Next]_App!vars
<1> USE DEF App!vars, App!repo, App!api, App!locals
<1>1. CASE UNCHANGED <<cr, appVars>>
  BY <1>1 DEF appVars
<1>2. CASE OperatorStep
  <2>1. UNCHANGED appVars
    BY <1>2 DEF OperatorStep
  <2>2. CASE cr' # cr
    <3>1. PICK m \in Managers : ManagerStep(m)
      BY <1>2, <2>2 DEF OperatorStep, TargetStep, EditTarget, DeleteTarget, TtlElapses, store
    <3>2. pc[m] = "status" /\ WriteStatus(m) /\ Current(obj[m], cr[key[m]])
      BY <2>2, <3>1 DEF ManagerStep, Reconcile, HandlePendingError, ReconcileNothing, HandleNew,
                HandlePending, HandleAnalyzing, HandleDirect, HandleApplying, HandlePRCreated,
                Return, WillWrite, CacheSync, DelayExpires, TargetCacheSync, Crash, store,
                StatusAccepted, StatusRejected, StatusError, StatusReplyLost,
                TargetAccepted, TargetRejected, TargetError, TargetReplyLost
    <3>3. key[m] \in Rems
      BY <3>2 DEF TypeOK
    <3> QED
      BY <2>1, <3>2, <3>3, WritesAreGuessed DEF App!Next
  <2> QED
    BY <1>1, <2>1, <2>2
<1>3. CASE UserStep
  BY <1>3 DEF UserStep, App!Next, App!RemediationStep
<1>4. CASE \E a \in Apps : AppWork(a) \/ AppCrash(a)
  BY <1>4 DEF AppWork, AppCrash, App!Next
<1>5. CASE RepositoryStep
  BY <1>5 DEF RepositoryStep, App!Next
<1>6. CASE (\E n \in DOMAIN pulls : Label(n) \/ Workflow(n)) \/ UNCHANGED systemVars
  BY <1>1, <1>6, WorkflowIsIdle DEF Label, systemVars
<1> QED
  BY <1>2, <1>3, <1>4, <1>5, <1>6 DEF SystemNext

\* With the real controller, its caches and its competing managers in place of
\* the guess, the App and the repository behave as their own specification
\* says, so that its theorems hold in the composition.
THEOREM AppImplemented == SystemSpec => AppSpec
<1>1. SystemInit => App!Init
  BY DEF SystemInit
<1>2. TypeOK /\ IInv /\ AnalyzingInv /\ [SystemNext]_systemVars => [App!Next]_App!vars
  BY SystemIsApp
<1> QED
  BY <1>1, <1>2, ControllerHolds, PTL DEF SystemSpec, AppSpec, App!Spec

-----------------------------------------------------------------------------
(* Pulled or patched. *)

\* Every step keeps numbers with the phases that have them.
LEMMA NumberedStep ==
  ASSUME SystemInv, IInv, NumberedInv, [SystemNext]_systemVars
  PROVE  NumberedInv'
<1> USE DEF SystemInv, AppTypes
<1>1. ASSUME NEW r \in Rems, prNumber'[r] = prNumber[r], prNumber[r] # 0, [Next]_vars
      PROVE  cr'[r].phase \in {"PRCreated", "Expired"}
  <2>1. cr[r].phase \in {"PRCreated", "Expired"} /\ cr[r] \in Remediation
    BY <1>1 DEF NumberedInv, TypeOK
  <2>2. PhaseChange(r) => cr'[r].phase = "Expired"
    BY <2>1, ComputedPhases DEF PhaseChange
  <2> QED
    BY <1>1, <2>1, <2>2, StepShape DEF PhaseChange, FirstPatch, SamePhase
<1>2. [Next]_vars
  BY SystemIsController
<1>3. CASE UNCHANGED prNumber
  BY <1>1, <1>2, <1>3 DEF NumberedInv
<1>4. ASSUME NEW a \in Apps, LetsGo(a), Reports(a), prNumber' # prNumber
      PROVE  NumberedInv'
  <2> DEFINE q == doing[a]
  <2>1. /\ q \in Rems /\ listed[a][q] \in Remediation
        /\ cr' = [cr EXCEPT ![q] = Bump(PRCreatedStatus(listed[a][q]))]
        /\ prNumber' = [prNumber EXCEPT ![q] = pull[a]]
    BY <1>4 DEF LetsGo, Reports, ListedInv
  <2>2. Bump(PRCreatedStatus(listed[a][q])).phase = "PRCreated"
    <3>1. PRCreatedStatus(listed[a][q]) \in Remediation
          /\ PRCreatedStatus(listed[a][q]).phase = "PRCreated"
      BY <2>1, StatusesTyped, StatusFields
    <3> QED
      BY <3>1, BumpFields
  <2>3. cr'[q].phase = "PRCreated" /\ \A r \in Rems \ {q} : prNumber'[r] = prNumber[r]
    BY <2>1, <2>2 DEF TypeOK
  <2> QED
    BY <1>1, <1>2, <2>3 DEF NumberedInv
<1> QED
  BY <1>3, <1>4, SystemStep, WorkShape DEF copies, Lists, Takes, Goes, Restarts

\* A remediation announced with a pull request is never patched directly, nor
\* the other way round, although both programs work on it at the same time.
THEOREM NeverBoth == SystemSpec => []PulledOrPatched
<1>1. SystemInit => NumberedInv
  BY DEF SystemInit, App!Init, NumberedInv
<1>2. SystemInv /\ IInv /\ NumberedInv /\ [SystemNext]_systemVars => NumberedInv'
  BY NumberedStep
<1>3. NumberedInv /\ IInv => PulledOrPatched
  BY DEF NumberedInv, IInv, AppliedInv, PulledOrPatched
<1> QED
  BY <1>1, <1>2, <1>3, SystemInvHolds, ControllerHolds, PTL DEF SystemSpec

-----------------------------------------------------------------------------
(* The theorems about each program, of the system.                         *)

\* The operator's promises hold with the real App at work: patched at most
\* once, no success without its patch and no failure in spite of it, nothing
\* left in Applying without its worker, no change lost, every wakeup kept,
\* approval respected, ends that stay, and with all that the lifecycle.
THEOREM OperatorIsSafe ==
  SystemSpec => /\ [](AppliedAtMostOnce /\ SucceededMeansApplied /\ FailedMeansNotApplied)
                /\ [](ApplyingIsOwned /\ NoLostUpdate /\ ResolvedIffTerminal /\ NoWakeupLost)
                /\ TerminalIsForever /\ ApprovalGate /\ LifecycleSpec
<1>1. SystemSpec => Spec
  BY ControllerImplemented DEF ControllerSpec
<1>2. Spec => [](AppliedAtMostOnce /\ SucceededMeansApplied /\ FailedMeansNotApplied)
  BY AtMostOnce, SuccessIsReal, FailureIsReal, PTL
<1>3. Spec => [](ApplyingIsOwned /\ NoLostUpdate /\ ResolvedIffTerminal /\ NoWakeupLost)
  BY ApplyingHasOwner, ChangesSurvive, TimesAgree, WakeupsSurvive, PTL
<1> QED
  BY <1>1, <1>2, <1>3, TerminalStays, ApprovalRespected, ImplementsLifecycle

Proved == INSTANCE GitHubApp_proofs WITH pc <- appPc, faults <- appFaults,
              intrusions <- appIntrusions, Edits <- ManifestEdits,
              FaultKinds <- AppFaultKinds, MaxTroubles <- MaxAppTroubles

\* The App that GitHubApp_proofs speaks of has the operators on manifests and
\* commits of the App in the system.
LEMMA SameOperators ==
  /\ Proved!NoCommit = App!NoCommit /\ Proved!FirstCommit = App!FirstCommit
  /\ Proved!NoCopies = App!NoCopies
  /\ \A x, r : /\ Proved!Carries(x, r) <=> App!Carries(x, r)
               /\ Proved!Patched(x, r) = App!Patched(x, r)
  /\ \A x : (Proved!Exists(x) <=> App!Exists(x)) /\ (Proved!Ahead(x) <=> App!Ahead(x))
  /\ \A x, f, manifest : Proved!NewCommit(x, f, manifest) = App!NewCommit(x, f, manifest)
<1>1. /\ Proved!NoCommit = App!NoCommit /\ Proved!FirstCommit = App!FirstCommit
      /\ Proved!NoCopies = App!NoCopies
  BY DEF Proved!NoCommit, App!NoCommit, Proved!FirstCommit, App!FirstCommit, Proved!NoCopies,
         App!NoCopies, Proved!NoFiles, App!NoFiles, Proved!NoRemediation, App!NoRemediation
<1>2. \A x, r : Proved!Carries(x, r) <=> App!Carries(x, r)
  BY DEF Proved!Carries, App!Carries
<1>3. \A x, r : Proved!Patched(x, r) = App!Patched(x, r)
  <2>1. \A x : Proved!Cardinality(x) = App!Cardinality(x)
    BY Zenon DEF Proved!Cardinality, App!Cardinality
  <2> QED
    BY <2>1 DEF Proved!Patched, App!Patched
<1>4. \A x : (Proved!Exists(x) <=> App!Exists(x)) /\ (Proved!Ahead(x) <=> App!Ahead(x))
  BY DEF Proved!Exists, App!Exists, Proved!Ahead, App!Ahead
<1>5. \A x, f, manifest : Proved!NewCommit(x, f, manifest) = App!NewCommit(x, f, manifest)
  BY DEF Proved!NewCommit, App!NewCommit
<1> QED
  BY <1>1, <1>2, <1>3, <1>4, <1>5

\* Its objects and statuses are the same.
LEMMA SameStatuses ==
  /\ Proved!NoRemediation = App!NoRemediation
  /\ \A c, o : /\ Proved!Current(c, o) <=> App!Current(c, o)
               /\ Proved!Computed(c, o) <=> App!Computed(c, o)
  /\ \A o : /\ Proved!Bump(o) = App!Bump(o) /\ (Proved!Listable(o) <=> App!Listable(o))
            /\ Proved!PRCreatedStatus(o) = App!PRCreatedStatus(o)
            /\ Proved!FailedStatus(o) = App!FailedStatus(o)
BY DEF Proved!NoRemediation, App!NoRemediation, Proved!Current, App!Current,
         Proved!Computed, App!Computed, Proved!Bump, App!Bump, Proved!Listable,
         App!Listable, Proved!IsDirect, App!IsDirect, Proved!PRCreatedStatus,
         App!PRCreatedStatus, Proved!FailedStatus, App!FailedStatus, Proved!NewStatus,
         App!NewStatus, Proved!AnalyzingStatus, App!AnalyzingStatus,
         Proved!WaitingStatus, App!WaitingStatus, Proved!ApplyingStatus,
         App!ApplyingStatus, Proved!SucceededStatus, App!SucceededStatus,
         Proved!ExpiredStatus, App!ExpiredStatus, Proved!Terminal, App!Terminal

\* An instance takes the same steps.
LEMMA SameWork ==
  ASSUME NEW a
  PROVE  (Proved!Work(a) <=> App!Work(a)) /\ (Proved!Crash(a) <=> App!Crash(a))
<1> USE SameOperators, SameStatuses
<1> USE DEF Proved!vars, App!vars, Proved!repo, App!repo, Proved!api, App!api,
         Proved!locals, App!locals, Proved!Goto, App!Goto, Proved!Fault, App!Fault,
         Proved!NoFault, App!NoFault, Proved!Branch, App!Branch, Proved!File, App!File
<1>1. Proved!List(a) <=> App!List(a)
  BY DEF Proved!List, App!List, Proved!Found, App!Found
<1>2. \A r : Proved!Fetch(a, r) <=> App!Fetch(a, r)
  BY DEF Proved!Fetch, App!Fetch
<1>3. (Proved!Release(a) <=> App!Release(a)) /\ (Proved!Restart(a) <=> App!Restart(a))
  BY DEF Proved!Release, App!Release, Proved!Restart, App!Restart
<1>4. Proved!WriteStatus(a) <=> App!WriteStatus(a)
  BY <1>3
     DEF Proved!WriteStatus, App!WriteStatus, Proved!SetStatus, App!SetStatus
<1>5. \A c : Proved!SetBranch(a, c) <=> App!SetBranch(a, c)
  BY DEF Proved!SetBranch, App!SetBranch
<1>6. (Proved!GetBase(a) <=> App!GetBase(a)) /\ (Proved!GetFile(a) <=> App!GetFile(a))
  BY DEF Proved!GetBase, App!GetBase, Proved!GetFile, App!GetFile, Proved!Call,
         App!Call, Proved!NothingDone, App!NothingDone, Proved!Restart, App!Restart
<1>7. (Proved!CreateRef(a) <=> App!CreateRef(a)) /\ (Proved!UpdateRef(a) <=> App!UpdateRef(a))
  BY <1>5
     DEF Proved!CreateRef, App!CreateRef, Proved!UpdateRef, App!UpdateRef, Proved!Call,
         App!Call, Proved!NothingDone, App!NothingDone
<1>8. Proved!CommitFile(a) <=> App!CommitFile(a)
  BY <1>5
     DEF Proved!CommitFile, App!CommitFile, Proved!CountCommit, App!CountCommit
<1>9. (Proved!PutFile(a) <=> App!PutFile(a)) /\ (Proved!PutAgain(a) <=> App!PutAgain(a))
  BY <1>8
     DEF Proved!PutFile, App!PutFile, Proved!PutAgain, App!PutAgain, Proved!Call,
         App!Call, Proved!NothingDone, App!NothingDone, Proved!Replaces, App!Replaces
<1>10. Proved!CreatePull(a) <=> App!CreatePull(a)
  BY DEF Proved!CreatePull, App!CreatePull, Proved!Call, App!Call, Proved!NothingDone,
         App!NothingDone, Proved!Pullable, App!Pullable
<1> QED
  BY <1>1, <1>2, <1>3, <1>4, <1>6, <1>7, <1>9, <1>10
     DEF Proved!Work, App!Work, Proved!Crash, App!Crash

\* People do the same.
LEMMA SamePeople == Proved!PeopleStep <=> App!PeopleStep
<1> USE SameOperators
<1> USE DEF Proved!repo, App!repo, Proved!api, App!api, Proved!locals, App!locals,
         Proved!Theirs, App!Theirs, Proved!NoFault, App!NoFault, Proved!Intrusion,
         App!Intrusion, Proved!PeopleCommit, App!PeopleCommit, Proved!CountCommit,
         App!CountCommit, Proved!SetPull, App!SetPull, Proved!Edited, App!Edited
<1>1. \A n : (Proved!Merge(n) <=> App!Merge(n)) /\ (Proved!ClosePull(n) <=> App!ClosePull(n))
  BY DEF Proved!Merge, App!Merge, Proved!ClosePull, App!ClosePull
<1>2. \A x : Proved!DeleteBranch(x) <=> App!DeleteBranch(x)
  BY DEF Proved!DeleteBranch, App!DeleteBranch
<1>3. \A f, e : Proved!EditBase(f, e) <=> App!EditBase(f, e)
  BY DEF Proved!EditBase, App!EditBase
<1>4. \A n, e : Proved!PushToBranch(n, e) <=> App!PushToBranch(n, e)
  BY DEF Proved!PushToBranch, App!PushToBranch
<1> QED
  BY <1>1, <1>2, <1>3, <1>4
     DEF Proved!PeopleStep, App!PeopleStep

\* The other writers of objects do the same.
LEMMA SameWrites ==
  ASSUME NEW r
  PROVE  Proved!RemediationStep(r) <=> App!RemediationStep(r)
BY DEF Proved!RemediationStep, App!RemediationStep, Proved!repo, App!repo, Proved!api,
         App!api, Proved!locals, App!locals, Proved!Theirs, App!Theirs, Proved!NoFault,
         App!NoFault, Proved!Intrusion, App!Intrusion, Proved!ApiStep, App!ApiStep,
         Proved!ControllerWrites, App!ControllerWrites, Proved!Accept, App!Accept,
         Proved!Analyze, App!Analyze, Proved!LeaveAnalyzing, App!LeaveAnalyzing,
         Proved!TargetMissing, App!TargetMissing, Proved!EndDirect, App!EndDirect,
         Proved!Expire, App!Expire, Proved!CreateRemediation, App!CreateRemediation,
         Proved!EditSpec, App!EditSpec, Proved!DeleteRemediation, App!DeleteRemediation,
         Proved!NoRemediation, App!NoRemediation, Proved!Current, App!Current,
         Proved!Computed, App!Computed, Proved!Created, App!Created, Proved!Respecified,
         App!Respecified, Proved!Deleted, App!Deleted, Proved!Bump, App!Bump,
         Proved!IsDirect, App!IsDirect, Proved!NewStatus, App!NewStatus,
         Proved!AnalyzingStatus, App!AnalyzingStatus, Proved!WaitingStatus,
         App!WaitingStatus, Proved!ApplyingStatus, App!ApplyingStatus,
         Proved!SucceededStatus, App!SucceededStatus, Proved!FailedStatus,
         App!FailedStatus, Proved!ExpiredStatus, App!ExpiredStatus, Proved!Terminal,
         App!Terminal

\* Hence the App of the system is the one the theorems are about.
LEMMA SameApp == App!Spec <=> Proved!Spec
<1>1. Proved!Init <=> App!Init
  BY SameOperators, SameStatuses
     DEF Proved!Init, App!Init
<1>2. Proved!Next <=> App!Next
  BY SameWork, SamePeople, SameWrites
     DEF Proved!Next, App!Next
<1>3. [Proved!Next]_Proved!vars <=> [App!Next]_App!vars
  BY <1>2
     DEF Proved!vars, App!vars, Proved!repo, App!repo, Proved!api, App!api,
         Proved!locals, App!locals
<1> QED
  BY <1>1, <1>3, PTL DEF Proved!Spec, App!Spec

\* The App's promises hold with the real controller at work: a status names a
\* pull request of its remediation, an open pull request carries the change of
\* its remediation, changes reach the base branch by merges only, no commit is
\* taken off a branch, and with all that PullRequests.
THEOREM AppIsSafe ==
  SystemSpec => /\ [](App!PRCreatedHasPull /\ App!PullCarriesPatch /\ App!ChangesByPullRequest)
                /\ App!CommitsStayOnBranch /\ App!PromiseSpec
<1>1. Proved!SpecsAssumption
  BY SpecsAssumption
     DEF Proved!SpecsAssumption, Proved!SpecType, SpecType, Proved!ActionTypes, ActionTypes,
         Proved!DirectActions, DirectActions
<1>2. Proved!NoRemAssumption /\ Proved!NamesAssumption /\ Proved!BoundsAssumption
  BY AppAssumption, RepositoryAssumption, BoundsAssumption
     DEF Proved!NoRemAssumption, Proved!NamesAssumption, Proved!BoundsAssumption
<1>3. SystemSpec => Proved!Spec
  BY AppImplemented, SameApp DEF AppSpec
<1>4. /\ Proved!Spec => []Proved!PRCreatedHasPull
      /\ Proved!Spec => []Proved!PullCarriesPatch
      /\ Proved!Spec => []Proved!ChangesByPullRequest
      /\ Proved!Spec => Proved!CommitsStayOnBranch
      /\ Proved!Spec => Proved!PromiseSpec
  BY <1>1, <1>2, Proved!PRCreatedIsReal, Proved!PullsCarry, Proved!ByPullRequestOnly,
     Proved!BranchesMoveForward, Proved!ImplementsPromise
<1>5. /\ Proved!PRCreatedHasPull <=> App!PRCreatedHasPull
      /\ Proved!PullCarriesPatch <=> App!PullCarriesPatch
      /\ Proved!ChangesByPullRequest <=> App!ChangesByPullRequest
  BY SameOperators
     DEF Proved!PRCreatedHasPull, App!PRCreatedHasPull, Proved!PullCarriesPatch,
         App!PullCarriesPatch, Proved!ChangesByPullRequest, App!ChangesByPullRequest,
         Proved!SoleOwner, App!SoleOwner, Proved!MergedFrom, App!MergedFrom
<1>6. Proved!CommitsStayOnBranch => App!CommitsStayOnBranch
  <2>1. [\A b \in Branches : Proved!Exists(branch'[b]) =>
                                 branch[b].history \subseteq branch'[b].history]_Proved!vars
        => [\A b \in Branches : App!Exists(branch'[b]) =>
                                 branch[b].history \subseteq branch'[b].history]_App!vars
    BY SameOperators
       DEF Proved!vars, App!vars, Proved!repo, App!repo, Proved!api, App!api, Proved!locals,
           App!locals
  <2> QED
    BY <2>1, PTL DEF Proved!CommitsStayOnBranch, App!CommitsStayOnBranch
<1>7. Proved!PromiseSpec => App!PromiseSpec
  <2>1. Proved!Phase = App!Phase /\ Proved!Phase' = App!Phase'
    BY DEF Proved!Phase, App!Phase
  <2>2. Proved!Landed = App!Landed /\ Proved!Landed' = App!Landed'
    BY SameOperators DEF Proved!Landed, App!Landed
  <2>3. Proved!Promise!Init => App!Promise!Init
    BY <2>1, <2>2 DEF Proved!Promise!Init, App!Promise!Init
  <2>4. ASSUME NEW r, NEW from, NEW to
        PROVE  Proved!Promise!Move(r, from, to) <=> App!Promise!Move(r, from, to)
    BY <2>1, <2>2 DEF Proved!Promise!Move, App!Promise!Move
  <2>5. ASSUME NEW n
        PROVE  /\ (Proved!Promise!Merge(n) <=> App!Promise!Merge(n))
               /\ (Proved!Promise!Close(n) <=> App!Promise!Close(n))
    BY <2>1, <2>2
       DEF Proved!Promise!Merge, App!Promise!Merge, Proved!Promise!Close,
           App!Promise!Close, Proved!Promise!End, App!Promise!End
  <2>6. ASSUME NEW r
        PROVE  Proved!Promise!Open(r) <=> App!Promise!Open(r)
    BY <2>1, <2>2 DEF Proved!Promise!Open, App!Promise!Open
  <2>7. Proved!Promise!Next <=> App!Promise!Next
    BY <2>4, <2>5, <2>6
       DEF Proved!Promise!Next, App!Promise!Next, Proved!Promise!Announce,
           App!Promise!Announce, Proved!Promise!Refuse, App!Promise!Refuse,
           Proved!Promise!Operate, App!Promise!Operate
  <2>8. [Proved!Promise!Next]_Proved!Promise!promised => [App!Promise!Next]_App!Promise!promised
    BY <2>1, <2>2, <2>7 DEF Proved!Promise!promised, App!Promise!promised
  <2> QED
    BY <2>3, <2>8, PTL
       DEF Proved!PromiseSpec, App!PromiseSpec, Proved!Promise!Spec, App!Promise!Spec
<1> QED
  BY <1>3, <1>4, <1>5, <1>6, <1>7, PTL
=============================================================================
