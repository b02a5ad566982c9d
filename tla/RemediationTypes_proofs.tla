------------------------ MODULE RemediationTypes_proofs ------------------------
(* What each status and each write of RemediationTypes changes and keeps. *)
EXTENDS RemediationTypes, TLAPS

\* An object no handler has seen is one.
LEMMA NoRemediationTyped == NoRemediation \in Remediation /\ \A s \in Specs : s \in SpecType
<1>1. (CHOOSE s \in Specs : TRUE) \in Specs /\ \A s \in Specs : s \in SpecType
  BY SpecsAssumption
<1> QED
  BY <1>1 DEF NoRemediation, Remediation, Phases

\* The statuses the handlers compute are statuses.
LEMMA StatusesTyped ==
  ASSUME NEW o \in Remediation
  PROVE  /\ NewStatus(o) \in Remediation /\ AnalyzingStatus(o) \in Remediation
         /\ WaitingStatus(o) \in Remediation /\ PRCreatedStatus(o) \in Remediation
         /\ ApplyingStatus(o) \in Remediation /\ SucceededStatus(o) \in Remediation
         /\ FailedStatus(o) \in Remediation /\ ExpiredStatus(o) \in Remediation
<1> USE DEF Remediation, Phases, Terminal
<1>1. o.attempts + 1 \in Nat
  OBVIOUS
<1>2. NewStatus(o) \in Remediation /\ AnalyzingStatus(o) \in Remediation
      /\ WaitingStatus(o) \in Remediation /\ PRCreatedStatus(o) \in Remediation
  BY Zenon DEF NewStatus, AnalyzingStatus, WaitingStatus, PRCreatedStatus
<1>3. ApplyingStatus(o) \in Remediation
  BY <1>1, Zenon DEF ApplyingStatus
<1>4. SucceededStatus(o) \in Remediation /\ FailedStatus(o) \in Remediation
      /\ ExpiredStatus(o) \in Remediation
  BY Zenon DEF SucceededStatus, FailedStatus, ExpiredStatus
<1> QED
  BY <1>2, <1>3, <1>4

\* What each handler's status changes, and what it keeps.
LEMMA StatusFields ==
  ASSUME NEW o \in Remediation
  PROVE  /\ \A s \in {NewStatus(o), AnalyzingStatus(o), WaitingStatus(o), PRCreatedStatus(o),
                       ApplyingStatus(o), SucceededStatus(o), FailedStatus(o), ExpiredStatus(o)} :
                /\ s.exists = o.exists /\ s.spec = o.spec /\ s.rv = o.rv
                /\ s.generation = o.generation
         /\ \A s \in {NewStatus(o), AnalyzingStatus(o), WaitingStatus(o), PRCreatedStatus(o),
                       SucceededStatus(o), FailedStatus(o), ExpiredStatus(o)} :
                s.attempts = o.attempts
         /\ \A s \in {NewStatus(o), AnalyzingStatus(o), WaitingStatus(o), PRCreatedStatus(o),
                       ApplyingStatus(o)} :
                s.resolvedAt = o.resolvedAt /\ s.appliedAt = o.appliedAt
         /\ NewStatus(o).phase = "Pending" /\ WaitingStatus(o).phase = "Pending"
         /\ AnalyzingStatus(o).phase = "Analyzing" /\ PRCreatedStatus(o).phase = "PRCreated"
         /\ ApplyingStatus(o).phase = "Applying" /\ ApplyingStatus(o).attempts = o.attempts + 1
         /\ SucceededStatus(o).phase = "Succeeded"
         /\ SucceededStatus(o).resolvedAt /\ SucceededStatus(o).appliedAt
         /\ FailedStatus(o).phase = "Failed" /\ FailedStatus(o).resolvedAt
         /\ FailedStatus(o).appliedAt = o.appliedAt
         /\ ExpiredStatus(o).phase = "Expired" /\ ExpiredStatus(o).resolvedAt
         /\ ExpiredStatus(o).appliedAt = o.appliedAt
BY Zenon DEF Remediation, NewStatus, AnalyzingStatus, WaitingStatus, PRCreatedStatus,
             ApplyingStatus, SucceededStatus, FailedStatus, ExpiredStatus

\* A stored object is the written one with the next version.
LEMMA BumpFields ==
  ASSUME NEW o \in Remediation
  PROVE  /\ Bump(o) \in Remediation /\ Bump(o).rv = o.rv + 1
         /\ Bump(o).exists = o.exists /\ Bump(o).spec = o.spec
         /\ Bump(o).generation = o.generation
         /\ Bump(o).phase = o.phase /\ Bump(o).attempts = o.attempts
         /\ Bump(o).resolvedAt = o.resolvedAt /\ Bump(o).appliedAt = o.appliedAt
<1>1. o.rv + 1 \in Nat
  BY DEF Remediation
<1> QED
  BY <1>1, Zenon DEF Remediation, Bump

\* The fields of an object that has just been created.
LEMMA CreatedFields ==
  ASSUME NEW s \in Specs
  PROVE  /\ Created(s) \in Remediation /\ Created(s).exists /\ Created(s).rv = 1
         /\ Created(s).generation = 1 /\ Created(s).spec = s
         /\ Created(s).phase = "New" /\ Created(s).attempts = 0
         /\ Created(s).resolvedAt = FALSE /\ Created(s).appliedAt = FALSE
<1>1. Created(s) \in Remediation
  BY NoRemediationTyped, Zenon DEF Remediation, Created
<1> QED
  BY <1>1 DEF Created, NoRemediation

\* A user's write changes the spec, or deletes, and keeps the status.
LEMMA UserWriteFields ==
  ASSUME NEW o \in Remediation, NEW s \in Specs, NEW w \in {Respecified(o, s), Deleted(o)}
  PROVE  /\ w \in Remediation /\ w.rv = o.rv + 1
         /\ w.phase = o.phase /\ w.attempts = o.attempts
         /\ w.resolvedAt = o.resolvedAt /\ w.appliedAt = o.appliedAt
         /\ w = Respecified(o, s) => w.generation = o.generation + 1
         /\ w = Deleted(o) => w.exists = FALSE
<1> DEFINE e == [o EXCEPT !.spec = s, !.generation = @ + 1]
           d == [o EXCEPT !.exists = FALSE]
<1>1. o.generation + 1 \in Nat
  BY DEF Remediation
<1>2. /\ e \in Remediation /\ e.rv = o.rv /\ e.phase = o.phase /\ e.attempts = o.attempts
      /\ e.resolvedAt = o.resolvedAt /\ e.appliedAt = o.appliedAt
      /\ e.generation = o.generation + 1
  BY <1>1, Zenon DEF Remediation
<1>3. /\ d \in Remediation /\ d.rv = o.rv /\ d.phase = o.phase /\ d.attempts = o.attempts
      /\ d.resolvedAt = o.resolvedAt /\ d.appliedAt = o.appliedAt /\ d.exists = FALSE
  BY Zenon DEF Remediation
<1>4. Respecified(o, s) = Bump(e) /\ Deleted(o) = Bump(d)
  BY DEF Respecified, Deleted
<1> HIDE DEF e, d
<1>5. CASE w = Bump(e)
  BY <1>2, <1>3, <1>4, <1>5, BumpFields
<1>6. CASE w = Bump(d)
  BY <1>2, <1>3, <1>4, <1>6, BumpFields
<1> QED
  BY <1>4, <1>5, <1>6

\* The phases between which a handler's status update moves an object.
LEMMA ComputedPhases ==
  ASSUME NEW c \in Remediation, NEW o, Computed(c, o)
  PROVE  \/ c.phase = "New" /\ o.phase = "Pending"
         \/ c.phase = "Pending" /\ o.phase \in {"Analyzing", "Failed"}
         \/ c.phase = "Analyzing" /\ o.phase \in {"Pending", "Failed"}
         \/ c.phase = "Analyzing" /\ IsDirect(c.spec) /\ o.phase = "Applying"
         \/ c.phase = "PRCreated" /\ o.phase = "Expired"
         \/ c.phase = "Applying" /\ o.phase \in {"Succeeded", "Failed"}
BY StatusFields DEF Computed
=============================================================================
