# A verification project for heal8s

heal8s turns Prometheus alerts into changes of Kubernetes workloads. An operator
receives alerts, creates `Remediation` objects and drives each through its
phases. In direct mode the operator patches the workload itself; in GitOps mode
a separate service, the GitHub App, opens a pull request, and a workflow applies
the manifest once people have merged it. This directory holds TLA+ models of
that program, TLC configurations that check them on small instances, and
theorems with proofs checked by TLAPS.

Contents: 1 inventory, 2 plan, 3 modules and code, 4 what the runs show,
5 bounds, 6 fairness, 7 proofs, 8 disagreements with the documentation,
9 what is not modelled.

## 1. Inventory

| Component | Code | State | Operations |
|---|---|---|---|
| Remediation controller | `operator/internal/controller` | the status of `Remediation` objects; per replica a cache, a work queue, timers and one worker | one handler per phase, a status update at its end, in direct mode a status update, a target update and another status update |
| Webhook and deduplicator | `operator/internal/webhooks` | `seen`: key to time of last processing, under a mutex | `HandleWebhook`, `ShouldProcess`, `cleanup`, `processAlert` in a goroutine of its own |
| Router | `operator/internal/remediate/router.go` | none | `RouteAlert`: an alert to a `Remediation` |
| Calculations | `operator/internal/remediate/{oom,scale,rollback}.go`, `github-app/internal/yaml` | none | new memory limit, new replica count, image rollback; the first two twice, on objects and on manifests |
| Dashboard | `operator/internal/dashboard` | the last 500 events, under a read-write mutex | `Record*`, `GetEvents`, the JSON answer |
| GitHub App | `github-app/internal/{remediation,k8s}` | the objects it listed at the start of a poll, nothing else | poll, fetch, patch, `CreatePR`, status update |
| GitHub client | `github-app/internal/github` | none; branches, files and pull requests live at GitHub | `FetchFile` and the steps of `CreatePR` |
| API types | `operator/api/v1alpha1`, and its copy in `github-app/pkg/api` | none | what both programs read and write |
| Workflow | `examples/github-workflows` | none | is to apply a merged manifest and patch the status |
| Processes, configuration, metrics, generated code | `operator/cmd`, `github-app/cmd`, `*/config`, `metrics.go`, `zz_generated*` | none that is read back | start-up |

**Interaction.** The components never call each other. They meet in two stores:

- the Kubernetes API server, which holds `Remediation` objects and workloads and
  accepts an update only for the `resourceVersion` it stores. The operator reads
  both through informer caches that lag; the GitHub App lists without a cache.
  Alertmanager calls the webhook, the webhook creates a `Remediation`, the watch
  event enqueues it for the controller, the controller brings it to `Pending`,
  the App lists what is `Pending` and writes `PRCreated` or `Failed`, the
  controller expires what stays `PRCreated` too long.
- the GitHub repository: the App reads the base branch, writes a head branch and
  opens a pull request; people merge, close, push and delete branches.

**Hard behaviours.** Leader election is off by default (`main.go:62`), so several
operators reconcile at once from stale caches; every handler is a
read-compute-write with a version check at the end, and the direct one makes
three writes to two objects, of which any can fail, conflict, lose its reply or
be the last before a crash. Controller and App write one status field. The
webhook answers 200 before the work it stands for is done. `CreatePR` is five
calls to GitHub with no transaction and no memory of the last attempt, and the
version it writes at the end was read before the first of them. The dashboard
turns a copy round after it has released the lock.

**What makes each component correct.**

| Component | Properties |
|---|---|
| Controller | patches a target at most once and only in `Applying`; never undoes another writer's change; `Succeeded` and `Failed` tell the truth; terminal phases stay; approval is respected at the moment of commitment; direct remediations end, overdue pull requests expire |
| Webhook | one goroutine per key within the TTL; cleanup is invisible; entries do not stay for ever; an existing object is never replaced; what keeps firing gets its remediation |
| Calculations | a value below its cap grows with every step and never passes it; only the chosen container changes; both programs calculate the same |
| Dashboard | holds the newest events; an answer is the log of one moment |
| GitHub App and client | `PRCreated` means a pull request of this remediation; an open pull request carries its change; commits of reviewers are never thrown away; changes reach the base branch by merges only |
| The two together | each behaves as if the other kept to the version check; nothing is both patched and announced with a pull request; a pending remediation that nobody rewrites is answered |

`PROJECT.json` lists the hazards behind these, each at its line.

## 2. Plan

Done, in this order, the most important behaviour first:

1. `RemediationLifecycle` (abstract) and `RemediationController`, which
   implements it, with proofs;
2. `GitHubApp`: processor, client and repository, with proofs;
3. `AlertRouter` and `AlertWebhook`, with proofs;
4. `ResourceActions`: both implementations of the calculations, with proofs;
5. `Dashboard`, with proofs;
6. `RemediationTypes`, the object both programs share, and `Heal8s`, the
   composition: the real controller and the real App on one store, and the
   workflow. It is shown, and proved, to implement both modules, so that what
   each of them guesses of the other is right;
7. `AlertIntake` and `PullRequests`, abstract specifications of the webhook and
   of the App, which these are shown, and proved, to implement; and the theorems
   of both programs for the composition.

Next:

8. The webhook in the composition, its goroutines in place of the creation of an
   object by a user.

## 3. Modules and code

Modules are named for components, actions for the functions they stand for.
A handler is one action up to its first call; each call to the API server or to
GitHub is an action per outcome: accepted, rejected, failed before anything was
stored ("error"), stored with the reply lost ("lost"). "crash" loses a process's
memory. These three are the members of `FaultKinds`. A constant bounds how often
they happen in a behaviour (section 5). `MC<Component>` modules hold the values
of the constants, `<Component>_proofs` the theorems. Definitions under a comment
that starts with "Variant:" are plausible mistakes that the properties are
tested against; no specification uses them.

**`RemediationTypes`** is the `Remediation` object: the fields that code tests, one
operator for the status each handler writes (`NewStatus` to `ExpiredStatus`), the
version check of the API server (`Current`), and what the programs ask of an
object (`IsDirect`, `Listable`). `Computed(c, o)` collects them: the controller
makes status `o` of the object `c`. Both programs compile the same type from two
copies of one file.

**`RemediationController`** models `remediation_controller.go` under
controller-runtime. `cr` and `target` are the API server; `cache[m]`,
`tcache[m]`, `queue[m]`, `delayed[m]` belong to manager `m`, and `pc`, `key`,
`obj`, `dep` are its worker: `obj` is the local variable `remediation` with the
status about to be written, `dep` the `deployment` that was read. `HandleNew`
to `HandlePRCreated` are the phase handlers; `StatusAccepted`, `StatusRejected`,
`StatusError`, `StatusReplyLost` the outcomes of `r.Status().Update`;
`Target...` those of `r.Update(ctx, deployment)`. The empty phase is "New".
`Finish(m, TRUE)` is a returned error or `Requeue: true`, `Return(m, r, TRUE)` a
`RequeueAfter`. `CacheSync` is a watch event: `SetupWithManager` sets no
predicate, so every change enqueues, the controller's own included. Whether the
calculation of the patch succeeds is a free choice (`ResourceActions` has the
numbers). `AppSetsStatus`, `EditSpec`, `EditTarget`, `Delete...` are the other
writers. `applied` and `landed` record which writes reached a target, so that
properties can compare the status with the truth.

**`RemediationLifecycle`** is what a reader of the status may rely on: the legal
phase changes, and that the target is patched in `Applying` only, once, and
before `Succeeded`. The controller implements it with `phase` mapped to the
stored phases and `patches` to `applied`.

**`GitHubApp`** models `processor.go`, `k8s/client.go` and `github/client.go`.
`List` is `processPendingRemediations`, `Fetch` the part of
`processRemediation` before `CreatePR`, then `GetBase`, `CreateRef`,
`UpdateRef`, `GetFile`, `PutFile`, `PutAgain`, `CreatePull` are the calls of
`CreatePR` and `WriteStatus` the status update, whose error is only logged. A
transport error in `GetContents` leaves `resp` nil and the next line reads it:
the service panics and is restarted. The repository is modelled from how the
client uses it: a commit is the set of commits it contains and its manifests, a
manifest the set of changes made to it, an update of a reference without force
succeeds only forwards, a file is replaced only for the blob that is there, a
pull request is refused when one is open or there is nothing to merge. A pull
request is a record of its branch, its state and the remediation its title and
body describe. People merge, close, push, edit and delete branches; the
controller's writes appear as `ControllerWrites`, which may be any that
`Computed` allows. `Restart` is a crash, the panic above, or a shutdown by a
signal: `main.go` cancels the context, the call in flight and the status update
after it fail, and the next process starts with nothing. `Watched` is the one
namespace the service lists.

**`PullRequests`** is what a reader of statuses and a reviewer may rely on, without
polls, branches, commits, calls and restarts: a pull request is opened where none
is open on its branch, announced after it was opened, to the remediation it was
opened for and while that one is pending; a remediation's change reaches the base
branch by a merge. `phase` and `number` are the status, `landed` is read off the
manifests of the base branch.

**`Heal8s`** EXTENDS the controller's module and has the App's as an INSTANCE; the
two share `cr` and nothing else. A manager's step is one of
`RemediationController`, an App's or a reviewer's one of `GitHubApp`; a user's
write, which both modules describe, is the conjunction of the two descriptions.
`AppSetsStatus` of the one and `RemediationStep` of the other, their guesses of
each other, have no place in it. `Workflow` is the Actions workflow: it runs once
for a merged pull request with the label, which the App never sets and `Label`,
an act of people, may. Its steps are `ChangedFiles`, `ApplyManifests` and
`UpdateRemediations`; that together they change neither the cluster nor the
object is a lemma (`WorkflowIsIdle`), and section 8 has the reasons.

**`AlertRouter`, `AlertWebhook`.** `Receive` is a request, `HandleAlert` one
round of the loop of `HandleWebhook` with `ShouldProcess`, which are atomic
under the mutex; `jobs` are the goroutines of `processAlert`: `RouteFails`,
`GetExisting` and `Create` are its calls. `seen[p][k]` is the age of the entry
of key `k`, in units of the TTL divided by `TTL`. `granted` is the same map
without the cleanup. `RouteAlert` is an operator of its own module.

**`AlertIntake`** is what the webhook promises to Alertmanager and to the cluster:
a process lets a firing alert through once per TTL, an alert let through leads to
at most one `Remediation`, the one its route asks for, where no object of that
name is. `age[p][k]` is the age of the entry in `seen`, up to the TTL, whether the
cleanup has removed it or not; `owed[p][a]` counts the goroutines that may still
create the object of an alert. Requests, cache and cleanup are gone.

**`ResourceActions`** holds the arithmetic of both programs on one workload.
`Apply...` are the operator's, `Patch...` the App's; a result is a set, empty
when the function returns an error. A parameter is known by how it is read:
`strconv.Atoi` and `ParseQuantity` take a whole text, `fmt.Sscanf` the digits it
starts with. Next to the remediations, users roll out images and images are
marked stable, which gives the rollback something to go back to.

**`Dashboard`** numbers events in the order they are recorded. `Record` is an
append and the cut under the lock; `GetEvents` copies, `Swap` is one round of the
reversal after the unlock, `Serve` the answer.

## 4. What the runs show

Runs that pass:

| Run | Instance | Shows |
|---|---|---|
| `direct_faults` | two managers, one remediation, two troubles (faults, edits, deletions) | the target is patched at most once and only while the stored spec allows it; `Succeeded`, `Failed` and the dashboard tell the truth; the phase that no handler moves on is not left without its worker; no change is lost; the inductive invariant holds; the controller implements the lifecycle |
| `direct_resolves` | two managers and the App, one remediation that is direct and has GitHub enabled, one trouble | competing managers do not starve a direct remediation; an overdue pull request expires although its timer lives in memory only; terminal phases stay and carry their resolution time, whoever wrote them; no manager forgets a remediation that has not ended |
| `app_instances` | two instances, one remediation, one trouble, people merging, the controller rewriting the object | no `PRCreated` without its pull request, no commit taken off a branch; open pull requests keep their change; changes reach the base branch by merges only; the App implements `PullRequests` |
| `system` | a manager, an instance of the App, a repository and the workflow, one remediation in either mode, one fault of the App's or act of people, one trouble of the operator's | each program behaves as its module says with the real other one; nothing is both patched and announced with a pull request; no failed call, lost reply, crash or left-over branch leaves a remediation pending for ever that is not rewritten for ever |
| `webhook_faults` | four alerts, two of them with one object name, one fault, one deletion | once per TTL, invisible cleanup, no object replaced, what keeps firing is remediated in spite of the deduplicator, stale entries go; the webhook implements `AlertIntake` |
| `actions_all` | all requests on all workloads | both programs agree, values below the cap grow, only the chosen container changes |
| `dashboard_log` | four events kept, seven recorded, two requests | newest kept, answers are snapshots |

Five more runs find a violation of a sentence of the documentation; section 8
has them.

Some properties need a supposition, which is part of their text or of the run:

- `FailedMeansNotApplied` and `ApplyingIsOwned` except behaviours in which a call
  has failed (`faults > 0`), the second also edits of the spec. With a lost reply
  to the target update `Failed` may be written for a change that landed, and has
  to be: an operator that gets no answer cannot know. A crash, or a failed last
  write, leaves `Applying` for ever, which `direct_crash` shows, and
  `DirectResolves` allows for that one outcome.
- `PullCarriesPatch` speaks of remediations that share their branch name with no
  other. A branch name is the action, the target's name and the second of
  creation; when two share it, one pull request may have been opened by one and
  carry the change of the other.
- `DirectResolves` excepts remediations whose spec was edited: an edit may take
  direct mode out of the spec in between.
- `AnsweredUnlessRewritten` promises nothing of a remediation that is rewritten
  without end. That is no corner case: in GitOps mode the controller does it
  (`gitops_livelock`), and each status update of the App may then conflict; how
  often the App gets through is a matter of timing, about which the code says
  nothing. The exception is in the property, so the bound `MaxRv` decides nothing
  here: the run has every number of rewrites up to the bound, at every moment of
  the App's work, and only the equality of two versions ever matters.
- `FiringIsRemediated` and `ObjectIsKept` suppose an API server that accepts the
  names of the default routes (`ValidNames` is every alert name), as the fake
  client of the repository's tests does. `webhook_names` uses the real rule,
  under which no alert of these routes gets an object; without the supposition
  everything behind `Create` would be vacuous.

`webhook_faults` has one handler, so its `OncePerTTL` is about requests that follow
one another in any order with cleanups and crashes; concurrent handlers are the
theorems' (`ProcessedOncePerTTL`, `ImplementsIntake`), which have any number.
In `webhook_faults` the two goroutines that race for one name come from two
alerts that share it, and the cache they read may be stale, which is also how
two replicas would meet; the theorems have any number of replicas.

Each property of a passing run has a mutant in `PROJECT.json`, a changed
definition under which TLC finds it violated.

## 5. Bounds

- `MaxTroubles` (0 to 2) counts failed calls, lost replies and crashes together
  with edits, pushes, closings and deletions by others, each in a counter of its
  own (`faults`, `intrusions`). One trouble is enough to separate any two
  consecutive calls of a handler, and every handler starts from a stored status,
  so a further one meets the same states; two let a fault and an edit meet. In
  `system` the controller's and the App's are counted apart. The theorems hold
  for any number.
- `MaxRv` (4 to 6): a `Pending` object is analyzed only below this version. In
  GitOps mode the controller goes between `Pending` and `Analyzing` without end;
  the bound lets it go round at least once, and a round changes nothing but the
  version. It guards no other action. It is not in the code. The safety theorems
  hold for any `MaxRv`; of the liveness properties, those of the controller are
  about direct remediations and expiry, which need no second round, and that of
  the App excepts endless rewriting itself (section 4).
- `MaxCommits` (3 or 4) is a bound on the commits of people: merges, pushes and
  edits stop there. An instance of the App commits whenever its code does, which
  the merges and the answers it gives bound in turn.
- `TTL` (1 unit), ages stop at `TTL + 1`: the code only asks whether an age is
  below the TTL (`ShouldProcess`) or above it (`cleanup`), so there are three
  kinds of ages, below, equal and above, and the one where the two comparisons
  differ is among them. The theorems hold for any TTL. `MaxDeletions` counts
  remediations deleted by users.
- `maxEvents = 4` and `MaxRecorded = 7` in the dashboard: four is the shortest
  log whose reversal takes two rounds, seven overflow it three times.
- Workloads of `actions_all` have limits and counts at, just below and above the
  rounding step, the default and the caps.

Symmetry (managers, App instances) is used in safety runs only. Deadlock is not
checked where the system may rest: all remediations ended and all bounds used.
The dashboard never rests, and its run checks for deadlock.

## 6. Fairness

- Controller: strong fairness of `Reconcile(m, r)`. A key can leave the head of
  the queue only by being served and the queue is first in, first out, so a key
  that is enqueued again and again is served. Watches, timers and calls that do
  not fail are weakly fair. Nobody is obliged to fail, edit, or merge.
- `system`: weak fairness of the App's steps and nothing else (`AppFairSpec`): its
  ticker fires, its loop and its calls go on, while the operator may be slow or
  down. `workflow_reports` adds the controller's fairness, and that GitHub runs a
  workflow whose condition is met, so that its counterexample is no standstill.
  People are not fair: nobody has to label or merge.
- Webhook: time passes, goroutines run, the cleanup ticker fires. Alertmanager
  repeats what keeps firing (`Repeated`); the strong fairness is because a
  handler may be busy when it does.
- Resource actions and dashboard: no liveness is claimed.

## 7. Proofs

The theorems hold for every value of the constants that the named assumptions
allow: any number of managers, remediations, handlers, replicas and requests,
any TTL, any log size and any number of faults.

**`RemediationController_proofs`.** `TypeOK` first, then `IInv`:

- `CopiesInv`: every cached copy is older than the stored object or is it;
- `WorkerInv`: a worker whose copy still has the stored version has computed its
  new status from exactly the stored one (`Computed`), so a write the API server
  accepts is a legal phase change however stale the cache was;
- `HolderInv`: at most one worker, the one whose write of `Applying` was
  accepted, may still patch the target, and the object is in `Applying`;
- `CoherentInv`, `AppliedInv`, `NoLostUpdate`: status fields agree, in the store
  and in every copy, and agree with what reached the target.

None of the properties is inductive alone: "patched at most once" needs that
the holder is unique, which needs that a second writer's copy is old, which is
`CopiesInv`. From `IInv` follow `AppliedAtMostOnce`, `SucceededMeansApplied`,
`ResolvedIffTerminal` and `NoLostUpdate`; with one lemma on the shape of steps
(`StepShape`) also `TerminalIsForever`, `ApprovalGate` and the refinement
`Spec => Lifecycle!Spec`, each step being mapped to a step of the lifecycle or
to none.

`FailedMeansNotApplied` and `ApplyingIsOwned` have invariants of their own on top
of `IInv`: whoever is to write `Failed` over `Applying` was refused by the API
server or saw a call fail (`OutcomeInv`), and the holder of `Applying` has the
stored version as long as nobody edits the object (`OwnerInv`).

`NoWakeupLost` (`WakeupsSurvive`) is inductive over `IInv`. A write of an object
makes every cache differ from it, since versions only grow (`VersionsGrow`) and a
write touches no cache, so that a watch event is still to come. A step that does
not write it takes away a reason to look at it only where it gives another: a
watch event enqueues, a restart enqueues everything, a worker that returns
without a timer has either written the object or found its cached copy ended,
and the cached copy is the stored object or the watch event of it is to come.

**`RemediationTypes_proofs`** has the fields of every status, once, for the proofs
of the controller, the App and the composition.

**`GitHubApp_proofs`.** After `TypeOK`, two lemmas say what any step may do to the
repository (`RepoStep`: move a branch without losing a commit of it, commit to
it, open a pull request, or an act of people) and to one instance (`LocalStep`).
The invariants are:

- `PullInv`: an instance about to announce a pull request has opened it for this
  remediation; gives `PRCreatedHasPull`;
- `LocalInv`: a reference an instance holds is a commit the base branch had, a
  manifest it is about to commit carries the change;
- `HistoryInv`: branches share commits of the base branch only;
- `OpenInv`: a branch with an open pull request is ahead of the base branch, and
  a branch that is ahead carries the change of the only remediation that commits
  to it. With `LocalInv` an instance can never move such a branch, because
  without force it moves forward only, to a commit of the base branch. It gives
  `PullCarriesPatch`;
- `UnmergedInv`: until a pull request from its branch is merged, a change is
  nowhere but on this branch and with the instances that work on it; gives
  `ChangesByPullRequest`.

`CommitsStayOnBranch` follows from `RepoStep` and the guard of `UpdateRef`.

`ImplementsPromise` is the refinement of `PullRequests`. `ObjectChange` says that a
step writes at most one object, and what; a write of `PRCreated` is `Announce`
because of `PullInv` (the number is that of a pull request of this remediation)
and of `ListedInv` (a listed copy is the stored object or an older version of
it, and was pending, so that what the API server accepts is written over a
pending object). `CreatePull` is `Open`; its guard `Pullable` is the abstract one. A
merge is `Merge` because of `ChangesByPullRequest` in the next state; no other step
changes what has landed (`LandedStep`): nothing but merges and edits by people
moves the base branch, and an edit is no change of a remediation.

**`Heal8s_proofs`.** The composition implements `RemediationController!Spec` and
`GitHubApp!Spec`. A write of the App is a step of the controller's module only if
the stored object is still `Pending`; the App wrote what it listed some calls
ago, so this rests on `ListedInv`: a listed copy is older than the stored object
or is it, and was listable. Conversely a write of the controller is one that
`GitHubApp` allows for, by `WorkerInv` and `AnalyzingInv` of the controller,
which hold in the composition because of the first refinement. `PulledOrPatched`
follows from `NumberedInv`: a remediation with a pull request's number is in
`PRCreated` or `Expired`, where `AppliedInv` says that nothing was applied.

Every theorem about either program thereby holds of the composed system.
`OperatorIsSafe` collects those of the controller. `AppIsSafe` collects those of
the App: it instantiates `GitHubApp_proofs` as `Proved`, shows that module's
assumptions from those of `Heal8s`, and `App!Spec <=> Proved!Spec` (`SameApp`) by
going through the actions, since to the prover two instances of a module are two
sets of definitions. Both conclude the refinement too: the system implements
`RemediationLifecycle` and `PullRequests`.

**`AlertWebhook_proofs`.** The invariant says that `seen` and `granted` are equal
or both too old to count; cleanup, ticks and restarts keep it. From it
`CleanupInvisible`, and with it `OncePerTTL`, because a new goroutine is started
only for a key that `seen` does not call recent.

`ObjectIsKept` (`ObjectsAreKept`) needs no invariant on the cached lookup, which
may be as stale as it likes: the only step that stores an object over another
would be a create, and the API server refuses a second one of a name
(`ObjectSteps`).

`ImplementsIntake` maps `seen` to `Age`, an entry's age capped at the TTL, and the
goroutines to `Owed`. `AgeSteps` says what the map's operations are to `Age`: the
cleanup and a visit that is turned away are nothing, one that is let through sets
it to 0, and time adds one up to the TTL, all because the code never asks more of
an age than whether it is below the TTL. `OwedSteps` does the same for the set of
goroutines. A second goroutine for one alert, while one is still at work, is the
same record of the model; therefore `LetThrough` may leave `owed` as it is.

**`ResourceActions_proofs`.** Lemmas on rounding and products (`RoundedUp`,
`Product`) give the two calculations (`MemoryCalculation`, `ScaleCalculation`)
and with them `TypeOK`, `BelowCapGrows`, `OnlyTheChosen` and `PatchersAgree`, for
any limits, percentages and caps. `BelowCapGrows` is an invariant on all results
for the present workload (`Results`): as an action property it would let a
remediation pass that leaves the workload as it is.

**`Dashboard_proofs`.** `Window(n)` is the log after `n` events. The invariant says
that the slice is the window, and that each request's copy is the window at
the moment it was taken, turned round up to the loop index from both ends.

Assumptions: `SpecsAssumption`, `NoKeyAssumption`, `TargetsAssumption`,
`BoundsAssumption` (types, controller); `NoRemAssumption`, `NamesAssumption`,
`BoundsAssumption` (App); `AppAssumption` and `RepositoryAssumption` (composition; the second for
`AppIsSafe` only); `HandlersAssumption`, `TTLAssumption`, `RequestsAssumption`,
`LimitsAssumption` (webhook); `ImagesAssumption`, `WorkloadsAssumption` (resource
actions); `maxEventsAssumption`, `MaxRecordedAssumption` (dashboard). They type
the constants and say that the placeholders are no names; TLC evaluates them in
every run.

Only model-checked: everything that says "eventually" (`DirectResolves`,
`OverduePRExpires`, `AnsweredUnlessRewritten`, `FiringIsRemediated`,
`StaleIsForgotten`), since the prover does not treat `ENABLED` and fairness. What
these rest on in every state, that a manager always has a reason to look again
(`NoWakeupLost`), is proved.

## 8. Disagreements with the documentation

Checked, each by a run that expects a violation; `PROJECT.json` quotes both
sides:

| Run | The documentation | The code |
|---|---|---|
| `gitops_livelock` | waits for the external service | analyzes the waiting object again and again, since its own status update enqueues it |
| `direct_crash` | direct mode ends in `Succeeded`, crashes are followed by a restart | after a crash in `Applying` nothing ever moves the object |
| `webhook_names` | an alert creates a `Remediation` | names have upper-case letters, which the API server refuses |
| `app_second_pull` | one remediation, one pull request | a conflict in the status update makes the next poll start again |
| `workflow_reports` | the workflow sets the status to `Succeeded` | its patch leaves out the status subresource and is ignored |

More about the workflow, behind the action `Workflow`: the checkout has one
commit (`FetchDepth`), so that `git diff HEAD~1` names no file and nothing is applied
(`apply-remediation.yaml:25,75`); the pattern `Target: ` does not occur in the
App's text, which has `**Target**: ` (line 63, `processor.go:185`), so that the
step after it asks for a deployment "unknown" and fails (line 109); and the App
sets no label on its pull requests (`PRLabels` is read nowhere), so that it does
not run at all unless somebody labels them.

Read off the code while it was modelled, with no run of their own:

- in direct mode the App is kept away by nothing but the version check
  (`k8s/client.go:71` does not look at the mode), while
  `docs/architecture.md:198` says "No PR created (emergency mode)": a direct
  remediation with GitHub enabled that the App lists in `Pending` gets its branch
  and pull request, announced or not. `PulledOrPatched` says that it is never
  announced and patched both;
- `docs/architecture.md:228` has several replicas "with leader election"; it is off
  unless `--leader-elect` is given (`main.go:62`);
- the App lists one namespace, by default `heal8s-system` (`config.go:56`), while
  the webhook creates a remediation in the namespace of its target;
- two instances and two remediations that share a branch name may open one's
  pull request with the other's change (`processor.go:228`);
- `batchSize` is parsed and never used;

- after such a conflict the retry may find its own branch, which it may not move
  back (`client.go:65`), and report `Failed` while the first pull request is open;
- the manifest is fetched before the base reference is read (`processor.go:101`):
  a merge in between is undone by the pull request;
- one failed call to GitHub is final (`processor.go:103`), while
  `docs/architecture.md:254` says that the next poll retries;
- the webhook looks for an existing object by a name without the fingerprint
  (`alertmanager_handler.go:219`), so of two workloads that alert in the same
  second the second is skipped;
- `RouteAlert` enables no GitHub configuration (`router.go:119`), so the App lists
  no remediation that an alert made;
- a pod's name is used as the name of its workload (`router.go:181`);
- a limit or replica count above its cap is lowered to it (`oom.go:96`,
  `scale.go:69`);
- a rollback gives every container the image of the first (`rollback.go:57`).

## 9. What is not modelled

- Process start-up, flags, probes, configuration files, installation tokens:
  sequential, once, and without state that is read later.
- Metrics: counters the program only writes, and some it never does.
- Generated code and CRDs: deep copies are the identity on values.
- HTTP, HTML, JSON and YAML syntax: a request is a list of alerts, a manifest its
  changes. Wording of titles, bodies and messages.
- The webhook in the composition: there it is the creation of an object.
- Charts, scripts, and the test application of the examples.
- The loop of the workflow that applies files, which is never reached.
- A rebase merge, which rewrites commits: `Merge` has merge commits and squashes.
- Memory is counted in whole Mi, where the code's floating-point product rounded
  up to 64Mi is exact; other quantities, `int32` overflow of replica counts and
  percentages below -100 are excluded.
- For a `maxReplicas` without digits the operator takes 10 and the App 0;
  `PatchersAgree` leaves out texts that the two read differently (`ReadAlike`),
  and says so.
- `MarkImageAsStable` is called by nothing in the program; it is an action,
  since the rollback reads the annotation it writes.
- Deletion of a `Remediation` and creation of another with its name: a deleted
  object stays deleted in the controller's model, names having a start time.
