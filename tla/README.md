# TLA+ model of the LightsOut controllers

LightsOut is a Kubernetes operator that scales workloads to zero on one cron
expression and back on another. The program is a set of stateless reconcilers:
everything they remember is in annotations and labels of the objects they
change. Its promise is about those objects: whatever it took down comes back as
it was, through failed calls, restarts, edits and a second schedule over the
same namespace. This directory models the reconcilers, checks that promise with
TLC on small instances and proves the central parts of it with TLAPS.

## 1. Inventory

| Component | Source (`src/internal/controller/` unless given) | State | Operations | Interacts with |
|---|---|---|---|---|
| Workload scaler | `scaler.go`, `patch.go` | `original-replicas`, `original-suspend`, `managed-by` (annotation and label), `spec.replicas`/`spec.suspend` | scale down, scale up, mark user-suspended | called by batching and by cleanup; calls the HPA helpers |
| HPA integration | `hpa.go` | `selectPolicy`, `original-hpa-scale-up-policy`, `managed-by` | list, disable, restore | first call of a downscale, second of an upscale |
| Collection and batching | `batcher.go` | none; a budget within a pass | collect, transfer ownership, scale one by one, stop at the budget or a wave | called by both reconcilers |
| Cluster reconciler | `lightsoutschedule_controller.go` | schedule object, finalizer, status | reconcile, release orphans, delete | namespace filter, integrations, batching |
| Namespace reconciler | `lightsoutnamespaceschedule_controller.go` | as above | reconcile, delete | batching with ownership transfer |
| Namespaces | `namespace.go` | none | discover, exclude, filter by local schedules | |
| Sync waves | `syncwave.go` | `status.waveProgress` | sort, gate, settle, time out | inside batching |
| Period | `period.go` | analysis cache | next and last occurrence, state | head of a reconcile; requeue |
| Custom resources | `customresource.go`, `internal/jsonpointer` | `original-fields` annotation | capture and set, restore, delete, wait | before workloads on both ways |
| ArgoCD, FluxCD | `argocd.go`, `fluxcd.go`, `integrations.go` | labels, `spec.suspend` | down, warming-up, complete | before downscale, after upscale |
| Termination | `termination.go` | status fields | count, report, requeue | tail of a reconcile |
| Webhooks | `internal/webhook` | none | validate, default, warn of overlap | |
| Reporting | `events.go`, `metrics.go` | none read back | | |
| Process | `cmd/main.go` | | one process, two controllers | |

What is hard here. Two controllers run concurrently over the same objects, and
every write is a merge patch without a resourceVersion, computed from a copy a
List returned earlier: a patch overwrites whatever came in between. One logical
operation is several API calls (HPA then workload; workload then HPA), any of
which fails or is the last before a restart. A pass stops early at a batch
limit. Nothing but a spec change, a deletion, an error or an asked-for requeue
wakes a reconciler: after a pass without a batch limit that is the next
transition, or within minutes after a downscale whose pods still terminate. The
hazards in `PROJECT.json` list where each of these bites.

## 2. Modules

| Module | Models |
|---|---|
| `Scaler` | one call of the scaler or of an HPA helper, as an operator of the object as it is and the copy in hand |
| `Reconcilers` | both reconcilers, users, time and the process, over shared workloads and HPAs |
| `LightsOut` | the abstract promise to the owner of a workload; `Reconcilers` implements it |
| `ReconcilersProofs` | type correctness, three safety theorems and the refinement, proved |
| `ReconcilersApartProofs` | for schedules that are kept apart: a workload at zero has its HPA stopped, and a deletion restores first, proved |
| `ScalingPass` | the passes of one schedule with sync waves: order, gates, progress across requeues, batch budget, timeout, and what the next reconcile waits for |
| `ScalingPassProofs` | type correctness, the progress of waves, who may hold one, and the order of both directions, proved |
| `JsonPointer` | the pointer operations, on documents |
| `CustomResource` | capture, restore, release and readiness of one custom resource |
| `GitOps` | what is done to one ArgoCD Application or Flux resource, and when |
| `Integrations` | a reconciler with its integrations: their order around the scaling, the warmup gate, timeouts, batches, deletion, operators and users |
| `IntegrationsProofs` | type correctness, the plans and the forms every step of `Integrations` has, proved |
| `IntegrationsOwnersProofs` | what users suspended, and who lets go of what, proved |
| `IntegrationsOrderProofs` | Flux resources held around the workloads, and what a cleanup leaves, proved |
| `IntegrationsRestoreProofs` | the originals of custom resources, their order before the workloads and before deletions, and honest gates, proved |
| `Period` | when a schedule is up: search windows, cache and requeue, over a calendar |
| `PeriodProofs` | a reconcile acts on the latest transition and none is overslept, proved |
| `MCReconcilers`, `MCScalingPass`, `MCIntegrations`, `MCPeriod` | the instances TLC checks |

`Reconcilers` and `ScalingPass` extend `Scaler`; `CustomResource` extends
`JsonPointer` and `Scaler`, `GitOps` extends `CustomResource`, and `Integrations`
extends `GitOps`. `Reconcilers`, `ScalingPass` and `Integrations` are three views
of the same loop: the first has several schedules write the same workloads and
leaves order, pods and time out; the second has one schedule with waves, pods
and time; the third has everything around the workloads.

### Scaler

An object is a record: `size` (`spec.replicas`; 1 and 0 for a running and a
suspended CronJob), `saved` (the original-replicas or original-suspend
annotation), `by` (the managed-by annotation, which the scaler checks) and
`label` (the managed-by label, by which cleanup and the transfer look). The two
are written by the same code and read by different code, so both are kept. A
guard (`ScalesDown`, `ScalesUp`, `MarksUser`, `HpaClaims`, `HpaReleases`) reads
the listed copy; an effect (`Down`, `Up`, `Mark`, `Transfer`, `HpaDisable`,
`HpaRestore`) sets named fields of the object as the API server holds it. That
is exactly a merge patch: fields it does not name keep their present value.

### Reconcilers

`sched` holds the schedule objects, `obj` and `hpa` the workloads and HPAs as the
API server holds them, `queued` the work queues, `want` what a user last asked
for (history: the code never sees it), and `rec[s]` the local variables of the
reconcile of `s` in progress:

| `rec[s]` | in the code |
|---|---|
| `stage` | where in `Reconcile` or `handleDeletion` it is: `orphans`, `collect`, `scale`, `restore` |
| `up`, `targets` | `period.State` and the namespaces `DiscoverNamespaces` returned, sampled once |
| `ns`, `here` | the namespaces the loop has left; the one whose HPAs are listed and whose workloads come next |
| `todo`, `copy`, `hcopy` | the workloads the loop still visits, and the listed objects |
| `at` | the workload whose first of two calls is made |
| `left` | the batch budget |
| `did` | `totalProcessed` is not zero |
| `errs` | `restoreErrors` is not empty |

Each API call is one action: `BeginPass` (with `discoverOrphanedNamespaces`),
`BeginDeletion`, `ListRestoredHPAs`, `ListManaged`, `FilterNamespaces`,
`Collect`, `TakeOver`, `ListHPAs`, `DisableHpa`, `ScaleDown`, `ScaleUp`,
`MarkUserSuspended`, `RestoreHpa`, and the ends `EndPass`, `EndBatch`,
`EndDeletion`. A write that fails may or may not have been applied, as with a
lost answer. `Restart` empties every `rec[s]` and queues every schedule, which is
what the first List of a new process does.

`EndPass` is where `calculateRequeueAfter` and `applyTerminationRequeue` decide
when the schedule comes back. An upscale comes back at the next transition. A
downscale that processed something comes back within minutes; one that processed
nothing does so if it sees a pod terminating, which depends on pods the model
leaves out and is a free choice.

Abstractions. A pass visits its workloads in any order, and drops at the start
those the scaler skips without a call (`Visiting`), which changes nothing anyone
can see, because a skip is decided from the copy. The Lists of the three
workload kinds of one namespace are one step, since no write depends on another
workload's copy. The namespaces of a deletion are found and filtered in one
step. A failing Get, finalizer update or resourceVersion conflict
on a schedule is a retry that changes nothing and is not a step. Edits of a
schedule that is being deleted are left out. A batch is the number of operations
left. A workload has at most one HPA. `Flip` is time reaching the next
transition, and it queues the schedule because that is the requeue its last pass
asked for.

`Edit` is a user resizing a workload that is not held down and that no pass has
in hand; with the move `"rude"`, any workload at any time. The code gives no
guarantee for the latter, as its patch restores the size the copy had.

### ScalingPass

`obj` are the workloads' specs and annotations, `pods` the pods each really has,
`shown` what its status reports: `"old"` from a patch until the status is written
for the new generation, which is the test `observedGeneration < generation`.
`status` is the part of the schedule's status that is read back, `state` and
`waveProgress`; `wake` is what the next reconcile waits for (the queue, a
`RequeueAfter` of a batch or a poll, the transition). `pass` holds the local
variables of `scaleWorkloads`:

| `pass` | in the code |
|---|---|
| `up` | `scaleUp`, sampled once |
| `todo` | the rest of the sorted `workloads` |
| `calm` | the workloads whose copy `workloadSettled` accepts: listed so, and not patched since |
| `wave`, `members` | `gateWave`, `gateMembers` |
| `prog` | `waveProgress`; its age stands for `now - Since` |
| `left`, `did` | `budget`, `totalProcessed > 0` |

A step visits one workload (`ScaleOne`, `SkipOne`) or asks the gate
(`NextWave`, `HoldWave`). A pass ends in `HoldWave`, `EndBatch` or `EndPass`, each
with the status update that may fail. `gaveUp` is history: the waves a timeout
let pass in this direction.

Abstractions. Only this schedule writes specs, so its copy of a spec is the spec.
Sizes are 1 and 0. HPAs, which have no part in waves, are left out. Ticks fall between passes,
since a pass compares with the time it sampled at its start. A transition does
not come before a pass of the period has written its status: an up or down
period is longer than the retries of an update. Without that, a status left from
the period before last is taken for this one's.

### LightsOut

Five actions of the owner's world: `Stop` a workload that runs, `Start` a stopped
one at the size its owner last gave it, `Resize`, `Hold` an autoscaler that its
owner has not disabled, `LetGo` of it with the owner's policy. The refinement
mapping of `Reconcilers` (`Promise`) reads `off` from the annotation and `held`
from the mark of the HPA. A transfer, a mark on a CronJob, a List, a crash and
everything else stutter.

### JsonPointer, CustomResource, GitOps

A document is a function from the paths it holds to what is there. `SetValue`
creates missing objects along a path, `DeleteValue` leaves array elements alone,
and `Expand` gives the rest of a path from a missing key on unless it has a
wildcard: that is how a resource gains an annotation it never had. What
`SetValue` made along a path stays when the field goes again; `SameFields`
compares leaves.

A custom resource is a record: `doc`, `saved` (the `original-fields` annotation),
`state` and `by` (the labels), `since` (the age of `warming-up-since`: the timeout
has passed or not). `Originals` is what putting the captured fields back can
yield in every order of a Go map. An Application or Flux resource has `suspend`,
`state`, `by` and `since`. As in `Scaler`, a guard reads the copy and an effect
sets the fields a merge patch names.

### Integrations

A reconcile follows a plan: `DownPlan`, `UpPlan` or `CleanupPlan`, each a sequence
of steps in the order of `integrationsDown`, `integrationsUp`,
`integrationsWarmup` and `restoreManagedWorkloads`, with the entries of
`spec.customResources` in declaration order. `rec[s]` holds where it is:

| `rec[s]` | in the code |
|---|---|
| `kind`, `at`, `listed` | which plan, which step, whether its List has returned |
| `todo`, `check`, `done`, `late` | of the listed objects those to write, to ask for readiness, to let go of, and those whose timeout has passed |
| `fresh` | the custom resources whose copy has the current resourceVersion, on which an Update goes through |
| `wait` | `stillWarmingUp`, `transitioned` |
| `did`, `left`, `errs` | `totalProcessed`, the batch budget, `restoreErrors` |

A pass begins with the lookups of the namespaces. `BeginPass` is repeated when
`DiscoverNamespaces` or the filter fails, and has nothing to do when a namespace
schedule keeps a cluster schedule out (`Claimed`). `BeginCleanup` starts a `cleanup`
if the namespaces were found, and one of kind `"blind"`, without a step, when
`DiscoverNamespaces` failed or the filter left none: `handleDeletion` then removes the
finalizer and restores nothing.

`List` is the discovery of a step. `HoldGit`, `WarmGit`, `CheckGit`, `CompleteGit`
and `ReleaseGit` are the calls on GitOps objects, `TurnDownCR`, `DeleteCR`,
`RestoreCR`, `CheckGate`, `ClearCR` and `ReturnCR` those on custom resources,
`Scale` that on a workload. `Onward` ends an upscale before its workloads when
something was just restored, and then while something warms up. A merge patch
cannot conflict; an Update (`UpdatesCR`) does when anything has been written since
the List, an operator's status included (`Report`).

Operators build and stop pods as the document of their resource says (`Operate`),
write what they have seen into its status (`Report`) and rebuild what was deleted
(`Rebuild`); a status that has not caught up keeps saying what it said. They are
external, as are users (`Create`, `Delete`, `Rewrite`, `Freeze`) and the kubelet
(`BecomeReady`).

Abstractions. Workloads are selected by one schedule; their races are
`Reconcilers`', and so are orphans and edits of the targets. One namespace. Its
readiness is read again for each gating entry, where the code reads it once per pass,
which makes no difference to a pass with one such entry, as in the run. Whether a
timeout has passed is decided when the gate lists, where the code compares with the
time at which the pass began. Custom resources that LightsOut holds always have
captured fields, so that the branch of `RestoreCustomResourceFields` without an annotation is not
modelled. Discovery is a constant `Scopes`: what each
schedule's selectors and namespaces return. A pod is `none`, `starting` or `ready`,
and does not become unready again. A user changes only what LightsOut does not
hold and no pass has listed, and suspends a Flux resource only while the
workloads beside it are up: the code has no way to tell a later suspension from
its own. A change of `metadata` alone does not count as a new generation, as in
the API server.

### Period

Time is in half minutes from a 1 January that is a Sunday. A cron is its five
fields, each with the way it is written, on which `analyzeScheduleFrequency`
decides, and the numbers it stands for, from which the calendar computes
occurrences (`Latest`, `Soonest`: the external cron library). `findLastOccurrence`
keeps an occurrence only if it lies in the window of the cron's class, and
answers ten years back otherwise. `Reconcile` is the head of a reconcile and its
end: period, cache, and the `RequeueAfter` of an idle, polling or batched pass,
shortened while pods terminate. `Wake` is the timer, `MaxLate` late at most. So
that the clock need not tick, `Edit` and `Restart` come at the moments around the
next transition. Leap years, time zones and clock changes are left out.

## 3. Runs

| Run | Instance | Checks | Result |
|---|---|---|---|
| `handover` | cluster schedule `g`, namespace schedule `l`, one Deployment with an HPA, sizes 0 and 2, every move but `rude`, any one call failing or one crash | `CountPreserved`, `HpaRecoverable`, `Implements` | hold; 2.9 million states |
| `lifecycle` | `g` alone; a Deployment and a CronJob in `n1`, a Deployment in `n2`, which comes and goes from the targets; batches of one; two failures among Lists, cleanup writes, status updates and crashes | `TypeOK`, `ZeroIsGuarded`, `DeletionRestores`, `DeletionCompletes`, `DownReached`, `UpReached`, `HpaReturned`, `OrphansReleased` | hold; 81 thousand states |
| `unretried` | as `lifecycle`, no batch limit, one failed scale patch | `UpReached` | violated |
| `deletion_strands` | `g` and a suspended `l` | `OwnerExists` | violated |
| `blind_deletion` | `g`; the namespace lookup of its deletion fails | `DeletionRestores` | violated |
| `restart_strands_hpa` | `g`, one crash | `HpaOwnerExists` | violated |
| `precedence` | `g` and `l`, no failures | `LocalWins` | violated |
| `waves` | Deployments `db` and `api` in waves -1 and 1, a CronJob in wave 0; `api` may be another schedule's, the CronJob suspended by its user; batches of one; a timeout of one tick; one failed List, lost status update or crash | `TypeOK`, `DownInOrder`, `UpAskedInOrder`, `ProgressMonotonic`, `HeldByOwnPods`, `DownReachesLastWave`, `UpReachesLastWave` | hold; 0.3 million states |
| `up_waits` | `db` and `api`, no batch limit, no failures, a timeout of two ticks | `UpWaitsForPods` | violated |
| `integrations` | schedules `night` and `weekend`; a database whose operator publishes conditions, with two node sets and maybe an annotation, the resource of a delete entry, a workload; or an Application, a Flux resource and three workloads; or a Flux resource or a silent custom resource both schedules select; or a workload of `night` in a namespace where the schedule `own` may be created; batches of one; one failed lookup, failed or conflicting call or a crash | `TypeOK`, `OriginalsKept`, `HeldWhileDown`, `UserSuspensionKept`, `DependenciesFirst`, `GateHonest`, `OnlyOwnerReleases`, `CleanupLeavesNothing`, `PausedFirst`, `NightCompletes` | hold; 0.53 million states |
| `conflict` | the database alone; an operator's status write between the List and the Update of a restore | `DependenciesFirst` | violated |
| `period` | six pairs of crons, one per class of frequency, with transitions that coincide, lie a minute apart and most of a year apart; from the end of October for five days; two early requeues, edits or restarts | `ActsOnLatest`, `InTime`, `AlwaysWakes` | hold; 79 thousand states |

Why these bounds. A loss of a size or a policy needs one object, two writers and
one disturbance between their reads and writes, and `handover` has them all; a
second object adds only independent copies of the first, as no write of one
workload reads another. `handover` has an unlimited budget, because a batch only
ends a pass early, which the crash covers. `lifecycle` has the smallest batch,
so that every pass of three workloads is split, and two failures, so that a
retry fails too. `Sizes` contain 0, the value the code treats apart.

`waves` has three waves, the least with a boundary that lies behind the recorded
one, and one that gates nothing; batches of one stop a pass inside and between
waves. Its timeout of one tick makes both outcomes of a wait happen, and a longer
one only adds polls. `DownInOrder` and the two liveness properties are checked
without failed scale patches: a workload whose patch fails is no member of its
wave's gate and, in an upscale, is not tried again before the next transition
(`unretried`).

`integrations` takes the five scopes one at a time, because what they share is the
pass, which each has; the database has a wildcard path over an array and a path
that must be created, the two ways a capture can go wrong, and its two documents
differ in both. Failures that break a promise by the code's own design are left
out: the failure or conflict of a restore (`conflict`), of a hold or of the
discoveries of a pass, which are logged and never block scaling; of a scale patch
(`unretried`); and of a release in a deletion, which keeps no finalizer. With
`PausedFirst`, the pass on which the Update of the pausing entry fails does delete.
`HeldWhileDown` is about a Flux resource that no other schedule selects, and
`OnlyOwnerReleases` leaves Applications out, which any schedule that is up lets go
of. `CleanupLeavesNothing` is about workloads and custom resources, and about
deletions that found their namespaces: a failed lookup or a namespace schedule, both in
the run, makes the cleanup a blind one, which leaves everything as it is
(`blind_deletion` and `deletion_strands` show what that does). `NightCompletes`, which
is `UpCompletes` of one schedule (the two of the cluster are alike wherever the second
selects anything, and `own` selects nothing that is brought back), is about an upscale
that is queued and that no namespace schedule keeps out; when that schedule goes,
nothing wakes the cluster schedule before its next transition. `Steady` has a ready
workload in the namespace that nobody scales, the worst case for a gate that asks the
namespace.

`period` starts where the seasonal pair has its last upscale 244 days back, past
the 90 days of the next smaller window. `ActsOnLatest` is a statement about crons
that fire within their windows, which TLC evaluates for those of the instance
(`MCCronsRegular`): a cron such as `0 18 1,15 * *` is put in the class of daily
ones, with a window of ten days, and is taken for one that never fired.

Six properties of `lifecycle` hold with restricted failures only: `UpReached`
does not hold when a scale patch fails without a batch limit (`unretried`), nor
does `DownReached`, when the failed patch is the only one of its pass;
`ZeroIsGuarded` does not hold when an HPA write or List fails, which the code
logs and passes over; `DeletionRestores` does not hold when the namespace
lookup fails (`blind_deletion`); `HpaReturned` does not hold when an HPA write or
List fails, as the upscale that is through with the workload does not come back to its
HPA; and `OrphansReleased` does not hold when the discovery of orphans or a release
fails, which is only logged, and tried again at the next transition. `HpaReturned` is moreover about a cluster schedule on
its own: a namespace schedule that takes a workload over does not take its HPA.

Fairness. `FairSpec` has weak fairness of `Reconcile(s)` for each schedule: the
controller's worker takes what is in its queue and runs it to its end, each
schedule being a key of its own. In `ScalingPass` time also passes (`SF(Tick)`,
strong because passes interrupt it), and pods have no fairness: they may stay
for ever, which is what the timeout is for. In `Integrations` one worker per
controller takes the schedules in the order of its queue; `Served` says so without
ENABLED, which TLC evaluates too slowly there: a schedule is infinitely often out
of the queue and idle, or worked on infinitely often. Warmup timeouts elapse
(`WF(Elapse)`); operators and pods have no fairness. Nothing is assumed of users, of time, or of a
crash. A failed call is retried only where the code asks for it, by an error or
a `RequeueAfter`. Failures are bounded by `MaxFaults`, so liveness says that the
system recovers once failures stop.

## 4. Disagreements with the documentation

The seven violation runs, with the traces TLC prints:

- A failed scale patch of an upscale waits for the next transition
  (`docs/architecture.md:229`).
- A suspended namespace schedule keeps the deletion of a cluster schedule from
  restoring what it holds in that namespace (`docs/architecture.md:93`).
- A deletion whose namespace lookup fails restores nothing and removes the
  finalizer (`docs/architecture.md:93`).
- A restart between the HPA patch and the workload patch, followed by a deletion,
  leaves the HPA disabled (`docs/architecture.md:231`).
- A cluster pass that started before a namespace schedule was created can end with
  the workload in its hands (`docs/architecture.md:114`).
- An upscale waits one poll for a wave, not until it is ready: once scaled up, its
  workloads are skipped as not managed and gate nothing (`docs/argocd.md:238`).
- A restore of a custom resource that conflicts with its operator's status write is
  not waited for: the workloads start against a resource that is still down, and
  it stays down until the next transition (`docs/custom-resources.md:36`).

## 5. Proofs

`ReconcilersProofs` holds for any finite or infinite sets of schedules,
namespaces and workloads, any batch size and any number of failures, from the
named assumptions of `Scaler` and `Reconcilers`: the constants have their types,
and `NoOne` and `NoPolicy` are no schedule, workload, namespace or policy.

- `TypeCorrect`: `Spec => []TypeOK`. One step per action. It needs that a visit of
  the scale stage happens only while the budget lasts (`SpendType`) and that an
  upscale reads a size from the annotation only when there is one (`WriteType`).
- `NeverStrandedHolds`: `Spec => []NeverStranded`. A workload at zero without an
  annotation is where its user put it, with `rude` users too. A downscale patch
  writes zero and the annotation together, from a copy that was running, so the
  invariant is strengthened by `CopiesOK`: a downscale in progress holds only
  copies it may scale down.
- `CountIsPreserved`: `"rude" \notin Moves /\ Spec => []CountPreserved`. The
  invariant on the objects is not inductive, as a patch writes what a copy said.
  The strengthening `CopiesTell` says that every copy in hand tells the size the
  user wants, as the size or as the annotation. It is kept because a write of
  another schedule changes size and annotation together and the wish not at all.
- `HpaIsRecoverable`: `Spec => []HpaRecoverable`, with `HpaCopiesTell` about the
  copies of HPAs.
- `PromiseIsKept`: `"rude" \notin Moves /\ Spec => Implements`, the refinement of
  `LightsOut`. It rests on the invariants above: a start gives back the owner's
  size because the copy it is computed from tells it, whatever was written since.
  Per object a write is a stop, a start, a hold, a release or nothing
  (`WriteIsPromised`, `HpaWriteIsPromised`), and as a step writes one object, the
  step is one of the abstract specification (`OneObject`, `StepIsPromised`).

The argument common to the last four of them is `PassStep`: whatever a reconcile does,
each copy it holds afterwards was in its hands before, or is the object as the
API server holds it now, or is what the transfer just returned. Together with
`ObjectWrites` and `HpaWrites` (a step writes at most one object, from a copy
that allows the write) it leaves one small case per kind of write.

`ReconcilersApartProofs` is about schedules that are kept apart (`Apart`): no
namespace is both the namespace of one and among those another may come to select.
Two schedules of one workload break both of its theorems without a single failed
call (TLC finds it in the instance of `precedence`): each restores or re-stamps what
the other one is about to write. With `Apart` a workload has one writer, and the
difficulty is that this writer works from copies, fails and restarts. A single
cluster schedule, as in `MCLifecycle`, is kept apart. No restriction is put on users: they may resize a workload in hand.

- `ApartInv` is the invariant of both: nothing a pass collects, visits or has labelled is
  out of its schedule's reach (`ReachOK`), what is labelled is down for the schedule
  the label names (`LabelOK`), and each copy in hand still says truly whether its
  workload is down, except that of the workload between its two calls (`ObjHeld`).
  The steps of a pass are first put field by field (`ReadIs`, `VisitIs`, `StepIs`), so
  that each invariant is proved once against those and not against every action;
  `StepIs` also shows that a schedule kept apart never takes a workload over.
- `ZeroStaysGuarded`: `Apart /\ HpaCallsSucceed /\ Spec => []ZeroIsGuarded`. The new part of
  the invariant is `HpaHeld`: a downscale has the latest copy of each HPA it
  still comes to, and has stopped the one between its two calls. That an HPA it
  finds claimed is a stopped one is `HpaRecoverable`. The hypothesis is
  needed: a failed HPA write is only logged, and the workload is scaled all the same.
- `DeletionRestoresFirst`: `Apart /\ "discover" \notin FaultKinds /\ Spec =>
  DeletionRestores`. `RestoreOK` says that a deletion which has met no failure still has in its
  namespaces, or in its hands, all that is labelled for it. Without the hypothesis it is false,
  as `blind_deletion` shows: a failed discovery is logged and leaves nothing to visit.

`ScalingPassProofs` holds for any nonempty finite set of workloads in any waves,
any batch size and timeout, and any number of failures. The set is finite, as a
List is: an infinite one need have no first wave.

- `TypeCorrect`: `Spec => []TypeOK`. That a pass begins in a wave there is
  (`FirstWaveIsFirst`) is the one place where finiteness is used: among the
  nonempty finite sets "waves before `a`" there is a minimal one.
- `ProgressNeverGoesBack`: `Spec => ProgressMonotonic`. The property speaks of two
  statuses, written by different passes; `Ahead` carries it from one to the other:
  the progress of a pass is at least what the status of its direction has.
- `OnlyOwnPodsHold`: `Spec => HeldByOwnPods`, from `MembersOurs`, what the members of
  a gate have in common, and `ObjOK`, which relates size, annotation and owner.
- `UpscaleAsksInOrder` and `DownscaleGoesInOrder`, both when `"scale"` is not among
  `FaultKinds`, as in the run: a workload whose patch failed is in no gate
  (`waveGates`), so without the hypothesis neither holds. `InWave` and `Asked` say
  what a pass has behind it: every workload of a wave before its own was visited,
  and what was visited needs nothing more. The downscale needs more, because the
  waves before may have been left in an earlier pass or before a restart:
  `LeftIn(a)` says that everything beyond wave `a` is down and its pods are gone or
  it was given up on, and `DownPass` and `DownStatus` that this holds of the wave the
  pass is in, of the progress it carries and of the progress in the status.
  `LeftStep` keeps it through every step but those of an upscale, and `Turned` makes
  sure that a status of the downscale is not read while a pass of the upscale goes
  on. `NextWaveLeaves` is the heart: each of the three ways past a gate (passed
  before, calm, overdue) leaves the wave behind in that sense, and calm rests on
  `ShownOK`, that a status which reports no pods is not of the spec before.

The four modules about `Integrations` hold for any schedules, entries, scopes,
documents, batch size and failures. `IntegrationsProofs` opens the three plans once:
`PlanIs` says which kind of step stands where, in terms of the number of entries.
`NextIs` then shows that each action has one of a few forms (`GitStep`, `CrStep`,
`ScaleStepOf`, `QuietStep`, `LeaveStep`, `ListStep`, `TurnStep`, `WorldStep`), which
name the one object it writes, from what guard, and what becomes of the pass: it goes
on (`Onward`), drops an object, or ends. Every invariant below is proved once against
those forms.

- `TypesHold`: `Spec => []TypeOK`, from `TypeInv` with the shape of a pass: a pass that
  is not idle is at a step of its plan or just past it, holds objects of that step
  only, and has budget left while it scales.
- `SuspensionsKept`: `Spec => []UserSuspensionKept`. `SuspendInv` adds that no pass has
  in hand a Flux resource a user suspended, which is kept because a user suspends only
  what no pass has listed.
- `OwnerReleases`: `FluxApart`, `Spec => OnlyOwnerReleases`, and
  `CustomResourcesReleased`, its half about custom resources without a hypothesis. In
  `OwnInv` a pass that is about to release something has its own mark on it, or a copy
  of a resourceVersion that is gone. Flux is written by merge patches, which win over
  anything, so a Flux resource that a cluster and a namespace schedule both select can
  be let go of by the wrong one (TLC finds it); `FluxApart` says there is none.
- `FluxHeld`: `Undisturbed`, `Spec => []HeldWhileDown`. `HoldInv` says that a downscale
  past its second step has suspended every Flux resource its schedule alone selects
  (`Suspends`). `WorkInv` is the other end: an upscale, or a cleanup without errors, that
  is past its workloads holds none of them any more (`Cleared`).
- `NothingLeft`: `Spec => CleanupLeavesNothing`, for cleanups that found their
  namespaces. To `WorkInv`, `ReturnInv` adds that a
  deletion which has met no error still has in its hands, or in steps to come, each
  custom resource its schedule holds (`Returned`).
- `OriginalsAreKept`: for documents `docs` with `Undoable(docs)`,
  `Spec => []OriginalsKept`. `OriginInv` says that a resource is either as its user
  wrote it or what one entry made of that (`CapturedFrom`), and that a pass whose copy
  is `fresh` has the resource as it is. That a single capture can be undone, in any
  order of the captured paths, is a fact about paths and documents, and is the
  hypothesis; TLC evaluates it for the documents of the run.
- `RestoredFirst`: `Undoable(docs)` and `Reliable`, `Spec => DependenciesFirst`.
  `WarmInv` follows an upscale through its restores and its gates: what the entries
  behind it match is no longer down, and what still warms up makes the pass wait
  (`Warm`), because the copies of a restore are the latest ones (`Sharp`).
- `GatesAreHonest`: `Undoable(docs)` and `Telling(docs)`, `Spec => GateHonest`. In
  `GateInv` a status that has caught up with a resource that warms up, and says ready,
  was written when its pods were ready (`Candid`), and so are the pods of what a pass
  has found fine before its timeout (`Gated`). `Telling` is what is asked of documents
  and operators: putting a document back is a new generation, and its operator runs
  pods for it.
- `PausedBeforeDeleted`: `Undoable(docs)` and `Pausing(docs)`, `Spec => PausedFirst`.
  `PauseInv` says that, until a call fails, what a downscale has not turned down of what
  its schedule alone selects is still to come, or is in its hands with the latest copy
  (`Pauses`, `Awaits`): a step that turns resources down is left with each of them down.
  At a later delete entry the resource is therefore down, `OriginInv` says what an entry
  made of it, and `Pausing` that this halts its operator.

The hypotheses are those the promises need. With any one of the four calls that
`Reliable` excludes (a List, a write or a conflict of a restore, a List of a gate) TLC
violates `DependenciesFirst`, and with any of the four that `Undisturbed` excludes (a List
or a write of a hold or of the workloads) `HeldWhileDown`. `Undoable`, `Telling`
and `Pausing` say what documents, operators and entries must be like for the program to
keep its promise: in `Pausing`, that the entry which turns a resource down is declared
before the one that deletes, and that no other schedule selects the resource, since a
downscale skips what another schedule holds, and that one may bring it back before the
deletion. TLC evaluates all three for the documents and entries of the run.

`PeriodProofs` holds for any crons, any lateness of timers, batch delays and bounds, if
the crons are `Regular`: on each day of the clock a cron fired on an earlier day within
the window that the code searches for it, and fires on a later one. TLC evaluates that
for the crons of the run.

- Lemmas about the calendar: `Latest` and `Soonest` are occurrences (`LatestIs`,
  `SoonestIs`), and no cron fires between a moment and its `Soonest` (`Between`), so that
  `Latest` does not change until then. The sets they choose from are sets of days, hours
  and minutes, whose largest and smallest members `MaxIs` and `LeastNat` find.
- `LatestTransitionCounts`: `Spec => []ActsOnLatest`. `PeriodInv` has two parts. `CacheOK`:
  what is cached was calculated at an earlier moment, and is valid up to the next
  transition after it. `ActedOn`: so is the result the last reconcile acted on, and the
  requeue it asked for comes by the end of the period, or within a minute.
- `NothingOverslept`: `Spec => []InTime`. Each of the requeues (idle, polled, batched, cut
  short by terminating pods) is at most the time to the next transition and a minute.
- `AlwaysComesBack`: `Spec => []AlwaysWakes`. No interval is zero, which would ask for no
  requeue at all.

Every safety property that a passing run checks is a theorem. Only model-checked is all
liveness, since liveness and ENABLED are outside this prover: `DownReached`, `UpReached`,
`DeletionCompletes`, `HpaReturned`, `OrphansReleased`, `DownReachesLastWave`,
`UpReachesLastWave` and `NightCompletes`; and so are the disagreements with the
documentation, which a counterexample shows.

## 6. Not modelled

- Escaping, parsing and formatting of pointers, and the normalisation of numbers:
  a pointer is its tokens.
- `setFields` whose paths contain each other.
- The discovery of Applications and Flux resources over namespaces and CRDs, with
  its early return on a missing CRD and its key without a kind.
- Cluster and namespace passes that handle one GitOps object at the same time.
- Leap years, time zones, clock changes; a cron that does not parse.
- Edits of a wave annotation, of `syncWaves`, `customResources` or the GitOps
  settings in the middle of a transition.
- Events, metrics, logging and the wording of status, which never feed back. The
  webhooks validate one object at a time. Leader election and informer start-up
  belong to controller-runtime; the staleness of the informer cache is covered in
  so far as a pass may hold its copies for any length of time.
