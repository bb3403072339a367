----------------------------- MODULE Reconcilers -----------------------------
(***************************************************************************)
(* The cluster-scoped and the namespace-scoped reconciler, running in one  *)
(* process over the same Kubernetes objects: lightsoutschedule_controller, *)
(* lightsoutnamespaceschedule_controller, the collection half of batcher   *)
(* and namespace.go.                                                       *)
(*                                                                         *)
(* A reconcile is a sequence of API calls, one action each, so that other  *)
(* schedules, users and a crash can come between any two of them.  What it *)
(* has read it keeps in rec[s]; what it writes is computed from that copy  *)
(* (module Scaler).  A controller never reconciles one schedule twice at   *)
(* once; controller-runtime's queue keeps one entry a schedule.            *)
(***************************************************************************)
EXTENDS Scaler, FiniteSets

CONSTANTS
    Home,           \* the namespace of each namespace-scoped schedule
    Namespaces,
    Workloads,
    NsOf,           \* the namespace of each workload
    Excluded,       \* the workloads each schedule's spec leaves out
    UserPolicy,     \* the selectPolicy the user gave each workload's HPA
    TargetSets,     \* what spec.namespaces of a cluster schedule can select
    Sizes,          \* the sizes users give workloads
    BatchSize,      \* rateLimit.batchSize; 0 is no limit
    Moves,          \* which moves of users and of the machine are included
    FaultKinds,     \* which API calls can fail
    MaxFaults       \* bound: how many do

LocalSchedules == DOMAIN Home
ClusterSchedules == Schedules \ LocalSchedules

ASSUME ReconcilersAssumption ==
    /\ Home \in [LocalSchedules -> Namespaces]
    /\ LocalSchedules \subseteq Schedules
    /\ NsOf \in [Workloads -> Namespaces]
    /\ Excluded \in [Schedules -> SUBSET Workloads]
    /\ UserPolicy \in [Workloads -> Policies]
    /\ TargetSets \subseteq SUBSET Namespaces
    /\ Sizes \subseteq Nat
    /\ CronJobs \subseteq Workloads
    /\ BatchSize \in Nat
    /\ MaxFaults \in Nat
    /\ NoOne \notin Workloads \cup Namespaces

VARIABLES
    sched,      \* the schedule objects
    obj,        \* the workloads, as the API server holds them
    hpa,        \* their HorizontalPodAutoscalers
    want,       \* history: the size a user last gave each workload
    rec,        \* what each schedule's reconcile in progress holds
    queued,     \* the schedules in their controller's work queue
    faults      \* API calls that have failed

vars == <<sched, obj, hpa, want, rec, queued, faults>>

Schedule == [phase : {"absent", "live", "deleting"}, finalizer : BOOLEAN,
             suspend : BOOLEAN, up : BOOLEAN, targets : SUBSET Namespaces]

Stages == {"idle", "orphans", "collect", "scale", "restore"}

\* A reconcile in progress: the period it sampled, the namespaces it still
\* lists, the one whose HPAs alone are listed, the workloads it still visits with
\* its copies of them and of their HPAs, the workload it has made the first of
\* two calls for, the scale operations left of the batch, whether one was made,
\* and whether a restore failed.
Pass == [stage : Stages, up : BOOLEAN, targets : SUBSET Namespaces,
         ns : SUBSET Namespaces, here : Namespaces \cup {NoOne},
         todo : SUBSET Workloads,
         copy : [Workloads -> Workload], hcopy : [Workloads -> Autoscaler],
         at : Workloads \cup {NoOne}, left : Nat, did : BOOLEAN, errs : BOOLEAN]

NoWorkload == [size |-> 0, saved |-> Absent, by |-> NoOne, label |-> NoOne]
NoHpa == [policy |-> Disabled, saved |-> NoPolicy, by |-> NoOne]
Idle == [stage |-> "idle", up |-> FALSE, targets |-> {}, ns |-> {}, here |-> NoOne,
         todo |-> {},
         copy |-> [w \in Workloads |-> NoWorkload],
         hcopy |-> [w \in Workloads |-> NoHpa],
         at |-> NoOne, left |-> BatchSize, did |-> FALSE, errs |-> FALSE]
NoSchedule == [phase |-> "absent", finalizer |-> FALSE, suspend |-> FALSE,
               up |-> TRUE, targets |-> {}]

TypeOK ==
    /\ sched \in [Schedules -> Schedule]
    /\ obj \in [Workloads -> Workload]
    /\ hpa \in [Workloads -> Autoscaler]
    /\ want \in [Workloads -> Nat]
    /\ rec \in [Schedules -> Pass]
    /\ queued \in SUBSET Schedules
    /\ faults \in Nat

Init ==
    /\ sched = [s \in Schedules |-> NoSchedule]
    /\ want \in [Workloads -> Sizes]
    /\ obj = [w \in Workloads |-> [NoWorkload EXCEPT !.size = want[w]]]
    /\ hpa = [w \in Workloads |-> [NoHpa EXCEPT !.policy = UserPolicy[w]]]
    /\ rec = [s \in Schedules |-> Idle]
    /\ queued = {}
    /\ faults = 0

-----------------------------------------------------------------------------
(* Helpers *)

Live(s) == sched[s].phase = "live"

\* FilterNamespacesWithLocalSchedules: a namespace that holds any namespace
\* schedule, suspended or being deleted too, is not the cluster schedule's.
Unclaimed(nss) ==
    {n \in nss : \A l \in LocalSchedules : Home[l] = n => sched[l].phase = "absent"}

\* The namespaces a schedule manages now.
Managed(s) == IF s \in LocalSchedules THEN {Home[s]} ELSE Unclaimed(sched[s].targets)

\* A call of the given kind fails.
Fails(kind) == kind \in FaultKinds /\ faults < MaxFaults /\ faults' = faults + 1

\* The kind of workload write a stage makes, for choosing which can fail.
WriteOf(stage) == CASE stage = "scale" -> "scale"
                    [] stage = "orphans" -> "release"
                    [] OTHER -> "cleanup"

GoingUp(s) == rec[s].stage # "scale" \/ rec[s].up

\* The visit of workload w is over.
Drop(r, w) == [r EXCEPT !.todo = @ \ {w}, !.at = NoOne,
                        !.copy[w] = NoWorkload, !.hcopy[w] = NoHpa]

\* Mutant: an HPA is given back only together with its workload.
ActsOnSize(s, w, o, h, up) ==
    IF up THEN MarksUser(w, o) \/ ScalesUp(o, s) ELSE ScalesDown(o, s)

\* Whether scaling w in that direction makes any call: a workload the scaler
\* skips without one is left out of the visits.
Acts(s, w, o, h, up) ==
    IF up THEN MarksUser(w, o) \/ ScalesUp(o, s)
               \/ (o.saved = Absent /\ HpaReleases(h, s) /\ w \notin CronJobs)
          ELSE ScalesDown(o, s)

\* Of the listed workloads ws, visit those that scaling makes a call for.
Visiting(r, s, ws, up) ==
    LET todo == {w \in ws : Acts(s, w, r.copy[w], r.hcopy[w], up)}
    IN  [r EXCEPT !.todo = todo,
                  !.copy = [w \in Workloads |-> IF w \in todo THEN @[w] ELSE NoWorkload],
                  !.hcopy = [w \in Workloads |-> IF w \in todo THEN @[w] ELSE NoHpa]]

\* listHPAs of the namespaces nss.  A namespace whose List fails gets no HPA
\* handling: the error is logged and the pass goes on.
HPAsOf(nss) == [w \in Workloads |-> IF NsOf[w] \in nss THEN hpa[w] ELSE NoHpa]

\* The schedule object, or the pass of its reconcile, becomes x.
Becomes(s, x) == sched' = [sched EXCEPT ![s] = x]
Goes(s, x) == rec' = [rec EXCEPT ![s] = x]

\* The pass ends, and the schedule is queued again.
Abort(s) ==
    /\ Goes(s, Idle)
    /\ queued' = queued \cup {s}

-----------------------------------------------------------------------------
(* The head of Reconcile *)

\* Without the finalizer the reconcile only adds it and comes back.
AddFinalizer(s) ==
    /\ s \in queued /\ rec[s].stage = "idle"
    /\ sched[s].phase # "absent" /\ ~sched[s].finalizer
    /\ Becomes(s, [sched[s] EXCEPT !.finalizer = TRUE])
    /\ UNCHANGED <<obj, hpa, want, rec, queued, faults>>

\* The schedule is gone, or is suspended.
SkipReconcile(s) ==
    /\ s \in queued /\ rec[s].stage = "idle"
    /\ \/ sched[s].phase = "absent"
       \/ Live(s) /\ sched[s].finalizer /\ sched[s].suspend
    /\ queued' = queued \ {s}
    /\ UNCHANGED <<sched, obj, hpa, want, rec, faults>>

\* Mutant: a pass no longer looks for workloads it left behind.
BeginPassForgetful(s) ==
    /\ s \in queued /\ rec[s].stage = "idle"
    /\ Live(s) /\ sched[s].finalizer /\ ~sched[s].suspend
    /\ queued' = queued \ {s}
    /\ Goes(s, [Idle EXCEPT !.stage = "orphans", !.up = sched[s].up,
                            !.targets = sched[s].targets])
    /\ UNCHANGED <<sched, obj, hpa, want, faults>>

\* A pass samples the period and the targets.  A cluster schedule then looks,
\* across the cluster and by label, for workloads outside its targets; when
\* that look fails it releases none and goes on.
BeginPass(s) ==
    LET pass(stage, nss) == [Idle EXCEPT !.stage = stage, !.up = sched[s].up,
                                         !.targets = sched[s].targets, !.ns = nss]
        orphaned == {n \in Namespaces \ sched[s].targets :
                       \E w \in Workloads : NsOf[w] = n /\ obj[w].label = s}
    IN  /\ s \in queued /\ rec[s].stage = "idle"
        /\ Live(s) /\ sched[s].finalizer /\ ~sched[s].suspend
        /\ queued' = queued \ {s}
        /\ \/ /\ s \in LocalSchedules
              /\ Goes(s, pass("collect", {Home[s]}))
              /\ UNCHANGED faults
           \/ /\ s \in ClusterSchedules
              /\ Goes(s, pass("orphans", orphaned))
              /\ UNCHANGED faults
           \/ /\ s \in ClusterSchedules /\ Fails("discover")
              /\ Goes(s, pass("orphans", {}))
        /\ UNCHANGED <<sched, obj, hpa, want>>

\* Mutant: the deletion check comes after the suspend check.
BeginDeletionUnsuspended(s) ==
    /\ s \in queued /\ rec[s].stage = "idle"
    /\ sched[s].phase = "deleting" /\ sched[s].finalizer /\ ~sched[s].suspend
    /\ queued' = queued \ {s}
    /\ Goes(s, [Idle EXCEPT !.stage = "restore", !.ns = Managed(s)])
    /\ UNCHANGED <<sched, obj, hpa, want, faults>>

\* handleDeletion, which comes before the suspend check.  A failure of
\* DiscoverNamespaces is logged and leaves it no namespaces.
BeginDeletion(s) ==
    /\ s \in queued /\ rec[s].stage = "idle"
    /\ sched[s].phase = "deleting" /\ sched[s].finalizer
    /\ queued' = queued \ {s}
    /\ \/ /\ Goes(s, [Idle EXCEPT !.stage = "restore", !.ns = Managed(s)])
          /\ UNCHANGED faults
       \/ /\ s \in ClusterSchedules /\ Fails("discover")
          /\ Goes(s, [Idle EXCEPT !.stage = "restore"])
    /\ UNCHANGED <<sched, obj, hpa, want>>

-----------------------------------------------------------------------------
(* Listing *)

\* restoreManagedWorkloads goes through its namespaces one at a time: the HPAs
\* are listed, the workloads labelled for s are listed, and what was found is
\* restored before the next namespace.  (The Lists of the three workload kinds
\* are one step: no write depends on the copy of another workload.)
ListRestoredHPAs(s, n) ==
    /\ rec[s].stage \in {"orphans", "restore"}
    /\ n \in rec[s].ns /\ rec[s].todo = {} /\ rec[s].here = NoOne
    /\ LET listing(nss) ==
             [rec[s] EXCEPT !.ns = @ \ {n}, !.here = n, !.hcopy = HPAsOf(nss)]
       IN  \/ Goes(s, listing({n})) /\ UNCHANGED faults
           \/ Fails("list hpas") /\ Goes(s, listing({}))
    /\ UNCHANGED <<sched, obj, hpa, want, queued>>

\* A List that fails is remembered as a restore error.
ListManaged(s) ==
    /\ rec[s].stage \in {"orphans", "restore"} /\ rec[s].here # NoOne
    /\ LET r == [rec[s] EXCEPT !.here = NoOne]
           ws == {w \in Workloads : NsOf[w] = rec[s].here /\ obj[w].label = s}
       IN  \/ /\ Goes(s, Visiting([r EXCEPT !.copy = obj], s, ws, TRUE))
              /\ UNCHANGED faults
           \/ /\ Fails(WriteOf(rec[s].stage))
              /\ Goes(s, Visiting([r EXCEPT !.errs = TRUE], s, {}, TRUE))
    /\ UNCHANGED <<sched, obj, hpa, want, queued>>

\* releaseOrphanedNamespaces has returned, whatever failed in it.
FilterNamespaces(s) ==
    /\ rec[s].stage = "orphans" /\ rec[s].ns = {} /\ rec[s].todo = {} /\ rec[s].here = NoOne
    /\ \/ /\ Goes(s, [rec[s] EXCEPT !.stage = "collect", !.ns = Unclaimed(rec[s].targets)])
          /\ UNCHANGED <<queued, faults>>
       \/ Fails("list") /\ Abort(s)
    /\ UNCHANGED <<sched, obj, hpa, want>>

\* Mutant: a List that fails ends the pass until the next transition.
CollectGivesUp(s, n) ==
    /\ rec[s].stage = "collect" /\ n \in rec[s].ns
    /\ \/ LET ws == {w \in Workloads : NsOf[w] = n} \ Excluded[s]
              copy == [w \in Workloads |-> IF w \in ws THEN obj[w] ELSE rec[s].copy[w]]
          IN  /\ Goes(s, [rec[s] EXCEPT !.ns = @ \ {n}, !.todo = @ \cup ws, !.copy = copy])
              /\ UNCHANGED faults
       \/ Fails("list") /\ Goes(s, Idle)
    /\ UNCHANGED <<sched, obj, hpa, want, queued>>

\* collectWorkloads adds the workloads of one namespace that the spec does not
\* leave out; it fails with the first List that does.
Collect(s, n) ==
    /\ rec[s].stage = "collect" /\ n \in rec[s].ns
    /\ \/ LET ws == {w \in Workloads : NsOf[w] = n} \ Excluded[s]
              copy == [w \in Workloads |-> IF w \in ws THEN obj[w] ELSE rec[s].copy[w]]
          IN  /\ Goes(s, [rec[s] EXCEPT !.ns = @ \ {n}, !.todo = @ \cup ws, !.copy = copy])
              /\ UNCHANGED <<queued, faults>>
       \/ Fails("list") /\ Abort(s)
    /\ UNCHANGED <<sched, obj, hpa, want>>

PendingTransfer(s, w) ==
    s \in LocalSchedules /\ w \in rec[s].todo /\ Transfers(rec[s].copy[w], s)

\* A namespace schedule re-stamps each workload labelled for another, and goes
\* on with the object the patch returned; the workload is left out if it fails.
TakeOver(s, w) ==
    /\ rec[s].stage = "collect" /\ PendingTransfer(s, w)
    /\ \/ /\ obj' = [obj EXCEPT ![w] = Transfer(obj[w], s)]
          /\ Goes(s, [rec[s] EXCEPT !.copy[w] = Transfer(obj[w], s)])
          /\ UNCHANGED faults
       \/ /\ Fails("transfer")
          /\ obj' \in {obj, [obj EXCEPT ![w] = Transfer(obj[w], s)]}
          /\ Goes(s, Drop(rec[s], w))
    /\ UNCHANGED <<sched, hpa, want, queued>>

\* scaleWorkloads fetches the HPAs once, after the workloads.
ListHPAs(s) ==
    /\ rec[s].stage = "collect" /\ rec[s].ns = {}
    /\ \A w \in Workloads : ~PendingTransfer(s, w)
    /\ LET listing(nss) ==
             Visiting([rec[s] EXCEPT !.stage = "scale", !.hcopy = HPAsOf(nss)],
                      s, rec[s].todo, rec[s].up)
       IN  \/ Goes(s, listing(Namespaces)) /\ UNCHANGED faults
           \/ /\ Fails("list hpas")
              /\ \E n \in Namespaces : Goes(s, listing(Namespaces \ {n}))
    /\ UNCHANGED <<sched, obj, hpa, want, queued>>

-----------------------------------------------------------------------------
(* Scaling one workload *)

\* Mutant: nothing stops a pass whose batch is used up.
VisitsOverBudget(s, w) ==
    rec[s].stage \in {"orphans", "restore", "scale"} /\ w \in rec[s].todo

\* With a rate limit, a pass works on while its batch lasts.
Visits(s, w) ==
    /\ rec[s].stage \in {"orphans", "restore", "scale"} /\ w \in rec[s].todo
    /\ rec[s].stage = "scale" /\ BatchSize > 0 => rec[s].left > 0

\* A workload write of schedule s: it is applied, or the call fails, before or
\* after the API server applied it.  r is the pass after a success.
Writes(s, w, after, r) ==
    /\ \/ /\ obj' = [obj EXCEPT ![w] = after]
          /\ Goes(s, r)
          /\ UNCHANGED faults
       \/ /\ Fails(WriteOf(rec[s].stage))
          /\ obj' \in {obj, [obj EXCEPT ![w] = after]}
          /\ Goes(s, [Drop(rec[s], w) EXCEPT !.errs = TRUE])
    /\ UNCHANGED <<sched, hpa, want, queued>>

\* A scale operation of a pass is counted, against the batch if there is a limit;
\* restoring counts nothing.
Spend(r) ==
    IF r.stage = "scale"
    THEN [r EXCEPT !.did = TRUE, !.left = IF BatchSize > 0 THEN @ - 1 ELSE @]
    ELSE r

\* An HPA write, whose failure is only logged.
WritesHpa(w, after) ==
    \/ hpa' = [hpa EXCEPT ![w] = after] /\ UNCHANGED faults
    \/ Fails("hpa") /\ hpa' \in {hpa, [hpa EXCEPT ![w] = after]}

\* Mutant: the HPA is left to fight back.
DisableHpaNever(s, w) ==
    /\ Visits(s, w) /\ ~GoingUp(s) /\ rec[s].at = NoOne
    /\ Goes(s, [rec[s] EXCEPT !.at = w])
    /\ UNCHANGED <<sched, obj, hpa, want, queued, faults>>

\* Downscale, first call: stop the HPA.
DisableHpa(s, w) ==
    /\ Visits(s, w) /\ ~GoingUp(s) /\ rec[s].at = NoOne
    /\ Goes(s, [rec[s] EXCEPT !.at = w])
    /\ IF w \notin CronJobs /\ HpaClaims(rec[s].hcopy[w], s)
       THEN WritesHpa(w, HpaDisable(hpa[w], rec[s].hcopy[w], s))
       ELSE UNCHANGED <<hpa, faults>>
    /\ UNCHANGED <<sched, obj, want, queued>>

\* Downscale, second call: the workload.
ScaleDown(s, w) ==
    /\ Visits(s, w) /\ ~GoingUp(s) /\ rec[s].at = w
    /\ Writes(s, w, Down(obj[w], rec[s].copy[w], s), Spend(Drop(rec[s], w)))

\* Upscale, first call: the workload.  An HPA this schedule holds comes next.
ScaleUp(s, w) ==
    /\ Visits(s, w) /\ GoingUp(s) /\ rec[s].at = NoOne
    /\ ScalesUp(rec[s].copy[w], s)
    /\ Writes(s, w, Up(obj[w], rec[s].copy[w]),
              Spend(IF w \notin CronJobs /\ HpaReleases(rec[s].hcopy[w], s)
                    THEN [rec[s] EXCEPT !.at = w] ELSE Drop(rec[s], w)))

MarkUserSuspended(s, w) ==
    /\ Visits(s, w) /\ GoingUp(s) /\ rec[s].at = NoOne
    /\ MarksUser(w, rec[s].copy[w])
    /\ Writes(s, w, Mark(obj[w]), Drop(rec[s], w))

\* Upscale, second call: the HPA.  Also tried for a workload that needs no
\* scaling, for a controller that stopped between the two calls.
RestoreHpa(s, w) ==
    /\ w \in rec[s].todo /\ GoingUp(s) /\ HpaReleases(rec[s].hcopy[w], s)
    /\ \/ rec[s].at = w
       \/ /\ Visits(s, w) /\ rec[s].at = NoOne
          /\ rec[s].copy[w].saved = Absent /\ ~MarksUser(w, rec[s].copy[w])
    /\ Goes(s, Drop(rec[s], w))
    /\ WritesHpa(w, HpaRestore(hpa[w], rec[s].hcopy[w]))
    /\ UNCHANGED <<sched, obj, want, queued>>

-----------------------------------------------------------------------------
(* The tail of Reconcile *)

\* Every workload was visited: the status is written, and the next reconcile is
\* the next transition's.  A downscale that did something, or that finds pods still
\* terminating, comes back before that; a status update that fails is retried.
EndPass(s) ==
    /\ rec[s].stage = "scale" /\ rec[s].todo = {}
    /\ \/ /\ rec[s].up \/ ~rec[s].did
          /\ Goes(s, Idle) /\ UNCHANGED <<queued, faults>>
       \/ ~rec[s].up /\ Abort(s) /\ UNCHANGED faults
       \/ Fails("status") /\ Abort(s)
    /\ UNCHANGED <<sched, obj, hpa, want>>

\* Mutant: the next batch waits for the next transition.
EndBatchForGood(s) ==
    /\ rec[s].stage = "scale" /\ BatchSize > 0 /\ rec[s].left = 0 /\ rec[s].at = NoOne
    /\ Goes(s, Idle)
    /\ UNCHANGED <<sched, obj, hpa, want, queued, faults>>

\* The batch is used up, and the schedule comes back after the batch delay.
EndBatch(s) ==
    /\ rec[s].stage = "scale" /\ BatchSize > 0 /\ rec[s].left = 0 /\ rec[s].at = NoOne
    /\ Abort(s)
    /\ UNCHANGED <<sched, obj, hpa, want, faults>>

\* Mutant: the finalizer goes whatever failed.
EndDeletionAnyway(s) ==
    /\ rec[s].stage = "restore" /\ rec[s].ns = {} /\ rec[s].todo = {} /\ rec[s].here = NoOne
    /\ Becomes(s, NoSchedule)
    /\ Goes(s, Idle)
    /\ UNCHANGED <<obj, hpa, want, queued, faults>>

\* The finalizer stays, and cleanup is tried again, while a restore failed.
\* Without its finalizer the API server lets the schedule go.
EndDeletion(s) ==
    /\ rec[s].stage = "restore" /\ rec[s].ns = {} /\ rec[s].todo = {} /\ rec[s].here = NoOne
    /\ \/ rec[s].errs /\ Abort(s) /\ UNCHANGED <<sched, faults>>
       \/ ~rec[s].errs /\ Fails("status") /\ Abort(s) /\ UNCHANGED sched
       \/ /\ ~rec[s].errs
          /\ Becomes(s, NoSchedule)
          /\ Goes(s, Idle)
          /\ UNCHANGED <<queued, faults>>
    /\ UNCHANGED <<obj, hpa, want>>

-----------------------------------------------------------------------------
(* Users, time and the process *)

\* A spec change or a deletion raises the generation, which queues the schedule.
Create(s) ==
    /\ "create" \in Moves /\ sched[s].phase = "absent"
    /\ \E up \in BOOLEAN, tgt \in TargetSets :
         Becomes(s, [NoSchedule EXCEPT !.phase = "live", !.up = up,
                        !.suspend = ("born suspended" \in Moves /\ s \in LocalSchedules),
                        !.targets = IF s \in LocalSchedules THEN {} ELSE tgt])
    /\ queued' = queued \cup {s}
    /\ UNCHANGED <<obj, hpa, want, rec, faults>>

Suspend(s) ==
    /\ "suspend" \in Moves /\ Live(s)
    /\ Becomes(s, [sched[s] EXCEPT !.suspend = ~sched[s].suspend])
    /\ queued' = queued \cup {s}
    /\ UNCHANGED <<obj, hpa, want, rec, faults>>

Retarget(s) ==
    /\ "retarget" \in Moves /\ Live(s) /\ s \in ClusterSchedules
    /\ \E tgt \in TargetSets : Becomes(s, [sched[s] EXCEPT !.targets = tgt])
    /\ queued' = queued \cup {s}
    /\ UNCHANGED <<obj, hpa, want, rec, faults>>

\* A schedule without the finalizer goes at once.
Delete(s) ==
    /\ "delete" \in Moves /\ Live(s)
    /\ Becomes(s, IF sched[s].finalizer THEN [sched[s] EXCEPT !.phase = "deleting"]
                                       ELSE NoSchedule)
    /\ queued' = queued \cup {s}
    /\ UNCHANGED <<obj, hpa, want, rec, faults>>

\* The next transition comes.  The requeue an active schedule's last pass asked
\* for is due; nothing else wakes a reconciler.
Flip(s) ==
    /\ "flip" \in Moves /\ Live(s)
    /\ Becomes(s, [sched[s] EXCEPT !.up = ~sched[s].up])
    /\ queued' = IF sched[s].suspend THEN queued ELSE queued \cup {s}
    /\ UNCHANGED <<obj, hpa, want, rec, faults>>

\* A user (or the HPA) resizes a workload that LightsOut has not scaled down
\* and that no pass holds; with the "rude" move, any workload at any time.
Edit(w) ==
    /\ "edit" \in Moves
    /\ "rude" \in Moves \/ (/\ obj[w].saved \in {Absent, ByUser}
                            /\ \A s \in Schedules : w \notin rec[s].todo)
    /\ \E n \in Sizes : /\ obj' = [obj EXCEPT ![w] = [obj[w] EXCEPT !.size = n]]
                        /\ want' = [want EXCEPT ![w] = n]
    /\ UNCHANGED <<sched, hpa, rec, queued, faults>>

\* The process stops.  A new one finds every schedule in its first List.
Restart ==
    /\ Fails("crash")
    /\ rec' = [s \in Schedules |-> Idle]
    /\ queued' = {s \in Schedules : sched[s].phase # "absent"}
    /\ UNCHANGED <<sched, obj, hpa, want>>

-----------------------------------------------------------------------------

Reconcile(s) ==
    \/ AddFinalizer(s) \/ SkipReconcile(s) \/ BeginPass(s) \/ BeginDeletion(s)
    \/ \E n \in Namespaces : ListRestoredHPAs(s, n) \/ Collect(s, n)
    \/ ListManaged(s) \/ FilterNamespaces(s) \/ ListHPAs(s)
    \/ \E w \in Workloads :
         \/ TakeOver(s, w) \/ DisableHpa(s, w) \/ ScaleDown(s, w)
         \/ ScaleUp(s, w) \/ MarkUserSuspended(s, w) \/ RestoreHpa(s, w)
    \/ EndPass(s) \/ EndBatch(s) \/ EndDeletion(s)

Environment ==
    \/ \E s \in Schedules : Create(s) \/ Suspend(s) \/ Retarget(s) \/ Delete(s) \/ Flip(s)
    \/ \E w \in Workloads : Edit(w)
    \/ Restart

Next == (\E s \in Schedules : Reconcile(s)) \/ Environment

Spec == Init /\ [][Next]_vars

\* The controller's worker keeps working off its queue.
FairSpec == Spec /\ \A s \in Schedules : WF_vars(Reconcile(s))

-----------------------------------------------------------------------------
(* What the two reconcilers promise about the user's workloads *)

ScaledDown(w) == obj[w].saved \notin {Absent, ByUser}

\* A workload at zero either is where its user put it or carries the size to
\* restore: no mix of passes, failed calls and restarts separates the write of
\* the annotation from the write of the size.
NeverStranded ==
    \A w \in Workloads : obj[w].size = 0 /\ obj[w].saved = Absent => want[w] = 0

\* While users leave alone what a pass has in hand, the size a user gave a
\* workload is never lost: it is the workload's size, or it is the saved one and
\* the workload is at zero.
CountPreserved ==
    \A w \in Workloads :
       IF ScaledDown(w) THEN obj[w].saved = want[w] /\ obj[w].size = 0
                        ELSE obj[w].size = want[w]

\* An HPA nobody manages has the policy its user gave it, and any other is
\* disabled and has that policy saved: a second claim never saves "Disabled" over it, and a transfer
\* or a restore in between never loses it.
HpaRecoverable ==
    \A w \in Workloads :
       IF hpa[w].by = NoOne THEN hpa[w].policy = UserPolicy[w] /\ hpa[w].saved = NoPolicy
                            ELSE hpa[w].policy = Disabled /\ hpa[w].saved = UserPolicy[w]

\* A workload LightsOut holds at zero has an HPA that cannot scale it up again:
\* the HPA is stopped before the workload and let go after it.
ZeroIsGuarded ==
    \A w \in Workloads \ CronJobs : ScaledDown(w) => hpa[w].policy = Disabled

\* A cluster schedule loses its finalizer only when no workload in the namespaces
\* it manages is left under its label, whatever failed in between.
DeletionRestores ==
    [][\A s \in ClusterSchedules :
         sched[s].phase = "deleting" /\ sched'[s].phase = "absent"
           => \A w \in Workloads : NsOf[w] \in Managed(s) => obj[w].label # s]_vars

\* Every deletion is finished, even of a schedule that is suspended or whose
\* restores have failed and been retried.
DeletionCompletes ==
    \A s \in Schedules : sched[s].phase = "deleting" ~> sched[s].phase = "absent"

\* s is to hold its target workload w up (or down).
Directs(s, w, up) ==
    Live(s) /\ ~sched[s].suspend /\ sched[s].up = up /\ NsOf[w] \in sched[s].targets

\* A downscale reaches every target, through batches, retries and restarts,
\* unless the schedule changes first.
DownReached ==
    \A s \in ClusterSchedules, w \in Workloads :
       Directs(s, w, FALSE) ~> (obj[w].size = 0 \/ ~Directs(s, w, FALSE))

\* An upscale gives every target the size its user wanted.
UpReached ==
    \A s \in ClusterSchedules, w \in Workloads :
       Directs(s, w, TRUE) ~> (obj[w].size = want[w] \/ ~Directs(s, w, TRUE))

\* An upscale gives every HPA back, also when the process stopped between the
\* write of the workload and the write of its HPA.
HpaReturned ==
    \A s \in ClusterSchedules, w \in Workloads :
       Directs(s, w, TRUE) ~> (hpa[w].by = NoOne \/ ~Directs(s, w, TRUE))

\* A workload in a namespace taken off an active schedule is let go.
OrphansReleased ==
    \A s \in ClusterSchedules, w \in Workloads :
       LET orphan == Live(s) /\ ~sched[s].suspend /\ obj[w].label = s
                     /\ NsOf[w] \notin sched[s].targets
       IN  orphan ~> ~orphan

-----------------------------------------------------------------------------
(* The promise the reconcilers implement *)

\* What the owner of a workload sees of it: its size, whether an annotation says
\* that LightsOut stopped it, and the same of its HPA.
Promise ==
    INSTANCE LightsOut
        WITH size <- [w \in Workloads |-> obj[w].size],
             off <- [w \in Workloads |-> ScaledDown(w)],
             policy <- [w \in Workloads |-> hpa[w].policy],
             held <- [w \in Workloads |-> hpa[w].by # NoOne]

\* Every step of any number of passes, over copies however old, is to the owner a
\* stop, a start, a resize, a hold or a release of one object, or nothing at all:
\* a repeated, late or half-failed call is never a different one.
Implements == Promise!Spec

-----------------------------------------------------------------------------
(* What the documentation says and the code does not keep *)

AtRest == queued = {} /\ \A s \in Schedules : rec[s].stage = "idle"

\* docs/architecture.md: "Deleting a schedule restores everything it manages
\* before the resource goes away."  No workload is left to a schedule that is gone.
OwnerExists ==
    AtRest => \A w \in Workloads :
                obj[w].label # NoOne => sched[obj[w].label].phase # "absent"

\* docs/architecture.md: "The controller can restart at any point without losing
\* state."  No HPA is left disabled for a schedule that is gone.
HpaOwnerExists ==
    AtRest => \A w \in Workloads :
                hpa[w].by # NoOne => sched[hpa[w].by].phase # "absent"

\* docs/architecture.md: "a namespace-scoped schedule always beats a cluster-wide
\* one."  With all reconcilers at rest, the workloads an active namespace schedule
\* collects are not in another's hands.
LocalWins ==
    AtRest => \A l \in LocalSchedules, w \in Workloads :
                Live(l) /\ ~sched[l].suspend /\ NsOf[w] = Home[l] /\ w \notin Excluded[l]
                  => obj[w].label \in {NoOne, l}
=============================================================================
