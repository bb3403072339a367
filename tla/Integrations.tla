---------------------------- MODULE Integrations ----------------------------
(***************************************************************************)
(* A reconciler with its integrations: ArgoCD Applications, Flux resources *)
(* and custom resources are turned off before the workloads and brought    *)
(* back in an order of their own (integrations.go, and the calls of it in  *)
(* the two controllers and in restoreManagedWorkloads).                    *)
(*                                                                         *)
(* A reconcile goes through a plan of steps.  Each step lists its objects  *)
(* and then handles one after the other, each List and each write being an *)
(* action, so that another schedule, an operator, a user, time or a crash  *)
(* can come in between.  HPAs, sync waves, namespaces and the races of one *)
(* workload are the matter of the modules Reconcilers and ScalingPass.     *)
(***************************************************************************)
EXTENDS GitOps

CONSTANTS
    Local,          \* the namespace schedules; the others are the cluster's
    Workloads,
    CRs,            \* custom resources whose fields are set
    Rebuilt,        \* resources of delete entries, which an operator rebuilds
    Argo, Flux,     \* Applications; Kustomizations and HelmReleases
    Scopes,         \* what the discoveries of the schedules may return
    Entries,        \* spec.customResources, in declaration order
    Documents,      \* what users write into each custom resource
    Convention,     \* how each operator publishes readiness
    Steady,         \* the namespace also holds a ready workload nobody scales
    Size,           \* the size of every workload that is up
    BatchSize,      \* rateLimit.batchSize; 0 is no limit
    Moves,          \* which moves of users are included
    FaultKinds,     \* which API calls can fail or conflict
    MaxFaults       \* bound: how many do

Gits == Argo \cup Flux
Objects == Workloads \cup CRs \cup Rebuilt \cup Gits

ASSUME IntegrationsAssumption ==
    /\ Local \subseteq Schedules
    /\ Scopes \subseteq [Schedules -> SUBSET Objects]
    /\ \A scope \in Scopes, w \in Workloads, s, t \in Schedules :
         w \in scope[s] /\ w \in scope[t] => s = t
    /\ Convention \in [CRs -> {"conditions", "readyWhen", "silent"}]
    /\ Workloads \cap (CRs \cup Rebuilt \cup Gits) = {} /\ CRs \cap (Rebuilt \cup Gits) = {}
    /\ Rebuilt \cap Gits = {} /\ Argo \cap Flux = {}
    /\ Len(Entries) \in Nat
    /\ \A i \in 1..Len(Entries) :
         Entries[i].matches \subseteq IF Entries[i].delete THEN Rebuilt ELSE CRs
    /\ Size \in Nat \ {0} /\ BatchSize \in Nat /\ MaxFaults \in Nat

VARIABLES
    sched,      \* the schedule objects, each with what it selects
    obj,        \* the workloads
    cr,         \* the custom resources
    git,        \* the GitOps objects
    there,      \* which of Rebuilt exist
    status,     \* what each operator last wrote into its resource's status
    pods,       \* the pods of each workload, or those an operator built
    want,       \* history: each custom resource as its user last wrote it
    frozen,     \* history: the Flux resources their users suspended
    rec,        \* what each schedule's reconcile in progress holds
    queued,     \* the schedules in their controller's work queue
    faults      \* API calls that have failed

objects == <<obj, cr, git, there>>
world == <<status, pods>>
users == <<want, frozen>>
vars == <<sched, objects, world, users, rec, queued, faults>>

-----------------------------------------------------------------------------
(* The plan of a reconcile *)

Step(op, objs, entry) == [op |-> op, objs |-> objs, entry |-> entry]
TurnSteps ==
    [i \in 1..Len(Entries) |->
       Step(IF Entries[i].delete THEN "delete" ELSE "turn", Entries[i].matches, i)]
\* What an entry deleted is not brought back.
BackSteps(op) ==
    [i \in 1..Len(Entries) |->
       Step(op, IF Entries[i].delete THEN {} ELSE Entries[i].matches, i)]
GitSteps(op) == <<Step(op, Argo, 0), Step(op, Flux, 0)>>
ScaleStep == <<Step("scale", Workloads, 0)>>

\* Mutant: the entries that delete go first.
DownPlanDeletingFirst ==
    GitSteps("hold") \o SelectSeq(TurnSteps, LAMBDA x : x.op = "delete")
      \o SelectSeq(TurnSteps, LAMBDA x : x.op = "turn") \o ScaleStep

\* integrationsDown, then scaleWorkloads.
DownPlan == GitSteps("hold") \o TurnSteps \o ScaleStep

\* Mutant: the workloads do not wait for the custom resources.
UpPlanAtOnce ==
    BackSteps("restore") \o ScaleStep \o GitSteps("warm")

\* integrationsUp restores the custom resources and waits for them; then come
\* scaleWorkloads and integrationsWarmup.
UpPlan ==
    BackSteps("restore") \o BackSteps("gate") \o ScaleStep \o GitSteps("warm")

\* restoreManagedWorkloads
CleanupPlan ==
    ScaleStep \o GitSteps("release") \o BackSteps("return")

Plan(r) == CASE r.kind = "down" -> DownPlan
             [] r.kind = "up" -> UpPlan
             [] r.kind = "cleanup" -> CleanupPlan
             [] OTHER -> <<>>

\* A reconcile in progress: its kind, "blind" being a cleanup that found no namespaces,
\* and the number of its step; whether that
\* step has listed its objects; of those, the ones to write, to check and found
\* done, whose timeout has passed, and whose copy is still the latest; whether
\* something is waited for, failed, was scaled; and what is left of the batch.
Pass == [kind : {"idle", "down", "up", "cleanup", "blind"}, at : Nat \ {0}, listed : BOOLEAN,
         todo : SUBSET Objects, check : SUBSET Objects, done : SUBSET Objects,
         late : SUBSET Objects, fresh : SUBSET CRs,
         wait : BOOLEAN, errs : BOOLEAN, did : BOOLEAN, left : Nat]

Idle == [kind |-> "idle", at |-> 1, listed |-> FALSE, todo |-> {}, check |-> {},
         done |-> {}, late |-> {}, fresh |-> {},
         wait |-> FALSE, errs |-> FALSE, did |-> FALSE, left |-> BatchSize]

Untouched(doc) == [doc |-> doc, saved |-> NoFields, since |-> Never,
                   state |-> NoState, by |-> NoOne]

TypeOK ==
    /\ sched \in [Schedules -> [phase : {"absent", "live", "deleting"}, up : BOOLEAN,
                               selects : SUBSET Objects]]
    /\ obj \in [Workloads -> Workload]
    /\ \A c \in CRs : /\ cr[c].state \in States /\ cr[c].by \in Owners
                      /\ cr[c].since \in Ages
    /\ git \in [Gits -> GitObject]
    /\ there \in SUBSET Rebuilt
    /\ status \in [CRs -> [seen : BOOLEAN, ready : BOOLEAN]]
    /\ pods \in [Workloads \cup CRs -> {"none", "starting", "ready"}]
    /\ \A c \in CRs : want[c] \in Documents[c]
    /\ frozen \in SUBSET Flux
    /\ rec \in [Schedules -> Pass] /\ queued \in SUBSET Schedules
    /\ faults \in 0..MaxFaults

Init ==
    /\ \E scope \in Scopes :
         sched = [s \in Schedules |->
                    [phase |-> "absent", up |-> TRUE, selects |-> scope[s]]]
    /\ obj = [w \in Workloads |->
                [size |-> Size, saved |-> Absent, by |-> NoOne, label |-> NoOne]]
    /\ want \in {d \in [CRs -> UNION {Documents[c] : c \in CRs}] :
                  \A c \in CRs : d[c] \in Documents[c]}
    /\ cr = [c \in CRs |-> Untouched(want[c])]
    /\ frozen = {}
    /\ git = [g \in Gits |-> [suspend |-> FALSE, state |-> NoState,
                              by |-> NoOne, since |-> Never]]
    /\ there = Rebuilt
    /\ status = [c \in CRs |-> [seen |-> TRUE, ready |-> TRUE]]
    /\ pods = [x \in Workloads \cup CRs |-> "ready"]
    /\ rec = [s \in Schedules |-> Idle]
    /\ queued = {}
    /\ faults = 0

-----------------------------------------------------------------------------
(* Helpers *)

Live(s) == sched[s].phase = "live"
Selects(s) == sched[s].selects
Over(r) == r.at > Len(Plan(r))
Current(s) == Plan(rec[s])[rec[s].at]

\* The reconcile of s is at a step of this kind, and has listed its objects.
At(s, op) == rec[s].kind # "idle" /\ ~Over(rec[s]) /\ rec[s].listed /\ Current(s).op = op

\* The pass goes on to its next step.  What was restored, and then what is not
\* ready, ends the pass instead, before the workloads.
Onward(r) ==
    LET n == r.at + 1
        op == Plan(r)[r.at].op
        last == n > Len(Plan(r)) \/ Plan(r)[n].op # op
        defers == op \in {"restore", "gate"} /\ last /\ r.wait
    IN  [r EXCEPT !.at = IF defers THEN Len(Plan(r)) + 1 ELSE n, !.listed = FALSE,
                  !.todo = {}, !.check = {}, !.done = {}, !.late = {}, !.fresh = {}]

\* The object x is dealt with.
Drop(r, x) == [r EXCEPT !.todo = @ \ {x}, !.check = @ \ {x}, !.done = @ \ {x},
                        !.late = @ \ {x}, !.fresh = @ \ {x}]

Settle(r) == IF r.todo \cup r.check \cup r.done = {} THEN Onward(r) ELSE r

Goes(s, r) == rec' = [rec EXCEPT ![s] = r]

\* ... after a write of custom resource c, which outdates every copy of it.
GoesPast(s, c, r) ==
    rec' = [t \in Schedules |-> [(IF t = s THEN r ELSE rec[t]) EXCEPT !.fresh = @ \ {c}]]

Abort(s) == Goes(s, Idle) /\ queued' = queued \cup {s}

\* A call fails: a List, a write or a read made in a step of that kind, or the process.
Fails(call, op) ==
    /\ <<call, op>> \in FaultKinds /\ faults < MaxFaults
    /\ faults' = faults + 1

\* An operator stops what it built once every field that is to be set holds its value.
Stops(c, doc) ==
    \A i \in 1..Len(Entries) : c \in Entries[i].matches =>
       \A j \in 1..Len(Entries[i].fields) :
          LET f == Entries[i].fields[j]
          IN  \A p \in Expand(doc, f.path) :
                GetValue(doc, p) = [present |-> TRUE, value |-> f.value]
Halted(c) == Stops(c, cr[c].doc)

\* The API server counts a generation when a document changes outside its metadata.
SameSpec(d, e) ==
    LET spec(x) == {p \in DOMAIN x : p # <<>> /\ p[1] # "metadata"}
    IN  spec(d) = spec(e) /\ \A p \in spec(d) : d[p] = e[p]
Noticed(c, doc) == [status EXCEPT ![c].seen = @ /\ SameSpec(doc, cr[c].doc)]

\* CheckWorkloadReadiness: workloads at zero and resources without pods are not
\* asked; observed is FALSE when nobody is left to ask.
Observed == \/ Steady
            \/ \E w \in Workloads : obj[w].size > 0
            \/ \E c \in CRs : pods[c] # "none"
Ready == /\ \A w \in Workloads : obj[w].size > 0 => pods[w] = "ready"
         /\ \A c \in CRs : pods[c] # "starting"

-----------------------------------------------------------------------------
(* The head of Reconcile *)

SkipReconcile(s) ==
    /\ s \in queued /\ rec[s].kind = "idle" /\ sched[s].phase = "absent"
    /\ queued' = queued \ {s}
    /\ UNCHANGED <<sched, objects, world, users, rec, faults>>

\* FilterNamespacesWithLocalSchedules: a schedule of the namespace, also one that is
\* being deleted, keeps the cluster's schedules out of it.
Claimed(s) == s \notin Local /\ \E t \in Local : sched[t].phase # "absent"

\* The worker of a controller takes one schedule at a time.
Takes(s) ==
    /\ s \in queued
    /\ \A t \in Schedules : (t \in Local <=> s \in Local) => rec[t].kind = "idle"

\* A pass of a cluster schedule looks up its namespaces, which fails it when it fails;
\* without any it only writes its status.
BeginPass(s) ==
    /\ Takes(s) /\ Live(s)
    /\ \/ /\ ~Claimed(s) /\ queued' = queued \ {s} /\ UNCHANGED faults
          /\ Goes(s, [Idle EXCEPT !.kind = IF sched[s].up THEN "up" ELSE "down"])
       \/ Claimed(s) /\ queued' = queued \ {s} /\ UNCHANGED <<rec, faults>>
       \/ /\ s \notin Local /\ UNCHANGED <<rec, queued>>
          /\ \/ Fails("lookup", "targets") \/ Fails("lookup", "local")
             \/ Claimed(s) /\ Fails("write", "status")
    /\ UNCHANGED <<sched, objects, world, users>>

\* handleDeletion: a cleanup goes on without namespaces when it could not discover
\* them, and is repeated when it could not look for their schedules.
BeginCleanup(s) ==
    /\ Takes(s) /\ sched[s].phase = "deleting"
    /\ \/ /\ queued' = queued \ {s} /\ UNCHANGED faults
          /\ Goes(s, [Idle EXCEPT !.kind = IF Claimed(s) THEN "blind" ELSE "cleanup"])
       \/ /\ s \notin Local /\ Fails("lookup", "targets")
          /\ queued' = queued \ {s} /\ Goes(s, [Idle EXCEPT !.kind = "blind"])
       \/ s \notin Local /\ Fails("lookup", "local") /\ UNCHANGED <<rec, queued>>
    /\ UNCHANGED <<sched, objects, world, users>>

-----------------------------------------------------------------------------
(* Listing the objects of a step *)

\* handleCustomResourceWarmup waits for what its operator does not call ready,
\* and whose timeout has not passed.
ListedGate(s, r, here) ==
    LET warming == {c \in here : cr[c].by = s /\ cr[c].state = WarmingUp}
        late == {c \in warming : cr[c].since = Old}
        fine == {c \in warming : Verdict(Convention[c], status[c].seen, status[c].ready)}
    IN  [r EXCEPT !.check = fine \cup late, !.late = late,
                  !.wait = @ \/ warming # fine \cup late]

\* handleArgoCDWarmup and handleFluxCDWarmup.
ListedWarm(s, r, here) ==
    LET todo == {g \in here : IF g \in Argo THEN ArgoWarms(git[g], s) ELSE FluxWarms(git[g], s)}
        awaited == todo \cup {g \in here \cap Argo : ArgoAwaits(git[g])}
        check == {g \in here : IF g \in Argo THEN ArgoChecks(git[g]) ELSE FluxChecks(git[g], s)}
        late == {g \in check : git[g].since = Old}
    IN  [r EXCEPT !.todo = todo, !.check = check \ late, !.done = late,
                  !.wait = @ \/ awaited # {}]

\* What a step finds to do among the objects here, which exist and are its own.
Listed(s, r, op, here) ==
    CASE op = "hold" ->
           [r EXCEPT !.todo = {g \in here : IF g \in Argo THEN ArgoHolds(git[g], s)
                                                          ELSE FluxHolds(git[g], s)}]
      [] op = "turn" ->
           LET todo == {c \in here : TurnsDown(cr[c], s)}
           IN  [r EXCEPT !.todo = todo, !.fresh = todo]
      [] op = "delete" -> [r EXCEPT !.todo = here \cap there]
      [] op = "restore" ->
           LET todo == {c \in here : Restores(cr[c], s)}
           IN  [r EXCEPT !.todo = todo, !.fresh = todo]
      [] op = "gate" -> ListedGate(s, r, here)
      [] op = "scale" ->
           [r EXCEPT !.todo =
              {w \in here : IF r.kind = "down" THEN ScalesDown(obj[w], s)
                            ELSE /\ ScalesUp(obj[w], s)
                                 /\ r.kind = "cleanup" => obj[w].label = s}]
      [] op = "warm" -> ListedWarm(s, r, here)
      [] op = "release" -> [r EXCEPT !.todo = {g \in here : Releases(git[g], s)}]
      [] op = "return" ->
           LET mine == {c \in here : cr[c].by = s}
               todo == {c \in mine : Restores(cr[c], s)}
           IN  [r EXCEPT !.todo = todo, !.done = mine \ todo, !.fresh = todo]

\* A failed List leaves the step out.  It fails the pass when it is that of the
\* workloads, and a cleanup that could not list workloads or custom resources.
\* Where there is nothing to bring back, it makes no difference or is not made.
List(s) ==
    /\ rec[s].kind # "idle" /\ ~Over(rec[s]) /\ ~rec[s].listed
    /\ LET r == rec[s]
           op == Current(s).op
           here == Selects(s) \cap Current(s).objs
       IN  \/ /\ Goes(s, Settle(Listed(s, [r EXCEPT !.listed = TRUE], op, here)))
              /\ UNCHANGED <<queued, faults>>
           \/ /\ Fails("list", op) /\ Current(s).objs # {}
              /\ IF op = "scale" /\ r.kind # "cleanup" THEN Abort(s)
                 ELSE /\ Goes(s, Onward([r EXCEPT !.errs = @ \/ op \in {"scale", "return"}]))
                      /\ UNCHANGED queued
    /\ UNCHANGED <<sched, objects, world, users>>

-----------------------------------------------------------------------------
(* ArgoCD and Flux *)

\* A patch of g; when it fails, before or after it was applied, the pass may wait.
WritesGit(s, g, after, waits) ==
    LET r == Drop(rec[s], g)
    IN  /\ \/ /\ git' = [git EXCEPT ![g] = after]
              /\ Goes(s, Settle(r)) /\ UNCHANGED faults
           \/ /\ Fails("write", Current(s).op)
              /\ git' \in {git, [git EXCEPT ![g] = after]}
              /\ Goes(s, Settle([r EXCEPT !.wait = @ \/ waits]))
        /\ UNCHANGED <<sched, obj, cr, there, world, users, queued>>

HoldGit(s, g) ==
    /\ At(s, "hold") /\ g \in rec[s].todo
    /\ WritesGit(s, g, IF g \in Argo THEN ArgoHold(git[g], s) ELSE FluxHold(git[g], s), FALSE)

WarmGit(s, g) ==
    /\ At(s, "warm") /\ g \in rec[s].todo
    /\ WritesGit(s, g, WarmUp(git[g], s), TRUE)

\* The readiness of the namespace g deploys to is read.
CheckGit(s, g) ==
    /\ At(s, "warm") /\ g \in rec[s].check
    /\ \/ /\ Ready /\ UNCHANGED faults
          /\ Goes(s, [rec[s] EXCEPT !.check = @ \ {g}, !.done = @ \cup {g}])
       \/ /\ (~Ready /\ UNCHANGED faults) \/ Fails("read", "warm")
          /\ Goes(s, Settle([Drop(rec[s], g) EXCEPT !.wait = TRUE]))
    /\ UNCHANGED <<sched, objects, world, users, queued>>

CompleteGit(s, g) ==
    /\ At(s, "warm") /\ g \in rec[s].done
    /\ WritesGit(s, g, IF g \in Argo THEN ArgoComplete(git[g]) ELSE FluxResume(git[g]), TRUE)

ReleaseGit(s, g) ==
    /\ At(s, "release") /\ g \in rec[s].todo
    /\ WritesGit(s, g, IF g \in Argo THEN ArgoRemove(git[g]) ELSE FluxResume(git[g]), FALSE)

-----------------------------------------------------------------------------
(* Custom resources *)

\* An Update of c to one of outcomes, after which the pass is good[outcome] or, when
\* it did not go through, bad.  It goes through on a fresh copy, conflicts on any
\* other, and may fail, before or after it was applied.
UpdatesCR(s, c, outcomes, good, bad) ==
    /\ \/ /\ c \in rec[s].fresh /\ UNCHANGED faults
          /\ \E x \in outcomes :
                IF x = cr[c] THEN Goes(s, bad) /\ UNCHANGED <<cr, status>>
                ELSE /\ cr' = [cr EXCEPT ![c] = x]
                     /\ status' = Noticed(c, x.doc)
                     /\ GoesPast(s, c, good[x])
       \/ /\ c \notin rec[s].fresh
          /\ Goes(s, bad) /\ UNCHANGED <<cr, status, faults>>
       \/ /\ c \in rec[s].fresh /\ Fails("write", Current(s).op)
          /\ \E x \in outcomes \cup {cr[c]} :
                /\ cr' = [cr EXCEPT ![c] = x]
                /\ status' = Noticed(c, x.doc)
                /\ GoesPast(s, c, bad)
    /\ UNCHANGED <<sched, obj, git, there, pods, users, queued>>

TurnDownCR(s, c) ==
    /\ At(s, "turn") /\ c \in rec[s].todo
    /\ LET r == Settle(Drop(rec[s], c))
           off == TurnDown(cr[c], Entries[Current(s).entry].fields, s)
       IN  UpdatesCR(s, c, {off}, [x \in {off} |-> r], r)

DeleteCR(s, d) ==
    /\ At(s, "delete") /\ d \in rec[s].todo
    /\ \/ /\ there' = there \ {d} /\ UNCHANGED faults
          /\ Goes(s, Settle(Drop(rec[s], d)))
       \/ /\ Fails("write", "delete") /\ UNCHANGED there
          /\ Goes(s, Onward(rec[s]))
    /\ UNCHANGED <<sched, obj, cr, git, world, users, queued>>

RestoreCR(s, c) ==
    /\ At(s, "restore") /\ c \in rec[s].todo
    /\ LET r == Drop(rec[s], c)
           up == [x \in Restored(cr[c]) |->
                    Settle([r EXCEPT !.wait = @ \/ x.state = WarmingUp])]
       IN  UpdatesCR(s, c, DOMAIN up, up, Settle(r))

\* The readiness of the namespace is read once, for all its resources; a read that
\* fails leaves its resource waiting, and the next one reads again.
CheckGate(s) ==
    /\ At(s, "gate") /\ rec[s].check # {}
    /\ LET r == rec[s]
           passed == {c \in r.check : c \in r.late \/ (Ready /\ Observed)}
       IN  \/ /\ Goes(s, Settle([r EXCEPT !.check = {}, !.done = passed,
                                          !.wait = @ \/ passed # r.check]))
              /\ UNCHANGED faults
           \/ /\ Fails("read", "gate")
              /\ \E c \in r.check : Goes(s, Settle([Drop(r, c) EXCEPT !.wait = TRUE]))
    /\ UNCHANGED <<sched, objects, world, users, queued>>

\* The patch that lets go of a resource.
ClearsCR(s, c, bad) ==
    LET r == Drop(rec[s], c)
    IN  /\ \/ /\ cr' = [cr EXCEPT ![c] = Clear(cr[c])]
              /\ GoesPast(s, c, Settle(r)) /\ UNCHANGED faults
           \/ /\ Fails("write", Current(s).op)
              /\ cr' \in {cr, [cr EXCEPT ![c] = Clear(cr[c])]}
              /\ GoesPast(s, c, Settle(bad))
        /\ UNCHANGED <<sched, obj, git, there, world, users, queued>>

ClearCR(s, c) ==
    /\ At(s, "gate") /\ c \in rec[s].done
    /\ ClearsCR(s, c, [Drop(rec[s], c) EXCEPT !.wait = TRUE])

\* Cleanup restores a resource and then lets go of it, ready or not.
ReturnCR(s, c) ==
    LET r == Drop(rec[s], c)
    IN  /\ At(s, "return")
        /\ \/ /\ c \in rec[s].todo
              /\ UpdatesCR(s, c, Restored(cr[c]),
                           [x \in Restored(cr[c]) |-> [r EXCEPT !.done = @ \cup {c}]],
                           Settle([r EXCEPT !.errs = TRUE]))
           \/ /\ c \in rec[s].done
              /\ ClearsCR(s, c, [r EXCEPT !.errs = TRUE])

-----------------------------------------------------------------------------
(* The workloads, and the tail of Reconcile *)

\* Mutant: the batch size is not looked at.
AffordsAny(r) == TRUE

\* The batch still has room; cleanup knows no batches.
Affords(r) == BatchSize > 0 /\ r.kind # "cleanup" => r.left > 0

Scale(s, w) ==
    LET r == rec[s]
        after == IF r.kind = "down" THEN Down(obj[w], obj[w], s) ELSE Up(obj[w], obj[w])
        spent == IF r.kind = "cleanup" THEN r
                 ELSE [r EXCEPT !.did = TRUE, !.left = IF BatchSize > 0 THEN @ - 1 ELSE @]
    IN  /\ At(s, "scale") /\ w \in r.todo /\ Affords(r)
        /\ \/ /\ obj' = [obj EXCEPT ![w] = after] /\ UNCHANGED faults
              /\ Goes(s, Drop(spent, w))
           \/ /\ Fails("write", "scale") /\ obj' \in {obj, [obj EXCEPT ![w] = after]}
              /\ Goes(s, [Drop(r, w) EXCEPT !.errs = TRUE])
        /\ pods' = [pods EXCEPT ![w] = IF obj'[w].size = 0 THEN "none" ELSE @]
        /\ UNCHANGED <<sched, cr, git, there, status, users, queued>>

\* Mutant: what follows the workloads follows an unfinished batch, too.
EndScaleEarly(s) ==
    /\ At(s, "scale")
    /\ rec[s].todo = {} \/ ~Affords(rec[s])
    /\ Goes(s, Onward(rec[s]))
    /\ UNCHANGED <<sched, objects, world, users, queued, faults>>

\* Every workload was visited.
EndScale(s) ==
    /\ At(s, "scale") /\ rec[s].todo = {}
    /\ Goes(s, Onward(rec[s]))
    /\ UNCHANGED <<sched, objects, world, users, queued, faults>>

\* The batch is used up and more workloads remain, if only some to be skipped: the
\* pass stops early, warmupMayStart is FALSE, and the schedule comes back after the
\* batch delay.
EndBatch(s) ==
    /\ At(s, "scale") /\ ~Affords(rec[s])
    /\ Cardinality(Workloads \cap Selects(s)) > BatchSize
    /\ Abort(s)
    /\ UNCHANGED <<sched, objects, world, users, faults>>

\* Mutant: a pass that waits for something is not repeated.
EndPassForGood(s) ==
    /\ rec[s].kind \in {"down", "up"} /\ Over(rec[s])
    /\ Goes(s, Idle)
    /\ UNCHANGED <<sched, objects, world, users, queued, faults>>

\* The status is written.  A pass that waits comes back after the poll interval,
\* a downscale that did something, or whose pods are still going, in some minutes,
\* any other with the next transition.
EndPass(s) ==
    /\ rec[s].kind \in {"down", "up"} /\ Over(rec[s])
    /\ \/ /\ IF rec[s].kind = "up" THEN ~rec[s].wait ELSE ~rec[s].did
          /\ Goes(s, Idle) /\ UNCHANGED <<queued, faults>>
       \/ (rec[s].kind = "up" => rec[s].wait) /\ Abort(s) /\ UNCHANGED faults
       \/ Fails("write", "status") /\ Abort(s)
    /\ UNCHANGED <<sched, objects, world, users>>

\* Mutant: the finalizer goes whatever failed.
EndCleanupAnyway(s) ==
    /\ rec[s].kind \in {"cleanup", "blind"} /\ Over(rec[s])
    /\ sched' = [sched EXCEPT ![s].phase = "absent", ![s].up = TRUE]
    /\ Goes(s, Idle)
    /\ UNCHANGED <<objects, world, users, queued, faults>>

\* The finalizer stays while a workload or a custom resource could not be restored;
\* what failed for ArgoCD or Flux was only logged, and a blind cleanup restored nothing.
EndCleanup(s) ==
    /\ rec[s].kind \in {"cleanup", "blind"} /\ Over(rec[s])
    /\ \/ rec[s].errs /\ Abort(s) /\ UNCHANGED <<sched, faults>>
       \/ ~rec[s].errs /\ Fails("write", "finalizer") /\ Abort(s) /\ UNCHANGED sched
       \/ /\ ~rec[s].errs
          /\ sched' = [sched EXCEPT ![s].phase = "absent", ![s].up = TRUE]
          /\ Goes(s, Idle) /\ queued' = queued \cup {s} /\ UNCHANGED faults
    /\ UNCHANGED <<objects, world, users>>

-----------------------------------------------------------------------------
(* Users, operators, time and the process *)

Create(s) ==
    /\ sched[s].phase = "absent" /\ rec[s].kind = "idle" /\ Selects(s) # {}
    /\ \E up \in BOOLEAN : sched' = [sched EXCEPT ![s].phase = "live", ![s].up = up]
    /\ queued' = queued \cup {s}
    /\ UNCHANGED <<objects, world, users, rec, faults>>

Delete(s) ==
    /\ "delete" \in Moves /\ Live(s)
    /\ sched' = [sched EXCEPT ![s].phase = "deleting"]
    /\ queued' = queued \cup {s}
    /\ UNCHANGED <<objects, world, users, rec, faults>>

\* The next transition of the schedule comes.
Flip(s) ==
    /\ Live(s)
    /\ sched' = [sched EXCEPT ![s].up = ~@]
    /\ queued' = queued \cup {s}
    /\ UNCHANGED <<objects, world, users, rec, faults>>

\* No pass has a copy of the object in hand.
Chosen(x) == \E s \in Schedules : x \in Selects(s)
AtHand(x) == \E s \in Schedules : x \in Selects(s) /\ rec[s].kind # "idle"

\* Users rewrite custom resources, and suspend and resume Flux resources, that
\* LightsOut does not hold.
Rewrite(c) ==
    /\ "rewrite" \in Moves /\ Chosen(c) /\ cr[c].by = NoOne /\ ~AtHand(c)
    /\ \E doc \in Documents[c] : /\ want' = [want EXCEPT ![c] = doc]
                              /\ cr' = [cr EXCEPT ![c].doc = doc]
                              /\ status' = Noticed(c, doc)
    /\ UNCHANGED <<sched, obj, git, there, pods, frozen, rec, queued, faults>>

Freeze(f) ==
    /\ "freeze" \in Moves /\ Chosen(f) /\ git[f].by = NoOne /\ ~AtHand(f)
    /\ \A s \in Schedules, w \in Workloads :
         f \in Selects(s) /\ w \in Selects(s) => obj[w].saved = Absent
    /\ git' = [git EXCEPT ![f].suspend = ~@]
    /\ frozen' = IF f \in frozen THEN frozen \ {f} ELSE frozen \cup {f}
    /\ UNCHANGED <<sched, obj, cr, there, world, want, rec, queued, faults>>

\* An operator stops and builds pods as its resource says; the kubelet makes them
\* ready; and the operator writes what it has seen into the resource's status.  To do
\* that while a pass holds a copy of the resource makes the pass's Update conflict.
Operate(c) ==
    /\ \/ Halted(c) /\ pods[c] # "none" /\ pods' = [pods EXCEPT ![c] = "none"]
       \/ ~Halted(c) /\ pods[c] = "none" /\ pods' = [pods EXCEPT ![c] = "starting"]
    /\ UNCHANGED <<sched, objects, status, users, rec, queued, faults>>

BecomeReady(x) ==
    /\ IF x \in Workloads THEN obj[x].size > 0 /\ pods[x] = "none" ELSE pods[x] = "starting"
    /\ pods' = [pods EXCEPT ![x] = "ready"]
    /\ UNCHANGED <<sched, objects, status, users, rec, queued, faults>>

Report(c) ==
    /\ Convention[c] # "silent"
    /\ \/ (\A s \in Schedules : c \notin rec[s].fresh) /\ UNCHANGED faults
       \/ \E s \in Schedules : c \in rec[s].fresh /\ Fails("conflict", Current(s).op)
    /\ status' = [status EXCEPT ![c] = [seen |-> TRUE, ready |-> pods[c] = "ready"]]
    /\ status' # status
    /\ rec' = [s \in Schedules |-> [rec[s] EXCEPT !.fresh = @ \ {c}]]
    /\ UNCHANGED <<sched, objects, pods, users, queued>>

Rebuild(d) ==
    /\ d \in Rebuilt \ there /\ \E c \in CRs : ~Halted(c)
    /\ there' = there \cup {d}
    /\ UNCHANGED <<sched, obj, cr, git, world, users, rec, queued, faults>>

\* The warmup timeout of a custom resource or GitOps object passes.
Elapse(x) ==
    /\ \/ /\ x \in CRs /\ cr[x].state = WarmingUp /\ cr[x].since = Recent
          /\ cr' = [cr EXCEPT ![x].since = Old] /\ UNCHANGED git
       \/ /\ x \in Gits /\ git[x].state = WarmingUp /\ git[x].since = Recent
          /\ git' = [git EXCEPT ![x].since = Old] /\ UNCHANGED cr
    /\ UNCHANGED <<sched, obj, there, world, users, rec, queued, faults>>

\* The process stops; a new one finds every schedule in its first List.
Restart ==
    /\ Fails("crash", "")
    /\ rec' = [s \in Schedules |-> Idle]
    /\ queued' = {s \in Schedules : sched[s].phase # "absent"}
    /\ UNCHANGED <<sched, objects, world, users>>

-----------------------------------------------------------------------------

Reconcile(s) ==
    \/ SkipReconcile(s) \/ BeginPass(s) \/ BeginCleanup(s) \/ List(s)
    \/ \E g \in Gits : HoldGit(s, g) \/ WarmGit(s, g) \/ CheckGit(s, g)
                       \/ CompleteGit(s, g) \/ ReleaseGit(s, g)
    \/ \E c \in CRs : TurnDownCR(s, c) \/ RestoreCR(s, c) \/ ClearCR(s, c) \/ ReturnCR(s, c)
    \/ \E d \in Rebuilt : DeleteCR(s, d)
    \/ CheckGate(s)
    \/ \E w \in Workloads : Scale(s, w)
    \/ EndScale(s) \/ EndBatch(s) \/ EndPass(s) \/ EndCleanup(s)

Environment ==
    \/ \E s \in Schedules : Create(s) \/ Delete(s) \/ Flip(s)
    \/ \E c \in CRs : Rewrite(c) \/ Operate(c) \/ Report(c)
    \/ \E f \in Flux : Freeze(f)
    \/ \E x \in Workloads \cup CRs : BecomeReady(x)
    \/ \E d \in Rebuilt : Rebuild(d)
    \/ \E x \in CRs \cup Gits : Elapse(x)
    \/ Restart

Next == (\E s \in Schedules : Reconcile(s)) \/ Environment

Spec == Init /\ [][Next]_vars

\* The work queue is served in order, so that a schedule is not passed over for ever
\* while it waits there or its pass goes on; and time passes.  Of operators and of
\* pods nothing is assumed.
Held(s) == [rec[s] EXCEPT !.fresh = {}]
Works(s) == Held(s)' # Held(s) \/ (s \in queued /\ s \notin queued')
Served(s) == []<>(s \notin queued /\ rec[s].kind = "idle") \/ []<><<Works(s)>>_vars

FairSpec ==
    /\ Spec
    /\ \A s \in Schedules : Served(s)
    /\ \A x \in CRs \cup Gits : WF_vars(Elapse(x))

-----------------------------------------------------------------------------
(* What the integrations promise *)

\* A hypothesis about the data: whatever an entry does to a document of docs can be
\* undone, in any order, and leaves a document of docs with the same fields.
Undoable(docs) ==
    \A c \in CRs :
       /\ Documents[c] \subseteq docs[c]
       /\ \A i \in 1..Len(Entries), doc \in docs[c] :
            c \in Entries[i].matches =>
              LET off == Capture(doc, Entries[i].fields)
              IN  \A o \in Originals(off.doc, off.saved) :
                     o.ok /\ o.doc \in docs[c] /\ SameFields(o.doc, doc)

\* Another one: an operator whose resource holds a document of docs runs its pods, and a
\* restore is a new generation to it.
Telling(docs) ==
    \A c \in CRs, i \in 1..Len(Entries) : \A doc \in docs[c] :
       c \in Entries[i].matches /\ Convention[c] = "conditions" =>
         LET off == Capture(doc, Entries[i].fields)
         IN  /\ ~Stops(c, doc)
             /\ \A o \in Originals(off.doc, off.saved) : ~SameSpec(o.doc, off.doc)

\* And one: a resource that an entry turned down is halted, and every entry that deletes
\* what a schedule selects beside a custom resource comes after one that turns that
\* resource down, which no other schedule selects.
Pausing(docs) ==
    /\ \A c \in CRs, i \in 1..Len(Entries) : \A doc \in docs[c] :
         c \in Entries[i].matches =>
           LET off == Capture(doc, Entries[i].fields)
           IN  off.saved # NoFields /\ Stops(c, off.doc)
    /\ \A scope \in Scopes, s \in Schedules, c \in CRs, d \in Rebuilt, i \in 1..Len(Entries) :
         {c, d} \subseteq scope[s] /\ d \in Entries[i].matches =>
           /\ \A t \in Schedules \ {s} : c \notin scope[t]
           /\ \E j \in 1..(i - 1) : c \in Entries[j].matches

Owner(x) == IF x \in CRs THEN cr[x].by ELSE git[x].by

\* What a user wrote into a custom resource is in it, or comes out of it in
\* whatever order its captured fields are put back: repeated passes, failed and
\* conflicting updates, restarts and other schedules never capture a value that
\* LightsOut wrote.
OriginalsKept ==
    \A c \in CRs :
       IF cr[c].state = IsDown
       THEN \A o \in Originals(cr[c].doc, cr[c].saved) : o.ok /\ SameFields(o.doc, want[c])
       ELSE cr[c].saved = NoFields /\ SameFields(cr[c].doc, want[c])

\* An upscale starts no workload while its schedule still holds a custom resource
\* down, or waits for one to become ready.
DependenciesFirst ==
    [][\A s \in Schedules, w \in Workloads, c \in CRs :
         /\ rec[s].kind = "up" /\ {w, c} \subseteq Selects(s)
         /\ obj[w].size = 0 /\ obj'[w].size > 0
         => cr[c].by # s]_vars

\* A custom resource leaves its warmup before the timeout only when its pods are
\* ready, also while its status still tells of the time before the downscale and
\* other workloads of the namespace are ready.
GateHonest ==
    [][\A c \in CRs :
         /\ cr[c].state = WarmingUp /\ cr'[c].state = NoState /\ cr[c].since = Recent
         /\ Convention[c] = "conditions" /\ rec[cr[c].by].kind = "up"
         => pods[c] = "ready"]_vars

\* While a schedule holds a workload at zero, the Flux resources that it alone selects
\* cannot bring it back: they are suspended before the first workload goes down and
\* resumed after the last one is up.
HeldWhileDown ==
    \A s \in Schedules, w \in Workloads, f \in Flux :
       /\ {w, f} \subseteq Selects(s) /\ \A t \in Schedules \ {s} : f \notin Selects(t)
       /\ obj[w].saved # Absent /\ obj[w].by = s
       => git[f].suspend

\* LightsOut neither resumes nor takes over a Flux resource its user suspended.
UserSuspensionKept ==
    \A f \in Flux : IF git[f].by = NoOne THEN git[f].suspend = (f \in frozen)
                                         ELSE f \notin frozen

\* A custom resource or Flux resource that a schedule holds is let go by it alone.
OnlyOwnerReleases ==
    [][\A s \in Schedules, x \in CRs \cup Flux :
         Owner(x) = s /\ Owner(x)' # s => Held(s)' # Held(s)]_vars

\* The finalizer of a schedule whose cleanup found its namespaces is removed only when
\* the schedule holds no workload and no custom resource of what it selects.
CleanupLeavesNothing ==
    [][\A s \in Schedules :
         /\ sched[s].phase = "deleting" /\ sched'[s].phase = "absent"
         /\ rec[s].kind = "cleanup"
         => /\ \A c \in CRs \cap Selects(s) : cr[c].by # s
            /\ \A w \in Workloads \cap Selects(s) : obj[w].by # s]_vars

\* Until a call fails, a resource is deleted only when the custom resource that
\* makes its operator rebuild it is paused.
PausedFirst ==
    [][\A s \in Schedules, d \in Rebuilt, c \in CRs :
         /\ d \in there \ there' /\ faults = 0 /\ rec'[s] # rec[s]
         /\ {c, d} \subseteq Selects(s)
         => Halted(c)]_vars

\* An upscale that lasts, and is not kept out by a schedule of the namespace, reaches
\* every workload and lets go of every custom resource and GitOps object, whether or
\* not an operator ever reports ready.
UpCompletes(s) ==
    LET up == Live(s) /\ sched[s].up /\ ~Claimed(s)
        back == /\ \A w \in Workloads \cap Selects(s) : obj[w].size > 0
                /\ \A x \in CRs \cup Gits : Owner(x) # s
    IN  (up /\ s \in queued) ~> (back \/ ~up)
=============================================================================
