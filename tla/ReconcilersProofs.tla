-------------------------- MODULE ReconcilersProofs --------------------------
(***************************************************************************)
(* Theorems about Reconcilers, for any schedules, namespaces and workloads *)
(* and any number of failed calls.                                         *)
(***************************************************************************)
EXTENDS Reconcilers, TLAPS

USE ScalerAssumption, ReconcilersAssumption

-----------------------------------------------------------------------------
(* The types of what the helpers return *)

\* A schedule's record starts from, and returns to, an idle pass.
LEMMA IdleType == Idle \in Pass
<1>1. NoWorkload \in Workload
  BY DEF NoWorkload, Workload, Owners, Absent
<1>2. NoHpa \in Autoscaler
  BY DEF NoHpa, Autoscaler, Owners
<1>3. QED
  BY <1>1, <1>2 DEF Idle, Pass, Stages

\* Ending a visit keeps a pass a pass.
LEMMA DropType ==
    ASSUME NEW r \in Pass, NEW w \in Workloads PROVE Drop(r, w) \in Pass
<1>1. NoWorkload \in Workload /\ NoHpa \in Autoscaler
  BY DEF NoWorkload, Workload, NoHpa, Autoscaler, Owners, Absent
<1>2. QED
  BY <1>1 DEF Drop, Pass

\* Choosing what to visit keeps a pass a pass.
LEMMA VisitingType ==
    ASSUME NEW r \in Pass, NEW s \in Schedules, NEW ws \in SUBSET Workloads,
           NEW up \in BOOLEAN
    PROVE  Visiting(r, s, ws, up) \in Pass
<1>1. NoWorkload \in Workload /\ NoHpa \in Autoscaler
  BY DEF NoWorkload, Workload, NoHpa, Autoscaler, Owners, Absent
<1> DEFINE todo == {w \in ws : Acts(s, w, r.copy[w], r.hcopy[w], up)}
<1> HIDE DEF todo
<1>2. todo \in SUBSET Workloads
  BY DEF todo
<1> DEFINE copy == [w \in Workloads |-> IF w \in todo THEN r.copy[w] ELSE NoWorkload]
           hcopy == [w \in Workloads |-> IF w \in todo THEN r.hcopy[w] ELSE NoHpa]
<1>3. copy \in [Workloads -> Workload] /\ hcopy \in [Workloads -> Autoscaler]
  BY <1>1 DEF Pass
<1>4. Visiting(r, s, ws, up) =
        [r EXCEPT !.todo = todo, !.copy = copy, !.hcopy = hcopy]
  BY DEF Visiting, todo, Pass
<1> HIDE DEF copy, hcopy
<1>5. [r EXCEPT !.todo = todo] \in Pass
  BY <1>2, Zenon DEF Pass
<1>6. [[r EXCEPT !.todo = todo] EXCEPT !.copy = copy] \in Pass
  BY <1>3, <1>5, Zenon DEF Pass
<1>7. [[[r EXCEPT !.todo = todo] EXCEPT !.copy = copy] EXCEPT !.hcopy = hcopy] \in Pass
  BY <1>3, <1>6, Zenon DEF Pass
<1>8. QED
  BY <1>4, <1>7

-----------------------------------------------------------------------------
(* Types *)

\* Every write of the scaler and of the HPA helpers leaves a well-typed object.
LEMMA WriteType ==
    ASSUME NEW cur \in Workload, NEW copy \in Workload, NEW s \in Schedules
    PROVE  /\ Down(cur, copy, s) \in Workload
           /\ ScalesUp(copy, s) => Up(cur, copy) \in Workload
           /\ Mark(cur) \in Workload
           /\ Transfer(cur, s) \in Workload
BY DEF Workload, Owners, Down, Up, Mark, Transfer, ScalesUp, Absent, ByUser

\* So does every write of the HPA helpers.
LEMMA HpaWriteType ==
    ASSUME NEW cur \in Autoscaler, NEW copy \in Autoscaler, NEW s \in Schedules
    PROVE  /\ HpaDisable(cur, copy, s) \in Autoscaler
           /\ HpaReleases(copy, s) => HpaRestore(cur, copy) \in Autoscaler
BY DEF Autoscaler, Owners, HpaDisable, HpaRestore, HpaReleases, Disabled, NoPolicy

\* A failing call counts.
LEMMA FailsType == ASSUME TypeOK, NEW k, Fails(k) PROVE faults' \in Nat
BY DEF TypeOK, Fails

\* The pass of one schedule, or the schedule, is replaced.
LEMMA GoesType ==
    ASSUME TypeOK, NEW s \in Schedules, NEW r \in Pass, Goes(s, r)
    PROVE  rec' \in [Schedules -> Pass]
BY DEF TypeOK, Goes

\* The schedule object is replaced by another.
LEMMA BecomesType ==
    ASSUME TypeOK, NEW s \in Schedules, NEW x \in Schedule, Becomes(s, x)
    PROVE  sched' \in [Schedules -> Schedule]
BY DEF TypeOK, Becomes

\* What Writes leaves behind: an object after a write or as it was, and a pass.
LEMMA WritesType ==
    ASSUME TypeOK, NEW s \in Schedules, NEW w \in Workloads,
           NEW after \in Workload, NEW r \in Pass, Writes(s, w, after, r)
    PROVE  TypeOK'
<1>1. Drop(rec[s], w) \in Pass
  BY DropType DEF TypeOK
<1>2. [Drop(rec[s], w) EXCEPT !.errs = TRUE] \in Pass
  BY <1>1 DEF Pass
<1>3. CASE obj' = [obj EXCEPT ![w] = after] /\ Goes(s, r) /\ UNCHANGED faults
  BY <1>3, GoesType DEF TypeOK, Writes
<1>4. CASE /\ Fails(WriteOf(rec[s].stage))
           /\ obj' \in {obj, [obj EXCEPT ![w] = after]}
           /\ Goes(s, [Drop(rec[s], w) EXCEPT !.errs = TRUE])
  BY <1>2, <1>4, FailsType, GoesType DEF TypeOK, Writes
<1>5. QED
  BY <1>3, <1>4 DEF Writes

\* A write to an HPA, applied or failed, leaves an HPA.
LEMMA WritesHpaType ==
    ASSUME TypeOK, NEW w \in Workloads, NEW after \in Autoscaler, WritesHpa(w, after)
    PROVE  hpa' \in [Workloads -> Autoscaler] /\ faults' \in Nat
BY FailsType DEF TypeOK, WritesHpa

\* A visit is only made while the batch lasts, so spending one leaves a number.
LEMMA SpendType ==
    ASSUME TypeOK, NEW s \in Schedules, NEW w \in Workloads, Visits(s, w),
           NEW r \in Pass, r.stage = rec[s].stage, r.left = rec[s].left
    PROVE  Spend(r) \in Pass
<1>1. CASE r.stage = "scale"
  <2>1. r.left \in Nat /\ (BatchSize > 0 => r.left > 0)
    BY <1>1 DEF Visits, Pass
  <2> DEFINE left == IF BatchSize > 0 THEN r.left - 1 ELSE r.left
  <2>2. left \in Nat
    BY <2>1
  <2> DEFINE did == [r EXCEPT !.did = TRUE]
  <2>3. Spend(r) = [did EXCEPT !.left = left]
    BY <1>1 DEF Spend, Pass
  <2>4. did \in Pass
    BY Zenon DEF Pass
  <2> HIDE DEF left, did
  <2>5. [did EXCEPT !.left = left] \in Pass
    BY <2>2, <2>4, Zenon DEF Pass
  <2>6. QED
    BY <2>3, <2>5
<1>2. CASE r.stage # "scale"
  BY <1>2 DEF Spend
<1>3. QED
  BY <1>1, <1>2

\* A pass that gives up leaves an idle one and a queued schedule.
LEMMA AbortType ==
    ASSUME TypeOK, NEW s \in Schedules, Abort(s)
    PROVE  rec' \in [Schedules -> Pass] /\ queued' \in SUBSET Schedules
BY IdleType, GoesType DEF TypeOK, Abort

\* What a List of HPAs returns is an HPA for every workload.
LEMMA HPAsType ==
    ASSUME TypeOK, NEW nss PROVE HPAsOf(nss) \in [Workloads -> Autoscaler]
<1>1. NoHpa \in Autoscaler
  BY DEF NoHpa, Autoscaler, Owners
<1>2. QED
  BY <1>1 DEF TypeOK, HPAsOf

\* A schedule that does not exist is a schedule record too.
LEMMA NoScheduleType == NoSchedule \in Schedule
BY DEF NoSchedule, Schedule

\* Leaving out the claimed namespaces leaves namespaces.
LEMMA UnclaimedType ==
    ASSUME NEW nss \in SUBSET Namespaces PROVE Unclaimed(nss) \in SUBSET Namespaces
BY DEF Unclaimed

\* A reconcile's step keeps the types: one step per action.
LEMMA ReconcileType ==
    ASSUME TypeOK, NEW s \in Schedules, Reconcile(s) PROVE TypeOK'
<1> rec[s] \in Pass /\ sched[s] \in Schedule
  BY DEF TypeOK
<1>0. \A w \in Workloads :
         /\ obj[w] \in Workload /\ rec[s].copy[w] \in Workload
         /\ hpa[w] \in Autoscaler /\ rec[s].hcopy[w] \in Autoscaler
  BY DEF TypeOK, Pass
<1>1. CASE AddFinalizer(s)
  <2>1. [sched[s] EXCEPT !.finalizer = TRUE] \in Schedule
    BY DEF Schedule
  <2>2. QED
    BY <1>1, <2>1, BecomesType DEF TypeOK, AddFinalizer
<1>2. CASE SkipReconcile(s)
  BY <1>2 DEF TypeOK, SkipReconcile
<1>3. CASE BeginPass(s)
  <2> DEFINE pass(stage, nss) ==
               [Idle EXCEPT !.stage = stage, !.up = sched[s].up,
                            !.targets = sched[s].targets, !.ns = nss]
             orphaned == {n \in Namespaces \ sched[s].targets :
                            \E w \in Workloads : NsOf[w] = n /\ obj[w].label = s}
  <2>1. ASSUME NEW nss \in SUBSET Namespaces
        PROVE  pass("collect", nss) \in Pass /\ pass("orphans", nss) \in Pass
    BY IdleType DEF Schedule, Pass, Stages
  <2>2. s \in LocalSchedules => {Home[s]} \in SUBSET Namespaces
    OBVIOUS
  <2> HIDE DEF pass
  <2>3. \E r \in Pass : Goes(s, r)
    <3>1. CASE s \in LocalSchedules /\ Goes(s, pass("collect", {Home[s]}))
      BY <3>1, <2>1, <2>2
    <3>2. CASE Goes(s, pass("orphans", orphaned))
      BY <3>2, <2>1
    <3>3. CASE Goes(s, pass("orphans", {}))
      BY <3>3, <2>1
    <3>4. QED
      BY <1>3, <3>1, <3>2, <3>3 DEF BeginPass, pass
  <2>4. faults' \in Nat
    BY <1>3, FailsType DEF TypeOK, BeginPass
  <2>5. QED
    BY <1>3, <2>3, <2>4, GoesType DEF TypeOK, BeginPass
<1>4. CASE BeginDeletion(s)
  <2>1. Managed(s) \in SUBSET Namespaces
    BY DEF Schedule, Managed, Unclaimed
  <2>2. ASSUME NEW nss \in SUBSET Namespaces
        PROVE  [Idle EXCEPT !.stage = "restore", !.ns = nss] \in Pass
    BY IdleType DEF Pass, Stages
  <2>3. [Idle EXCEPT !.stage = "restore"] \in Pass
    BY IdleType DEF Pass, Stages
  <2>4. \E r \in Pass : Goes(s, r)
    BY <1>4, <2>1, <2>2, <2>3 DEF BeginDeletion
  <2>5. faults' \in Nat
    BY <1>4, FailsType DEF TypeOK, BeginDeletion
  <2>6. QED
    BY <1>4, <2>4, <2>5, GoesType DEF TypeOK, BeginDeletion
<1>5. ASSUME NEW n \in Namespaces, ListRestoredHPAs(s, n) PROVE TypeOK'
  <2>1. ASSUME NEW h \in [Workloads -> Autoscaler]
        PROVE  [rec[s] EXCEPT !.ns = @ \ {n}, !.here = n, !.hcopy = h] \in Pass
    BY DEF Pass
  <2>2. \E r \in Pass : Goes(s, r)
    BY <1>5, <2>1, HPAsType DEF ListRestoredHPAs
  <2>3. faults' \in Nat
    BY <1>5, FailsType DEF TypeOK, ListRestoredHPAs
  <2>4. QED
    BY <1>5, <2>2, <2>3, GoesType DEF TypeOK, ListRestoredHPAs
<1>6. CASE ListManaged(s)
  <2> DEFINE r == [rec[s] EXCEPT !.here = NoOne]
             ws == {w \in Workloads : NsOf[w] = rec[s].here /\ obj[w].label = s}
  <2>1. [r EXCEPT !.copy = obj] \in Pass /\ [r EXCEPT !.errs = TRUE] \in Pass
    BY DEF Pass, TypeOK
  <2>2. \E x \in Pass : Goes(s, x)
    <3>1. CASE Goes(s, Visiting([r EXCEPT !.copy = obj], s, ws, TRUE))
      BY <3>1, <2>1, VisitingType
    <3>2. CASE Goes(s, Visiting([r EXCEPT !.errs = TRUE], s, {}, TRUE))
      BY <3>2, <2>1, VisitingType
    <3>3. QED
      BY <1>6, <3>1, <3>2 DEF ListManaged
  <2>3. faults' \in Nat
    BY <1>6, FailsType DEF TypeOK, ListManaged
  <2>4. QED
    BY <1>6, <2>2, <2>3, GoesType DEF TypeOK, ListManaged
<1>7. CASE FilterNamespaces(s)
  <2>1. [rec[s] EXCEPT !.stage = "collect", !.ns = Unclaimed(rec[s].targets)] \in Pass
    BY UnclaimedType DEF Pass, Stages
  <2>2. rec' \in [Schedules -> Pass] /\ queued' \in SUBSET Schedules
    BY <1>7, <2>1, GoesType, AbortType DEF TypeOK, FilterNamespaces
  <2>3. faults' \in Nat
    BY <1>7, FailsType DEF TypeOK, FilterNamespaces
  <2>4. QED
    BY <1>7, <2>2, <2>3 DEF TypeOK, FilterNamespaces
<1>8. ASSUME NEW n \in Namespaces, Collect(s, n) PROVE TypeOK'
  <2> DEFINE ws == {w \in Workloads : NsOf[w] = n} \ Excluded[s]
             copy == [w \in Workloads |-> IF w \in ws THEN obj[w] ELSE rec[s].copy[w]]
  <2>1. copy \in [Workloads -> Workload]
    BY DEF TypeOK, Pass
  <2>2. [rec[s] EXCEPT !.ns = @ \ {n}, !.todo = @ \cup ws, !.copy = copy] \in Pass
    BY <2>1 DEF Pass
  <2>3. rec' \in [Schedules -> Pass] /\ queued' \in SUBSET Schedules
    BY <1>8, <2>2, GoesType, AbortType DEF TypeOK, Collect
  <2>4. faults' \in Nat
    BY <1>8, FailsType DEF TypeOK, Collect
  <2>5. QED
    BY <1>8, <2>3, <2>4 DEF TypeOK, Collect
<1>9. CASE ListHPAs(s)
  <2>1. ASSUME NEW h \in [Workloads -> Autoscaler]
        PROVE  [rec[s] EXCEPT !.stage = "scale", !.hcopy = h] \in Pass
    <3>1. [rec[s] EXCEPT !.stage = "scale"] \in Pass
      BY Zenon DEF Pass, Stages
    <3>2. [[rec[s] EXCEPT !.stage = "scale"] EXCEPT !.hcopy = h] \in Pass
      BY <3>1, Zenon DEF Pass
    <3>3. QED
      BY <3>2
  <2>2. rec[s].todo \in SUBSET Workloads /\ rec[s].up \in BOOLEAN
    BY DEF Pass
  <2>3. ASSUME NEW nss
        PROVE  Visiting([rec[s] EXCEPT !.stage = "scale", !.hcopy = HPAsOf(nss)],
                        s, rec[s].todo, rec[s].up) \in Pass
    BY <2>1, <2>2, HPAsType, VisitingType
  <2>4. \E x \in Pass : Goes(s, x)
    BY <1>9, <2>3 DEF ListHPAs
  <2>5. faults' \in Nat
    BY <1>9, FailsType DEF TypeOK, ListHPAs
  <2>6. QED
    BY <1>9, <2>4, <2>5, GoesType DEF TypeOK, ListHPAs
<1>10. ASSUME NEW w \in Workloads, TakeOver(s, w) PROVE TypeOK'
  <2>1. Transfer(obj[w], s) \in Workload
    BY <1>0, WriteType
  <2>2. [rec[s] EXCEPT !.copy[w] = Transfer(obj[w], s)] \in Pass
    BY <2>1 DEF Pass
  <2>3. rec' \in [Schedules -> Pass]
    BY <1>10, <2>2, DropType, GoesType DEF TakeOver
  <2>4. obj' \in [Workloads -> Workload]
    BY <1>10, <2>1 DEF TypeOK, TakeOver
  <2>5. faults' \in Nat
    BY <1>10, FailsType DEF TypeOK, TakeOver
  <2>6. QED
    BY <1>10, <2>3, <2>4, <2>5 DEF TypeOK, TakeOver
<1>11. ASSUME NEW w \in Workloads, DisableHpa(s, w) PROVE TypeOK'
  <2>1. [rec[s] EXCEPT !.at = w] \in Pass
    BY DEF Pass
  <2>2. HpaDisable(hpa[w], rec[s].hcopy[w], s) \in Autoscaler
    BY <1>0, HpaWriteType
  <2>3. hpa' \in [Workloads -> Autoscaler] /\ faults' \in Nat
    BY <1>11, <2>2, WritesHpaType DEF TypeOK, DisableHpa
  <2>4. QED
    BY <1>11, <2>1, <2>3, GoesType DEF TypeOK, DisableHpa
<1>12. ASSUME NEW w \in Workloads, ScaleDown(s, w) PROVE TypeOK'
  <2>1. Down(obj[w], rec[s].copy[w], s) \in Workload
    BY <1>0, WriteType
  <2>2. Drop(rec[s], w) \in Pass
    BY DropType
  <2>3. Drop(rec[s], w).stage = rec[s].stage /\ Drop(rec[s], w).left = rec[s].left
    BY DEF Drop, Pass
  <2>4. Spend(Drop(rec[s], w)) \in Pass
    BY <1>12, <2>2, <2>3, SpendType DEF ScaleDown
  <2>5. QED
    BY <1>12, <2>1, <2>4, WritesType DEF ScaleDown
<1>13. ASSUME NEW w \in Workloads, ScaleUp(s, w) PROVE TypeOK'
  <2>1. Up(obj[w], rec[s].copy[w]) \in Workload
    BY <1>0, <1>13, WriteType DEF ScaleUp
  <2>2. Drop(rec[s], w) \in Pass /\ [rec[s] EXCEPT !.at = w] \in Pass
    BY DropType DEF Pass
  <2>3. /\ Drop(rec[s], w).stage = rec[s].stage
        /\ Drop(rec[s], w).left = rec[s].left
        /\ [rec[s] EXCEPT !.at = w].stage = rec[s].stage
        /\ [rec[s] EXCEPT !.at = w].left = rec[s].left
    BY DEF Drop, Pass
  <2>4. Spend(Drop(rec[s], w)) \in Pass /\ Spend([rec[s] EXCEPT !.at = w]) \in Pass
    BY <1>13, <2>2, <2>3, SpendType DEF ScaleUp
  <2>5. QED
    BY <1>13, <2>1, <2>4, WritesType DEF ScaleUp
<1>14. ASSUME NEW w \in Workloads, MarkUserSuspended(s, w) PROVE TypeOK'
  <2>1. Mark(obj[w]) \in Workload
    BY DEF TypeOK, Workload, Mark
  <2>2. Drop(rec[s], w) \in Pass
    BY DropType
  <2>3. QED
    BY <1>14, <2>1, <2>2, WritesType DEF MarkUserSuspended
<1>15. ASSUME NEW w \in Workloads, RestoreHpa(s, w) PROVE TypeOK'
  <2>1. HpaRestore(hpa[w], rec[s].hcopy[w]) \in Autoscaler
    BY <1>0, <1>15, HpaWriteType DEF RestoreHpa
  <2>2. hpa' \in [Workloads -> Autoscaler] /\ faults' \in Nat
    BY <1>15, <2>1, WritesHpaType DEF RestoreHpa
  <2>3. QED
    BY <1>15, <2>2, DropType, GoesType DEF TypeOK, RestoreHpa
<1>16. CASE EndPass(s)
  <2>1. faults' \in Nat
    BY <1>16, FailsType DEF TypeOK, EndPass
  <2>2. QED
    BY <1>16, <2>1, IdleType, GoesType, AbortType DEF TypeOK, EndPass
<1>17. CASE EndBatch(s)
  BY <1>17, AbortType DEF TypeOK, EndBatch
<1>18. CASE EndDeletion(s)
  <2>1. faults' \in Nat
    BY <1>18, FailsType DEF TypeOK, EndDeletion
  <2>2. rec' \in [Schedules -> Pass] /\ queued' \in SUBSET Schedules
    BY <1>18, IdleType, GoesType, AbortType DEF TypeOK, EndDeletion
  <2>3. sched' \in [Schedules -> Schedule]
    BY <1>18, NoScheduleType, BecomesType DEF TypeOK, EndDeletion
  <2>4. QED
    BY <1>18, <2>1, <2>2, <2>3 DEF TypeOK, EndDeletion
<1>19. QED
  BY <1>1, <1>2, <1>3, <1>4, <1>5, <1>6, <1>7, <1>8, <1>9, <1>10, <1>11, <1>12,
     <1>13, <1>14, <1>15, <1>16, <1>17, <1>18 DEF Reconcile

\* So does a step of a user, of time or of the process.
LEMMA EnvironmentType == ASSUME TypeOK, Environment PROVE TypeOK'
<1>1. ASSUME NEW s \in Schedules, Create(s) PROVE TypeOK'
  <2>1. ASSUME NEW up \in BOOLEAN, NEW tgt \in TargetSets
        PROVE  [NoSchedule EXCEPT !.phase = "live", !.up = up,
                   !.suspend = ("born suspended" \in Moves /\ s \in LocalSchedules),
                   !.targets = IF s \in LocalSchedules THEN {} ELSE tgt] \in Schedule
    <3>1. (IF s \in LocalSchedules THEN {} ELSE tgt) \in SUBSET Namespaces
      OBVIOUS
    <3>2. ("born suspended" \in Moves /\ s \in LocalSchedules) \in BOOLEAN
      OBVIOUS
    <3>3. QED
      BY <3>1, <3>2, NoScheduleType DEF Schedule
  <2>2. \E x \in Schedule : Becomes(s, x)
    BY <1>1, <2>1 DEF Create
  <2>3. QED
    BY <1>1, <2>2, BecomesType DEF TypeOK, Create
<1>2. ASSUME NEW s \in Schedules, Suspend(s) PROVE TypeOK'
  <2> DEFINE x(b) == [sched[s] EXCEPT !.suspend = b]
  <2>1. sched[s] \in Schedule
    BY DEF TypeOK
  <2>2. ASSUME NEW b \in BOOLEAN PROVE x(b) \in Schedule
    BY <2>1 DEF Schedule
  <2>3. Becomes(s, x(~sched[s].suspend))
    BY <1>2, Zenon DEF Suspend
  <2> HIDE DEF x
  <2>4. x(~sched[s].suspend) \in Schedule
    BY <2>2
  <2>5. QED
    BY <1>2, <2>3, <2>4, BecomesType DEF TypeOK, Suspend
<1>3. ASSUME NEW s \in Schedules, Retarget(s) PROVE TypeOK'
  <2>1. ASSUME NEW tgt \in TargetSets
        PROVE  [sched[s] EXCEPT !.targets = tgt] \in Schedule
    BY DEF TypeOK, Schedule
  <2>2. \E x \in Schedule : Becomes(s, x)
    BY <1>3, <2>1 DEF Retarget
  <2>3. QED
    BY <1>3, <2>2, BecomesType DEF TypeOK, Retarget
<1>4. ASSUME NEW s \in Schedules, Delete(s) PROVE TypeOK'
  <2>1. [sched[s] EXCEPT !.phase = "deleting"] \in Schedule
    BY DEF TypeOK, Schedule
  <2>2. QED
    BY <1>4, <2>1, NoScheduleType, BecomesType DEF TypeOK, Delete
<1>5. ASSUME NEW s \in Schedules, Flip(s) PROVE TypeOK'
  <2> DEFINE x(b) == [sched[s] EXCEPT !.up = b]
  <2>1. sched[s] \in Schedule
    BY DEF TypeOK
  <2>2. ASSUME NEW b \in BOOLEAN PROVE x(b) \in Schedule
    BY <2>1 DEF Schedule
  <2>3. Becomes(s, x(~sched[s].up))
    BY <1>5, Zenon DEF Flip
  <2> HIDE DEF x
  <2>4. x(~sched[s].up) \in Schedule
    BY <2>2
  <2>5. QED
    BY <1>5, <2>3, <2>4, BecomesType DEF TypeOK, Flip
<1>6. ASSUME NEW w \in Workloads, Edit(w) PROVE TypeOK'
  <2>1. ASSUME NEW n \in Sizes PROVE n \in Nat /\ [obj[w] EXCEPT !.size = n] \in Workload
    BY DEF TypeOK, Workload
  <2>2. obj' \in [Workloads -> Workload] /\ want' \in [Workloads -> Nat]
    BY <1>6, <2>1 DEF TypeOK, Edit
  <2>3. QED
    BY <1>6, <2>2 DEF TypeOK, Edit
<1>7. CASE Restart
  BY <1>7, IdleType, FailsType DEF TypeOK, Restart
<1>8. QED
  BY <1>1, <1>2, <1>3, <1>4, <1>5, <1>6, <1>7 DEF Environment

\* A cluster LightsOut was just installed in is well typed.
LEMMA TypeInit == ASSUME Init PROVE TypeOK
<1>1. sched \in [Schedules -> Schedule] /\ rec \in [Schedules -> Pass]
  BY NoScheduleType, IdleType DEF Init
<1>2. want \in [Workloads -> Nat]
  BY DEF Init
<1>3. ASSUME NEW w \in Workloads
      PROVE  /\ [NoWorkload EXCEPT !.size = want[w]] \in Workload
             /\ [NoHpa EXCEPT !.policy = UserPolicy[w]] \in Autoscaler
  BY <1>2 DEF NoWorkload, Workload, NoHpa, Autoscaler, Owners, Absent
<1>4. QED
  BY <1>1, <1>2, <1>3 DEF Init, TypeOK

\* Every step keeps the types.
LEMMA TypeStep == ASSUME TypeOK, [Next]_vars PROVE TypeOK'
<1>1. CASE UNCHANGED vars
  BY <1>1 DEF TypeOK, vars
<1>2. QED
  BY <1>1, ReconcileType, EnvironmentType DEF Next

\* Every reachable state is well typed: no pass leaves a workload, an HPA, a
\* schedule or a pass in a form the code does not know, and no batch is overdrawn.
THEOREM TypeCorrect == Spec => []TypeOK
<1>1. Init => TypeOK
  BY TypeInit
<1>2. TypeOK /\ [Next]_vars => TypeOK'
  BY TypeStep
<1>3. QED
  BY <1>1, <1>2, PTL DEF Spec

-----------------------------------------------------------------------------
(* What a pass holds *)

\* A downscale in progress visits only workloads whose copies are to be scaled
\* down: neither down already, nor at zero, nor another schedule's.
DownCopies(s, r) ==
    r.stage = "scale" /\ ~r.up => \A w \in r.todo : ScalesDown(r.copy[w], s)

CopiesOK == \A s \in Schedules : DownCopies(s, rec[s])

\* The pass v visits some of the workloads ws with the copies r had of them.
Visited(r, s, ws, up, v) ==
    /\ v.stage = r.stage /\ v.up = r.up /\ v.todo \subseteq ws
    /\ \A w \in v.todo : /\ v.copy[w] = r.copy[w] /\ v.hcopy[w] = r.hcopy[w]
                         /\ Acts(s, w, r.copy[w], r.hcopy[w], up)
    /\ \A w \in Workloads \ v.todo : v.hcopy[w] = NoHpa

\* Choosing what to visit changes no copy of what is visited.
LEMMA VisitingKeeps ==
    ASSUME NEW r \in Pass, NEW s \in Schedules, NEW ws \in SUBSET Workloads,
           NEW up \in BOOLEAN
    PROVE  Visited(r, s, ws, up, Visiting(r, s, ws, up))
<1> DEFINE v == Visiting(r, s, ws, up)
           todo == {w \in ws : Acts(s, w, r.copy[w], r.hcopy[w], up)}
           copy == [w \in Workloads |-> IF w \in todo THEN r.copy[w] ELSE NoWorkload]
           hcopy == [w \in Workloads |-> IF w \in todo THEN r.hcopy[w] ELSE NoHpa]
<1>1. /\ todo \subseteq ws
      /\ \A w \in todo : Acts(s, w, r.copy[w], r.hcopy[w], up)
  OBVIOUS
<1>2. \A w \in todo : copy[w] = r.copy[w] /\ hcopy[w] = r.hcopy[w]
  BY <1>1
<1>3. \A w \in Workloads \ todo : hcopy[w] = NoHpa
  OBVIOUS
<1>4. Visiting(r, s, ws, up) =
        [r EXCEPT !.todo = todo, !.copy = copy, !.hcopy = hcopy]
  BY DEF Visiting, todo, Pass
<1>5. v = Visiting(r, s, ws, up)
  OBVIOUS
<1> HIDE DEF v, todo, copy, hcopy
<1>6. /\ v.stage = r.stage /\ v.up = r.up
      /\ v.todo = todo /\ v.copy = copy /\ v.hcopy = hcopy
  BY <1>4, <1>5 DEF Pass
<1>7. Visited(r, s, ws, up, v)
  BY <1>1, <1>2, <1>3, <1>6 DEF Visited
<1>8. QED
  BY <1>7 DEF v

\* Ending a visit changes nothing of the other visits.
LEMMA DropKeeps ==
    ASSUME NEW r \in Pass, NEW w \in Workloads
    PROVE  /\ Drop(r, w).stage = r.stage /\ Drop(r, w).up = r.up
           /\ Drop(r, w).todo = r.todo \ {w}
           /\ \A v \in Workloads \ {w} : /\ Drop(r, w).copy[v] = r.copy[v]
                                         /\ Drop(r, w).hcopy[v] = r.hcopy[v]
           /\ Drop(r, w).hcopy[w] = NoHpa
BY DEF Drop, Pass

\* Spending from the batch changes no copy.
LEMMA SpendKeeps ==
    ASSUME NEW r \in Pass
    PROVE  /\ Spend(r).stage = r.stage /\ Spend(r).up = r.up /\ Spend(r).todo = r.todo
           /\ Spend(r).copy = r.copy /\ Spend(r).hcopy = r.hcopy
BY DEF Spend, Pass

\* Every copy in hand was held before or was just read (or is what a transfer
\* returned), and a downscale still visits only what it may scale down.
Follows(s, x) ==
    /\ \A w \in x.todo : \/ w \in rec[s].todo /\ x.copy[w] = rec[s].copy[w]
                         \/ x.copy[w] = obj[w]
                         \/ x.copy[w] = Transfer(obj[w], s)
    /\ \A w \in Workloads : x.hcopy[w] \in {rec[s].hcopy[w], hpa[w], NoHpa}
    /\ DownCopies(s, rec[s]) => DownCopies(s, x)

\* An idle pass holds no copies at all.
LEMMA IdleFollows == ASSUME NEW s PROVE Follows(s, Idle)
BY DEF Follows, DownCopies, Idle

\* Ending a visit leaves the other copies as they were.
LEMMA DropFollows ==
    ASSUME TypeOK, NEW s \in Schedules, NEW w \in Workloads
    PROVE  Follows(s, Drop(rec[s], w))
<1>1. rec[s] \in Pass /\ rec[s].todo \subseteq Workloads
  BY DEF TypeOK, Pass
<1>2. QED
  BY <1>1, DropKeeps DEF Follows, DownCopies

\* The same copies after a change of at, left or errs.
LEMMA SameFollows ==
    ASSUME TypeOK, NEW s \in Schedules, NEW x, x.stage = rec[s].stage, x.up = rec[s].up,
           x.todo = rec[s].todo, x.copy = rec[s].copy, x.hcopy = rec[s].hcopy
    PROVE  Follows(s, x)
BY DEF Follows, DownCopies

\* Spending from the batch leaves the copies as they were.
LEMMA SpendFollows ==
    ASSUME NEW s \in Schedules, NEW x \in Pass, Follows(s, x) PROVE Follows(s, Spend(x))
BY SpendKeeps DEF Follows, DownCopies

\* So does a failed write, which also notes the error.
LEMMA FailFollows ==
    ASSUME TypeOK, NEW s \in Schedules, NEW w \in Workloads
    PROVE  Follows(s, [Drop(rec[s], w) EXCEPT !.errs = TRUE])
<1> DEFINE d == Drop(rec[s], w)
           e == [d EXCEPT !.errs = TRUE]
<1>1. d \in Pass /\ Follows(s, d)
  BY DropType, DropFollows DEF TypeOK
<1> HIDE DEF d
<1>2. e.stage = d.stage /\ e.up = d.up /\ e.todo = d.todo /\ e.copy = d.copy /\ e.hcopy = d.hcopy
  BY <1>1 DEF Pass
<1> HIDE DEF e
<1>3. Follows(s, e)
  BY <1>1, <1>2 DEF Follows, DownCopies
<1>4. QED
  BY <1>3 DEF d, e

\* So does a write, applied or failed.
LEMMA WritesFollows ==
    ASSUME TypeOK, NEW s \in Schedules, NEW w \in Workloads, NEW after, NEW r,
           Follows(s, r), Writes(s, w, after, r)
    PROVE  \E x : Goes(s, x) /\ Follows(s, x)
BY FailFollows DEF Writes

\* Every step of a reconcile leaves a pass that follows from the one before.
LEMMA PassStep ==
    ASSUME TypeOK, NEW s \in Schedules, Reconcile(s)
    PROVE  UNCHANGED rec \/ \E x : Goes(s, x) /\ Follows(s, x)
<1> DEFINE Next_ == \E x : Goes(s, x) /\ Follows(s, x)
<1>0. rec[s] \in Pass /\ obj \in [Workloads -> Workload]
  BY DEF TypeOK
<1>1. CASE AddFinalizer(s) \/ SkipReconcile(s)
  BY <1>1 DEF AddFinalizer, SkipReconcile
<1>2. CASE BeginPass(s) \/ BeginDeletion(s)
  <2> DEFINE Fresh(x) == x.todo = {} /\ x.hcopy = Idle.hcopy /\ x.stage # "scale"
  <2>1. ASSUME NEW x, Fresh(x) PROVE Follows(s, x)
    BY <2>1 DEF Follows, DownCopies, Idle
  <2>2. ASSUME NEW nss
        PROVE  /\ Fresh([Idle EXCEPT !.stage = "collect", !.up = sched[s].up,
                                     !.targets = sched[s].targets, !.ns = nss])
               /\ Fresh([Idle EXCEPT !.stage = "orphans", !.up = sched[s].up,
                                     !.targets = sched[s].targets, !.ns = nss])
               /\ Fresh([Idle EXCEPT !.stage = "restore", !.ns = nss])
               /\ Fresh([Idle EXCEPT !.stage = "restore"])
    BY DEF Idle
  <2> HIDE DEF Fresh
  <2>3. CASE BeginPass(s)
    BY <2>1, <2>2, <2>3 DEF BeginPass
  <2>4. CASE BeginDeletion(s)
    BY <2>1, <2>2, <2>4 DEF BeginDeletion
  <2>5. QED
    BY <1>2, <2>3, <2>4
<1>3. ASSUME NEW n \in Namespaces, ListRestoredHPAs(s, n) PROVE Next_
  <2>1. \E x, nss : /\ Goes(s, x) /\ x.todo = rec[s].todo /\ x.hcopy = HPAsOf(nss)
                    /\ x.stage = rec[s].stage /\ rec[s].todo = {}
    BY <1>0, <1>3 DEF ListRestoredHPAs, Pass
  <2>2. QED
    BY <2>1 DEF Follows, DownCopies, HPAsOf
<1>4. CASE ListManaged(s)
  <2> DEFINE r == [rec[s] EXCEPT !.here = NoOne]
             ws == {w \in Workloads : NsOf[w] = rec[s].here /\ obj[w].label = s}
             a == [r EXCEPT !.copy = obj]
             b == [r EXCEPT !.errs = TRUE]
  <2>1. /\ a \in Pass /\ a.copy = obj /\ a.hcopy = rec[s].hcopy /\ a.stage = rec[s].stage
        /\ b \in Pass /\ b.hcopy = rec[s].hcopy /\ b.stage = rec[s].stage
    BY <1>0 DEF Pass
  <2>2. rec[s].stage # "scale"
    BY <1>4 DEF ListManaged
  <2>3. Goes(s, Visiting(a, s, ws, TRUE)) \/ Goes(s, Visiting(b, s, {}, TRUE))
    BY <1>4 DEF ListManaged
  <2> HIDE DEF a, b, ws, r
  <2>4. ws \in SUBSET Workloads
    BY DEF ws
  <2> DEFINE va == Visiting(a, s, ws, TRUE)
             vb == Visiting(b, s, {}, TRUE)
  <2>5. Visited(a, s, ws, TRUE, va) /\ Visited(b, s, {}, TRUE, vb)
    BY <2>1, <2>4, VisitingKeeps
  <2> HIDE DEF va, vb
  <2>7. Follows(s, va)
    BY <2>1, <2>2, <2>5 DEF Follows, DownCopies, Visited
  <2>8. Follows(s, vb)
    BY <2>1, <2>2, <2>5 DEF Follows, DownCopies, Visited
  <2>9. QED
    BY <2>3, <2>7, <2>8 DEF va, vb
<1>5. CASE FilterNamespaces(s)
  <2> DEFINE x == [rec[s] EXCEPT !.stage = "collect", !.ns = Unclaimed(rec[s].targets)]
  <2>1. x.todo = {} /\ x.hcopy = rec[s].hcopy /\ x.stage = "collect"
    BY <1>0, <1>5 DEF FilterNamespaces, Pass
  <2>2. Follows(s, x)
    BY <2>1 DEF Follows, DownCopies
  <2>3. Goes(s, x) \/ Goes(s, Idle)
    BY <1>5 DEF FilterNamespaces, Abort
  <2>4. QED
    BY <2>2, <2>3, IdleFollows
<1>6. ASSUME NEW n \in Namespaces, Collect(s, n) PROVE Next_
  <2> DEFINE ws == {w \in Workloads : NsOf[w] = n} \ Excluded[s]
             copy == [w \in Workloads |-> IF w \in ws THEN obj[w] ELSE rec[s].copy[w]]
             x == [rec[s] EXCEPT !.ns = @ \ {n}, !.todo = @ \cup ws, !.copy = copy]
  <2>1. CASE Abort(s)
    BY <2>1, IdleFollows DEF Abort
  <2>2. CASE Goes(s, x)
    <3>1. /\ x.stage = "collect" /\ x.todo = rec[s].todo \cup ws
          /\ x.copy = copy /\ x.hcopy = rec[s].hcopy
      BY <1>0, <1>6 DEF Collect, Pass
    <3>2. \A w \in x.todo : x.copy[w] = obj[w]
                           \/ (w \in rec[s].todo /\ x.copy[w] = rec[s].copy[w])
      BY <1>0, <3>1 DEF Pass
    <3>3. Follows(s, x)
      BY <3>1, <3>2 DEF Follows, DownCopies
    <3>4. QED
      BY <2>2, <3>3
  <2>3. QED
    BY <1>6, <2>1, <2>2 DEF Collect
<1>7. CASE ListHPAs(s)
  <2> DEFINE a(nss) == [rec[s] EXCEPT !.stage = "scale", !.hcopy = HPAsOf(nss)]
  <2>1. PICK nss : Goes(s, Visiting(a(nss), s, rec[s].todo, rec[s].up))
    BY <1>7 DEF ListHPAs
  <2>2. /\ a(nss) \in Pass /\ a(nss).copy = rec[s].copy /\ a(nss).up = rec[s].up
        /\ a(nss).hcopy = HPAsOf(nss)
    BY <1>0, HPAsType DEF Pass, Stages
  <2>3. rec[s].todo \in SUBSET Workloads /\ rec[s].up \in BOOLEAN
    BY <1>0 DEF Pass
  <2>4. \A w \in Workloads : HPAsOf(nss)[w] \in {hpa[w], NoHpa}
    BY DEF HPAsOf
  <2> DEFINE v == Visiting(a(nss), s, rec[s].todo, rec[s].up)
  <2>5. v = Visiting(a(nss), s, rec[s].todo, rec[s].up)
    OBVIOUS
  <2> HIDE DEF a, v
  <2>6. Visited(a(nss), s, rec[s].todo, rec[s].up, v)
    BY <2>2, <2>3, <2>5, VisitingKeeps
  <2>7. /\ v.up = rec[s].up /\ v.todo \subseteq rec[s].todo
        /\ \A w \in v.todo : /\ v.copy[w] = rec[s].copy[w] /\ v.hcopy[w] = HPAsOf(nss)[w]
                             /\ Acts(s, w, rec[s].copy[w], HPAsOf(nss)[w], rec[s].up)
        /\ \A w \in Workloads \ v.todo : v.hcopy[w] = NoHpa
    BY <2>2, <2>6 DEF Visited
  <2>8. DownCopies(s, v)
    BY <2>7 DEF DownCopies, Acts
  <2>9. Follows(s, v)
    BY <2>4, <2>7, <2>8 DEF Follows
  <2>10. QED
    BY <2>1, <2>9 DEF v
<1>8. ASSUME NEW w \in Workloads, TakeOver(s, w) PROVE Next_
  <2> DEFINE x == [rec[s] EXCEPT !.copy[w] = Transfer(obj[w], s)]
  <2>1. /\ x.stage = "collect" /\ x.todo = rec[s].todo /\ x.hcopy = rec[s].hcopy
        /\ \A v \in Workloads : x.copy[v] = IF v = w THEN Transfer(obj[w], s)
                                                   ELSE rec[s].copy[v]
    BY <1>0, <1>8 DEF TakeOver, Pass
  <2>2. x.todo \subseteq Workloads
    BY <1>0, <2>1 DEF Pass
  <2>3. Follows(s, x)
    BY <2>1, <2>2 DEF Follows, DownCopies
  <2>4. Goes(s, x) \/ Goes(s, Drop(rec[s], w))
    BY <1>8 DEF TakeOver
  <2>5. QED
    BY <2>3, <2>4, DropFollows
<1>9. ASSUME NEW w \in Workloads,
             DisableHpa(s, w) \/ ScaleDown(s, w) \/ ScaleUp(s, w)
               \/ MarkUserSuspended(s, w) \/ RestoreHpa(s, w)
      PROVE  Next_
  <2> DEFINE at == [rec[s] EXCEPT !.at = w]
             dropped == Drop(rec[s], w)
  <2>1. at \in Pass /\ Follows(s, at)
    <3>1. /\ at \in Pass /\ at.stage = rec[s].stage /\ at.up = rec[s].up
          /\ at.todo = rec[s].todo /\ at.copy = rec[s].copy /\ at.hcopy = rec[s].hcopy
      BY <1>0 DEF Pass
    <3>2. QED
      BY <3>1, SameFollows
  <2>2. dropped \in Pass /\ Follows(s, dropped)
    BY <1>0, DropType, DropFollows
  <2>3. Follows(s, Spend(at)) /\ Follows(s, Spend(dropped))
    BY <2>1, <2>2, SpendFollows
  <2>4. CASE DisableHpa(s, w)
    BY <2>1, <2>4 DEF DisableHpa
  <2>5. CASE ScaleDown(s, w)
    BY <2>3, <2>5, WritesFollows DEF ScaleDown
  <2>6. CASE ScaleUp(s, w)
    BY <2>3, <2>6, WritesFollows DEF ScaleUp
  <2>7. CASE MarkUserSuspended(s, w)
    BY <2>2, <2>7, WritesFollows DEF MarkUserSuspended
  <2>8. CASE RestoreHpa(s, w)
    BY <2>2, <2>8 DEF RestoreHpa
  <2>9. QED
    BY <1>9, <2>4, <2>5, <2>6, <2>7, <2>8
<1>10. CASE EndPass(s) \/ EndBatch(s) \/ EndDeletion(s)
  BY <1>10, IdleFollows DEF EndPass, EndBatch, EndDeletion, Abort
<1>11. QED
  BY <1>1, <1>2, <1>3, <1>4, <1>5, <1>6, <1>7, <1>8, <1>9, <1>10 DEF Reconcile

\* So every downscale in progress, at any time, holds only such copies.
LEMMA CopiesStep == ASSUME TypeOK, CopiesOK, [Next]_vars PROVE CopiesOK'
<1>1. CASE UNCHANGED vars
  BY <1>1 DEF CopiesOK, vars
<1>2. ASSUME NEW s \in Schedules, Reconcile(s) PROVE CopiesOK'
  <2>1. CASE UNCHANGED rec
    BY <2>1 DEF CopiesOK
  <2>2. ASSUME NEW x, Goes(s, x), Follows(s, x) PROVE CopiesOK'
    <3>1. DownCopies(s, x)
      BY <2>2 DEF CopiesOK, Follows
    <3>2. \A q \in Schedules : rec'[q] = IF q = s THEN x ELSE rec[q]
      BY <2>2 DEF Goes, TypeOK
    <3>3. ASSUME NEW q \in Schedules PROVE DownCopies(q, rec'[q])
      BY <3>1, <3>2 DEF CopiesOK
    <3>4. QED
      BY <3>3 DEF CopiesOK, DownCopies
  <2>3. QED
    BY <1>2, <2>1, <2>2, PassStep
<1>3. CASE Environment
  <2>1. UNCHANGED rec \/ rec' = [q \in Schedules |-> Idle]
    BY <1>3 DEF Environment, Create, Suspend, Retarget, Delete, Flip, Edit, Restart
  <2>2. \A q \in Schedules : DownCopies(q, Idle)
    BY DEF DownCopies, Idle
  <2>3. QED
    BY <2>1, <2>2 DEF CopiesOK, DownCopies
<1>4. QED
  BY <1>1, <1>2, <1>3 DEF Next

-----------------------------------------------------------------------------
(* What a step does to the workloads *)

\* A write of schedule s to workload w, by the copy s holds of it.
WrittenBy(s, w, after) ==
    LET copy == rec[s].copy[w]
    IN  \/ after = Transfer(obj[w], s)
        \/ w \in rec[s].todo /\ MarksUser(w, copy) /\ after = Mark(obj[w])
        \/ w \in rec[s].todo /\ ScalesDown(copy, s) /\ after = Down(obj[w], copy, s)
        \/ w \in rec[s].todo /\ ScalesUp(copy, s) /\ after = Up(obj[w], copy)

\* A reconcile step writes at most one workload, from a copy that allows the write,
\* and never what the user wants.
LEMMA ObjectWrites ==
    ASSUME TypeOK, CopiesOK, NEW s \in Schedules, Reconcile(s)
    PROVE  /\ UNCHANGED want
           /\ \/ UNCHANGED obj
              \/ \E w \in Workloads, after \in Workload :
                    WrittenBy(s, w, after) /\ obj' = [obj EXCEPT ![w] = after]
<1> DEFINE Written == \/ UNCHANGED obj
                      \/ \E w \in Workloads, after \in Workload :
                            WrittenBy(s, w, after) /\ obj' = [obj EXCEPT ![w] = after]
<1>0. obj \in [Workloads -> Workload] /\ rec[s] \in Pass
  BY DEF TypeOK
<1>1. CASE \/ AddFinalizer(s) \/ SkipReconcile(s) \/ BeginPass(s) \/ BeginDeletion(s)
           \/ ListManaged(s) \/ FilterNamespaces(s) \/ ListHPAs(s)
           \/ EndPass(s) \/ EndBatch(s) \/ EndDeletion(s)
           \/ \E n \in Namespaces : ListRestoredHPAs(s, n) \/ Collect(s, n)
           \/ \E w \in Workloads : DisableHpa(s, w) \/ RestoreHpa(s, w)
  BY <1>1 DEF AddFinalizer, SkipReconcile, BeginPass, BeginDeletion, ListManaged,
     FilterNamespaces, ListHPAs, EndPass, EndBatch, EndDeletion, ListRestoredHPAs,
     Collect, DisableHpa, RestoreHpa
<1>2. ASSUME NEW w \in Workloads,
             TakeOver(s, w) \/ ScaleDown(s, w) \/ ScaleUp(s, w) \/ MarkUserSuspended(s, w)
      PROVE  UNCHANGED want /\ Written
  <2> DEFINE copy == rec[s].copy[w]
  <2>0. copy \in Workload /\ obj[w] \in Workload
    BY <1>0 DEF Pass
  <2>1. CASE TakeOver(s, w)
    <3>1. Transfer(obj[w], s) \in Workload
      BY <2>0, WriteType
    <3>2. QED
      BY <2>1, <3>1 DEF TakeOver, WrittenBy
  <2>2. CASE ScaleDown(s, w)
    <3>1. Down(obj[w], copy, s) \in Workload
      BY <2>0, WriteType
    <3>2. w \in rec[s].todo /\ ScalesDown(copy, s)
      BY <2>2 DEF ScaleDown, Visits, GoingUp, CopiesOK, DownCopies
    <3>3. QED
      BY <2>2, <3>1, <3>2 DEF ScaleDown, Writes, WrittenBy
  <2>3. CASE ScaleUp(s, w)
    <3>1. Up(obj[w], copy) \in Workload
      BY <2>0, <2>3, WriteType DEF ScaleUp
    <3>2. w \in rec[s].todo /\ ScalesUp(copy, s)
      BY <2>3 DEF ScaleUp, Visits
    <3>3. QED
      BY <2>3, <3>1, <3>2 DEF ScaleUp, Writes, WrittenBy
  <2>4. CASE MarkUserSuspended(s, w)
    <3>1. Mark(obj[w]) \in Workload
      BY <2>0, WriteType
    <3>2. w \in rec[s].todo /\ MarksUser(w, copy)
      BY <2>4 DEF MarkUserSuspended, Visits
    <3>3. QED
      BY <2>4, <3>1, <3>2 DEF MarkUserSuspended, Writes, WrittenBy
  <2>5. QED
    BY <1>2, <2>1, <2>2, <2>3, <2>4
<1>3. QED
  BY <1>1, <1>2 DEF Reconcile

-----------------------------------------------------------------------------
(* No workload is stranded at zero *)

\* There are no copies to begin with.
LEMMA InitCopies == ASSUME Init PROVE CopiesOK
BY DEF Init, CopiesOK, DownCopies, Idle

\* No step strands a workload at zero: one case per kind of write, and the edit.
LEMMA StrandedStep ==
    ASSUME TypeOK, CopiesOK, NeverStranded, [Next]_vars PROVE NeverStranded'
<1>1. CASE UNCHANGED <<obj, want>>
  BY <1>1 DEF NeverStranded
<1>2. ASSUME NEW s \in Schedules, UNCHANGED want, NEW w \in Workloads,
             NEW after \in Workload, WrittenBy(s, w, after), obj' = [obj EXCEPT ![w] = after]
      PROVE  NeverStranded'
  <2>1. rec[s].copy[w] \in Workload /\ obj[w] \in Workload
    BY DEF TypeOK, Pass
  <2>2. after.size = 0 /\ after.saved = Absent => want[w] = 0
    <3>1. CASE after = Transfer(obj[w], s)
      BY <2>1, <3>1 DEF Transfer, Workload, NeverStranded
    <3>2. CASE after = Mark(obj[w])
      BY <2>1, <3>2 DEF Mark, Workload, ByUser, Absent
    <3>3. CASE ScalesDown(rec[s].copy[w], s) /\ after = Down(obj[w], rec[s].copy[w], s)
      BY <2>1, <3>3 DEF ScalesDown, Down, Workload, Absent
    <3>4. CASE ScalesUp(rec[s].copy[w], s) /\ after = Up(obj[w], rec[s].copy[w])
      BY <2>1, <3>4 DEF ScalesUp, Up, Workload, Absent
    <3>5. QED
      BY <1>2, <3>1, <3>2, <3>3, <3>4 DEF WrittenBy
  <2>3. QED
    BY <1>2, <2>2 DEF NeverStranded, TypeOK
<1>3. ASSUME NEW w \in Workloads, Edit(w) PROVE NeverStranded'
  <2>1. PICK n \in Sizes : /\ obj' = [obj EXCEPT ![w] = [obj[w] EXCEPT !.size = n]]
                           /\ want' = [want EXCEPT ![w] = n]
    BY <1>3 DEF Edit
  <2>2. ASSUME NEW v \in Workloads, obj'[v].size = 0, obj'[v].saved = Absent
        PROVE  want'[v] = 0
    BY <2>1, <2>2 DEF NeverStranded, TypeOK, Workload
  <2>3. QED
    BY <2>2 DEF NeverStranded
<1>4. CASE Environment
  BY <1>1, <1>3, <1>4
     DEF Environment, Create, Suspend, Retarget, Delete, Flip, Restart
<1>5. QED
  BY <1>1, <1>2, <1>4, ObjectWrites DEF Next, vars

\* Whatever the interleaving of schedules, users (who here may edit a workload a
\* pass holds), failed calls and restarts: a workload at zero was put there by its
\* user or carries the size to restore.
THEOREM NeverStrandedHolds == Spec => []NeverStranded
<1> DEFINE Inv == TypeOK /\ CopiesOK /\ NeverStranded
<1>1. Init => Inv
  BY TypeInit, InitCopies DEF Init, NeverStranded, NoWorkload
<1>2. Inv /\ [Next]_vars => Inv'
  BY TypeStep, CopiesStep, StrandedStep
<1>3. QED
  BY <1>1, <1>2, PTL DEF Spec

-----------------------------------------------------------------------------
(* The size a user gave a workload is kept *)

\* A copy of w tells the size its user wants, as the workload itself does.
Tells(o, n) == IF o.saved \notin {Absent, ByUser} THEN o.saved = n ELSE o.size = n

CopiesTell == \A s \in Schedules : \A w \in rec[s].todo : Tells(rec[s].copy[w], want[w])

CountInv == TypeOK /\ CopiesOK /\ CountPreserved /\ CopiesTell

\* A write from a telling copy keeps the size its user wants.
LEMMA CountWritten ==
    ASSUME CountInv, NEW s \in Schedules, NEW w \in Workloads, NEW after \in Workload,
           WrittenBy(s, w, after)
    PROVE  IF after.saved \notin {Absent, ByUser}
           THEN after.saved = want[w] /\ after.size = 0
           ELSE after.size = want[w]
<1> DEFINE copy == rec[s].copy[w]
<1>1. copy \in Workload /\ obj[w] \in Workload /\ want[w] \in Nat
  BY DEF CountInv, TypeOK, Pass
<1>2. IF obj[w].saved \notin {Absent, ByUser}
      THEN obj[w].saved = want[w] /\ obj[w].size = 0
      ELSE obj[w].size = want[w]
  BY DEF CountInv, CountPreserved, ScaledDown
<1>3. w \in rec[s].todo => Tells(copy, want[w])
  BY DEF CountInv, CopiesTell
<1> HIDE DEF copy
<1>4. CASE after = Transfer(obj[w], s)
  BY <1>1, <1>2, <1>4 DEF Transfer, Workload
<1>5. CASE w \in rec[s].todo /\ MarksUser(w, copy) /\ after = Mark(obj[w])
  BY <1>1, <1>2, <1>3, <1>5 DEF Mark, MarksUser, Tells, Workload, Absent, ByUser
<1>6. CASE w \in rec[s].todo /\ ScalesDown(copy, s) /\ after = Down(obj[w], copy, s)
  BY <1>1, <1>3, <1>6 DEF ScalesDown, Down, Tells, Workload, Absent, ByUser
<1>7. CASE w \in rec[s].todo /\ ScalesUp(copy, s) /\ after = Up(obj[w], copy)
  BY <1>1, <1>3, <1>7 DEF ScalesUp, Up, Tells, Workload, Absent, ByUser
<1>8. QED
  BY <1>4, <1>5, <1>6, <1>7 DEF WrittenBy, copy

\* No step loses a size, nor leaves a copy that tells another one.
LEMMA CountStep ==
    ASSUME "rude" \notin Moves, CountInv, [Next]_vars PROVE CountPreserved' /\ CopiesTell'
<1> USE DEF CountInv
<1>1. CASE UNCHANGED vars
  BY <1>1 DEF CountPreserved, CopiesTell, ScaledDown, vars
<1>2. ASSUME NEW s \in Schedules, Reconcile(s) PROVE CountPreserved' /\ CopiesTell'
  <2>1. UNCHANGED want
    BY <1>2, ObjectWrites
  <2>2. CountPreserved'
    <3>1. CASE UNCHANGED obj
      BY <2>1, <3>1 DEF CountPreserved, ScaledDown
    <3>2. ASSUME NEW w \in Workloads, NEW after \in Workload,
                 WrittenBy(s, w, after), obj' = [obj EXCEPT ![w] = after]
          PROVE  CountPreserved'
      <4>1. ASSUME NEW v \in Workloads
            PROVE  IF ScaledDown(v)' THEN obj'[v].saved = want[v] /\ obj'[v].size = 0
                                     ELSE obj'[v].size = want[v]
        <5>1. CASE v = w
          BY <3>2, <5>1, CountWritten DEF TypeOK, ScaledDown
        <5>2. CASE v # w
          BY <3>2, <5>2 DEF TypeOK, ScaledDown, CountPreserved
        <5>3. QED
          BY <5>1, <5>2
      <4>2. QED
        BY <2>1, <4>1 DEF CountPreserved
    <3>3. QED
      BY <1>2, <3>1, <3>2, ObjectWrites
  <2>3. CopiesTell'
    <3>1. CASE UNCHANGED rec
      BY <2>1, <3>1 DEF CopiesTell
    <3>2. ASSUME NEW x, Goes(s, x), Follows(s, x) PROVE CopiesTell'
      <4>1. x \in Pass
        BY <1>2, <3>2, ReconcileType DEF Goes, TypeOK
      <4>2. ASSUME NEW w \in x.todo PROVE Tells(x.copy[w], want[w])
        <5>1. w \in Workloads /\ obj[w] \in Workload
          BY <4>1 DEF Pass, TypeOK
        <5>2. Tells(obj[w], want[w])
          BY <5>1 DEF CountPreserved, ScaledDown, Tells
        <5>3. Tells(Transfer(obj[w], s), want[w])
          BY <5>1, <5>2 DEF Tells, Transfer, Workload
        <5>4. w \in rec[s].todo => Tells(rec[s].copy[w], want[w])
          BY DEF CopiesTell
        <5>5. QED
          BY <3>2, <5>2, <5>3, <5>4 DEF Follows
      <4>3. \A q \in Schedules : rec'[q] = IF q = s THEN x ELSE rec[q]
        BY <3>2 DEF Goes, TypeOK
      <4>4. QED
        BY <2>1, <4>2, <4>3 DEF CopiesTell
    <3>3. QED
      BY <1>2, <3>1, <3>2, PassStep
  <2>4. QED
    BY <2>2, <2>3
<1>3. ASSUME NEW w \in Workloads, Edit(w) PROVE CountPreserved' /\ CopiesTell'
  <2>1. PICK n \in Sizes : /\ obj' = [obj EXCEPT ![w] = [obj[w] EXCEPT !.size = n]]
                           /\ want' = [want EXCEPT ![w] = n]
    BY <1>3 DEF Edit
  <2>2. /\ obj[w].saved \in {Absent, ByUser} /\ UNCHANGED rec
        /\ \A s \in Schedules : w \notin rec[s].todo
    BY <1>3 DEF Edit
  <2>3. /\ obj'[w].saved = obj[w].saved /\ obj'[w].size = n /\ want'[w] = n
        /\ \A v \in Workloads \ {w} : obj'[v] = obj[v] /\ want'[v] = want[v]
    BY <2>1 DEF TypeOK, Workload
  <2>4. CountPreserved'
    BY <2>2, <2>3 DEF CountPreserved, ScaledDown
  <2>5. CopiesTell'
    <3>1. \A s \in Schedules : rec[s].todo \subseteq Workloads \ {w}
      BY <2>2 DEF TypeOK, Pass
    <3>2. QED
      BY <2>2, <2>3, <3>1 DEF CopiesTell
  <2>6. QED
    BY <2>4, <2>5
<1>4. CASE Environment /\ UNCHANGED <<obj, want>>
  <2>1. UNCHANGED rec \/ rec' = [q \in Schedules |-> Idle]
    BY <1>4 DEF Environment, Create, Suspend, Retarget, Delete, Flip, Edit, Restart
  <2>2. QED
    BY <1>4, <2>1 DEF CountPreserved, ScaledDown, CopiesTell, Idle
<1>5. CASE Environment
  BY <1>3, <1>4, <1>5 DEF Environment, Create, Suspend, Retarget, Delete, Flip, Restart
<1>6. QED
  BY <1>1, <1>2, <1>5 DEF Next

\* While users leave alone what a pass has in hand, the size a user gave a workload
\* is its size or its saved size, through any interleaving, failure and restart.
THEOREM CountIsPreserved == "rude" \notin Moves /\ Spec => []CountPreserved
<1>1. Init => CountInv
  BY TypeInit, InitCopies
     DEF Init, CountInv, CountPreserved, ScaledDown, CopiesTell, NoWorkload, Idle
<1>2. "rude" \notin Moves /\ CountInv /\ [Next]_vars => CountInv'
  BY TypeStep, CopiesStep, CountStep DEF CountInv
<1>3. CountInv => CountPreserved
  BY DEF CountInv
<1>4. SUFFICES ASSUME "rude" \notin Moves PROVE Spec => []CountPreserved
  OBVIOUS
<1>5. QED
  BY <1>1, <1>2, <1>3, <1>4, PTL DEF Spec

-----------------------------------------------------------------------------
(* The policy a user gave an HPA is kept *)

\* A copy of an HPA that a pass may act on tells the policy its user gave it.
HpaTells(h, p) ==
    /\ h.by = NoOne /\ h.policy # Disabled => h.policy = p
    /\ h.by # NoOne => h.saved = p

HpaCopiesTell ==
    \A s \in Schedules, w \in Workloads : HpaTells(rec[s].hcopy[w], UserPolicy[w])

HpaInv == TypeOK /\ HpaRecoverable /\ HpaCopiesTell

\* What schedule s may write to the HPA of w, by the copy it holds.
HpaWrittenBy(s, w, after) ==
    LET copy == rec[s].hcopy[w]
    IN  \/ HpaClaims(copy, s) /\ after = HpaDisable(hpa[w], copy, s)
        \/ HpaReleases(copy, s) /\ after = HpaRestore(hpa[w], copy)

\* A step writes at most one HPA, from a copy that allows the write.
LEMMA HpaWrites ==
    ASSUME [Next]_vars
    PROVE  \/ UNCHANGED hpa
           \/ \E s \in Schedules, w \in Workloads : \E after :
                 HpaWrittenBy(s, w, after) /\ hpa' = [hpa EXCEPT ![w] = after]
<1> DEFINE Written(s) == \E w \in Workloads : \E after :
                 HpaWrittenBy(s, w, after) /\ hpa' = [hpa EXCEPT ![w] = after]
<1>1. CASE UNCHANGED vars \/ Environment
  BY <1>1 DEF vars, Environment, Create, Suspend, Retarget, Delete, Flip, Edit, Restart
<1>2. ASSUME NEW s \in Schedules, Reconcile(s) PROVE UNCHANGED hpa \/ Written(s)
  <2>1. CASE \/ AddFinalizer(s) \/ SkipReconcile(s) \/ BeginPass(s) \/ BeginDeletion(s)
             \/ ListManaged(s) \/ FilterNamespaces(s) \/ ListHPAs(s)
             \/ EndPass(s) \/ EndBatch(s) \/ EndDeletion(s)
             \/ \E n \in Namespaces : ListRestoredHPAs(s, n) \/ Collect(s, n)
    BY <2>1 DEF AddFinalizer, SkipReconcile, BeginPass, BeginDeletion, ListManaged,
       FilterNamespaces, ListHPAs, EndPass, EndBatch, EndDeletion, ListRestoredHPAs,
       Collect
  <2>2. ASSUME NEW w \in Workloads,
               TakeOver(s, w) \/ ScaleDown(s, w) \/ ScaleUp(s, w) \/ MarkUserSuspended(s, w)
        PROVE  UNCHANGED hpa
    BY <2>2 DEF TakeOver, ScaleDown, ScaleUp, MarkUserSuspended, Writes
  <2>3. ASSUME NEW w \in Workloads, DisableHpa(s, w) \/ RestoreHpa(s, w)
        PROVE  UNCHANGED hpa \/ Written(s)
    BY <2>3 DEF DisableHpa, RestoreHpa, WritesHpa, HpaWrittenBy
  <2>4. QED
    BY <1>2, <2>1, <2>2, <2>3 DEF Reconcile
<1>3. QED
  BY <1>1, <1>2 DEF Next

\* No step loses a policy, nor leaves a copy that tells another one.
LEMMA HpaStep == ASSUME HpaInv, [Next]_vars PROVE HpaRecoverable' /\ HpaCopiesTell'
<1> USE DEF HpaInv
<1>1. HpaRecoverable'
  <2>1. CASE UNCHANGED hpa
    BY <2>1 DEF HpaRecoverable
  <2>2. ASSUME NEW s \in Schedules, NEW w \in Workloads, NEW after,
               HpaWrittenBy(s, w, after), hpa' = [hpa EXCEPT ![w] = after]
        PROVE  HpaRecoverable'
    <3> DEFINE copy == rec[s].hcopy[w]
    <3>1. hpa[w] \in Autoscaler /\ HpaTells(copy, UserPolicy[w])
      BY DEF TypeOK, HpaCopiesTell
    <3> HIDE DEF copy
    <3>2. IF after.by = NoOne
          THEN after.policy = UserPolicy[w] /\ after.saved = NoPolicy
          ELSE after.policy = Disabled /\ after.saved = UserPolicy[w]
      <4>1. CASE HpaClaims(copy, s) /\ after = HpaDisable(hpa[w], copy, s)
        BY <3>1, <4>1 DEF HpaClaims, HpaDisable, HpaTells, Autoscaler
      <4>2. CASE HpaReleases(copy, s) /\ after = HpaRestore(hpa[w], copy)
        BY <3>1, <4>2 DEF HpaReleases, HpaRestore, HpaTells, Autoscaler
      <4>3. QED
        BY <2>2, <4>1, <4>2 DEF HpaWrittenBy, copy
    <3>3. QED
      BY <2>2, <3>2 DEF HpaRecoverable, TypeOK
  <2>3. QED
    BY <2>1, <2>2, HpaWrites
<1>2. HpaCopiesTell'
  <2>1. \A w \in Workloads : HpaTells(hpa[w], UserPolicy[w]) /\ HpaTells(NoHpa, UserPolicy[w])
    BY DEF HpaRecoverable, HpaTells, NoHpa
  <2>2. CASE UNCHANGED rec
    BY <2>2 DEF HpaCopiesTell
  <2>3. CASE rec' = [q \in Schedules |-> Idle]
    BY <2>1, <2>3 DEF HpaCopiesTell, Idle
  <2>4. ASSUME NEW s \in Schedules, NEW x, Goes(s, x), Follows(s, x) PROVE HpaCopiesTell'
    <3>1. \A q \in Schedules : rec'[q] = IF q = s THEN x ELSE rec[q]
      BY <2>4 DEF Goes, TypeOK
    <3>2. \A w \in Workloads : HpaTells(x.hcopy[w], UserPolicy[w])
      BY <2>1, <2>4 DEF Follows, HpaCopiesTell
    <3>3. QED
      BY <3>1, <3>2 DEF HpaCopiesTell
  <2>5. CASE Environment
    BY <2>2, <2>3, <2>5
       DEF Environment, Create, Suspend, Retarget, Delete, Flip, Edit, Restart
  <2>6. QED
    BY <2>2, <2>4, <2>5, PassStep DEF Next, vars
<1>3. QED
  BY <1>1, <1>2

\* No claim, transfer, restore, failed call or restart loses the policy a user gave
\* an HPA: unmanaged it has that policy, managed it has it saved.
THEOREM HpaIsRecoverable == Spec => []HpaRecoverable
<1>1. Init => HpaInv
  BY TypeInit
     DEF Init, HpaInv, HpaRecoverable, HpaCopiesTell, HpaTells, NoHpa, Idle
<1>2. HpaInv /\ [Next]_vars => HpaInv'
  BY TypeStep, HpaStep DEF HpaInv
<1>3. HpaInv => HpaRecoverable
  BY DEF HpaInv
<1>4. QED
  BY <1>1, <1>2, <1>3, PTL DEF Spec

-----------------------------------------------------------------------------
(* The reconcilers implement what the owner of a workload is promised *)

\* To the owner, a step that writes one workload and keeps its count is a stop, a
\* start, or nothing.
LEMMA WriteIsPromised ==
    ASSUME TypeOK, CountPreserved, CountPreserved', NEW w \in Workloads,
           NEW after \in Workload, obj' = [obj EXCEPT ![w] = after],
           UNCHANGED <<want, hpa>>
    PROVE  [Promise!Next]_(Promise!vars)
<1> DEFINE size == [v \in Workloads |-> obj[v].size]
           off == [v \in Workloads |-> ScaledDown(v)]
<1>1. /\ obj'[w] = after /\ obj[w] \in Workload /\ want[w] \in Nat
      /\ \A v \in Workloads \ {w} : obj'[v] = obj[v]
  BY DEF TypeOK
<1>2. /\ size' = [size EXCEPT ![w] = after.size]
      /\ off' = [off EXCEPT ![w] = after.saved \notin {Absent, ByUser}]
      /\ size[w] = obj[w].size /\ off[w] = ScaledDown(w)
  <2>1. size' = [size EXCEPT ![w] = after.size]
    <3>1. \A v \in Workloads : obj'[v].size = IF v = w THEN after.size ELSE obj[v].size
      BY <1>1
    <3>2. [size EXCEPT ![w] = after.size] =
            [v \in Workloads |-> IF v = w THEN after.size ELSE obj[v].size]
      BY Zenon
    <3>3. QED
      BY <3>1, <3>2, Zenon
  <2>2. ASSUME NEW v \in Workloads
        PROVE  ScaledDown(v)' = IF v = w THEN after.saved \notin {Absent, ByUser}
                                         ELSE ScaledDown(v)
    BY <1>1 DEF ScaledDown
  <2>3. off' = [v \in Workloads |-> ScaledDown(v)']
    OBVIOUS
  <2>4. [off EXCEPT ![w] = after.saved \notin {Absent, ByUser}] =
          [v \in Workloads |-> IF v = w THEN after.saved \notin {Absent, ByUser}
                                        ELSE ScaledDown(v)]
    BY Zenon
  <2>5. off' = [off EXCEPT ![w] = after.saved \notin {Absent, ByUser}]
    BY <2>2, <2>3, <2>4, Zenon
  <2>6. size[w] = obj[w].size /\ off[w] = ScaledDown(w)
    BY Zenon
  <2>7. QED
    BY <2>1, <2>5, <2>6, Zenon
<1>3. /\ IF ScaledDown(w) THEN obj[w].saved = want[w] /\ obj[w].size = 0
                          ELSE obj[w].size = want[w]
      /\ IF after.saved \notin {Absent, ByUser}
         THEN after.saved = want[w] /\ after.size = 0
         ELSE after.size = want[w]
  BY <1>1 DEF CountPreserved, ScaledDown
<1>4. UNCHANGED <<[v \in Workloads |-> hpa[v].policy], [v \in Workloads |-> hpa[v].by # NoOne]>>
  OBVIOUS
<1>5. CASE ScaledDown(w) /\ after.saved \in {Absent, ByUser}
  <2>1. Promise!Start(w)
    BY <1>2, <1>3, <1>4, <1>5 DEF Promise!Start
  <2>2. QED
    BY <2>1 DEF Promise!Next
<1>6. CASE ~ScaledDown(w) /\ after.saved \notin {Absent, ByUser}
  <2>1. size[w] # 0
    BY <1>2, <1>3, <1>6 DEF Absent
  <2>2. Promise!Stop(w)
    BY <1>2, <1>3, <1>4, <1>6, <2>1 DEF Promise!Stop
  <2>3. QED
    BY <2>2 DEF Promise!Next
<1>7. CASE ScaledDown(w) <=> after.saved \notin {Absent, ByUser}
  <2>1. UNCHANGED size
    BY <1>2, <1>3, <1>7
  <2>2. \A v \in Workloads : ScaledDown(v)' = ScaledDown(v)
    BY <1>1, <1>7 DEF ScaledDown
  <2>3. UNCHANGED off
    BY <2>2, Zenon
  <2>4. QED
    BY <1>4, <2>1, <2>3 DEF Promise!vars
<1>8. QED
  BY <1>5, <1>6, <1>7

\* To the owner, a step that writes one HPA and keeps its policy is a hold, a
\* release, or nothing.
LEMMA HpaWriteIsPromised ==
    ASSUME TypeOK, HpaInv, HpaRecoverable', NEW s \in Schedules, NEW w \in Workloads,
           NEW after, HpaWrittenBy(s, w, after), hpa' = [hpa EXCEPT ![w] = after],
           UNCHANGED <<want, obj>>
    PROVE  [Promise!Next]_(Promise!vars)
<1> DEFINE policy == [v \in Workloads |-> hpa[v].policy]
           held == [v \in Workloads |-> hpa[v].by # NoOne]
           copy == rec[s].hcopy[w]
<1>1. /\ hpa'[w] = after /\ hpa[w] \in Autoscaler
      /\ \A v \in Workloads \ {w} : hpa'[v] = hpa[v]
  BY DEF TypeOK
<1>2. /\ policy' = [policy EXCEPT ![w] = after.policy]
      /\ held' = [held EXCEPT ![w] = after.by # NoOne]
      /\ policy[w] = hpa[w].policy /\ held[w] = (hpa[w].by # NoOne)
  <2>1. policy' = [policy EXCEPT ![w] = after.policy]
    <3>1. \A v \in Workloads : hpa'[v].policy = IF v = w THEN after.policy
                                                        ELSE hpa[v].policy
      BY <1>1
    <3>2. [policy EXCEPT ![w] = after.policy] =
            [v \in Workloads |-> IF v = w THEN after.policy ELSE hpa[v].policy]
      BY Zenon
    <3>3. QED
      BY <3>1, <3>2, Zenon
  <2>2. \A v \in Workloads : (hpa'[v].by # NoOne) = IF v = w THEN after.by # NoOne
                                                           ELSE hpa[v].by # NoOne
    BY <1>1
  <2>3. [held EXCEPT ![w] = after.by # NoOne] =
          [v \in Workloads |-> IF v = w THEN after.by # NoOne ELSE hpa[v].by # NoOne]
    BY Zenon
  <2>4. held' = [held EXCEPT ![w] = after.by # NoOne]
    BY <2>2, <2>3, Zenon
  <2>5. policy[w] = hpa[w].policy /\ held[w] = (hpa[w].by # NoOne)
    BY Zenon
  <2>6. QED
    BY <2>1, <2>4, <2>5, Zenon
<1>3. /\ IF hpa[w].by = NoOne THEN hpa[w].policy = UserPolicy[w]
                              ELSE hpa[w].policy = Disabled
      /\ IF after.by = NoOne THEN after.policy = UserPolicy[w]
                             ELSE after.policy = Disabled
  BY <1>1 DEF HpaRecoverable, HpaInv
<1>4. after.by # NoOne => UserPolicy[w] # Disabled
  <2>1. HpaTells(copy, UserPolicy[w])
    BY DEF HpaInv, HpaCopiesTell
  <2> HIDE DEF copy
  <2>2. CASE HpaClaims(copy, s)
    BY <2>1, <2>2 DEF HpaClaims, HpaTells
  <2>3. CASE after = HpaRestore(hpa[w], copy)
    BY <1>1, <2>3 DEF HpaRestore, Autoscaler
  <2>4. QED
    BY <2>2, <2>3 DEF HpaWrittenBy, copy
<1>5. UNCHANGED <<[v \in Workloads |-> obj[v].size], [v \in Workloads |-> ScaledDown(v)]>>
  BY DEF ScaledDown
<1>6. CASE hpa[w].by # NoOne /\ after.by = NoOne
  <2>1. Promise!LetGo(w)
    BY <1>2, <1>3, <1>5, <1>6 DEF Promise!LetGo
  <2>2. QED
    BY <2>1 DEF Promise!Next
<1>7. CASE hpa[w].by = NoOne /\ after.by # NoOne
  <2>1. Promise!Hold(w)
    BY <1>2, <1>3, <1>4, <1>5, <1>7 DEF Promise!Hold
  <2>2. QED
    BY <2>1 DEF Promise!Next
<1>8. CASE hpa[w].by = NoOne <=> after.by = NoOne
  <2>1. UNCHANGED policy
    BY <1>2, <1>3, <1>8
  <2>2. UNCHANGED held
    BY <1>2, <1>8
  <2>3. QED
    BY <1>5, <2>1, <2>2 DEF Promise!vars
<1>9. QED
  BY <1>6, <1>7, <1>8

\* To the owner, an edit that users make is a resize.
LEMMA EditIsPromised ==
    ASSUME TypeOK, "rude" \notin Moves, NEW w \in Workloads, Edit(w)
    PROVE  [Promise!Next]_(Promise!vars)
<1> DEFINE size == [v \in Workloads |-> obj[v].size]
<1>1. PICK n \in Sizes : /\ obj' = [obj EXCEPT ![w] = [obj[w] EXCEPT !.size = n]]
                         /\ want' = [want EXCEPT ![w] = n]
  BY DEF Edit
<1>2. obj[w].saved \in {Absent, ByUser} /\ UNCHANGED hpa
  BY DEF Edit
<1>3. /\ obj'[w].saved = obj[w].saved /\ obj'[w].size = n
      /\ \A v \in Workloads \ {w} : obj'[v] = obj[v]
  BY <1>1 DEF TypeOK, Workload
<1>4. size' = [size EXCEPT ![w] = n]
  <2>1. \A v \in Workloads : obj'[v].size = IF v = w THEN n ELSE obj[v].size
    BY <1>3
  <2>2. [size EXCEPT ![w] = n] =
          [v \in Workloads |-> IF v = w THEN n ELSE obj[v].size]
    BY Zenon
  <2>3. QED
    BY <2>1, <2>2, Zenon
<1>5. UNCHANGED [v \in Workloads |-> ScaledDown(v)]
  <2>1. \A v \in Workloads : ScaledDown(v)' = ScaledDown(v)
    BY <1>3 DEF ScaledDown
  <2>2. QED
    BY <2>1, Zenon
<1>6. ~[v \in Workloads |-> ScaledDown(v)][w]
  BY <1>2 DEF ScaledDown
<1>7. UNCHANGED <<[v \in Workloads |-> hpa[v].policy], [v \in Workloads |-> hpa[v].by # NoOne]>>
  BY <1>2
<1>8. Promise!Resize(w)
  BY <1>1, <1>4, <1>5, <1>6, <1>7, Zenon DEF Promise!Resize
<1>9. QED
  BY <1>8 DEF Promise!Next

\* What changes neither a workload nor an HPA is nothing to the owner.
LEMMA RestIsPromised ==
    ASSUME UNCHANGED <<obj, hpa, want>> PROVE [Promise!Next]_(Promise!vars)
<1>1. UNCHANGED <<[v \in Workloads |-> obj[v].size], [v \in Workloads |-> hpa[v].policy],
                  [v \in Workloads |-> hpa[v].by # NoOne]>>
  OBVIOUS
<1>2. UNCHANGED [v \in Workloads |-> ScaledDown(v)]
  BY DEF ScaledDown
<1>3. QED
  BY <1>1, <1>2 DEF Promise!vars

\* A reconcile step writes a workload or an HPA, never both.
LEMMA OneObject ==
    ASSUME NEW s \in Schedules, Reconcile(s) PROVE UNCHANGED obj \/ UNCHANGED hpa
<1>1. CASE \/ AddFinalizer(s) \/ SkipReconcile(s) \/ BeginPass(s) \/ BeginDeletion(s)
           \/ ListManaged(s) \/ FilterNamespaces(s) \/ ListHPAs(s)
           \/ EndPass(s) \/ EndBatch(s) \/ EndDeletion(s)
           \/ \E n \in Namespaces : ListRestoredHPAs(s, n) \/ Collect(s, n)
           \/ \E w \in Workloads : DisableHpa(s, w) \/ RestoreHpa(s, w)
  BY <1>1 DEF AddFinalizer, SkipReconcile, BeginPass, BeginDeletion, ListManaged,
     FilterNamespaces, ListHPAs, EndPass, EndBatch, EndDeletion, ListRestoredHPAs,
     Collect, DisableHpa, RestoreHpa
<1>2. CASE \E w \in Workloads :
             TakeOver(s, w) \/ ScaleDown(s, w) \/ ScaleUp(s, w) \/ MarkUserSuspended(s, w)
  BY <1>2 DEF TakeOver, ScaleDown, ScaleUp, MarkUserSuspended, Writes
<1>3. QED
  BY <1>1, <1>2 DEF Reconcile

PromiseInv == CountInv /\ HpaInv

\* Every step of the reconcilers, of users and of the machine is a step of the
\* promise.
LEMMA StepIsPromised ==
    ASSUME "rude" \notin Moves, PromiseInv, PromiseInv', [Next]_vars
    PROVE  [Promise!Next]_(Promise!vars)
<1> USE DEF PromiseInv
<1>1. TypeOK /\ CopiesOK /\ CountPreserved /\ CountPreserved' /\ HpaInv /\ HpaRecoverable'
  BY DEF CountInv, HpaInv
<1>2. CASE UNCHANGED vars
  BY <1>2, RestIsPromised DEF vars
<1>3. ASSUME NEW s \in Schedules, Reconcile(s) PROVE [Promise!Next]_(Promise!vars)
  <2>1. UNCHANGED want
    BY <1>1, <1>3, ObjectWrites
  <2>2. CASE UNCHANGED hpa
    <3>1. CASE UNCHANGED obj
      BY <2>1, <2>2, <3>1, RestIsPromised
    <3>2. ASSUME NEW w \in Workloads, NEW after \in Workload,
                 obj' = [obj EXCEPT ![w] = after]
          PROVE  [Promise!Next]_(Promise!vars)
      BY <1>1, <2>1, <2>2, <3>2, WriteIsPromised
    <3>3. QED
      BY <1>1, <1>3, <3>1, <3>2, ObjectWrites
  <2>3. CASE UNCHANGED obj
    <3>1. ASSUME NEW q \in Schedules, NEW w \in Workloads, NEW after,
                 HpaWrittenBy(q, w, after), hpa' = [hpa EXCEPT ![w] = after]
          PROVE  [Promise!Next]_(Promise!vars)
      BY <1>1, <2>1, <2>3, <3>1, HpaWriteIsPromised
    <3>2. QED
      BY <2>2, <3>1, HpaWrites
  <2>4. QED
    BY <1>3, <2>2, <2>3, OneObject
<1>4. CASE Environment
  <2>1. CASE \E w \in Workloads : Edit(w)
    BY <1>1, <2>1, EditIsPromised
  <2>2. CASE ~\E w \in Workloads : Edit(w)
    <3>1. UNCHANGED <<obj, hpa, want>>
      BY <1>4, <2>2 DEF Environment, Create, Suspend, Retarget, Delete, Flip, Restart
    <3>2. QED
      BY <3>1, RestIsPromised
  <2>3. QED
    BY <2>1, <2>2
<1>5. QED
  BY <1>2, <1>3, <1>4 DEF Next

\* The reconcilers start where the promise starts.
LEMMA InitIsPromised == ASSUME Init PROVE Promise!Init
<1>1. want \in [Workloads -> Sizes] /\ UserPolicy \in [Workloads -> Policies]
  BY DEF Init
<1>2. ASSUME NEW w \in Workloads
      PROVE  /\ obj[w].size = want[w] /\ obj[w].saved = Absent
             /\ hpa[w].policy = UserPolicy[w] /\ hpa[w].by = NoOne
  BY DEF Init, NoWorkload, NoHpa
<1>3. want = [w \in Workloads |-> obj[w].size]
  BY <1>1, <1>2
<1>4. UserPolicy = [w \in Workloads |-> hpa[w].policy]
  BY <1>1, <1>2
<1>5. \A w \in Workloads : ScaledDown(w) = FALSE /\ (hpa[w].by # NoOne) = FALSE
  BY <1>2 DEF ScaledDown
<1>6. /\ [w \in Workloads |-> ScaledDown(w)] = [w \in Workloads |-> FALSE]
      /\ [w \in Workloads |-> hpa[w].by # NoOne] = [w \in Workloads |-> FALSE]
  BY <1>5, Zenon
<1>7. QED
  BY <1>1, <1>3, <1>4, <1>6, Zenon DEF Promise!Init

\* While users leave alone what a pass holds, the two reconcilers implement the
\* promise: for any schedules, overlaps, stale copies, failed calls and restarts,
\* the owner of a workload sees stops and starts that give back what was taken.
THEOREM PromiseIsKept == "rude" \notin Moves /\ Spec => Implements
<1>1. Init => PromiseInv
  BY TypeInit, InitCopies
     DEF Init, PromiseInv, CountInv, HpaInv, CountPreserved, ScaledDown, CopiesTell,
         HpaRecoverable, HpaCopiesTell, HpaTells, NoWorkload, NoHpa, Idle
<1>2. "rude" \notin Moves /\ PromiseInv /\ [Next]_vars => PromiseInv'
  BY TypeStep, CopiesStep, CountStep, HpaStep DEF PromiseInv, CountInv, HpaInv
<1>3. Init => Promise!Init
  BY InitIsPromised
<1>4. "rude" \notin Moves /\ PromiseInv /\ PromiseInv' /\ [Next]_vars
        => [Promise!Next]_(Promise!vars)
  BY StepIsPromised
<1>5. SUFFICES ASSUME "rude" \notin Moves PROVE Spec => Promise!Spec
  BY DEF Implements
<1>6. QED
  BY <1>1, <1>2, <1>3, <1>4, <1>5, PTL DEF Spec, Promise!Spec

=============================================================================
