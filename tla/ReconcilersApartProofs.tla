------------------------ MODULE ReconcilersApartProofs ------------------------
(***************************************************************************)
(* Theorems about Reconcilers for schedules that are kept apart: no        *)
(* namespace is within the reach of two of them.  There may be any number  *)
(* of schedules, workloads, failures and restarts, but a workload has one  *)
(* schedule that ever writes it, and what a pass holds of it stays true.   *)
(***************************************************************************)
EXTENDS ReconcilersProofs

\* The namespaces in which s may ever write: its own, or all that the targets of a
\* cluster schedule may come to select.
Reach(s) == IF s \in LocalSchedules THEN {Home[s]} ELSE UNION TargetSets

Apart == \A s, t \in Schedules : s # t => Reach(s) \cap Reach(t) = {}

-----------------------------------------------------------------------------
(* The invariant *)

\* Whatever the pass r of s collects and visits is within reach of s, and labelled
\* for nobody else.
InReach(s, r) ==
    /\ r.stage = "collect" => r.ns \subseteq Reach(s)
    /\ r.stage = "orphans" => r.targets \subseteq Reach(s)
    /\ \A w \in r.todo : NsOf[w] \in Reach(s) /\ r.copy[w].label \in {NoOne, s}

ReachOK ==
    /\ \A s \in ClusterSchedules : sched[s].targets \subseteq Reach(s)
    /\ \A s \in Schedules : InReach(s, rec[s])
    /\ \A w \in Workloads : obj[w].label # NoOne => NsOf[w] \in Reach(obj[w].label)

\* A copy tells whether its workload is down; of the workload between its two calls
\* the first has been made, and an upscale has restored it.
ObjHeld(r, o) ==
    /\ r.stage \in {"collect", "scale"} => r.here = NoOne
    /\ r.here # NoOne => r.todo = {}
    /\ r.stage = "collect" => r.at = NoOne
    /\ r.at \in r.todo \cup {NoOne}
    /\ \A w \in r.todo :
         IF w # r.at THEN r.copy[w].saved = o[w].saved
                     ELSE (r.stage = "scale" => r.up) => o[w].saved = Absent

\* What is labelled is down, for the schedule that the label names.
LabelOK ==
    \A w \in Workloads :
       obj[w].label # NoOne => obj[w].by = obj[w].label /\ ScaledDown(w)

ApartInv ==
    /\ TypeOK /\ CopiesOK /\ ReachOK /\ LabelOK
    /\ \A s \in Schedules : ObjHeld(rec[s], obj)

\* A downscale has the latest copy of each HPA it comes to, and has stopped that of
\* the workload between its two calls.
HpaHeld(r, h) ==
    r.stage = "scale" /\ ~r.up =>
      \A w \in r.todo \ CronJobs : IF w # r.at THEN r.hcopy[w] = h[w]
                                               ELSE h[w].policy = Disabled

GuardInv ==
    /\ ApartInv /\ HpaInv /\ ZeroIsGuarded
    /\ \A s \in Schedules : HpaHeld(rec[s], hpa)

\* A deletion that has met no failure still has to visit all that is labelled for
\* its schedule in the namespaces it manages.
ToRestore(s, r, targets, o) ==
    ~r.errs => \A w \in Workloads :
                 o[w].label = s /\ NsOf[w] \in targets
                   => NsOf[w] \in r.ns \cup {r.here} \/ w \in r.todo

RestoreOK ==
    \A s \in ClusterSchedules :
       rec[s].stage = "restore" =>
         sched[s].phase = "deleting" /\ ToRestore(s, rec[s], sched[s].targets, obj)

DeletionInv == ApartInv /\ RestoreOK

-----------------------------------------------------------------------------
(* The steps of a pass, field by field *)

\* The same point of the same pass.
SamePoint(r, x) ==
    /\ x.stage = r.stage /\ x.up = r.up /\ x.targets = r.targets
    /\ x.ns = r.ns /\ x.here = r.here

\* The pass x is r without the visit of w, and a failure noted.
Dropped(r, w, x) ==
    /\ SamePoint(r, x) /\ x.todo = r.todo \ {w} /\ x.at = NoOne
    /\ \A v \in Workloads \ {w} : x.copy[v] = r.copy[v] /\ x.hcopy[v] = r.hcopy[v]
    /\ x.errs \in {r.errs, TRUE}

\* The pass x is r with the first call for w made.
Marked(r, w, x) ==
    /\ SamePoint(r, x) /\ x.todo = r.todo /\ x.at = w
    /\ x.copy = r.copy /\ x.hcopy = r.hcopy /\ x.errs = r.errs

\* What the updates of a pass change.
LEMMA VisitFields ==
    ASSUME NEW r \in Pass, NEW w \in Workloads
    PROVE  /\ Dropped(r, w, Drop(r, w)) /\ Dropped(r, w, Spend(Drop(r, w)))
           /\ Dropped(r, w, [Drop(r, w) EXCEPT !.errs = TRUE])
           /\ [Drop(r, w) EXCEPT !.errs = TRUE].errs
           /\ Marked(r, w, [r EXCEPT !.at = w]) /\ Marked(r, w, Spend([r EXCEPT !.at = w]))
<1> DEFINE d == Drop(r, w)
           m == [r EXCEPT !.at = w]
<1>1. d \in Pass /\ Dropped(r, w, d)
  <2>1. d \in Pass
    BY DropType
  <2>2. /\ d.todo = r.todo \ {w} /\ d.at = NoOne /\ d.errs = r.errs /\ SamePoint(r, d)
    BY DEF Drop, Pass, SamePoint
  <2>3. \A v \in Workloads \ {w} : d.copy[v] = r.copy[v] /\ d.hcopy[v] = r.hcopy[v]
    BY DropKeeps
  <2> HIDE DEF d
  <2>4. QED
    BY <2>1, <2>2, <2>3 DEF Dropped
<1>2. m \in Pass /\ Marked(r, w, m)
  BY DEF Marked, SamePoint, Pass
<1> HIDE DEF d, m
<1>3. Dropped(r, w, Spend(d))
  <2>1. /\ Spend(d).todo = d.todo /\ Spend(d).at = d.at /\ Spend(d).errs = d.errs
        /\ Spend(d).copy = d.copy /\ Spend(d).hcopy = d.hcopy /\ SamePoint(d, Spend(d))
    BY <1>1 DEF Spend, Pass, SamePoint
  <2>2. QED
    BY <1>1, <2>1 DEF Dropped, SamePoint
<1>4. Dropped(r, w, [d EXCEPT !.errs = TRUE]) /\ [d EXCEPT !.errs = TRUE].errs
  <2> DEFINE e == [d EXCEPT !.errs = TRUE]
  <2>1. /\ e.todo = d.todo /\ e.at = d.at /\ e.errs = TRUE
        /\ e.copy = d.copy /\ e.hcopy = d.hcopy /\ SamePoint(d, e)
    BY <1>1 DEF Pass, SamePoint
  <2> HIDE DEF e
  <2>2. Dropped(r, w, e) /\ e.errs
    BY <1>1, <2>1 DEF Dropped, SamePoint
  <2>3. QED
    BY <2>2 DEF e
<1>5. Marked(r, w, Spend(m))
  <2>1. /\ Spend(m).todo = m.todo /\ Spend(m).at = m.at /\ Spend(m).errs = m.errs
        /\ Spend(m).copy = m.copy /\ Spend(m).hcopy = m.hcopy /\ SamePoint(m, Spend(m))
    BY <1>2 DEF Spend, Pass, SamePoint
  <2>2. QED
    BY <1>2, <2>1 DEF Marked, SamePoint
<1>6. QED
  BY <1>1, <1>2, <1>3, <1>4, <1>5 DEF d, m

\* The first calls for a workload, one HPA write or one workload write, and the
\* pass that goes on from it.
DisablesIs(s, w, x) ==
    /\ w \in rec[s].todo /\ ~GoingUp(s) /\ rec[s].at = NoOne /\ Marked(rec[s], w, x)
    /\ UNCHANGED obj
    /\ IF w \notin CronJobs /\ HpaClaims(rec[s].hcopy[w], s)
       THEN WritesHpa(w, HpaDisable(hpa[w], rec[s].hcopy[w], s)) ELSE UNCHANGED hpa

ScalesDownIs(s, w, x) ==
    /\ w \in rec[s].todo /\ ~GoingUp(s) /\ rec[s].at = w /\ Dropped(rec[s], w, x)
    /\ UNCHANGED hpa
    /\ obj' \in {obj, [obj EXCEPT ![w] = Down(obj[w], rec[s].copy[w], s)]}

ScalesUpIs(s, w, x) ==
    /\ w \in rec[s].todo /\ GoingUp(s) /\ rec[s].at = NoOne /\ ScalesUp(rec[s].copy[w], s)
    /\ UNCHANGED hpa
    /\ \/ /\ obj' = [obj EXCEPT ![w] = Up(obj[w], rec[s].copy[w])]
          /\ Dropped(rec[s], w, x) \/ Marked(rec[s], w, x)
       \/ /\ obj' \in {obj, [obj EXCEPT ![w] = Up(obj[w], rec[s].copy[w])]}
          /\ Dropped(rec[s], w, x) /\ x.errs

MarksIs(s, w, x) ==
    /\ w \in rec[s].todo /\ GoingUp(s) /\ rec[s].at = NoOne /\ MarksUser(w, rec[s].copy[w])
    /\ Dropped(rec[s], w, x) /\ UNCHANGED hpa
    /\ obj' \in {obj, [obj EXCEPT ![w] = Mark(obj[w])]}

RestoresIs(s, w, x) ==
    /\ w \in rec[s].todo /\ GoingUp(s)
    /\ rec[s].at = w \/ (rec[s].at = NoOne /\ rec[s].copy[w].saved = Absent)
    /\ Dropped(rec[s], w, x) /\ UNCHANGED obj
    /\ WritesHpa(w, HpaRestore(hpa[w], rec[s].hcopy[w]))

VisitIs(s, w, x) ==
    /\ rec[s].at = w \/ rec[s].stage # "collect"
    /\ \/ DisablesIs(s, w, x) \/ ScalesDownIs(s, w, x) \/ ScalesUpIs(s, w, x)
       \/ MarksIs(s, w, x) \/ RestoresIs(s, w, x)

\* Each visit is one of these.
LEMMA Visit ==
    ASSUME TypeOK, NEW s \in Schedules, NEW w \in Workloads,
           \/ DisableHpa(s, w) \/ ScaleDown(s, w) \/ ScaleUp(s, w)
           \/ MarkUserSuspended(s, w) \/ RestoreHpa(s, w)
    PROVE  \E x : Goes(s, x) /\ VisitIs(s, w, x) /\ UNCHANGED sched
<1>0. rec[s] \in Pass
  BY Zenon DEF TypeOK
<1>1. /\ Dropped(rec[s], w, Drop(rec[s], w)) /\ Dropped(rec[s], w, Spend(Drop(rec[s], w)))
      /\ Dropped(rec[s], w, [Drop(rec[s], w) EXCEPT !.errs = TRUE])
      /\ [Drop(rec[s], w) EXCEPT !.errs = TRUE].errs
      /\ Marked(rec[s], w, [rec[s] EXCEPT !.at = w])
      /\ Marked(rec[s], w, Spend([rec[s] EXCEPT !.at = w]))
  BY <1>0, VisitFields
<1>2. rec[s].at = w \/ rec[s].stage # "collect"
  BY DEF DisableHpa, ScaleDown, ScaleUp, MarkUserSuspended, RestoreHpa, Visits
<1>3. CASE DisableHpa(s, w)
  <2>1. Goes(s, [rec[s] EXCEPT !.at = w]) /\ DisablesIs(s, w, [rec[s] EXCEPT !.at = w])
    BY <1>1, <1>3 DEF DisableHpa, DisablesIs, Visits
  <2>2. QED
    BY <1>2, <1>3, <2>1 DEF VisitIs, DisableHpa
<1>4. CASE ScaleDown(s, w)
  <2>1. \E x : Goes(s, x) /\ ScalesDownIs(s, w, x)
    BY <1>1, <1>4 DEF ScaleDown, Writes, ScalesDownIs, Visits
  <2>2. QED
    BY <1>2, <1>4, <2>1 DEF VisitIs, ScaleDown, Writes
<1>5. CASE ScaleUp(s, w)
  <2>1. \E x : Goes(s, x) /\ ScalesUpIs(s, w, x)
    <3> DEFINE after == Up(obj[w], rec[s].copy[w])
               next == Spend(IF w \notin CronJobs /\ HpaReleases(rec[s].hcopy[w], s)
                             THEN [rec[s] EXCEPT !.at = w] ELSE Drop(rec[s], w))
               failed == [Drop(rec[s], w) EXCEPT !.errs = TRUE]
    <3>1. Dropped(rec[s], w, next) \/ Marked(rec[s], w, next)
      BY <1>1
    <3>2. Dropped(rec[s], w, failed) /\ failed.errs
      BY <1>1
    <3>3. /\ w \in rec[s].todo /\ GoingUp(s) /\ rec[s].at = NoOne
          /\ ScalesUp(rec[s].copy[w], s) /\ UNCHANGED hpa
          /\ \/ obj' = [obj EXCEPT ![w] = after] /\ Goes(s, next)
             \/ obj' \in {obj, [obj EXCEPT ![w] = after]} /\ Goes(s, failed)
      BY <1>5 DEF ScaleUp, Visits, Writes
    <3> HIDE DEF next, failed
    <3>4. QED
      BY <3>1, <3>2, <3>3 DEF ScalesUpIs
  <2>2. QED
    BY <1>2, <1>5, <2>1 DEF VisitIs, ScaleUp, Writes
<1>6. CASE MarkUserSuspended(s, w)
  <2>1. \E x : Goes(s, x) /\ MarksIs(s, w, x)
    BY <1>1, <1>6 DEF MarkUserSuspended, Writes, MarksIs, Visits
  <2>2. QED
    BY <1>2, <1>6, <2>1 DEF VisitIs, MarkUserSuspended, Writes
<1>7. CASE RestoreHpa(s, w)
  <2>1. Goes(s, Drop(rec[s], w)) /\ RestoresIs(s, w, Drop(rec[s], w))
    BY <1>1, <1>7 DEF RestoreHpa, RestoresIs
  <2>2. QED
    BY <1>2, <1>7, <2>1 DEF VisitIs, RestoreHpa
<1>8. QED
  BY <1>3, <1>4, <1>5, <1>6, <1>7

\* The other steps of a pass: it starts, turns to the next namespace, lists what is
\* labelled for it there, finds its own namespaces, collects one, fetches the HPAs.
StartsIs(s, x) ==
    /\ x.todo = {} /\ x.at = NoOne /\ x.here = NoOne
    /\ \/ x.stage = "collect" /\ s \in LocalSchedules /\ x.ns = {Home[s]}
       \/ x.stage = "orphans" /\ s \in ClusterSchedules /\ x.targets = sched[s].targets
       \/ /\ x.stage = "restore" /\ sched[s].phase = "deleting"
          /\ x.ns = Managed(s) \/ "discover" \in FaultKinds
    /\ UNCHANGED <<sched, obj, hpa>>

Restoring(r) == r.stage \in {"orphans", "restore"}

TurnsIs(s, x) ==
    /\ Restoring(rec[s]) /\ rec[s].todo = {} /\ rec[s].here = NoOne /\ x.here # NoOne
    /\ rec[s].ns \subseteq x.ns \cup {x.here}
    /\ x.stage = rec[s].stage /\ x.targets = rec[s].targets /\ x.todo = rec[s].todo
    /\ x.at = rec[s].at /\ x.errs = rec[s].errs
    /\ UNCHANGED <<sched, obj, hpa>>

ListsIs(s, x) ==
    /\ Restoring(rec[s]) /\ rec[s].here # NoOne /\ x.here = NoOne
    /\ x.stage = rec[s].stage /\ x.targets = rec[s].targets /\ x.ns = rec[s].ns
    /\ x.at = rec[s].at
    /\ \/ /\ x.errs = rec[s].errs
          /\ \A w \in x.todo : obj[w].label = s /\ x.copy[w] = obj[w]
          /\ \A w \in Workloads :
               NsOf[w] = rec[s].here /\ obj[w].label = s /\ ScalesUp(obj[w], s) => w \in x.todo
       \/ x.errs /\ x.todo = {}
    /\ UNCHANGED <<sched, obj, hpa>>

FiltersIs(s, x) ==
    /\ rec[s].stage = "orphans" /\ rec[s].todo = {} /\ rec[s].here = NoOne
    /\ x.stage = "collect" /\ x.ns \subseteq rec[s].targets
    /\ x.todo = rec[s].todo /\ x.here = rec[s].here /\ x.at = rec[s].at
    /\ UNCHANGED <<sched, obj, hpa>>

CollectsIs(s, x) ==
    /\ rec[s].stage = "collect" /\ x.stage = "collect"
    /\ x.here = rec[s].here /\ x.at = rec[s].at /\ x.ns \subseteq rec[s].ns
    /\ \A w \in x.todo : \/ w \in rec[s].todo /\ x.copy[w] = rec[s].copy[w]
                         \/ NsOf[w] \in rec[s].ns /\ x.copy[w] = obj[w]
    /\ UNCHANGED <<sched, obj, hpa>>

FetchesIs(s, x) ==
    /\ rec[s].stage = "collect" /\ x.stage = "scale"
    /\ x.here = rec[s].here /\ x.at = rec[s].at /\ x.todo \subseteq rec[s].todo
    /\ \A w \in x.todo : /\ x.copy[w] = rec[s].copy[w]
                         /\ x.hcopy[w] = hpa[w] \/ "list hpas" \in FaultKinds
    /\ UNCHANGED <<sched, obj, hpa>>

\* A deletion ends, and the schedule goes with its finalizer.
Deleted(s) ==
    /\ rec[s].stage = "restore" /\ rec[s].ns = {} /\ rec[s].todo = {} /\ rec[s].here = NoOne
    /\ ~rec[s].errs /\ Becomes(s, NoSchedule)

EndsIs(s, x) ==
    x = Idle /\ UNCHANGED <<obj, hpa>> /\ (UNCHANGED sched \/ Deleted(s))

\* The finalizer is added, or there is nothing to do.
PausesIs(s) ==
    /\ UNCHANGED <<rec, obj, hpa>>
    /\ \/ UNCHANGED sched
       \/ \E y : /\ Becomes(s, y) /\ y.phase = sched[s].phase
                 /\ y.targets = sched[s].targets

\* A pass starts.
LEMMA Start ==
    ASSUME TypeOK, NEW s \in Schedules, BeginPass(s) \/ BeginDeletion(s)
    PROVE  \E x : Goes(s, x) /\ StartsIs(s, x)
<1> DEFINE begun(stage, nss) == [Idle EXCEPT !.stage = stage, !.up = sched[s].up,
                                   !.targets = sched[s].targets, !.ns = nss]
           deletion(nss) == [Idle EXCEPT !.stage = "restore", !.ns = nss]
           blind == [Idle EXCEPT !.stage = "restore"]
           orphaned == {n \in Namespaces \ sched[s].targets :
                          \E w \in Workloads : NsOf[w] = n /\ obj[w].label = s}
<1>1. ASSUME NEW stage, NEW nss
      PROVE  /\ begun(stage, nss).todo = {} /\ begun(stage, nss).at = NoOne
             /\ begun(stage, nss).here = NoOne /\ begun(stage, nss).stage = stage
             /\ begun(stage, nss).ns = nss /\ begun(stage, nss).targets = sched[s].targets
  BY DEF Idle
<1>2. ASSUME NEW nss
      PROVE  /\ deletion(nss).todo = {} /\ deletion(nss).at = NoOne
             /\ deletion(nss).here = NoOne /\ deletion(nss).stage = "restore"
             /\ deletion(nss).ns = nss
  BY DEF Idle
<1>3. /\ blind.todo = {} /\ blind.at = NoOne /\ blind.here = NoOne
      /\ blind.stage = "restore"
  BY DEF Idle
<1>4. CASE BeginPass(s)
  <2>1. /\ UNCHANGED <<sched, obj, hpa>>
        /\ \/ s \in LocalSchedules /\ Goes(s, begun("collect", {Home[s]}))
           \/ s \in ClusterSchedules /\ Goes(s, begun("orphans", orphaned))
           \/ s \in ClusterSchedules /\ Goes(s, begun("orphans", {}))
    BY <1>4 DEF BeginPass
  <2> HIDE DEF begun, orphaned
  <2>2. QED
    BY <1>1, <2>1 DEF StartsIs
<1>5. CASE BeginDeletion(s)
  <2>1. /\ UNCHANGED <<sched, obj, hpa>> /\ sched[s].phase = "deleting"
        /\ \/ Goes(s, deletion(Managed(s)))
           \/ "discover" \in FaultKinds /\ Goes(s, blind)
    BY <1>5 DEF BeginDeletion, Fails
  <2> HIDE DEF deletion, blind
  <2>2. QED
    BY <1>2, <1>3, <2>1 DEF StartsIs
<1>6. QED
  BY <1>4, <1>5

\* A restore turns to the next namespace, and lists it.
LEMMA Turn ==
    ASSUME TypeOK, NEW s \in Schedules, NEW n \in Namespaces, ListRestoredHPAs(s, n)
    PROVE  \E x : Goes(s, x) /\ TurnsIs(s, x)
<1> DEFINE listing(nss) ==
             [rec[s] EXCEPT !.ns = @ \ {n}, !.here = n, !.hcopy = HPAsOf(nss)]
<1>1. rec[s] \in Pass
  BY Zenon DEF TypeOK
<1>2. ASSUME NEW nss
      PROVE  /\ listing(nss).ns = rec[s].ns \ {n} /\ listing(nss).here = n
             /\ listing(nss).stage = rec[s].stage /\ listing(nss).targets = rec[s].targets
             /\ listing(nss).todo = rec[s].todo /\ listing(nss).at = rec[s].at
             /\ listing(nss).errs = rec[s].errs
  BY <1>1 DEF Pass
<1>3. /\ Goes(s, listing({n})) \/ Goes(s, listing({}))
      /\ Restoring(rec[s]) /\ rec[s].todo = {} /\ rec[s].here = NoOne
      /\ UNCHANGED <<sched, obj, hpa>>
  BY DEF ListRestoredHPAs, Restoring
<1> HIDE DEF listing
<1>4. n # NoOne
  BY ReconcilersAssumption
<1>5. ASSUME NEW nss PROVE TurnsIs(s, listing(nss))
  BY <1>2, <1>3, <1>4 DEF TurnsIs
<1>6. QED
  BY <1>3, <1>5

\* Choosing what to visit leaves the pass where it is, and leaves out nothing that
\* scaling would write.
LEMMA VisitingFields ==
    ASSUME NEW r \in Pass, NEW s \in Schedules, NEW ws \in SUBSET Workloads,
           NEW up \in BOOLEAN
    PROVE  /\ SamePoint(r, Visiting(r, s, ws, up))
           /\ Visiting(r, s, ws, up).at = r.at /\ Visiting(r, s, ws, up).errs = r.errs
           /\ \A w \in ws : Acts(s, w, r.copy[w], r.hcopy[w], up)
                             => w \in Visiting(r, s, ws, up).todo
<1> DEFINE v == Visiting(r, s, ws, up)
           todo == {w \in ws : Acts(s, w, r.copy[w], r.hcopy[w], up)}
           copy == [w \in Workloads |-> IF w \in todo THEN r.copy[w] ELSE NoWorkload]
           hcopy == [w \in Workloads |-> IF w \in todo THEN r.hcopy[w] ELSE NoHpa]
<1>1. v = [r EXCEPT !.todo = todo, !.copy = copy, !.hcopy = hcopy]
  BY DEF Visiting, Pass
<1>2. \A w \in ws : Acts(s, w, r.copy[w], r.hcopy[w], up) => w \in todo
  OBVIOUS
<1>3. v = Visiting(r, s, ws, up)
  OBVIOUS
<1> HIDE DEF v, todo, copy, hcopy
<1>4. SamePoint(r, v) /\ v.at = r.at /\ v.errs = r.errs /\ v.todo = todo
  BY <1>1 DEF SamePoint, Pass
<1>5. QED
  BY <1>2, <1>3, <1>4

\* A restore lists what is labelled for it.
LEMMA List ==
    ASSUME TypeOK, NEW s \in Schedules, ListManaged(s)
    PROVE  \E x : Goes(s, x) /\ ListsIs(s, x)
<1> DEFINE r == [rec[s] EXCEPT !.here = NoOne]
           ws == {w \in Workloads : NsOf[w] = rec[s].here /\ obj[w].label = s}
           a == [r EXCEPT !.copy = obj]
           b == [r EXCEPT !.errs = TRUE]
           va == Visiting(a, s, ws, TRUE)
           vb == Visiting(b, s, {}, TRUE)
<1>1. rec[s] \in Pass
  BY Zenon DEF TypeOK
<1>2. /\ a \in Pass /\ a.copy = obj /\ a.at = rec[s].at /\ a.errs = rec[s].errs
      /\ a.stage = rec[s].stage /\ a.targets = rec[s].targets /\ a.ns = rec[s].ns
      /\ a.here = NoOne
      /\ b \in Pass /\ b.at = rec[s].at /\ b.errs = TRUE
      /\ b.stage = rec[s].stage /\ b.targets = rec[s].targets /\ b.ns = rec[s].ns
      /\ b.here = NoOne
  BY <1>1 DEF Pass, TypeOK
<1>3. /\ Goes(s, va) \/ Goes(s, vb)
      /\ Restoring(rec[s]) /\ rec[s].here # NoOne /\ UNCHANGED <<sched, obj, hpa>>
  BY DEF ListManaged, Restoring
<1>4. /\ \A w \in ws : obj[w].label = s
      /\ \A w \in Workloads : NsOf[w] = rec[s].here /\ obj[w].label = s => w \in ws
      /\ ws \in SUBSET Workloads
  OBVIOUS
<1> HIDE DEF r, a, b, ws
<1>5. Visited(a, s, ws, TRUE, va) /\ Visited(b, s, {}, TRUE, vb)
  BY <1>2, <1>4, VisitingKeeps
<1>6. /\ SamePoint(a, va) /\ va.at = a.at /\ va.errs = a.errs
      /\ \A w \in ws : Acts(s, w, a.copy[w], a.hcopy[w], TRUE) => w \in va.todo
      /\ SamePoint(b, vb) /\ vb.at = b.at /\ vb.errs = b.errs
  BY <1>2, <1>4, VisitingFields
<1> HIDE DEF va, vb
<1>7. /\ \A w \in va.todo : obj[w].label = s /\ va.copy[w] = obj[w]
      /\ \A w \in Workloads :
           NsOf[w] = rec[s].here /\ obj[w].label = s /\ ScalesUp(obj[w], s) => w \in va.todo
  <2>1. \A w \in va.todo : w \in ws /\ va.copy[w] = obj[w]
    BY <1>2, <1>5 DEF Visited
  <2>2. \A w \in ws : ScalesUp(obj[w], s) => w \in va.todo
    BY <1>2, <1>6 DEF Acts
  <2>3. QED
    BY <1>4, <2>1, <2>2
<1>8. ListsIs(s, va)
  BY <1>2, <1>3, <1>6, <1>7 DEF ListsIs, SamePoint
<1>9. vb.todo = {}
  BY <1>5 DEF Visited
<1>10. ListsIs(s, vb)
  BY <1>2, <1>3, <1>6, <1>9 DEF ListsIs, SamePoint
<1>11. QED
  BY <1>3, <1>8, <1>10

\* The orphans are released, and a cluster schedule finds its own namespaces.
LEMMA Filter ==
    ASSUME TypeOK, NEW s \in Schedules, FilterNamespaces(s)
    PROVE  \E x : Goes(s, x) /\ (FiltersIs(s, x) \/ EndsIs(s, x))
<1> DEFINE x == [rec[s] EXCEPT !.stage = "collect", !.ns = Unclaimed(rec[s].targets)]
<1>1. rec[s] \in Pass
  BY Zenon DEF TypeOK
<1>2. /\ x.stage = "collect" /\ x.ns = Unclaimed(rec[s].targets)
      /\ x.todo = rec[s].todo /\ x.here = rec[s].here /\ x.at = rec[s].at
  BY <1>1 DEF Pass
<1>3. /\ Goes(s, x) \/ Goes(s, Idle)
      /\ rec[s].stage = "orphans" /\ rec[s].todo = {} /\ rec[s].here = NoOne
      /\ UNCHANGED <<sched, obj, hpa>>
  BY DEF FilterNamespaces, Abort
<1> HIDE DEF x
<1>4. FiltersIs(s, x)
  BY <1>2, <1>3 DEF FiltersIs, Unclaimed
<1>5. EndsIs(s, Idle)
  BY <1>3 DEF EndsIs
<1>6. QED
  BY <1>3, <1>4, <1>5

\* A pass collects a namespace, or gives up.
LEMMA Collection ==
    ASSUME TypeOK, NEW s \in Schedules, NEW n \in Namespaces, Collect(s, n)
    PROVE  \E x : Goes(s, x) /\ (CollectsIs(s, x) \/ EndsIs(s, x))
<1> DEFINE ws == {w \in Workloads : NsOf[w] = n} \ Excluded[s]
           copy == [w \in Workloads |-> IF w \in ws THEN obj[w] ELSE rec[s].copy[w]]
           x == [rec[s] EXCEPT !.ns = @ \ {n}, !.todo = @ \cup ws, !.copy = copy]
<1>1. rec[s] \in Pass
  BY Zenon DEF TypeOK
<1>2. \A w \in Workloads : copy[w] = IF w \in ws THEN obj[w] ELSE rec[s].copy[w]
  OBVIOUS
<1>3. /\ ws \subseteq Workloads /\ rec[s].todo \subseteq Workloads
      /\ \A w \in ws : NsOf[w] = n
  BY <1>1 DEF Pass
<1>4. /\ Goes(s, x) \/ Goes(s, Idle)
      /\ rec[s].stage = "collect" /\ n \in rec[s].ns
      /\ UNCHANGED <<sched, obj, hpa>>
  BY DEF Collect, Abort
<1> HIDE DEF ws, copy
<1>5. /\ x.stage = rec[s].stage /\ x.here = rec[s].here /\ x.at = rec[s].at
      /\ x.ns = rec[s].ns \ {n} /\ x.todo = rec[s].todo \cup ws /\ x.copy = copy
  BY <1>1 DEF Pass
<1> HIDE DEF x
<1>6. CollectsIs(s, x)
  BY <1>2, <1>3, <1>4, <1>5 DEF CollectsIs
<1>7. EndsIs(s, Idle)
  BY <1>4 DEF EndsIs
<1>8. QED
  BY <1>4, <1>6, <1>7

\* A pass fetches the HPAs and starts to scale.
LEMMA Fetch ==
    ASSUME TypeOK, NEW s \in Schedules, ListHPAs(s)
    PROVE  \E x : Goes(s, x) /\ FetchesIs(s, x)
<1> DEFINE a(nss) == [rec[s] EXCEPT !.stage = "scale", !.hcopy = HPAsOf(nss)]
           v(nss) == Visiting(a(nss), s, rec[s].todo, rec[s].up)
<1>1. rec[s] \in Pass
  BY Zenon DEF TypeOK
<1>2. rec[s].todo \in SUBSET Workloads /\ rec[s].up \in BOOLEAN
  BY <1>1 DEF Pass
<1>3. ASSUME NEW nss
      PROVE  /\ a(nss) \in Pass /\ a(nss).stage = "scale" /\ a(nss).copy = rec[s].copy
             /\ a(nss).here = rec[s].here /\ a(nss).at = rec[s].at
             /\ a(nss).hcopy = HPAsOf(nss)
  BY <1>1, HPAsType DEF Pass, Stages
<1>4. PICK nss :
        /\ Goes(s, v(nss))
        /\ \A w \in Workloads : HPAsOf(nss)[w] = hpa[w] \/ "list hpas" \in FaultKinds
  <2>1. \A w \in Workloads : HPAsOf(Namespaces)[w] = hpa[w]
    BY ReconcilersAssumption DEF HPAsOf
  <2>2. \/ Goes(s, v(Namespaces))
        \/ \E n \in Namespaces : "list hpas" \in FaultKinds /\ Goes(s, v(Namespaces \ {n}))
    BY DEF ListHPAs, Fails
  <2> HIDE DEF v
  <2>3. QED
    BY <2>1, <2>2
<1>5. rec[s].stage = "collect" /\ UNCHANGED <<sched, obj, hpa>>
  BY DEF ListHPAs
<1> DEFINE x == v(nss)
<1>6. x = Visiting(a(nss), s, rec[s].todo, rec[s].up) /\ Goes(s, x)
  BY <1>4
<1> HIDE DEF a, v, x
<1>7. /\ Visited(a(nss), s, rec[s].todo, rec[s].up, x)
      /\ SamePoint(a(nss), x) /\ x.at = a(nss).at
  BY <1>2, <1>3, <1>6, VisitingKeeps, VisitingFields
<1>8. /\ x.todo \subseteq rec[s].todo
      /\ \A w \in x.todo : x.copy[w] = rec[s].copy[w] /\ x.hcopy[w] = HPAsOf(nss)[w]
      /\ x.stage = "scale" /\ x.here = rec[s].here /\ x.at = rec[s].at
  BY <1>3, <1>7 DEF Visited, SamePoint
<1>9. FetchesIs(s, x)
  BY <1>2, <1>4, <1>5, <1>8 DEF FetchesIs
<1>10. QED
  BY <1>6, <1>9

\* A pass ends.
LEMMA End ==
    ASSUME NEW s \in Schedules, EndPass(s) \/ EndBatch(s) \/ EndDeletion(s)
    PROVE  \E x : Goes(s, x) /\ EndsIs(s, x)
<1>1. CASE EndPass(s) \/ EndBatch(s)
  BY <1>1 DEF EndPass, EndBatch, Abort, EndsIs
<1>2. CASE EndDeletion(s)
  BY <1>2 DEF EndDeletion, Abort, EndsIs, Deleted
<1>3. QED
  BY <1>1, <1>2

\* The other steps of a pass, which write no workload and no HPA.
ReadIs(s, x) ==
    \/ StartsIs(s, x) \/ TurnsIs(s, x) \/ ListsIs(s, x) \/ FiltersIs(s, x)
    \/ CollectsIs(s, x) \/ FetchesIs(s, x) \/ EndsIs(s, x)

\* Each step of a reconcile whose copies are within its reach is one of these: it
\* takes no workload over.
LEMMA StepIs ==
    ASSUME TypeOK, NEW s \in Schedules, InReach(s, rec[s]), Reconcile(s)
    PROVE  \/ PausesIs(s)
           \/ \E x : Goes(s, x) /\ ReadIs(s, x)
           \/ \E x : \E w \in Workloads : Goes(s, x) /\ VisitIs(s, w, x) /\ UNCHANGED sched
<1>1. CASE AddFinalizer(s)
  <2> DEFINE y == [sched[s] EXCEPT !.finalizer = TRUE]
  <2>1. Becomes(s, y) /\ UNCHANGED <<rec, obj, hpa>>
    BY <1>1 DEF AddFinalizer
  <2>2. sched[s] \in Schedule
    BY Zenon DEF TypeOK
  <2>3. y.phase = sched[s].phase /\ y.targets = sched[s].targets
    BY <2>2 DEF Schedule
  <2> HIDE DEF y
  <2>4. QED
    BY <2>1, <2>3 DEF PausesIs
<1>2. CASE SkipReconcile(s)
  BY <1>2 DEF SkipReconcile, PausesIs
<1>3. CASE BeginPass(s) \/ BeginDeletion(s)
  BY <1>3, Start DEF ReadIs
<1>4. ASSUME NEW n \in Namespaces, ListRestoredHPAs(s, n) \/ Collect(s, n)
      PROVE  \E x : Goes(s, x) /\ ReadIs(s, x)
  BY <1>4, Turn, Collection DEF ReadIs
<1>5. CASE ListManaged(s) \/ FilterNamespaces(s) \/ ListHPAs(s)
  BY <1>5, List, Filter, Fetch DEF ReadIs
<1>6. ASSUME NEW w \in Workloads, TakeOver(s, w) PROVE FALSE
  BY <1>6 DEF TakeOver, PendingTransfer, Transfers, InReach
<1>7. ASSUME NEW w \in Workloads,
             \/ DisableHpa(s, w) \/ ScaleDown(s, w) \/ ScaleUp(s, w)
             \/ MarkUserSuspended(s, w) \/ RestoreHpa(s, w)
      PROVE  \E x : Goes(s, x) /\ VisitIs(s, w, x) /\ UNCHANGED sched
  BY <1>7, Visit
<1>8. CASE EndPass(s) \/ EndBatch(s) \/ EndDeletion(s)
  BY <1>8, End DEF ReadIs
<1>9. QED
  BY <1>1, <1>2, <1>3, <1>4, <1>5, <1>6, <1>7, <1>8 DEF Reconcile

-----------------------------------------------------------------------------
(* What a pass holds of the workloads in its reach stays true *)

\* A workload in a pass's hands is in the pass's reach, and labelled for its
\* schedule or for nobody.
LEMMA InHand ==
    ASSUME Apart, ApartInv, NEW s \in Schedules, NEW w \in rec[s].todo
    PROVE  /\ w \in Workloads /\ obj[w] \in Workload /\ rec[s].copy[w] \in Workload
           /\ NsOf[w] \in Reach(s) /\ obj[w].label \in {NoOne, s}
           /\ \A t \in Schedules \ {s} : w \notin rec[t].todo
<1>1. rec[s] \in Pass /\ obj \in [Workloads -> Workload]
  BY Zenon DEF ApartInv, TypeOK
<1>2. w \in Workloads /\ obj[w] \in Workload /\ rec[s].copy[w] \in Workload
  BY <1>1 DEF Pass
<1>3. NsOf[w] \in Reach(s)
  BY DEF ApartInv, ReachOK, InReach
<1>4. obj[w].label \in {NoOne, s}
  <2>1. obj[w].label \in Schedules \cup {NoOne}
    BY <1>2 DEF Workload, Owners
  <2>2. obj[w].label # NoOne => NsOf[w] \in Reach(obj[w].label)
    BY <1>2 DEF ApartInv, ReachOK
  <2>3. QED
    BY <1>3, <2>1, <2>2 DEF Apart
<1>5. \A t \in Schedules : w \in rec[t].todo => NsOf[w] \in Reach(t)
  BY DEF ApartInv, ReachOK, InReach
<1>6. QED
  BY <1>2, <1>3, <1>4, <1>5 DEF Apart

\* The label of w names a schedule only while that schedule holds w down.
LabelledFor(o, s) ==
    o.label # NoOne => o.label = s /\ o.by = s /\ o.saved \notin {Absent, ByUser}

\* A visit writes one workload, or its HPA, and leaves that workload labelled only
\* if it is down; the pass drops it, or goes on to its HPA when it has been restored.
LEMMA VisitWrites ==
    ASSUME Apart, ApartInv, NEW s \in Schedules, NEW w \in Workloads, NEW x,
           VisitIs(s, w, x)
    PROVE  /\ w \in rec[s].todo
           /\ \A v \in Workloads \ {w} : obj'[v] = obj[v] /\ hpa'[v] = hpa[v]
           /\ LabelledFor(obj'[w], s)
           /\ \/ Dropped(rec[s], w, x)
              \/ Marked(rec[s], w, x)
                 /\ ((rec[s].stage = "scale" => rec[s].up) => obj'[w].saved = Absent)
<1>1. w \in rec[s].todo
  BY DEF VisitIs, DisablesIs, ScalesDownIs, ScalesUpIs, MarksIs, RestoresIs
<1>2. /\ obj[w] \in Workload /\ rec[s].copy[w] \in Workload
      /\ obj[w].label \in {NoOne, s}
  BY <1>1, InHand
<1>3. obj \in [Workloads -> Workload] /\ hpa \in [Workloads -> Autoscaler]
  BY Zenon DEF ApartInv, TypeOK
<1>4. LabelledFor(obj[w], s)
  BY <1>2 DEF ApartInv, LabelOK, ScaledDown, LabelledFor
<1>5. CASE DisablesIs(s, w, x)
  <2>1. \A v \in Workloads \ {w} : hpa'[v] = hpa[v]
    BY <1>3, <1>5 DEF DisablesIs, WritesHpa
  <2>2. QED
    BY <1>1, <1>4, <1>5, <2>1 DEF DisablesIs, GoingUp
<1>6. CASE ScalesDownIs(s, w, x)
  <2>1. ScalesDown(rec[s].copy[w], s)
    BY <1>1, <1>6 DEF ScalesDownIs, GoingUp, ApartInv, CopiesOK, DownCopies
  <2>2. LabelledFor(Down(obj[w], rec[s].copy[w], s), s)
    BY <1>2, <2>1 DEF LabelledFor, Down, ScalesDown, Workload, Absent, ByUser
  <2>3. QED
    BY <1>1, <1>3, <1>4, <1>6, <2>2 DEF ScalesDownIs
<1>7. CASE ScalesUpIs(s, w, x)
  <2>1. /\ LabelledFor(Up(obj[w], rec[s].copy[w]), s)
        /\ Up(obj[w], rec[s].copy[w]).saved = Absent
    BY <1>2 DEF LabelledFor, Up, Workload
  <2>2. /\ obj' \in {obj, [obj EXCEPT ![w] = Up(obj[w], rec[s].copy[w])]}
        /\ UNCHANGED hpa
        /\ \/ Dropped(rec[s], w, x)
           \/ Marked(rec[s], w, x) /\ obj' = [obj EXCEPT ![w] = Up(obj[w], rec[s].copy[w])]
    BY <1>7 DEF ScalesUpIs
  <2>3. QED
    BY <1>1, <1>3, <1>4, <2>1, <2>2
<1>8. CASE MarksIs(s, w, x)
  <2>1. obj[w].saved = Absent
    <3>1. rec[s].copy[w].saved = obj[w].saved
      <4>1. w # rec[s].at
        BY <1>8, ReconcilersAssumption DEF MarksIs
      <4>2. QED
        BY <1>1, <4>1 DEF ApartInv, ObjHeld
    <3>2. QED
      BY <1>8, <3>1 DEF MarksIs, MarksUser
  <2>2. LabelledFor(Mark(obj[w]), s)
    BY <1>2, <1>4, <2>1 DEF LabelledFor, Mark, Workload
  <2>3. QED
    BY <1>1, <1>3, <1>4, <1>8, <2>2 DEF MarksIs
<1>9. CASE RestoresIs(s, w, x)
  <2>1. \A v \in Workloads \ {w} : hpa'[v] = hpa[v]
    BY <1>3, <1>9 DEF RestoresIs, WritesHpa
  <2>2. QED
    BY <1>1, <1>4, <1>9, <2>1 DEF RestoresIs
<1>10. QED
  BY <1>5, <1>6, <1>7, <1>8, <1>9 DEF VisitIs

\* What a pass reads is in its reach, and true when it is read.
LEMMA ReadHolds ==
    ASSUME Apart, ApartInv, NEW s \in Schedules, NEW x \in Pass, ReadIs(s, x)
    PROVE  InReach(s, x) /\ ObjHeld(x, obj)
<1>1. /\ InReach(s, rec[s]) /\ ObjHeld(rec[s], obj)
      /\ s \in ClusterSchedules => sched[s].targets \subseteq Reach(s)
  BY DEF ApartInv, ReachOK
<1>2. rec[s] \in Pass /\ rec[s].todo \subseteq Workloads /\ x.todo \subseteq Workloads
  <2>1. rec[s] \in Pass
    BY Zenon DEF ApartInv, TypeOK
  <2>2. QED
    BY <2>1 DEF Pass
<1>3. NoOne \notin Workloads
  BY ReconcilersAssumption
<1>4. CASE StartsIs(s, x)
  BY <1>1, <1>4 DEF StartsIs, InReach, ObjHeld, Reach
<1>5. CASE TurnsIs(s, x)
  BY <1>1, <1>5 DEF TurnsIs, Restoring, InReach, ObjHeld
<1>6. CASE ListsIs(s, x)
  <2>1. ASSUME NEW w \in x.todo
        PROVE  /\ NsOf[w] \in Reach(s) /\ x.copy[w] = obj[w] /\ obj[w].label = s
               /\ w # NoOne
    <3>1. w \in Workloads /\ obj[w].label = s /\ x.copy[w] = obj[w]
      BY <1>2, <1>6 DEF ListsIs
    <3>2. s # NoOne
      BY ScalerAssumption
    <3>3. QED
      BY <1>3, <3>1, <3>2 DEF ApartInv, ReachOK
  <2>2. x.at = NoOne
    BY <1>1, <1>6 DEF ListsIs, ObjHeld
  <2>3. Restoring(x) /\ x.here = NoOne /\ x.targets = rec[s].targets /\ x.stage = rec[s].stage
    BY <1>6 DEF ListsIs, Restoring
  <2>4. InReach(s, x)
    BY <1>1, <2>1, <2>3 DEF InReach, Restoring
  <2>5. ObjHeld(x, obj)
    BY <2>1, <2>2, <2>3 DEF ObjHeld
  <2>6. QED
    BY <2>4, <2>5
<1>7. CASE FiltersIs(s, x)
  BY <1>1, <1>7 DEF FiltersIs, InReach, ObjHeld
<1>8. CASE CollectsIs(s, x)
  <2>1. x.at = NoOne /\ x.here = NoOne /\ x.stage = "collect"
    BY <1>1, <1>8 DEF CollectsIs, ObjHeld
  <2>2. ASSUME NEW w \in x.todo
        PROVE  /\ NsOf[w] \in Reach(s) /\ x.copy[w].label \in {NoOne, s}
               /\ x.copy[w].saved = obj[w].saved
    <3>1. CASE w \in rec[s].todo /\ x.copy[w] = rec[s].copy[w]
      <4>1. w # rec[s].at
        BY <1>2, <1>3, <1>8, <2>1 DEF CollectsIs
      <4>2. QED
        BY <1>1, <3>1, <4>1 DEF InReach, ObjHeld
    <3>2. CASE NsOf[w] \in rec[s].ns /\ x.copy[w] = obj[w]
      <4>1. NsOf[w] \in Reach(s)
        BY <1>1, <1>8, <3>2 DEF CollectsIs, InReach
      <4>2. obj[w].label \in Schedules \cup {NoOne}
        BY <1>2 DEF ApartInv, TypeOK, Workload, Owners
      <4>3. obj[w].label # NoOne => NsOf[w] \in Reach(obj[w].label)
        BY <1>2 DEF ApartInv, ReachOK
      <4>4. QED
        BY <3>2, <4>1, <4>2, <4>3 DEF Apart
    <3>3. QED
      BY <1>8, <3>1, <3>2 DEF CollectsIs
  <2>3. x.ns \subseteq Reach(s)
    BY <1>1, <1>8 DEF CollectsIs, InReach
  <2>4. InReach(s, x)
    BY <2>1, <2>2, <2>3 DEF InReach
  <2>5. ObjHeld(x, obj)
    BY <1>2, <1>3, <2>1, <2>2 DEF ObjHeld
  <2>6. QED
    BY <2>4, <2>5
<1>9. CASE FetchesIs(s, x)
  <2>1. x.at = NoOne /\ x.here = NoOne /\ x.stage = "scale" /\ rec[s].at = NoOne
    BY <1>1, <1>9 DEF FetchesIs, ObjHeld
  <2>2. \A w \in x.todo : w \in rec[s].todo /\ x.copy[w] = rec[s].copy[w] /\ w # NoOne
    BY <1>2, <1>3, <1>9 DEF FetchesIs
  <2>3. InReach(s, x)
    BY <1>1, <2>1, <2>2 DEF InReach
  <2>4. ObjHeld(x, obj)
    BY <1>1, <2>1, <2>2 DEF ObjHeld
  <2>5. QED
    BY <2>3, <2>4
<1>10. CASE EndsIs(s, x)
  <2>1. x = Idle
    BY <1>10 DEF EndsIs
  <2>2. Idle.stage = "idle" /\ Idle.todo = {} /\ Idle.at = NoOne /\ Idle.here = NoOne
    BY DEF Idle
  <2>3. QED
    BY <2>1, <2>2 DEF InReach, ObjHeld
<1>11. QED
  BY <1>4, <1>5, <1>6, <1>7, <1>8, <1>9, <1>10 DEF ReadIs

\* So is what it holds after a visit.
LEMMA VisitHolds ==
    ASSUME Apart, ApartInv, NEW s \in Schedules, NEW w \in Workloads, NEW x,
           VisitIs(s, w, x)
    PROVE  InReach(s, x) /\ ObjHeld(x, obj')
<1>1. /\ InReach(s, rec[s]) /\ ObjHeld(rec[s], obj)
      /\ rec[s].todo \subseteq Workloads
  <2>1. rec[s] \in Pass
    BY Zenon DEF ApartInv, TypeOK
  <2>2. QED
    BY <2>1 DEF ApartInv, ReachOK, Pass
<1>2. /\ w \in rec[s].todo
      /\ \A v \in Workloads \ {w} : obj'[v] = obj[v]
      /\ \/ Dropped(rec[s], w, x)
         \/ Marked(rec[s], w, x)
            /\ ((rec[s].stage = "scale" => rec[s].up) => obj'[w].saved = Absent)
  BY VisitWrites
<1>3. rec[s].at \in {NoOne, w}
  BY DEF VisitIs, DisablesIs, ScalesDownIs, ScalesUpIs, MarksIs, RestoresIs
<1>4. NoOne \notin Workloads
  BY ReconcilersAssumption
<1>5. rec[s].stage # "collect"
  <2>1. rec[s].at = w \/ rec[s].stage # "collect"
    BY DEF VisitIs
  <2>2. QED
    BY <1>1, <1>4, <2>1 DEF ObjHeld
<1>6. CASE Dropped(rec[s], w, x)
  <2>1. /\ SamePoint(rec[s], x) /\ x.todo = rec[s].todo \ {w} /\ x.at = NoOne
        /\ \A v \in Workloads \ {w} : x.copy[v] = rec[s].copy[v]
    BY <1>6 DEF Dropped
  <2>2. \A v \in x.todo : /\ v \in rec[s].todo /\ v # w /\ v # NoOne /\ v # rec[s].at
                          /\ x.copy[v] = rec[s].copy[v] /\ obj'[v] = obj[v]
    BY <1>1, <1>2, <1>3, <1>4, <2>1
  <2>3. InReach(s, x)
    BY <1>1, <2>1, <2>2 DEF InReach, SamePoint
  <2>4. ObjHeld(x, obj')
    BY <1>1, <2>1, <2>2 DEF ObjHeld, SamePoint
  <2>5. QED
    BY <2>3, <2>4
<1>7. CASE Marked(rec[s], w, x)
           /\ ((rec[s].stage = "scale" => rec[s].up) => obj'[w].saved = Absent)
  <2>1. /\ SamePoint(rec[s], x) /\ x.todo = rec[s].todo /\ x.at = w
        /\ x.copy = rec[s].copy
    BY <1>7 DEF Marked
  <2>2. \A v \in x.todo \ {w} : /\ v \in rec[s].todo /\ v # rec[s].at
                                /\ obj'[v] = obj[v]
    BY <1>1, <1>2, <1>3, <1>4, <2>1
  <2>3. InReach(s, x)
    BY <1>1, <2>1 DEF InReach, SamePoint
  <2>4. ObjHeld(x, obj')
    BY <1>1, <1>2, <1>5, <1>7, <2>1, <2>2 DEF ObjHeld, SamePoint
  <2>5. QED
    BY <2>3, <2>4
<1>8. QED
  BY <1>2, <1>6, <1>7

\* A user or the process changes neither what is down nor its label, and leaves a
\* pass as it was or ends it; a deletion is not taken back.
LEMMA EnvironmentIs ==
    ASSUME TypeOK, Environment
    PROVE  /\ \A w \in Workloads : /\ obj'[w].saved = obj[w].saved
                                   /\ obj'[w].by = obj[w].by /\ obj'[w].label = obj[w].label
           /\ UNCHANGED rec \/ rec' = [s \in Schedules |-> Idle]
           /\ UNCHANGED hpa
           /\ \A s \in Schedules :
                \/ sched'[s] = sched[s]
                \/ /\ sched[s].phase # "deleting"
                   /\ s \in ClusterSchedules =>
                        sched'[s].targets \in {sched[s].targets, {}} \cup TargetSets
<1>1. CASE \E w \in Workloads : Edit(w)
  <2>1. PICK w \in Workloads : Edit(w)
    BY <1>1
  <2>2. PICK n \in Sizes : obj' = [obj EXCEPT ![w] = [obj[w] EXCEPT !.size = n]]
    BY <2>1 DEF Edit
  <2>3. obj \in [Workloads -> Workload]
    BY Zenon DEF TypeOK
  <2>4. \A v \in Workloads : /\ obj'[v].saved = obj[v].saved
                             /\ obj'[v].by = obj[v].by /\ obj'[v].label = obj[v].label
    BY <2>2, <2>3 DEF Workload
  <2>5. QED
    BY <2>1, <2>4 DEF Edit
<1>2. CASE Restart
  BY <1>2 DEF Restart
<1>3. ASSUME NEW s \in Schedules,
             Create(s) \/ Suspend(s) \/ Retarget(s) \/ Delete(s) \/ Flip(s)
      PROVE  \E y : /\ Becomes(s, y) /\ sched[s].phase # "deleting"
                    /\ s \in ClusterSchedules =>
                         y.targets \in {sched[s].targets, {}} \cup TargetSets
  <2>0. sched[s] \in Schedule
    BY Zenon DEF TypeOK
  <2>1. CASE Create(s)
    <3>1. PICK up \in BOOLEAN, tgt \in TargetSets :
            Becomes(s, [NoSchedule EXCEPT !.phase = "live", !.up = up,
                        !.suspend = ("born suspended" \in Moves /\ s \in LocalSchedules),
                        !.targets = IF s \in LocalSchedules THEN {} ELSE tgt])
      BY <2>1 DEF Create
    <3>2. sched[s].phase # "deleting"
      BY <2>1 DEF Create
    <3>3. ASSUME NEW b
          PROVE  [NoSchedule EXCEPT !.phase = "live", !.up = up, !.suspend = b,
                    !.targets = IF s \in LocalSchedules THEN {} ELSE tgt].targets
                      = IF s \in LocalSchedules THEN {} ELSE tgt
      BY DEF NoSchedule
    <3>4. QED
      BY <3>1, <3>2, <3>3
  <2>2. CASE Suspend(s)
    <3>1. [sched[s] EXCEPT !.suspend = ~sched[s].suspend].targets = sched[s].targets
      BY <2>0 DEF Schedule
    <3>2. QED
      BY <2>2, <3>1 DEF Suspend, Live
  <2>3. CASE Retarget(s)
    <3>1. PICK tgt \in TargetSets : Becomes(s, [sched[s] EXCEPT !.targets = tgt])
      BY <2>3 DEF Retarget
    <3>2. [sched[s] EXCEPT !.targets = tgt].targets = tgt
      BY <2>0 DEF Schedule
    <3>3. sched[s].phase # "deleting"
      BY <2>3 DEF Retarget, Live
    <3>4. QED
      BY <3>1, <3>2, <3>3
  <2>4. CASE Delete(s)
    <3>1. [sched[s] EXCEPT !.phase = "deleting"].targets = sched[s].targets
      BY <2>0 DEF Schedule
    <3>2. NoSchedule.targets = {}
      BY DEF NoSchedule
    <3>3. QED
      BY <2>4, <3>1, <3>2 DEF Delete, Live
  <2>5. CASE Flip(s)
    <3>1. [sched[s] EXCEPT !.up = ~sched[s].up].targets = sched[s].targets
      BY <2>0 DEF Schedule
    <3>2. QED
      BY <2>5, <3>1 DEF Flip, Live
  <2>6. QED
    BY <1>3, <2>1, <2>2, <2>3, <2>4, <2>5
<1>4. ASSUME NEW s \in Schedules,
             Create(s) \/ Suspend(s) \/ Retarget(s) \/ Delete(s) \/ Flip(s)
      PROVE  /\ UNCHANGED <<obj, rec, hpa>>
             /\ \A q \in Schedules :
                  \/ sched'[q] = sched[q]
                  \/ /\ sched[q].phase # "deleting"
                     /\ q \in ClusterSchedules =>
                          sched'[q].targets \in {sched[q].targets, {}} \cup TargetSets
  <2>1. PICK y : /\ Becomes(s, y) /\ sched[s].phase # "deleting"
                 /\ s \in ClusterSchedules =>
                      y.targets \in {sched[s].targets, {}} \cup TargetSets
    BY <1>3, <1>4
  <2>2. \A q \in Schedules : sched'[q] = IF q = s THEN y ELSE sched[q]
    BY <2>1 DEF TypeOK, Becomes
  <2>3. UNCHANGED <<obj, rec, hpa>>
    BY <1>4 DEF Create, Suspend, Retarget, Delete, Flip
  <2>4. QED
    BY <2>1, <2>2, <2>3
<1>5. QED
  BY <1>1, <1>2, <1>4 DEF Environment

\* No step takes anything out of the reach of its schedule, or makes a copy stale.
LEMMA ApartStep == ASSUME Apart, ApartInv, [Next]_vars PROVE ApartInv'
<1>0. TypeOK /\ TypeOK' /\ CopiesOK'
  BY TypeStep, CopiesStep DEF ApartInv
<1>1. CASE UNCHANGED vars
  BY <1>0, <1>1 DEF ApartInv, ReachOK, LabelOK, ScaledDown, vars
<1>2. ASSUME NEW s \in Schedules, Reconcile(s) PROVE ApartInv'
  <2>1. InReach(s, rec[s])
    BY DEF ApartInv, ReachOK
  <2>2. CASE PausesIs(s)
    <3>1. \A q \in Schedules : sched'[q].targets = sched[q].targets
      BY <1>0, <2>2 DEF PausesIs, Becomes, TypeOK
    <3>2. ReachOK'
      <4>1. UNCHANGED <<rec, obj>>
        BY <2>2 DEF PausesIs
      <4>2. \A q \in ClusterSchedules : sched'[q].targets \subseteq Reach(q)
        BY <3>1 DEF ApartInv, ReachOK, ClusterSchedules
      <4>3. QED
        BY <4>1, <4>2 DEF ApartInv, ReachOK, InReach
    <3>3. LabelOK' /\ \A q \in Schedules : ObjHeld(rec'[q], obj')
      BY <2>2 DEF ApartInv, LabelOK, ScaledDown, PausesIs
    <3>4. QED
      BY <1>0, <3>2, <3>3 DEF ApartInv
  <2>3. ASSUME NEW x, Goes(s, x), ReadIs(s, x) PROVE ApartInv'
    <3>1. \A q \in Schedules : rec'[q] = IF q = s THEN x ELSE rec[q]
      BY <1>0, <2>3 DEF TypeOK, Goes
    <3>2. x \in Pass
      BY <1>0, <3>1 DEF TypeOK
    <3>3. InReach(s, x) /\ ObjHeld(x, obj)
      BY <2>3, <3>2, ReadHolds
    <3>4. UNCHANGED obj /\ (UNCHANGED sched \/ Becomes(s, NoSchedule))
      BY <2>3 DEF ReadIs, StartsIs, TurnsIs, ListsIs, FiltersIs, CollectsIs, FetchesIs,
         EndsIs, Deleted
    <3>5. \A q \in ClusterSchedules : sched'[q].targets \subseteq Reach(q)
      BY <1>0, <3>4 DEF ApartInv, ReachOK, TypeOK, Becomes, NoSchedule, ClusterSchedules
    <3>6. \A q \in Schedules : InReach(q, rec'[q]) /\ ObjHeld(rec'[q], obj')
      BY <3>1, <3>3, <3>4 DEF ApartInv, ReachOK
    <3>7. ReachOK' /\ LabelOK'
      <4>1. \A w \in Workloads : obj'[w].label # NoOne => NsOf[w] \in Reach(obj'[w].label)
        BY <3>4 DEF ApartInv, ReachOK
      <4>2. LabelOK'
        BY <3>4 DEF ApartInv, LabelOK, ScaledDown
      <4>3. QED
        BY <3>5, <3>6, <4>1, <4>2 DEF ReachOK, InReach
    <3>8. QED
      BY <1>0, <3>6, <3>7 DEF ApartInv
  <2>4. ASSUME NEW x, NEW w \in Workloads, Goes(s, x), VisitIs(s, w, x), UNCHANGED sched
        PROVE  ApartInv'
    <3>1. \A q \in Schedules : rec'[q] = IF q = s THEN x ELSE rec[q]
      BY <1>0, <2>4 DEF TypeOK, Goes
    <3>2. InReach(s, x) /\ ObjHeld(x, obj')
      BY <2>4, VisitHolds
    <3>3. /\ w \in rec[s].todo /\ LabelledFor(obj'[w], s)
          /\ \A v \in Workloads \ {w} : obj'[v] = obj[v]
      BY <2>4, VisitWrites
    <3>4. \A q \in Schedules \ {s} : ObjHeld(rec[q], obj')
      <4>1. \A q \in Schedules : rec[q].todo \subseteq Workloads
        BY <1>0 DEF TypeOK, Pass
      <4>2. \A q \in Schedules \ {s} : w \notin rec[q].todo
        BY <3>3, InHand
      <4>3. \A q \in Schedules \ {s} : \A v \in rec[q].todo : obj'[v] = obj[v]
        BY <3>3, <4>1, <4>2
      <4>4. QED
        BY <4>3 DEF ApartInv, ObjHeld
    <3>5. \A q \in Schedules : InReach(q, rec'[q]) /\ ObjHeld(rec'[q], obj')
      BY <3>1, <3>2, <3>4 DEF ApartInv, ReachOK
    <3>6. \A v \in Workloads : obj'[v].label # NoOne => NsOf[v] \in Reach(obj'[v].label)
      <4>1. NsOf[w] \in Reach(s)
        BY <3>3, InHand
      <4>2. QED
        BY <3>3, <4>1 DEF ApartInv, ReachOK, LabelledFor
    <3>7. ReachOK'
      BY <2>4, <3>5, <3>6 DEF ApartInv, ReachOK, InReach
    <3>8. LabelOK'
      BY <3>3 DEF ApartInv, LabelOK, LabelledFor, ScaledDown
    <3>9. QED
      BY <1>0, <3>5, <3>7, <3>8 DEF ApartInv
  <2>5. QED
    BY <1>0, <1>2, <2>1, <2>2, <2>3, <2>4, StepIs
<1>3. CASE Environment
  <2>1. /\ \A w \in Workloads : /\ obj'[w].saved = obj[w].saved
                                /\ obj'[w].by = obj[w].by /\ obj'[w].label = obj[w].label
        /\ UNCHANGED rec \/ rec' = [s \in Schedules |-> Idle]
        /\ \A s \in ClusterSchedules :
             sched'[s].targets \in {sched[s].targets, {}} \cup TargetSets
    BY <1>0, <1>3, EnvironmentIs DEF ClusterSchedules
  <2>2. LabelOK'
    BY <2>1 DEF ApartInv, LabelOK, ScaledDown
  <2>3. \A s \in ClusterSchedules : sched'[s].targets \subseteq Reach(s)
    BY <2>1 DEF ApartInv, ReachOK, Reach, ClusterSchedules
  <2>4. \A s \in Schedules : InReach(s, Idle) /\ ObjHeld(Idle, obj')
    BY DEF InReach, ObjHeld, Idle
  <2>5. \A s \in Schedules : InReach(s, rec[s]) /\ ObjHeld(rec[s], obj')
    <3>1. \A s \in Schedules : rec[s].todo \subseteq Workloads
      BY <1>0 DEF TypeOK, Pass
    <3>2. QED
      BY <2>1, <3>1 DEF ApartInv, ReachOK, ObjHeld
  <2>6. \A s \in Schedules : InReach(s, rec'[s]) /\ ObjHeld(rec'[s], obj')
    BY <2>1, <2>4, <2>5
  <2>7. ReachOK'
    BY <2>1, <2>3, <2>6 DEF ApartInv, ReachOK, InReach
  <2>8. QED
    BY <1>0, <2>2, <2>6, <2>7 DEF ApartInv
<1>4. QED
  BY <1>1, <1>2, <1>3 DEF Next

\* To begin with nothing is held and nothing is labelled.
LEMMA ApartInit == ASSUME Init PROVE ApartInv
<1>1. TypeOK /\ CopiesOK
  BY TypeInit, InitCopies
<1>2. \A w \in Workloads : obj[w].label = NoOne
  BY DEF Init, NoWorkload
<1>3. \A s \in Schedules : sched[s].targets = {} /\ rec[s] = Idle
  BY DEF Init, NoSchedule
<1>4. \A s \in Schedules : InReach(s, Idle) /\ ObjHeld(Idle, obj)
  BY DEF InReach, ObjHeld, Idle
<1>5. ReachOK /\ LabelOK
  BY <1>2, <1>3, <1>4 DEF ReachOK, LabelOK, ClusterSchedules
<1>6. QED
  BY <1>1, <1>3, <1>4, <1>5 DEF ApartInv

-----------------------------------------------------------------------------
(* What is at zero stays there *)

HpaCallsSucceed == {"hpa", "list hpas"} \cap FaultKinds = {}

\* A visit stops the HPA before the workload, and lets it go only when the workload
\* is up; the HPAs of the other visits are as the pass holds them.
LEMMA VisitGuards ==
    ASSUME Apart, HpaCallsSucceed, GuardInv, NEW s \in Schedules, NEW w \in Workloads,
           NEW x, VisitIs(s, w, x)
    PROVE  /\ w \notin CronJobs => (ScaledDown(w)' => hpa'[w].policy = Disabled)
           /\ HpaHeld(x, hpa')
<1>0. /\ ApartInv /\ HpaHeld(rec[s], hpa) /\ ObjHeld(rec[s], obj) /\ HpaRecoverable
      /\ w \notin CronJobs => (ScaledDown(w) => hpa[w].policy = Disabled)
  BY DEF GuardInv, ApartInv, HpaInv, ZeroIsGuarded
<1>1. /\ obj \in [Workloads -> Workload] /\ hpa \in [Workloads -> Autoscaler]
      /\ rec[s] \in Pass
  BY <1>0, Zenon DEF ApartInv, TypeOK
<1>2. /\ w \in rec[s].todo /\ rec[s].todo \subseteq Workloads
      /\ \A v \in Workloads \ {w} : hpa'[v] = hpa[v]
  BY <1>0, <1>1, VisitWrites DEF Pass
<1>3. NoOne \notin Workloads
  BY ReconcilersAssumption
<1>4. obj[w] \in Workload /\ hpa[w] \in Autoscaler
  BY <1>1
<1>5. CASE DisablesIs(s, w, x)
  <2>1. /\ UNCHANGED obj /\ ~GoingUp(s) /\ rec[s].at = NoOne /\ Marked(rec[s], w, x)
        /\ IF w \notin CronJobs /\ HpaClaims(rec[s].hcopy[w], s)
           THEN hpa' = [hpa EXCEPT ![w] = HpaDisable(hpa[w], rec[s].hcopy[w], s)]
           ELSE UNCHANGED hpa
    BY <1>5 DEF DisablesIs, WritesHpa, Fails, HpaCallsSucceed
  <2>2. w \notin CronJobs => hpa'[w].policy = Disabled
    <3>1. CASE w \notin CronJobs /\ HpaClaims(rec[s].hcopy[w], s)
      BY <1>1, <1>4, <2>1, <3>1 DEF HpaDisable, Autoscaler
    <3>2. CASE w \notin CronJobs /\ ~HpaClaims(rec[s].hcopy[w], s)
      <4>1. rec[s].hcopy[w] = hpa[w]
        BY <1>0, <1>2, <1>3, <2>1, <3>2 DEF HpaHeld, GoingUp
      <4>2. hpa[w].by = NoOne => hpa[w].policy = Disabled
        BY <3>2, <4>1 DEF HpaClaims
      <4>3. hpa[w].by # NoOne => hpa[w].policy = Disabled
        BY <1>0 DEF HpaRecoverable
      <4>4. QED
        BY <2>1, <3>2, <4>2, <4>3
    <3>3. QED
      BY <3>1, <3>2
  <2>3. \A v \in rec[s].todo \ CronJobs : v # w => rec[s].hcopy[v] = hpa'[v]
    BY <1>0, <1>2, <1>3, <2>1 DEF HpaHeld, GoingUp
  <2>4. HpaHeld(x, hpa')
    BY <2>1, <2>2, <2>3 DEF HpaHeld, Marked
  <2>5. QED
    BY <2>2, <2>4
<1>6. CASE ScalesDownIs(s, w, x)
  <2>1. UNCHANGED hpa /\ ~GoingUp(s) /\ rec[s].at = w /\ Dropped(rec[s], w, x)
    BY <1>6 DEF ScalesDownIs
  <2>2. w \notin CronJobs => hpa[w].policy = Disabled
    BY <1>0, <1>2, <2>1 DEF HpaHeld, GoingUp
  <2>3. \A v \in rec[s].todo \ CronJobs : v # w => rec[s].hcopy[v] = hpa[v]
    BY <1>0, <2>1 DEF HpaHeld, GoingUp
  <2>4. /\ x.todo = rec[s].todo \ {w} /\ x.at = NoOne
        /\ \A v \in Workloads \ {w} : x.hcopy[v] = rec[s].hcopy[v]
    BY <2>1 DEF Dropped
  <2>5. \A v \in x.todo \ CronJobs : v # x.at /\ x.hcopy[v] = hpa[v]
    BY <1>2, <1>3, <2>3, <2>4
  <2>6. HpaHeld(x, hpa')
    BY <2>1, <2>5 DEF HpaHeld
  <2>7. QED
    BY <2>1, <2>2, <2>6
<1>7. ASSUME GoingUp(s), Dropped(rec[s], w, x) \/ Marked(rec[s], w, x)
      PROVE  HpaHeld(x, hpa')
  <2>1. SamePoint(rec[s], x)
    BY <1>7 DEF Dropped, Marked
  <2>2. QED
    BY <1>7, <2>1 DEF GoingUp, SamePoint, HpaHeld
<1>8. CASE ScalesUpIs(s, w, x)
  <2>1. /\ UNCHANGED hpa /\ GoingUp(s)
        /\ obj' \in {obj, [obj EXCEPT ![w] = Up(obj[w], rec[s].copy[w])]}
        /\ Dropped(rec[s], w, x) \/ Marked(rec[s], w, x)
    BY <1>8 DEF ScalesUpIs
  <2>2. Up(obj[w], rec[s].copy[w]).saved = Absent
    BY <1>4 DEF Up, Workload
  <2>3. ScaledDown(w)' => ScaledDown(w)
    BY <1>1, <2>1, <2>2 DEF ScaledDown
  <2>4. QED
    BY <1>0, <1>7, <2>1, <2>3
<1>9. CASE MarksIs(s, w, x)
  <2>1. /\ UNCHANGED hpa /\ GoingUp(s) /\ Dropped(rec[s], w, x)
        /\ obj' \in {obj, [obj EXCEPT ![w] = Mark(obj[w])]}
    BY <1>9 DEF MarksIs
  <2>2. Mark(obj[w]).saved = ByUser
    BY <1>4 DEF Mark, Workload
  <2>3. ScaledDown(w)' => ScaledDown(w)
    BY <1>1, <2>1, <2>2 DEF ScaledDown
  <2>4. QED
    BY <1>0, <1>7, <2>1, <2>3
<1>10. CASE RestoresIs(s, w, x)
  <2>1. /\ UNCHANGED obj /\ GoingUp(s) /\ Dropped(rec[s], w, x)
        /\ rec[s].at = w \/ (rec[s].at = NoOne /\ rec[s].copy[w].saved = Absent)
    BY <1>10 DEF RestoresIs
  <2>2. obj[w].saved = Absent
    <3>1. CASE rec[s].at = w
      BY <1>0, <1>2, <2>1, <3>1 DEF ObjHeld, GoingUp
    <3>2. CASE rec[s].at = NoOne /\ rec[s].copy[w].saved = Absent
      BY <1>0, <1>2, <1>3, <3>2 DEF ObjHeld
    <3>3. QED
      BY <2>1, <3>1, <3>2
  <2>3. ~ScaledDown(w)'
    BY <2>1, <2>2 DEF ScaledDown
  <2>4. QED
    BY <1>7, <2>1, <2>3
<1>11. QED
  BY <1>5, <1>6, <1>8, <1>9, <1>10 DEF VisitIs

\* No step frees the HPA of a workload at zero, or leaves a downscale with an HPA
\* that it has not looked at.
LEMMA GuardStep ==
    ASSUME Apart, HpaCallsSucceed, GuardInv, [Next]_vars PROVE GuardInv'
<1>0. /\ TypeOK /\ TypeOK' /\ ApartInv /\ ApartInv' /\ HpaInv' /\ ZeroIsGuarded
      /\ \A q \in Schedules : HpaHeld(rec[q], hpa)
  <2>1. ApartInv /\ HpaInv /\ ApartInv'
    BY ApartStep DEF GuardInv
  <2>2. TypeOK /\ TypeOK'
    BY <2>1 DEF ApartInv
  <2>3. HpaInv'
    BY <2>1, <2>2, HpaStep DEF HpaInv
  <2>4. QED
    BY <2>1, <2>2, <2>3 DEF GuardInv
<1>1. SUFFICES ZeroIsGuarded' /\ \A q \in Schedules : HpaHeld(rec'[q], hpa')
  BY <1>0 DEF GuardInv
<1>2. CASE UNCHANGED vars
  BY <1>0, <1>2 DEF ZeroIsGuarded, ScaledDown, vars
<1>3. ASSUME NEW s \in Schedules, Reconcile(s)
      PROVE  ZeroIsGuarded' /\ \A q \in Schedules : HpaHeld(rec'[q], hpa')
  <2>1. InReach(s, rec[s]) /\ ObjHeld(rec[s], obj)
    BY <1>0 DEF ApartInv, ReachOK
  <2>2. CASE PausesIs(s)
    BY <1>0, <2>2 DEF PausesIs, ZeroIsGuarded, ScaledDown
  <2>3. ASSUME NEW x, Goes(s, x), ReadIs(s, x)
        PROVE  ZeroIsGuarded' /\ \A q \in Schedules : HpaHeld(rec'[q], hpa')
    <3>1. \A q \in Schedules : rec'[q] = IF q = s THEN x ELSE rec[q]
      BY <1>0, <2>3 DEF TypeOK, Goes
    <3>2. UNCHANGED <<obj, hpa>>
      BY <2>3 DEF ReadIs, StartsIs, TurnsIs, ListsIs, FiltersIs, CollectsIs, FetchesIs,
         EndsIs
    <3>3. HpaHeld(x, hpa)
      <4>1. CASE FetchesIs(s, x)
        <5>1. x.at = NoOne /\ x.todo \subseteq Workloads
          <6>1. rec[s].todo \subseteq Workloads
            BY <1>0 DEF TypeOK, Pass
          <6>2. QED
            BY <2>1, <4>1, <6>1 DEF FetchesIs, ObjHeld
        <5>2. \A w \in x.todo : w # x.at /\ x.hcopy[w] = hpa[w]
          BY <4>1, <5>1, ReconcilersAssumption DEF FetchesIs, HpaCallsSucceed
        <5>3. QED
          BY <5>2 DEF HpaHeld
      <4>2. CASE ~FetchesIs(s, x)
        <5>1. x.stage # "scale"
          BY <2>3, <4>2 DEF ReadIs, StartsIs, TurnsIs, ListsIs, FiltersIs, CollectsIs,
             EndsIs, Restoring, Idle
        <5>2. QED
          BY <5>1 DEF HpaHeld
      <4>3. QED
        BY <4>1, <4>2
    <3>4. \A q \in Schedules : HpaHeld(rec'[q], hpa')
      BY <1>0, <3>1, <3>2, <3>3
    <3>5. ZeroIsGuarded'
      BY <1>0, <3>2 DEF ZeroIsGuarded, ScaledDown
    <3>6. QED
      BY <3>4, <3>5
  <2>4. ASSUME NEW x, NEW w \in Workloads, Goes(s, x), VisitIs(s, w, x)
        PROVE  ZeroIsGuarded' /\ \A q \in Schedules : HpaHeld(rec'[q], hpa')
    <3>1. \A q \in Schedules : rec'[q] = IF q = s THEN x ELSE rec[q]
      BY <1>0, <2>4 DEF TypeOK, Goes
    <3>2. /\ w \in rec[s].todo
          /\ \A v \in Workloads \ {w} : obj'[v] = obj[v] /\ hpa'[v] = hpa[v]
      BY <1>0, <2>4, VisitWrites
    <3>3. /\ w \notin CronJobs => (ScaledDown(w)' => hpa'[w].policy = Disabled)
          /\ HpaHeld(x, hpa')
      BY <2>4, VisitGuards
    <3>4. \A q \in Schedules \ {s} : HpaHeld(rec[q], hpa')
      <4>1. \A q \in Schedules : rec[q].todo \subseteq Workloads
        BY <1>0 DEF TypeOK, Pass
      <4>2. \A q \in Schedules \ {s} : w \notin rec[q].todo
        BY <1>0, <3>2, InHand
      <4>3. \A q \in Schedules \ {s} : \A v \in rec[q].todo : hpa'[v] = hpa[v]
        BY <3>2, <4>1, <4>2
      <4>4. QED
        BY <1>0, <4>3 DEF HpaHeld
    <3>5. ZeroIsGuarded'
      <4>1. \A v \in Workloads \ {w} : ScaledDown(v)' = ScaledDown(v)
        BY <3>2 DEF ScaledDown
      <4>2. QED
        BY <1>0, <3>2, <3>3, <4>1 DEF ZeroIsGuarded
    <3>6. QED
      BY <3>1, <3>3, <3>4, <3>5
  <2>5. QED
    BY <1>0, <1>3, <2>1, <2>2, <2>3, <2>4, StepIs
<1>4. CASE Environment
  <2>1. /\ \A w \in Workloads : obj'[w].saved = obj[w].saved
        /\ UNCHANGED rec \/ rec' = [s \in Schedules |-> Idle]
        /\ UNCHANGED hpa
    BY <1>0, <1>4, EnvironmentIs
  <2>2. \A q \in Schedules : HpaHeld(rec'[q], hpa')
    BY <1>0, <2>1 DEF HpaHeld, Idle
  <2>3. QED
    BY <1>0, <2>1, <2>2 DEF ZeroIsGuarded, ScaledDown
<1>5. QED
  BY <1>2, <1>3, <1>4 DEF Next

\* Of schedules that are kept apart, while the calls that read and write HPAs
\* succeed: no failure of another call, no restart between the two writes, no batch
\* and no edit leaves a workload at zero with an HPA that can scale it up again.
THEOREM ZeroStaysGuarded == Apart /\ HpaCallsSucceed /\ Spec => []ZeroIsGuarded
<1>1. Init => GuardInv
  BY ApartInit, TypeInit
     DEF Init, GuardInv, HpaInv, HpaRecoverable, HpaCopiesTell, HpaTells, ZeroIsGuarded,
         ScaledDown, HpaHeld, NoWorkload, NoHpa, Idle
<1>2. Apart /\ HpaCallsSucceed /\ GuardInv /\ [Next]_vars => GuardInv'
  BY GuardStep
<1>3. GuardInv => ZeroIsGuarded
  BY DEF GuardInv
<1>4. SUFFICES ASSUME Apart, HpaCallsSucceed PROVE Spec => []ZeroIsGuarded
  OBVIOUS
<1>5. QED
  BY <1>1, <1>2, <1>3, <1>4, PTL DEF Spec

-----------------------------------------------------------------------------
(* A deletion restores everything first *)

\* Reading leaves out nothing that is labelled for s.
LEMMA ReadRestores ==
    ASSUME Apart, "discover" \notin FaultKinds, DeletionInv, NEW s \in ClusterSchedules,
           NEW x, ReadIs(s, x), x.stage = "restore"
    PROVE  sched[s].phase = "deleting" /\ UNCHANGED sched /\ ToRestore(s, x, sched[s].targets, obj)
<1>0. /\ ApartInv /\ s \in Schedules /\ ObjHeld(rec[s], obj)
      /\ rec[s].stage = "restore" =>
           sched[s].phase = "deleting" /\ ToRestore(s, rec[s], sched[s].targets, obj)
  BY DEF DeletionInv, ApartInv, RestoreOK, ToRestore, ClusterSchedules
<1>1. CASE StartsIs(s, x)
  <2>1. /\ x.ns = Managed(s) /\ sched[s].phase = "deleting" /\ UNCHANGED sched
    BY <1>1 DEF StartsIs
  <2>2. Managed(s) = Unclaimed(sched[s].targets)
    BY DEF Managed, ClusterSchedules
  <2>3. sched[s].targets \subseteq Unclaimed(sched[s].targets)
    <3>1. sched[s].targets \subseteq Reach(s)
      BY <1>0 DEF ApartInv, ReachOK
    <3>2. \A l \in LocalSchedules : l \in Schedules /\ l # s /\ Home[l] \in Reach(l)
      BY ReconcilersAssumption DEF Reach, ClusterSchedules
    <3>3. \A n \in sched[s].targets : \A l \in LocalSchedules : Home[l] # n
      BY <1>0, <3>1, <3>2 DEF Apart
    <3>4. QED
      BY <3>3 DEF Unclaimed
  <2>4. ToRestore(s, x, sched[s].targets, obj)
    BY <2>1, <2>2, <2>3 DEF ToRestore
  <2>5. QED
    BY <2>1, <2>4
<1>2. CASE TurnsIs(s, x)
  <2>1. ToRestore(s, x, sched[s].targets, obj)
    BY <1>0, <1>2, ReconcilersAssumption DEF TurnsIs, ToRestore
  <2>2. QED
    BY <1>0, <1>2, <2>1 DEF TurnsIs
<1>3. CASE ListsIs(s, x)
  <2>1. \A w \in Workloads : obj[w].label = s => ScalesUp(obj[w], s)
    <3>1. s # NoOne
      BY <1>0, ScalerAssumption
    <3>2. QED
      BY <1>0, <3>1 DEF ApartInv, LabelOK, ScaledDown, ScalesUp, Foreign
  <2>2. rec[s].todo = {} /\ rec[s].stage = "restore"
    BY <1>0, <1>3 DEF ListsIs, ObjHeld
  <2>3. ToRestore(s, x, sched[s].targets, obj)
    BY <1>0, <1>3, <2>1, <2>2 DEF ListsIs, ToRestore
  <2>4. QED
    BY <1>0, <1>3, <2>2, <2>3 DEF ListsIs
<1>4. QED
  BY <1>1, <1>2, <1>3 DEF ReadIs, FiltersIs, CollectsIs, FetchesIs, EndsIs, Idle

\* A visit leaves its workload unlabelled, or notes that it failed.
LEMMA VisitRestores ==
    ASSUME Apart, DeletionInv, NEW s \in ClusterSchedules, NEW w \in Workloads,
           NEW x, VisitIs(s, w, x), x.stage = "restore"
    PROVE  sched[s].phase = "deleting" /\ ToRestore(s, x, sched[s].targets, obj')
<1>0. /\ ApartInv /\ s \in Schedules /\ ObjHeld(rec[s], obj) /\ s # NoOne
      /\ rec[s].stage = "restore" =>
           sched[s].phase = "deleting" /\ ToRestore(s, rec[s], sched[s].targets, obj)
  BY ScalerAssumption
     DEF DeletionInv, ApartInv, RestoreOK, ToRestore, ClusterSchedules
<1>1. /\ w \in rec[s].todo /\ obj[w] \in Workload
      /\ \A v \in Workloads \ {w} : obj'[v] = obj[v]
      /\ Dropped(rec[s], w, x) \/ Marked(rec[s], w, x)
  BY <1>0, VisitWrites, InHand
<1>2. rec[s].stage = "restore" /\ GoingUp(s)
  BY <1>1 DEF Dropped, Marked, SamePoint, GoingUp
<1>3. rec[s].here = NoOne
  BY <1>0, <1>1 DEF ObjHeld
<1>4. NoOne \notin Workloads /\ obj \in [Workloads -> Workload]
  BY <1>0, ReconcilersAssumption DEF ApartInv, TypeOK
<1>5. obj'[w].label # s \/ x.errs \/ Marked(rec[s], w, x)
  <2>1. obj[w].saved = Absent => obj[w].label = NoOne
    BY <1>0, <1>1 DEF ApartInv, LabelOK, ScaledDown
  <2>2. CASE ScalesUpIs(s, w, x)
    <3>1. Up(obj[w], rec[s].copy[w]).label = NoOne
      BY <1>1 DEF Up, Workload
    <3>2. x.errs \/ obj' = [obj EXCEPT ![w] = Up(obj[w], rec[s].copy[w])]
      BY <2>2 DEF ScalesUpIs
    <3>3. QED
      BY <1>0, <1>4, <3>1, <3>2
  <2>3. CASE MarksIs(s, w, x)
    <3>1. obj[w].saved = Absent
      BY <1>0, <1>1, <1>4, <2>3 DEF MarksIs, MarksUser, ObjHeld
    <3>2. Mark(obj[w]).label = obj[w].label
      BY <1>1 DEF Mark, Workload
    <3>3. obj' \in {obj, [obj EXCEPT ![w] = Mark(obj[w])]}
      BY <2>3 DEF MarksIs
    <3>4. QED
      BY <1>0, <1>4, <2>1, <3>1, <3>2, <3>3
  <2>4. CASE RestoresIs(s, w, x)
    <3>1. UNCHANGED obj /\ (rec[s].at = w \/ (rec[s].at = NoOne /\ rec[s].copy[w].saved = Absent))
      BY <2>4 DEF RestoresIs
    <3>2. obj[w].saved = Absent
      BY <1>0, <1>1, <1>2, <1>4, <3>1 DEF ObjHeld
    <3>3. QED
      BY <1>0, <2>1, <3>1, <3>2
  <2>5. QED
    BY <1>2, <2>2, <2>3, <2>4 DEF VisitIs, DisablesIs, ScalesDownIs
<1>6. CASE Dropped(rec[s], w, x) /\ (obj'[w].label # s \/ x.errs)
  <2>1. /\ x.todo = rec[s].todo \ {w} /\ SamePoint(rec[s], x)
        /\ x.errs \in {rec[s].errs, TRUE}
    BY <1>6 DEF Dropped
  <2>2. ToRestore(s, x, sched[s].targets, obj')
    BY <1>0, <1>1, <1>2, <1>6, <2>1 DEF ToRestore, SamePoint
  <2>3. QED
    BY <1>0, <1>2, <2>2
<1>7. CASE Marked(rec[s], w, x)
  <2>1. x.todo = rec[s].todo /\ SamePoint(rec[s], x) /\ x.errs = rec[s].errs
    BY <1>7 DEF Marked
  <2>2. ToRestore(s, x, sched[s].targets, obj')
    BY <1>0, <1>1, <1>2, <2>1 DEF ToRestore, SamePoint
  <2>3. QED
    BY <1>0, <1>2, <2>2
<1>8. QED
  BY <1>1, <1>5, <1>6, <1>7

\* No step leaves out of a deletion a workload that is labelled for its schedule.
LEMMA DeletionStep ==
    ASSUME Apart, "discover" \notin FaultKinds, DeletionInv, [Next]_vars
    PROVE  DeletionInv'
<1>0. /\ ApartInv /\ ApartInv' /\ TypeOK /\ TypeOK'
      /\ \A q \in ClusterSchedules :
           rec[q].stage = "restore" =>
             sched[q].phase = "deleting" /\ ToRestore(q, rec[q], sched[q].targets, obj)
  BY ApartStep DEF DeletionInv, ApartInv, RestoreOK
<1>1. ClusterSchedules \subseteq Schedules
  BY DEF ClusterSchedules
<1> DEFINE Good(q) == rec'[q].stage = "restore" =>
                        /\ sched'[q].phase = "deleting"
                        /\ ToRestore(q, rec'[q], sched'[q].targets, obj')
<1>2. SUFFICES \A q \in ClusterSchedules : Good(q)
  BY <1>0 DEF DeletionInv, RestoreOK, ClusterSchedules
<1>3. ASSUME NEW q \in ClusterSchedules, rec'[q] = rec[q],
             rec[q].stage = "restore" => /\ sched'[q].phase = sched[q].phase
                                         /\ sched'[q].targets = sched[q].targets,
             \A w \in Workloads : obj'[w].label = q => obj[w].label = q
      PROVE  Good(q)
  BY <1>0, <1>3 DEF ToRestore
<1>4. CASE UNCHANGED vars
  BY <1>3, <1>4 DEF vars
<1>5. ASSUME NEW s \in Schedules, Reconcile(s), NEW q \in ClusterSchedules PROVE Good(q)
  <2>1. InReach(s, rec[s])
    BY <1>0 DEF ApartInv, ReachOK
  <2>2. CASE PausesIs(s)
    <3>1. sched'[q].phase = sched[q].phase /\ sched'[q].targets = sched[q].targets
      BY <1>0, <1>1, <2>2 DEF PausesIs, Becomes, TypeOK
    <3>2. QED
      BY <1>3, <2>2, <3>1 DEF PausesIs
  <2>3. ASSUME NEW x, Goes(s, x), ReadIs(s, x) PROVE Good(q)
    <3>1. rec'[q] = IF q = s THEN x ELSE rec[q]
      BY <1>0, <1>1, <2>3 DEF TypeOK, Goes
    <3>2. UNCHANGED obj /\ (UNCHANGED sched \/ Becomes(s, NoSchedule))
      BY <2>3 DEF ReadIs, StartsIs, TurnsIs, ListsIs, FiltersIs, CollectsIs, FetchesIs,
         EndsIs, Deleted
    <3>3. CASE q # s
      <4>1. sched'[q] = sched[q]
        BY <1>0, <1>1, <3>2, <3>3 DEF TypeOK, Becomes
      <4>2. QED
        BY <1>3, <3>1, <3>2, <3>3, <4>1
    <3>4. CASE q = s /\ x.stage = "restore"
      <4>1. /\ sched[q].phase = "deleting" /\ UNCHANGED sched
            /\ ToRestore(q, x, sched[q].targets, obj)
        BY <2>3, <3>4, ReadRestores
      <4>2. QED
        BY <3>1, <3>2, <3>4, <4>1
    <3>5. QED
      BY <3>1, <3>3, <3>4
  <2>4. ASSUME NEW x, NEW w \in Workloads, Goes(s, x), VisitIs(s, w, x), UNCHANGED sched
        PROVE  Good(q)
    <3>1. rec'[q] = IF q = s THEN x ELSE rec[q]
      BY <1>0, <1>1, <2>4 DEF TypeOK, Goes
    <3>2. /\ LabelledFor(obj'[w], s)
          /\ \A v \in Workloads \ {w} : obj'[v] = obj[v]
      BY <1>0, <2>4, VisitWrites
    <3>3. CASE q # s
      <4>1. \A v \in Workloads : obj'[v].label = q => obj[v].label = q
        BY <1>1, <3>2, <3>3, ScalerAssumption DEF LabelledFor
      <4>2. QED
        BY <1>3, <2>4, <3>1, <3>3, <4>1
    <3>4. CASE q = s /\ x.stage = "restore"
      <4>1. sched[q].phase = "deleting" /\ ToRestore(q, x, sched[q].targets, obj')
        BY <2>4, <3>4, VisitRestores
      <4>2. QED
        BY <2>4, <3>1, <3>4, <4>1
    <3>5. QED
      BY <3>1, <3>3, <3>4
  <2>5. QED
    BY <1>0, <1>5, <2>1, <2>2, <2>3, <2>4, StepIs
<1>6. ASSUME Environment, NEW q \in ClusterSchedules PROVE Good(q)
  <2>1. /\ \A w \in Workloads : obj'[w].label = obj[w].label
        /\ UNCHANGED rec \/ rec' = [s \in Schedules |-> Idle]
        /\ sched[q].phase = "deleting" => sched'[q] = sched[q]
    BY <1>0, <1>1, <1>6, EnvironmentIs
  <2>2. CASE UNCHANGED rec
    BY <1>0, <1>3, <2>1, <2>2
  <2>3. CASE rec' = [s \in Schedules |-> Idle]
    BY <1>1, <2>3 DEF Idle
  <2>4. QED
    BY <2>1, <2>2, <2>3
<1>7. QED
  BY <1>4, <1>5, <1>6 DEF Next

\* A schedule that goes while its deletion is under way leaves nothing under its label.
RestoresFirst ==
    \A s \in ClusterSchedules :
       sched[s].phase = "deleting" /\ sched'[s].phase = "absent"
         => \A w \in Workloads : NsOf[w] \in Managed(s) => obj[w].label # s

\* Only the end of a deletion without a failure takes the schedule away.
LEMMA OnlyTheEnd ==
    ASSUME Apart, DeletionInv, [Next]_vars PROVE RestoresFirst
<1>0. TypeOK /\ ApartInv
  BY DEF DeletionInv, ApartInv
<1>1. SUFFICES ASSUME NEW s \in ClusterSchedules, sched[s].phase = "deleting",
                      sched'[s].phase = "absent"
               PROVE  \A w \in Workloads : NsOf[w] \in Managed(s) => obj[w].label # s
  BY DEF RestoresFirst
<1>2. s \in Schedules
  BY DEF ClusterSchedules
<1>3. Deleted(s)
  <2>1. CASE UNCHANGED vars
    BY <1>1, <2>1 DEF vars
  <2>2. CASE Environment
    BY <1>0, <1>1, <1>2, <2>2, EnvironmentIs
  <2>3. ASSUME NEW q \in Schedules, Reconcile(q) PROVE Deleted(s)
    <3>1. InReach(q, rec[q])
      BY <1>0 DEF ApartInv, ReachOK
    <3>2. CASE PausesIs(q)
      <4>1. sched'[s].phase = sched[s].phase
        BY <1>0, <1>2, <3>2 DEF PausesIs, Becomes, TypeOK
      <4>2. QED
        BY <1>1, <4>1
    <3>3. CASE UNCHANGED sched
      BY <1>1, <3>3
    <3>4. CASE Deleted(q)
      <4>1. q = s
        BY <1>0, <1>1, <1>2, <3>4 DEF Deleted, Becomes, TypeOK
      <4>2. QED
        BY <3>4, <4>1
    <3>5. ASSUME NEW x, ReadIs(q, x) PROVE UNCHANGED sched \/ Deleted(q)
      BY <3>5 DEF ReadIs, StartsIs, TurnsIs, ListsIs, FiltersIs, CollectsIs, FetchesIs,
         EndsIs
    <3>6. QED
      BY <1>0, <2>3, <3>1, <3>2, <3>3, <3>4, <3>5, StepIs
  <2>4. QED
    BY <2>1, <2>2, <2>3 DEF Next
<1>4. /\ ToRestore(s, rec[s], sched[s].targets, obj) /\ ~rec[s].errs
      /\ rec[s].ns = {} /\ rec[s].todo = {} /\ rec[s].here = NoOne
  BY <1>3 DEF Deleted, DeletionInv, RestoreOK
<1>5. \A w \in Workloads : NsOf[w] \in sched[s].targets => obj[w].label # s
  BY <1>4, ReconcilersAssumption DEF ToRestore
<1>6. Managed(s) \subseteq sched[s].targets
  BY DEF Managed, Unclaimed, ClusterSchedules
<1>7. QED
  BY <1>5, <1>6

\* Of schedules that are kept apart, while the discovery of their namespaces works:
\* a cluster schedule goes only when no workload it manages is left under its label,
\* whatever else fails or restarts in between, however often the cleanup is retried.
THEOREM DeletionRestoresFirst ==
    Apart /\ "discover" \notin FaultKinds /\ Spec => DeletionRestores
<1>1. Init => DeletionInv
  BY ApartInit DEF Init, DeletionInv, RestoreOK, Idle, ClusterSchedules
<1>2. Apart /\ "discover" \notin FaultKinds /\ DeletionInv /\ [Next]_vars => DeletionInv'
  BY DeletionStep
<1>3. Apart /\ DeletionInv /\ [Next]_vars => [RestoresFirst]_vars
  BY OnlyTheEnd
<1>4. SUFFICES ASSUME Apart, "discover" \notin FaultKinds
               PROVE  Spec => [][RestoresFirst]_vars
  BY DEF DeletionRestores, RestoresFirst
<1>5. QED
  BY <1>1, <1>2, <1>3, <1>4, PTL DEF Spec
=============================================================================
