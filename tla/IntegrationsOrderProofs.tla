------------------------ MODULE IntegrationsOrderProofs ------------------------
(***************************************************************************)
(* The order of a pass in Integrations: Flux resources are suspended       *)
(* before the first workload goes down and resumed after the last one is   *)
(* up, and a cleanup ends when nothing is held any more.                   *)
(***************************************************************************)
EXTENDS IntegrationsOwnersProofs

-----------------------------------------------------------------------------
(* How a pass goes on *)

\* Only the last step of the restores and of the gates can be followed by the end of an
\* upscale; every other step is followed by the next one.
LEMMA NextAtIs ==
    ASSUME NEW r \in Pass, ~Over(r)
    PROVE  /\ n \in Nat /\ Len(Plan(r)) = LenOf(r.kind) /\ r.at \in 1..LenOf(r.kind)
           /\ r.kind \in {"down", "cleanup"} => NextAt(r) = r.at + 1
           /\ r.kind = "up" => /\ NextAt(r) = r.at + 1 \/ (r.at <= n + n /\ NextAt(r) = n + n + 4)
                               /\ r.at = n + n /\ NextAt(r) = r.at + 1 => ~r.wait
<1>1. n \in Nat
  BY IntegrationsAssumption DEF n
<1>2. /\ r.kind \in {"idle", "down", "up", "cleanup", "blind"} /\ r.kind # "idle"
      /\ r.at \in 1..Len(Plan(r)) /\ r.at \in Nat \ {0}
      /\ OpOf(r) \in {"restore", "gate"} => r.kind = "up"
  BY StepOf DEF Pass
<1>3. Follow(Plan(r), r.kind)
  BY <1>2, PlanIs
<1>4. Len(Plan(r)) = LenOf(r.kind)
  BY <1>3 DEF Follow
<1>5. r.kind \in {"down", "cleanup"} => NextAt(r) = r.at + 1
  BY <1>2 DEF NextAt, OpOf
<1>6. ASSUME r.kind = "up"
      PROVE  /\ NextAt(r) = r.at + 1 \/ (r.at <= n + n /\ NextAt(r) = n + n + 4)
             /\ r.at = n + n /\ NextAt(r) = r.at + 1 => ~r.wait
  <2>1. /\ Len(Plan(r)) = n + n + 3
        /\ Plan(r)[r.at].op = OpAt("up", r.at)
        /\ r.at + 1 <= n + n + 3 => Plan(r)[r.at + 1].op = OpAt("up", r.at + 1)
    BY <1>1, <1>2, <1>3, <1>4, <1>6 DEF Follow, LenOf
  <2>2. r.at > n + n => OpAt("up", r.at) \notin {"restore", "gate"}
    BY <1>1, <1>2 DEF OpAt
  <2>3. r.at = n + n => OpAt("up", r.at) \in {"restore", "gate"} /\ OpAt("up", r.at + 1) = "scale"
    BY <1>1, <1>2 DEF OpAt
  <2> QED
    BY <1>1, <1>2, <2>1, <2>2, <2>3 DEF NextAt
<1> QED
  BY <1>1, <1>2, <1>4, <1>5, <1>6

\* Where the workloads are scaled, and the operation and objects there.
LEMMA ScaleAt ==
    ASSUME NEW r \in Pass, ~Over(r)
    PROVE  /\ OpOf(r) = OpAt(r.kind, r.at) /\ ObjsOf(r) = ObjsAt(r.kind, r.at)
           /\ OpOf(r) = "scale" <=> r.at = IF r.kind = "down" THEN n + 3
                                          ELSE IF r.kind = "up" THEN n + n + 1 ELSE 1
           /\ OpOf(r) = "scale" => ObjsOf(r) = Workloads
<1>1. /\ n \in Nat /\ r.kind \in {"idle", "down", "up", "cleanup", "blind"} /\ r.kind # "idle"
      /\ r.at \in 1..LenOf(r.kind) /\ Len(Plan(r)) = LenOf(r.kind)
  BY NextAtIs, StepOf DEF Pass
<1>2. OpOf(r) = OpAt(r.kind, r.at) /\ ObjsOf(r) = ObjsAt(r.kind, r.at)
  BY <1>1, PlanIs DEF Follow, OpOf, ObjsOf
<1>3. OpAt(r.kind, r.at) = "scale" <=> r.at = IF r.kind = "down" THEN n + 3
                                          ELSE IF r.kind = "up" THEN n + n + 1 ELSE 1
  BY <1>1 DEF OpAt, LenOf
<1>4. OpAt(r.kind, r.at) = "scale" => ObjsAt(r.kind, r.at) = Workloads
  BY <1>1 DEF OpAt, ObjsAt, LenOf
<1> QED
  BY <1>2, <1>3, <1>4

-----------------------------------------------------------------------------
(* Workloads *)

\* A workload has its size saved exactly while a schedule holds it; that schedule selects
\* it, and its label tells so, too.
Stamped(objs) ==
    \A w \in Workloads :
       /\ objs[w].by = NoOne <=> objs[w].saved = Absent
       /\ \A s \in Schedules : objs[w].by = s => objs[w].label = s /\ w \in Selects(s)

\* A downscale has workloads in hand that are up and nobody's, any other pass its own.
Picked(s, r, objs) ==
    \A w \in Workloads \cap Parts(r) :
       IF r.kind = "down" THEN objs[w].by = NoOne /\ objs[w].size # 0 ELSE objs[w].by = s

\* The pass brings workloads back now, or has done so.
Scaling(r) == (r.kind = "up" /\ r.at = n + n + 1) \/ (r.kind = "cleanup" /\ r.at = 1)
Scaled(r) == (r.kind = "up" /\ r.at \in {n + n + 2, n + n + 3}) \/ (r.kind = "cleanup" /\ r.at > 1)

\* No List and no patch of workloads failed, or a cleanup remembers no error.
Minded == {<<"list", "scale">>, <<"write", "scale">>} \cap FaultKinds = {}
Trusted(r) == Minded \/ (r.kind = "cleanup" /\ ~r.errs)

\* What s holds is in hand when the workloads have been listed, and nothing is left later.
Cleared(s, r, objs) ==
    Trusted(r) => \A w \in Workloads : objs[w].by = s =>
                     ~Scaled(r) /\ (Scaling(r) /\ r.listed => w \in r.todo)

WorkInv ==
    /\ OwnInv /\ Stamped(obj)
    /\ \A s \in Schedules : Picked(s, rec[s], obj) /\ Cleared(s, rec[s], obj)

\* At most one schedule selects a workload.
LEMMA OneSelects ==
    ASSUME ShapeInv, NEW s \in Schedules, NEW t \in Schedules, NEW w \in Workloads,
           w \in Selects(s), w \in Selects(t)
    PROVE  s = t
BY IntegrationsAssumption DEF ShapeInv, Fixed

\* A pass that goes on from a step that is not that of the workloads, or with nothing left
\* in hand, has cleared what it had to.
LEMMA ClearedOnward ==
    ASSUME NEW s \in Schedules, NEW objs, NEW r \in Pass, ~Over(r), Cleared(s, r, objs),
           \/ r.listed /\ Parts(r) = {}
           \/ ~Scaling(r)
           \/ ~Trusted(r)
    PROVE  Cleared(s, Onward(r), objs)
<1>1. /\ Onward(r).kind = r.kind /\ Onward(r).at = NextAt(r) /\ ~Onward(r).listed
      /\ Trusted(Onward(r)) <=> Trusted(r)
  BY OnwardFields DEF Trusted
<1>2. n \in Nat /\ r.at \in Nat \ {0} /\ r.at \in 1..LenOf(r.kind)
  BY NextAtIs
<1>3. Scaled(Onward(r)) => Scaled(r) \/ Scaling(r)
  BY <1>1, <1>2, NextAtIs DEF Scaled, Scaling
<1>4. r.todo \subseteq Parts(r)
  BY DEF Parts
<1> QED
  BY <1>1, <1>3, <1>4 DEF Cleared

\* The same for a pass that settles, that is outdated or that begins, and for one whose
\* step is not that of the workloads.
LEMMA ClearedKept ==
    ASSUME NEW s \in Schedules, NEW objs, NEW r \in Pass
    PROVE  /\ Clean(r) => Cleared(s, r, objs)
           /\ ~Over(r) /\ r.listed /\ Cleared(s, r, objs) => Cleared(s, Settle(r), objs)
           /\ \A x : Same(x, r) /\ Cleared(s, r, objs) => Cleared(s, x, objs)
           /\ \A x \in Pass : /\ x.kind = r.kind /\ x.at = r.at /\ (r.errs => x.errs)
                              /\ ~Scaling(r) /\ Cleared(s, r, objs)
                              => Cleared(s, x, objs)
<1>1. n \in Nat
  BY IntegrationsAssumption DEF n
<1>2. Clean(r) => Cleared(s, r, objs)
  BY <1>1 DEF Clean, Cleared, Scaled, Scaling
<1>3. ~Over(r) /\ r.listed /\ Cleared(s, r, objs) => Cleared(s, Settle(r), objs)
  BY ClearedOnward, SettleIs
<1>4. \A x : Same(x, r) /\ Cleared(s, r, objs) => Cleared(s, x, objs)
  BY DEF Same, Cleared, Trusted, Scaled, Scaling
<1>5. ASSUME NEW x \in Pass, x.kind = r.kind, x.at = r.at, r.errs => x.errs, ~Scaling(r),
             Cleared(s, r, objs)
      PROVE  Cleared(s, x, objs)
  BY <1>5 DEF Cleared, Trusted, Scaled, Scaling
<1> QED
  BY <1>2, <1>3, <1>4, <1>5

\* The List of the workloads.
LEMMA WorkListed ==
    ASSUME WorkInv, NEW s \in Schedules, ListStep(s)
    PROVE  Picked(s, Finds(s), obj) /\ Cleared(s, Finds(s), obj)
<1> DEFINE r == [rec[s] EXCEPT !.listed = TRUE]
           op == OpOf(rec[s])
           here == Selects(s) \cap ObjsOf(rec[s])
           R == Finds(s)
<1>1. /\ rec[s] \in Pass /\ ~Over(rec[s]) /\ Stamped(obj) /\ Cleared(s, rec[s], obj)
      /\ obj \in [Workloads -> Workload] /\ \A w \in Workloads : obj[w].saved \in Nat
  BY Zenon DEF WorkInv, OwnInv, ShapeInv, TypeInv, TypeOK, ListStep
<1>2. Found(s, r, op, here, R) /\ R.kind = rec[s].kind /\ R.at = rec[s].at /\ R.errs = rec[s].errs
  <2>1. Found(s, r, op, here, R) /\ R.kind = rec[s].kind /\ R.at = rec[s].at
    BY FindsIs DEF WorkInv, OwnInv
  <2>2. r.errs = rec[s].errs
    BY <1>1 DEF Pass
  <2> QED
    BY <2>1, <2>2 DEF Found
<1>3. op \in Ops /\ here \subseteq Sort(op) /\ s # NoOne
  BY <1>1, StepOf, ScalerAssumption
<1>4. r.kind = rec[s].kind
  BY <1>1 DEF Pass
<1>5. op = "scale" => here = Selects(s) \cap Workloads
  BY <1>1, ScaleAt
<1>6. Scaling(rec[s]) => op = "scale" /\ rec[s].kind # "down"
  BY <1>1, ScaleAt DEF Scaling
<1> HIDE DEF r, op, here, R
<1>7. op # "scale" => Workloads \cap Parts(R) = {}
  BY <1>2, <1>3, SortsDiffer DEF Found, Parts, Sort, Ops
<1>8. op = "scale" => R.check = {} /\ R.done = {}
  BY <1>2 DEF Found
<1>9. ASSUME NEW w \in Workloads, op = "scale"
      PROVE  /\ w \in R.todo => IF R.kind = "down" THEN obj[w].by = NoOne /\ obj[w].size # 0
                                                   ELSE obj[w].by = s
             /\ obj[w].by = s /\ R.kind # "down" => w \in R.todo
  <2>1. R.todo = {v \in here : IF r.kind = "down" THEN ScalesDown(obj[v], s)
                               ELSE /\ ScalesUp(obj[v], s)
                                    /\ r.kind = "cleanup" => obj[v].label = s}
    BY <1>2, <1>9 DEF Found
  <2>2. obj[w].by = NoOne <=> obj[w].saved = Absent
    BY <1>1 DEF Stamped
  <2>3. obj[w].by = s => obj[w].label = s /\ w \in here
    BY <1>1, <1>5, <1>9 DEF Stamped
  <2>4. obj[w].saved \in Nat
    BY <1>1
  <2>5. ScalesDown(obj[w], s) => obj[w].by = NoOne /\ obj[w].size # 0
    BY <2>2 DEF ScalesDown
  <2>6. ScalesUp(obj[w], s) <=> obj[w].by = s
    BY <1>3, <2>2, <2>4 DEF ScalesUp, Foreign, Absent, ByUser
  <2> QED
    BY <1>2, <1>4, <2>1, <2>3, <2>5, <2>6
<1>10. Picked(s, R, obj)
  BY <1>2, <1>7, <1>8, <1>9 DEF Picked, Parts
<1>11. Cleared(s, R, obj)
  BY <1>1, <1>2, <1>6, <1>9 DEF Cleared, Trusted, Scaled, Scaling
<1> QED
  BY <1>10, <1>11 DEF R

\* What a pass that advances has in hand is still what it may scale, until a workload is
\* written.
LEMMA PickedMoves ==
    ASSUME WorkInv, NEW s \in Schedules, NEW t \in Schedules, Advances(s, t)
    PROVE  Picked(t, rec'[t], obj)
<1>1. \A x, y : Less(x, y) /\ Picked(t, y, obj) => Picked(t, x, obj)
  BY DEF Less, Picked
<1>2. \A x : Empty(x) => Picked(t, x, obj)
  BY DEF Empty, Picked
<1> QED
  BY <1>1, <1>2, WorkListed DEF Advances, WorkInv

\* What the passes that did not scale make of what they cleared.
LEMMA ClearedMoves ==
    ASSUME WorkInv, NEW s \in Schedules, PassStep(s), \A w \in Workloads : \A r : ~ScaleStepOf(s, w, r)
    PROVE  \A t \in Schedules : Cleared(t, rec'[t], obj)
<1>1. /\ rec \in [Schedules -> Pass] /\ \A t \in Schedules : Cleared(t, rec[t], obj)
  BY Zenon DEF WorkInv, OwnInv, ShapeInv, TypeInv, TypeOK
<1>2. ASSUME NEW r, Turns(s, r), Cleared(s, r, obj), r \in Pass
      PROVE  \A t \in Schedules : Cleared(t, rec'[t], obj)
  BY <1>1, <1>2, ClearedKept DEF Turns
<1>3. rec[s] \in Pass
  BY <1>1
\* A step that is not that of the workloads and goes on.
<1>4. ASSUME NEW r \in Pass, r.kind = rec[s].kind, r.at = rec[s].at, r.listed = rec[s].listed,
             rec[s].listed, rec[s].errs => r.errs, ~Over(rec[s]), OpOf(rec[s]) # "scale",
             Turns(s, Settle(r))
      PROVE  \A t \in Schedules : Cleared(t, rec'[t], obj)
  <2>1. ~Scaling(rec[s])
    BY <1>3, <1>4, ScaleAt DEF Scaling
  <2>2. Cleared(s, r, obj)
    BY <1>1, <1>3, <1>4, <2>1, ClearedKept
  <2>3. ~Over(r)
    BY <1>4, SamePlan
  <2> QED
    BY <1>2, <1>4, <2>2, <2>3, ClearedKept, SettleIs
<1>5. ASSUME NEW g \in Gits, NEW r, NEW after, GitStep(s, g, r, after)
      PROVE  \A t \in Schedules : Cleared(t, rec'[t], obj)
  BY <1>4, <1>5 DEF GitStep, GitWrite, Shrinks
<1>6. ASSUME NEW c \in CRs, NEW r, NEW x, CrStep(s, c, r, x)
      PROVE  \A t \in Schedules : Cleared(t, rec'[t], obj)
  BY <1>4, <1>6 DEF CrStep, Shrinks, Returns
<1>7. ASSUME NEW r, QuietStep(s, r)
      PROVE  \A t \in Schedules : Cleared(t, rec'[t], obj)
  BY <1>4, <1>7 DEF QuietStep
<1>8. ASSUME NEW r, LeaveStep(s, r)
      PROVE  \A t \in Schedules : Cleared(t, rec'[t], obj)
  <2>1. /\ r \in Pass /\ r.kind = rec[s].kind /\ r.at = rec[s].at /\ r.listed = rec[s].listed
        /\ r.todo = rec[s].todo /\ Parts(r) = Parts(rec[s]) /\ (rec[s].errs => r.errs)
    BY <1>3, <1>8 DEF LeaveStep, Same, Parts, Pass
  <2>2. Cleared(s, r, obj)
    BY <1>1, <2>1 DEF Cleared, Trusted, Scaled, Scaling
  <2>3. ~Over(r) /\ OpOf(r) = OpOf(rec[s])
    BY <1>8, <2>1, SamePlan DEF LeaveStep
  <2>4. OpOf(r) # "scale" => ~Scaling(r)
    BY <2>1, <2>3, ScaleAt DEF Scaling
  <2>5. \/ OpOf(r) # "scale"
        \/ r.listed /\ r.todo = {}
        \/ r.errs /\ <<"list", "scale">> \in FaultKinds
    BY <1>8, <2>1, <2>3 DEF LeaveStep
  <2>6. r.errs /\ <<"list", "scale">> \in FaultKinds => ~Trusted(r)
    BY DEF Trusted, Minded
  <2>7. OpOf(r) = "scale" /\ r.listed /\ r.todo = {} => Cleared(s, Onward(r), obj)
    <3>1. ASSUME r.listed, r.todo = {} PROVE Cleared(s, Onward(r), obj)
      <4>1. n \in Nat /\ r.at \in Nat \ {0} /\ r.at \in 1..LenOf(r.kind)
        BY <2>1, <2>3, NextAtIs
      <4>2. /\ Onward(r).kind = r.kind /\ Onward(r).at = NextAt(r) /\ ~Onward(r).listed
            /\ Trusted(Onward(r)) <=> Trusted(r)
        BY <2>1, OnwardFields DEF Trusted
      <4>3. Scaled(Onward(r)) => Scaled(r) \/ Scaling(r)
        BY <2>1, <2>3, <4>1, <4>2, NextAtIs DEF Scaled, Scaling
      <4> QED
        BY <2>2, <3>1, <4>2, <4>3 DEF Cleared
    <3> QED
      BY <3>1
  <2>8. Cleared(s, Onward(r), obj)
    BY <2>1, <2>2, <2>3, <2>4, <2>5, <2>6, <2>7, ClearedOnward
  <2>9. Turns(s, Onward(r)) /\ Onward(r) \in Pass
    BY <1>8, <2>1, OnwardIs DEF LeaveStep
  <2> QED
    BY <1>2, <2>8, <2>9
<1>9. CASE ListStep(s)
  <2>1. /\ Finds(s) \in Pass /\ Cleared(s, Finds(s), obj) /\ Finds(s).listed
        /\ Finds(s).kind = rec[s].kind /\ Finds(s).at = rec[s].at
    BY <1>9, WorkListed, FindsIs DEF WorkInv, OwnInv
  <2>2. ~Over(Finds(s)) /\ Turns(s, Settle(Finds(s)))
    BY <1>9, <2>1, SamePlan DEF ListStep, Finds
  <2> QED
    BY <1>2, <2>1, <2>2, ClearedKept, SettleIs
<1>10. CASE TurnStep(s)
  <2>1. Cleared(s, rec'[s], obj)
    BY <1>10, ClearedKept DEF TurnStep, Clean
  <2> QED
    BY <1>1, <1>10, <2>1, ClearedKept DEF TurnStep
<1> QED
  BY <1>5, <1>6, <1>7, <1>8, <1>9, <1>10 DEF PassStep

\* One workload is scaled, by the only schedule that selects it.
LEMMA WorkScaled ==
    ASSUME WorkInv, NEW s \in Schedules, NEW w \in Workloads, NEW r, ScaleStepOf(s, w, r)
    PROVE  /\ Stamped(obj')
           /\ \A t \in Schedules : Picked(t, rec'[t], obj') /\ Cleared(t, rec'[t], obj')
<1>1. /\ rec \in [Schedules -> Pass] /\ Stamped(obj)
      /\ obj \in [Workloads -> Workload] /\ \A v \in Workloads : obj[v].saved \in Nat
      /\ \A t \in Schedules : Picked(t, rec[t], obj) /\ Cleared(t, rec[t], obj)
                              /\ Shape(rec[t], Selects(t))
  BY Zenon DEF WorkInv, OwnInv, ShapeInv, TypeInv, TypeOK
<1>2. s # NoOne /\ NoOne \notin Schedules
  BY ScalerAssumption
<1>3. w \in Parts(rec[s]) /\ w \in Selects(s) /\ obj[w] \in Workload
  BY <1>1 DEF ScaleStepOf, Parts, Shape
<1>4. \A t \in Schedules \ {s} : w \notin Selects(t) /\ w \notin Parts(rec[t])
  BY <1>1, <1>3, OneSelects DEF Shape, WorkInv, OwnInv
<1>5. \A v \in Workloads \ {w} : obj'[v] = obj[v]
  BY <1>1 DEF ScaleStepOf
<1>6. \/ obj'[w] = obj[w] /\ r.errs /\ <<"write", "scale">> \in FaultKinds
      \/ rec[s].kind = "down" /\ obj'[w] = Down(obj[w], obj[w], s)
      \/ rec[s].kind # "down" /\ obj'[w] = Up(obj[w], obj[w])
  BY <1>1 DEF ScaleStepOf
<1>7. IF rec[s].kind = "down" THEN obj[w].by = NoOne /\ obj[w].size # 0 ELSE obj[w].by = s
  BY <1>1, <1>3 DEF Picked
<1>8. \/ obj'[w] = obj[w] /\ r.errs /\ <<"write", "scale">> \in FaultKinds
      \/ /\ rec[s].kind = "down" /\ obj'[w].by = s /\ obj'[w].label = s
         /\ obj'[w].saved # Absent
      \/ /\ rec[s].kind # "down" /\ obj'[w].by = NoOne /\ obj'[w].saved = Absent
  BY <1>3, <1>6, <1>7 DEF Down, Up, Workload, Absent
<1>9. Stamped(obj')
  <2>1. ASSUME NEW v \in Workloads
        PROVE  /\ obj'[v].by = NoOne <=> obj'[v].saved = Absent
               /\ \A t \in Schedules : obj'[v].by = t => obj'[v].label = t /\ v \in Selects(t)
    BY <1>1, <1>2, <1>3, <1>5, <1>8 DEF Stamped
  <2> QED
    BY <2>1 DEF Stamped
<1>10. ASSUME NEW t \in Schedules \ {s}
       PROVE  Picked(t, rec'[t], obj') /\ Cleared(t, rec'[t], obj')
  <2>1. Same(rec'[t], rec[t]) /\ Parts(rec'[t]) = Parts(rec[t]) /\ rec'[t].kind = rec[t].kind
    BY DEF ScaleStepOf, Turns, Same, Parts
  <2>2. Picked(t, rec'[t], obj')
    BY <1>1, <1>4, <1>5, <2>1 DEF Picked
  <2>3. Cleared(t, rec'[t], obj)
    BY <1>1, <2>1, ClearedKept
  <2>4. \A v \in Workloads : obj'[v].by = t => obj[v].by = t
    BY <1>2, <1>5, <1>8
  <2> QED
    BY <2>2, <2>3, <2>4 DEF Cleared
<1>11. Picked(s, rec'[s], obj') /\ Cleared(s, rec'[s], obj')
  <2>1. /\ Same(rec'[s], r) /\ r \in Pass /\ r.kind = rec[s].kind /\ r.at = rec[s].at
        /\ r.listed = rec[s].listed /\ r.todo = rec[s].todo \ {w} /\ w \notin Parts(r)
        /\ Parts(r) \subseteq Parts(rec[s]) /\ (rec[s].errs => r.errs)
    BY DEF ScaleStepOf, Turns, Shrinks, Parts
  <2>2. Picked(s, r, obj')
    BY <1>1, <1>5, <2>1 DEF Picked
  <2>3. Cleared(s, r, obj')
    <3>1. CASE rec[s].kind = "down"
      BY <2>1, <3>1 DEF Cleared, Scaled, Scaling
    <3>2. CASE rec[s].kind # "down"
      <4> SUFFICES ASSUME Trusted(r), NEW v \in Workloads, obj'[v].by = s
                   PROVE  ~Scaled(r) /\ (Scaling(r) /\ r.listed => v \in r.todo)
        BY DEF Cleared
      <4>1. Trusted(rec[s])
        BY <2>1 DEF Trusted
      <4>2. v # w
        BY <1>2, <1>8, <3>2 DEF Trusted, Minded
      <4> QED
        BY <1>1, <1>5, <2>1, <4>1, <4>2 DEF Cleared, Scaled, Scaling
    <3> QED
      BY <3>1, <3>2
  <2> QED
    BY <2>1, <2>2, <2>3, ClearedKept DEF Same, Picked, Parts
<1> QED
  BY <1>9, <1>10, <1>11

\* The workloads are nobody's at first ...
LEMMA WorkInit == Init => WorkInv
<1> SUFFICES ASSUME Init PROVE WorkInv
  OBVIOUS
<1>1. Stamped(obj)
  BY ScalerAssumption DEF Init, Stamped, Absent
<1>2. \A s \in Schedules : Clean(rec[s])
  BY IdleIs DEF Init
<1>3. \A s \in Schedules : Picked(s, rec[s], obj) /\ Cleared(s, rec[s], obj)
  BY <1>2, ClearedKept DEF Clean, Picked
<1> QED
  BY <1>1, <1>3, OwnInit DEF WorkInv

\* ... every step keeps who holds them, and what is cleared ...
LEMMA WorkStep == WorkInv /\ [Next]_vars => WorkInv'
<1> SUFFICES ASSUME WorkInv, [Next]_vars PROVE WorkInv'
  OBVIOUS
<1>1. /\ OwnInv /\ ShapeInv /\ TypeInv /\ OwnInv' /\ Stamped(obj)
      /\ \A t \in Schedules : Picked(t, rec[t], obj) /\ Cleared(t, rec[t], obj)
  BY OwnStep DEF WorkInv, OwnInv, ShapeInv
<1>2. \A t \in Schedules : Selects(t)' = Selects(t)
  BY <1>1, SelectsKept DEF Selects
<1> DEFINE Kept == /\ Stamped(obj')
                   /\ \A t \in Schedules : Picked(t, rec'[t], obj') /\ Cleared(t, rec'[t], obj')
<1>3. ASSUME Kept PROVE WorkInv'
  <2>1. Stamped(obj)'
    BY <1>2, <1>3 DEF Stamped
  <2> QED
    BY <1>1, <1>3, <2>1 DEF WorkInv, Picked, Cleared, Trusted, Scaled, Scaling, Parts
<1>4. CASE UNCHANGED <<rec, obj>>
  BY <1>1, <1>3, <1>4
<1>5. CASE Environment
  <2>1. WorldStep
    BY <1>1, <1>5, WorldIs
  <2>2. obj' = obj
    BY <2>1 DEF WorldStep
  <2>3. \A t \in Schedules : Picked(t, rec'[t], obj)
    BY <1>1, <2>1, WorldMoves, PickedMoves
  <2>4. \A t \in Schedules : Cleared(t, rec'[t], obj)
    <3>1. \A t \in Schedules : Same(rec'[t], rec[t]) \/ Clean(rec'[t])
      BY <2>1, IdleIs DEF WorldStep
    <3>2. \A t \in Schedules : rec[t] \in Pass /\ rec'[t] \in Pass
      BY <1>1, <2>1, Zenon DEF TypeInv, TypeOK, WorldStep
    <3> QED
      BY <1>1, <3>1, <3>2, ClearedKept
  <2> QED
    BY <1>1, <1>3, <2>2, <2>3, <2>4
<1>6. ASSUME NEW s \in Schedules, PassStep(s) PROVE WorkInv'
  <2>1. ASSUME NEW w \in Workloads, NEW r, ScaleStepOf(s, w, r) PROVE WorkInv'
    BY <1>3, <2>1, WorkScaled
  <2>2. CASE \A w \in Workloads : \A r : ~ScaleStepOf(s, w, r)
    <3>1. obj' = obj
      BY <1>6, <2>2 DEF PassStep, GitStep, CrStep, QuietStep, LeaveStep, ListStep, TurnStep, objects
    <3>2. \A t \in Schedules : Picked(t, rec'[t], obj) /\ Cleared(t, rec'[t], obj)
      BY <1>1, <1>6, <2>2, PassMoves, PickedMoves, ClearedMoves
    <3> QED
      BY <1>1, <1>3, <3>1, <3>2
  <2> QED
    BY <2>1, <2>2
<1> QED
  BY <1>1, <1>4, <1>5, <1>6, NextIs DEF vars, objects, SkipStep

\* ... and so it always is.
LEMMA WorkHolds == Spec => []WorkInv
BY WorkInit, WorkStep, PTL DEF Spec

-----------------------------------------------------------------------------
(* Flux resources *)

\* The hypothesis about failures: none of a List or a patch of Flux resources or of
\* workloads before what relies on it.
Undisturbed == Minded /\ {<<"list", "hold">>, <<"write", "hold">>} \cap FaultKinds = {}

\* s is the only schedule that selects f.
Alone(s, f) == f \in Selects(s) /\ \A t \in Schedules \ {s} : f \notin Selects(t)

\* A Flux resource is held by a schedule that selects it.
Picks(gits) == \A f \in Flux, t \in Schedules : gits[f].by = t => f \in Selects(t)

\* A downscale has suspended the Flux resources of its schedule alone once it has dealt
\* with them.
Suspends(s, r, gits) ==
    r.kind = "down" =>
       \A f \in Flux : Alone(s, f) /\ (r.at > 2 \/ (r.at = 2 /\ r.listed /\ f \notin r.todo))
                         => gits[f].suspend = TRUE

\* HeldWhileDown, for any objects.
Holds(objs, gits) ==
    \A s \in Schedules, w \in Workloads, f \in Flux :
       w \in Selects(s) /\ Alone(s, f) /\ objs[w].saved # Absent /\ objs[w].by = s
         => gits[f].suspend = TRUE

HoldInv ==
    /\ WorkInv /\ Picks(git) /\ Holds(obj, git)
    /\ \A s \in Schedules : Suspends(s, rec[s], git)

\* Where the GitOps objects are dealt with.
LEMMA GitAt ==
    ASSUME NEW r \in Pass, ~Over(r)
    PROVE  /\ OpOf(r) = "hold" => r.kind = "down" /\ r.at \in {1, 2}
           /\ r.kind = "down" /\ r.at = 2 => OpOf(r) = "hold" /\ ObjsOf(r) = Flux
           /\ OpOf(r) \in {"warm", "release"} => Scaled(r)
           /\ r.kind = "down" /\ OpOf(r) # "hold" => r.at > 2
<1>1. /\ n \in Nat /\ r.kind \in {"down", "up", "cleanup"}
      /\ r.at \in 1..LenOf(r.kind)
  BY NextAtIs, StepOf DEF Pass
<1>2. OpOf(r) = OpAt(r.kind, r.at) /\ ObjsOf(r) = ObjsAt(r.kind, r.at)
  BY ScaleAt
<1>3. CASE r.kind = "down"
  BY <1>1, <1>2, <1>3 DEF OpAt, ObjsAt, LenOf
<1>4. CASE r.kind = "up"
  BY <1>1, <1>2, <1>4 DEF OpAt, LenOf, Scaled
<1>5. CASE r.kind = "cleanup"
  BY <1>1, <1>2, <1>5 DEF OpAt, LenOf, Scaled
<1> QED
  BY <1>1, <1>3, <1>4, <1>5

\* A pass that goes on, is outdated, begins, or is not at the Flux resources.
LEMMA SuspendsKept ==
    ASSUME NEW s \in Schedules, NEW gits, NEW r \in Pass
    PROVE  /\ Clean(r) => Suspends(s, r, gits)
           /\ r.kind # "down" => Suspends(s, r, gits)
           /\ ~Over(r) /\ Suspends(s, r, gits) /\ (r.at # 2 \/ (r.listed /\ Parts(r) = {}))
                => Suspends(s, Onward(r), gits)
           /\ ~Over(r) /\ Suspends(s, r, gits) /\ r.listed => Suspends(s, Settle(r), gits)
           /\ \A x : Same(x, r) /\ Suspends(s, r, gits) => Suspends(s, x, gits)
           /\ \A x \in Pass : /\ x.kind = r.kind /\ x.at = r.at /\ r.at # 2
                              /\ Suspends(s, r, gits)
                              => Suspends(s, x, gits)
<1>1. Clean(r) => Suspends(s, r, gits)
  BY DEF Clean, Suspends
<1>2. ASSUME ~Over(r), Suspends(s, r, gits), r.at # 2 \/ (r.listed /\ Parts(r) = {})
      PROVE  Suspends(s, Onward(r), gits)
  <2>1. /\ Onward(r).kind = r.kind /\ Onward(r).at = NextAt(r) /\ ~Onward(r).listed
    BY OnwardFields
  <2>2. r.at \in Nat /\ (r.kind = "down" => NextAt(r) = r.at + 1)
    BY <1>2, NextAtIs DEF Pass
  <2>3. r.todo \subseteq Parts(r)
    BY DEF Parts
  <2>4. CASE r.at # 2
    BY <1>2, <2>1, <2>2, <2>4 DEF Suspends
  <2>5. CASE r.at = 2 /\ r.listed /\ Parts(r) = {}
    BY <1>2, <2>1, <2>2, <2>3, <2>5 DEF Suspends
  <2> QED
    BY <1>2, <2>4, <2>5
<1>3. ~Over(r) /\ Suspends(s, r, gits) /\ r.listed => Suspends(s, Settle(r), gits)
  BY <1>2, SettleIs
<1>4. \A x : Same(x, r) /\ Suspends(s, r, gits) => Suspends(s, x, gits)
  BY DEF Same, Suspends
<1>5. ASSUME NEW x \in Pass, x.kind = r.kind, x.at = r.at, r.at # 2, Suspends(s, r, gits)
      PROVE  Suspends(s, x, gits)
  BY <1>5 DEF Suspends
<1>6. r.kind # "down" => Suspends(s, r, gits)
  BY DEF Suspends
<1> QED
  BY <1>1, <1>2, <1>3, <1>4, <1>5, <1>6

\* A Flux resource that a List leaves out is suspended, or is another's.
LEMMA SuspendsListed ==
    ASSUME HoldInv, NEW s \in Schedules, ListStep(s)
    PROVE  Suspends(s, Finds(s), git)
<1> DEFINE r == [rec[s] EXCEPT !.listed = TRUE]
           op == OpOf(rec[s])
           here == Selects(s) \cap ObjsOf(rec[s])
           R == Finds(s)
<1>1. /\ rec[s] \in Pass /\ ~Over(rec[s]) /\ Picks(git) /\ Suspends(s, rec[s], git)
      /\ git \in [Gits -> GitObject]
  BY Zenon DEF HoldInv, WorkInv, OwnInv, ShapeInv, TypeInv, TypeOK, ListStep
<1>2. /\ Found(s, r, op, here, R) /\ R \in Pass
      /\ R.kind = rec[s].kind /\ R.at = rec[s].at
  BY FindsIs DEF HoldInv, WorkInv, OwnInv
<1>3. CASE R.kind # "down" \/ R.at # 2
  BY <1>1, <1>2, <1>3, SuspendsKept
<1>4. CASE R.kind = "down" /\ R.at = 2
  <2>1. op = "hold" /\ ObjsOf(rec[s]) = Flux
    BY <1>1, <1>2, <1>4, GitAt
  <2> HIDE DEF r, op, R
  <2>2. R.todo = {g \in here : IF g \in Argo THEN ArgoHolds(git[g], s) ELSE FluxHolds(git[g], s)}
    BY <1>2, <2>1 DEF Found
  <2>3. ASSUME NEW f \in Flux, Alone(s, f), f \notin R.todo
        PROVE  git[f].suspend = TRUE
    <3>1. f \in here /\ f \notin Argo /\ f \in Gits
      BY <2>1, <2>3, SortsDiffer DEF Alone, Gits
    <3>2. ~FluxHolds(git[f], s)
      BY <2>2, <2>3, <3>1
    <3>3. git[f].by \in {s, NoOne}
      BY <1>1, <2>3, <3>1 DEF Picks, Alone, GitObject, Owners
    <3>4. git[f].suspend \in BOOLEAN
      BY <1>1, <3>1 DEF GitObject
    <3> QED
      BY <3>2, <3>3, <3>4 DEF FluxHolds, Foreign
  <2>4. ~(R.at > 2)
    BY <1>4
  <2>5. Suspends(s, R, git)
    BY <1>4, <2>3, <2>4, Zenon DEF Suspends
  <2> QED
    BY <2>5 DEF R
<1> QED
  BY <1>3, <1>4 DEF R

\* A patch of a GitOps object: a Flux resource is resumed only when its schedule holds no
\* workload any more.
LEMMA HoldGits ==
    ASSUME HoldInv, Undisturbed, NEW s \in Schedules, NEW g \in Gits, NEW r, NEW after,
           GitStep(s, g, r, after)
    PROVE  /\ Picks(git') /\ Holds(obj', git')
           /\ \A t \in Schedules : Suspends(t, rec'[t], git')
<1>1. /\ rec \in [Schedules -> Pass] /\ git \in [Gits -> GitObject]
      /\ Picks(git) /\ Holds(obj, git)
      /\ \A t \in Schedules : /\ Suspends(t, rec[t], git) /\ Shape(rec[t], Selects(t))
                              /\ Cleared(t, rec[t], obj)
  BY Zenon DEF HoldInv, WorkInv, OwnInv, ShapeInv, TypeInv, TypeOK
<1>2. g \in Parts(rec[s]) /\ g \in Selects(s) /\ ~Over(rec[s]) /\ obj' = obj /\ git[g] \in GitObject
  BY <1>1 DEF GitStep, GitWrite, Parts, Shape
<1>3. \A f \in Flux : f \in Gits /\ f \notin Argo
  BY SortsDiffer DEF Gits
<1>4. /\ \A h \in Gits \ {g} : git'[h] = git[h]
      /\ \/ git'[g] = after
         \/ git'[g] = git[g] /\ OpOf(rec[s]) # "hold"
  BY <1>1 DEF GitStep, Undisturbed
<1>5. /\ after.by \in {s, NoOne}
      /\ OpOf(rec[s]) = "hold" /\ g \in Flux => after.suspend = TRUE
      /\ OpOf(rec[s]) \in {"warm", "release"} \/ (OpOf(rec[s]) = "hold" /\ g \in rec[s].todo)
  <2>1. GitWrite(s, rec[s], g, after)
    BY DEF GitStep
  <2>2. CASE OpOf(rec[s]) = "hold" /\ g \in rec[s].todo
             /\ after = IF g \in Argo THEN ArgoHold(git[g], s) ELSE FluxHold(git[g], s)
    BY <1>2, <1>3, <2>2 DEF ArgoHold, FluxHold, GitObject
  <2>3. CASE OpOf(rec[s]) = "warm" /\ after = WarmUp(git[g], s)
    BY <1>2, <2>3 DEF WarmUp, GitObject
  <2>4. CASE OpOf(rec[s]) = "warm"
             /\ after = IF g \in Argo THEN ArgoComplete(git[g]) ELSE FluxResume(git[g])
    BY <1>2, <2>4 DEF ArgoComplete, FluxResume, GitObject
  <2>5. CASE OpOf(rec[s]) = "release"
             /\ after = IF g \in Argo THEN ArgoRemove(git[g]) ELSE FluxResume(git[g])
    BY <1>2, <2>5 DEF ArgoRemove, ArgoComplete, FluxResume, GitObject
  <2> QED
    BY <2>1, <2>2, <2>3, <2>4, <2>5 DEF GitWrite
<1>6. Picks(git')
  <2>1. ASSUME NEW f \in Flux, NEW t \in Schedules, git'[f].by = t PROVE f \in Selects(t)
    <3>1. NoOne # t
      BY ScalerAssumption
    <3> QED
      BY <1>1, <1>2, <1>3, <1>4, <1>5, <2>1, <3>1 DEF Picks
  <2> QED
    BY <2>1 DEF Picks
<1>7. \A t \in Schedules \ {s} : ~Alone(t, g)
  BY <1>2 DEF Alone
<1>8. OpOf(rec[s]) # "hold" => \A w \in Workloads : obj[w].by # s
  <2>1. Trusted(rec[s])
    BY DEF Undisturbed, Trusted
  <2> QED
    BY <1>1, <1>2, <1>5, <2>1, GitAt DEF Cleared
<1>9. Holds(obj', git')
  <2> SUFFICES ASSUME NEW t \in Schedules, NEW w \in Workloads, NEW f \in Flux,
                      w \in Selects(t), Alone(t, f), obj[w].saved # Absent, obj[w].by = t
               PROVE  git'[f].suspend = TRUE
    BY <1>2 DEF Holds
  <2>1. git[f].suspend = TRUE
    BY <1>1 DEF Holds
  <2>2. CASE f # g
    BY <1>3, <1>4, <2>1, <2>2
  <2>3. CASE f = g
    <3>1. t = s
      BY <1>7, <2>3
    <3> QED
      BY <1>4, <1>5, <1>8, <2>1, <2>3, <3>1
  <2> QED
    BY <2>2, <2>3
<1>10. ASSUME NEW t \in Schedules \ {s} PROVE Suspends(t, rec'[t], git')
  <2>1. Same(rec'[t], rec[t])
    BY DEF GitStep, Turns
  <2>2. Suspends(t, rec'[t], git)
    BY <1>1, <2>1, SuspendsKept
  <2> QED
    BY <1>3, <1>4, <1>7, <2>2 DEF Suspends
<1>11. Suspends(s, rec'[s], git')
  <2>1. /\ Same(rec'[s], Settle(r)) /\ r \in Pass /\ r.kind = rec[s].kind /\ r.at = rec[s].at
        /\ r.listed = rec[s].listed /\ r.todo = rec[s].todo \ {g} /\ rec[s].listed
    BY DEF GitStep, Turns, Shrinks
  <2>2. ~Over(r)
    BY <1>2, <2>1, SamePlan
  <2>3. Suspends(s, r, git')
    <3>1. CASE r.kind # "down"
      BY <2>1, <3>1, SuspendsKept
    <3>2. CASE r.kind = "down"
      <4>1. OpOf(rec[s]) = "hold"
        BY <1>1, <1>2, <1>5, <2>1, <3>2, StepOf
      <4> SUFFICES ASSUME NEW f \in Flux, Alone(s, f),
                          r.at > 2 \/ (r.at = 2 /\ r.listed /\ f \notin r.todo)
                   PROVE  git'[f].suspend = TRUE
        BY DEF Suspends
      <4>2. CASE f = g
        BY <1>4, <1>5, <4>1, <4>2
      <4>3. CASE f # g
        BY <1>1, <1>3, <1>4, <2>1, <3>2, <4>3 DEF Suspends
      <4> QED
        BY <4>2, <4>3
    <3> QED
      BY <3>1, <3>2
  <2>4. Suspends(s, Settle(r), git') /\ Settle(r) \in Pass
    BY <2>1, <2>2, <2>3, SuspendsKept, SettleIs
  <2> QED
    BY <2>1, <2>4, SuspendsKept
<1> QED
  BY <1>6, <1>9, <1>10, <1>11

\* A workload goes down when the Flux resources of its schedule are suspended.
LEMMA HoldScaled ==
    ASSUME HoldInv, NEW s \in Schedules, NEW w \in Workloads, NEW r, ScaleStepOf(s, w, r)
    PROVE  Holds(obj', git) /\ \A t \in Schedules : Suspends(t, rec'[t], git)
<1>1. /\ rec \in [Schedules -> Pass] /\ obj \in [Workloads -> Workload]
      /\ Holds(obj, git) /\ \A t \in Schedules : Suspends(t, rec[t], git)
  BY Zenon DEF HoldInv, WorkInv, OwnInv, ShapeInv, TypeInv, TypeOK
<1>2. /\ r \in Pass /\ r.kind = rec[s].kind /\ r.at = rec[s].at /\ Turns(s, r)
      /\ ~Over(rec[s]) /\ OpOf(rec[s]) = "scale" /\ rec[s] \in Pass
  BY <1>1 DEF ScaleStepOf, Shrinks
<1>3. rec[s].kind = "down" => rec[s].at > 2
  BY <1>2, GitAt
<1>4. \A v \in Workloads :
         obj'[v] = obj[v] \/ (obj'[v].by = s /\ rec[s].kind = "down") \/ obj'[v].by = NoOne
  <2>1. \A after : \A v \in Workloads : [obj EXCEPT ![w] = after][v] = IF v = w THEN after ELSE obj[v]
    BY <1>1
  <2>2. obj[w] \in Workload
    BY <1>1
  <2>3. Down(obj[w], obj[w], s).by = s /\ Up(obj[w], obj[w]).by = NoOne
    BY <2>2 DEF Down, Up, Workload
  <2>4. \/ obj' = obj
        \/ \E after : /\ obj' = [obj EXCEPT ![w] = after]
                      /\ (after.by = s /\ rec[s].kind = "down") \/ after.by = NoOne
    BY <2>3 DEF ScaleStepOf
  <2> QED
    BY <2>1, <2>4
<1>5. Holds(obj', git)
  <2>1. ASSUME NEW t \in Schedules, NEW v \in Workloads, NEW f \in Flux,
               v \in Selects(t), Alone(t, f), obj'[v].saved # Absent, obj'[v].by = t
        PROVE  git[f].suspend = TRUE
    <3>1. obj'[v] = obj[v] \/ (t = s /\ rec[s].kind = "down")
      BY <1>4, <2>1, ScalerAssumption
    <3>2. CASE obj'[v] = obj[v]
      BY <1>1, <2>1, <3>2 DEF Holds
    <3>3. CASE t = s /\ rec[s].kind = "down"
      BY <1>1, <1>3, <2>1, <3>3 DEF Suspends
    <3> QED
      BY <3>1, <3>2, <3>3
  <2> QED
    BY <2>1 DEF Holds
<1>6. Suspends(s, r, git)
  <2>1. CASE r.kind = "down"
    <3>1. rec[s].at # 2
      BY <1>2, <1>3, <2>1 DEF Pass
    <3> QED
      BY <1>1, <1>2, <3>1, SuspendsKept
  <2> QED
    BY <2>1 DEF Suspends
<1> QED
  BY <1>1, <1>2, <1>5, <1>6, SuspendsKept DEF Turns

\* The steps of a pass that write neither a GitOps object nor a workload.
LEMMA SuspendsMoves ==
    ASSUME HoldInv, Undisturbed, NEW s \in Schedules, PassStep(s),
           \A w \in Workloads : \A r : ~ScaleStepOf(s, w, r),
           \A g \in Gits : \A r, after : ~GitStep(s, g, r, after)
    PROVE  \A t \in Schedules : Suspends(t, rec'[t], git)
<1>1. rec \in [Schedules -> Pass] /\ \A t \in Schedules : Suspends(t, rec[t], git)
  BY Zenon DEF HoldInv, WorkInv, OwnInv, ShapeInv, TypeInv, TypeOK
<1>2. ASSUME NEW r, Turns(s, r), Suspends(s, r, git), r \in Pass
      PROVE  \A t \in Schedules : Suspends(t, rec'[t], git)
  BY <1>1, <1>2, SuspendsKept DEF Turns
<1>3. rec[s] \in Pass
  BY <1>1
<1>4. ASSUME NEW r \in Pass, r.kind = rec[s].kind, r.at = rec[s].at, ~Over(rec[s]),
             OpOf(rec[s]) # "hold"
      PROVE  Suspends(s, r, git) /\ ~Over(r) /\ (r.kind # "down" \/ r.at # 2)
  <2>1. ~Over(r)
    BY <1>4, SamePlan
  <2>2. r.kind # "down" \/ r.at # 2
    BY <1>3, <1>4, GitAt
  <2>3. Suspends(s, r, git)
    BY <1>1, <1>3, <1>4, <2>2, SuspendsKept
  <2> QED
    BY <2>1, <2>2, <2>3
<1>5. ASSUME NEW r \in Pass, r.kind = rec[s].kind, r.at = rec[s].at, r.listed, ~Over(rec[s]),
             OpOf(rec[s]) # "hold", Turns(s, Settle(r))
      PROVE  \A t \in Schedules : Suspends(t, rec'[t], git)
  BY <1>2, <1>4, <1>5, SuspendsKept, SettleIs
<1>6. ASSUME NEW c \in CRs, NEW r, NEW x, CrStep(s, c, r, x)
      PROVE  \A t \in Schedules : Suspends(t, rec'[t], git)
  BY <1>5, <1>6 DEF CrStep, Shrinks, Returns
<1>7. ASSUME NEW r, QuietStep(s, r)
      PROVE  \A t \in Schedules : Suspends(t, rec'[t], git)
  BY <1>5, <1>7 DEF QuietStep
<1>8. ASSUME NEW r, LeaveStep(s, r)
      PROVE  \A t \in Schedules : Suspends(t, rec'[t], git)
  <2>1. /\ r \in Pass /\ r.kind = rec[s].kind /\ r.at = rec[s].at /\ Turns(s, Onward(r))
        /\ ~Over(rec[s]) /\ OpOf(rec[s]) # "hold"
    BY <1>3, <1>8 DEF LeaveStep, Same, Pass, Undisturbed
  <2>2. Suspends(s, r, git) /\ ~Over(r) /\ (r.kind # "down" \/ r.at # 2)
    BY <1>4, <2>1
  <2>3. Onward(r) \in Pass /\ Onward(r).kind = r.kind
    BY <2>1, OnwardIs, OnwardFields
  <2>4. Suspends(s, Onward(r), git)
    BY <2>1, <2>2, <2>3, SuspendsKept
  <2> QED
    BY <1>2, <2>1, <2>3, <2>4
<1>9. CASE ListStep(s)
  <2>1. /\ Finds(s) \in Pass /\ Suspends(s, Finds(s), git) /\ Finds(s).listed
        /\ Finds(s).kind = rec[s].kind /\ Finds(s).at = rec[s].at
    BY <1>9, SuspendsListed, FindsIs DEF HoldInv, WorkInv, OwnInv
  <2>2. ~Over(Finds(s)) /\ Turns(s, Settle(Finds(s)))
    BY <1>9, <2>1, SamePlan DEF ListStep, Finds
  <2> QED
    BY <1>2, <2>1, <2>2, SuspendsKept, SettleIs
<1>10. CASE TurnStep(s)
  <2>1. Suspends(s, rec'[s], git)
    BY <1>10, SuspendsKept DEF TurnStep, Clean
  <2> QED
    BY <1>1, <1>10, <2>1, SuspendsKept DEF TurnStep
<1> QED
  BY <1>6, <1>7, <1>8, <1>9, <1>10 DEF PassStep

\* What users do to a Flux resource: not while a pass has it in view, nor while a workload
\* of its schedule is down.
LEMMA HoldWorld ==
    ASSUME HoldInv, WorldStep
    PROVE  Picks(git') /\ Holds(obj, git') /\ \A t \in Schedules : Suspends(t, rec'[t], git')
<1>1. /\ rec \in [Schedules -> Pass] /\ git \in [Gits -> GitObject] /\ rec' \in [Schedules -> Pass]
      /\ Picks(git) /\ Holds(obj, git) /\ \A t \in Schedules : Suspends(t, rec[t], git)
  BY Zenon DEF HoldInv, WorkInv, OwnInv, ShapeInv, TypeInv, TypeOK, WorldStep
<1>2. \A f \in Flux :
         \/ git'[f].suspend = git[f].suspend
         \/ /\ ~AtHand(f)
            /\ \A s \in Schedules, w \in Workloads :
                 f \in Selects(s) /\ w \in Selects(s) => obj[w].saved = Absent
  <2>1. \A f \in Flux : f \in Gits
    BY DEF Gits
  <2>2. ASSUME NEW g \in Gits, git' = [git EXCEPT ![g].since = Old], NEW f \in Flux
        PROVE  git'[f].suspend = git[f].suspend
    BY <1>1, <2>1, <2>2 DEF GitObject
  <2>3. ASSUME NEW g \in Flux, NEW b, git' = [git EXCEPT ![g].suspend = b], NEW f \in Flux
        PROVE  f = g \/ git'[f].suspend = git[f].suspend
    BY <1>1, <2>1, <2>3 DEF GitObject
  <2>4. \/ git' = git
        \/ \E g \in Gits : git' = [git EXCEPT ![g].since = Old]
        \/ \E g \in Flux :
             /\ ~AtHand(g)
             /\ \A s \in Schedules, w \in Workloads :
                  g \in Selects(s) /\ w \in Selects(s) => obj[w].saved = Absent
             /\ git' = [git EXCEPT ![g].suspend = ~git[g].suspend]
    BY Zenon DEF WorldStep
  <2> QED
    BY <2>2, <2>3, <2>4
<1>3. Picks(git')
  BY <1>1, WorldOwners DEF HoldInv, WorkInv, OwnInv, ShapeInv, Picks
<1>4. Holds(obj, git')
  <2>1. ASSUME NEW s \in Schedules, NEW w \in Workloads, NEW f \in Flux,
               w \in Selects(s), Alone(s, f), obj[w].saved # Absent, obj[w].by = s
        PROVE  git'[f].suspend = TRUE
    BY <1>1, <1>2, <2>1 DEF Holds, Alone
  <2> QED
    BY <2>1 DEF Holds
<1>5. ASSUME NEW t \in Schedules PROVE Suspends(t, rec'[t], git')
  <2>1. CASE Clean(rec'[t])
    BY <2>1, SuspendsKept DEF Clean
  <2>2. CASE Same(rec'[t], rec[t])
    <3>1. Suspends(t, rec'[t], git)
      BY <1>1, <2>2, SuspendsKept
    <3>2. \A f \in Selects(t) : rec'[t].kind = "down" => AtHand(f)
      BY <2>2 DEF AtHand, Same
    <3> QED
      BY <1>2, <3>1, <3>2 DEF Suspends, Alone
  <2> QED
    BY <2>1, <2>2, IdleIs DEF WorldStep
<1> QED
  BY <1>3, <1>4, <1>5

\* The Flux resources are running at first, and no workload is down ...
LEMMA HoldInit == Init => HoldInv
<1> SUFFICES ASSUME Init PROVE HoldInv
  OBVIOUS
<1>1. Picks(git)
  BY ScalerAssumption DEF Init, Picks, Gits
<1>2. Holds(obj, git)
  BY DEF Init, Holds
<1>3. \A s \in Schedules : Suspends(s, rec[s], git)
  BY IdleIs, SuspendsKept DEF Init, Clean
<1> QED
  BY <1>1, <1>2, <1>3, WorkInit DEF HoldInv

\* ... and every step keeps them suspended while one is.
LEMMA HoldStep ==
    ASSUME Undisturbed
    PROVE  HoldInv /\ [Next]_vars => HoldInv'
<1> SUFFICES ASSUME HoldInv, [Next]_vars PROVE HoldInv'
  OBVIOUS
<1>1. /\ WorkInv /\ WorkInv' /\ TypeInv /\ Picks(git) /\ Holds(obj, git)
      /\ \A t \in Schedules : Suspends(t, rec[t], git)
  BY WorkStep DEF HoldInv, WorkInv, OwnInv, ShapeInv
<1>2. \A t \in Schedules : Selects(t)' = Selects(t)
  BY <1>1, SelectsKept DEF Selects
<1> DEFINE Kept == /\ Picks(git') /\ Holds(obj', git')
                   /\ \A t \in Schedules : Suspends(t, rec'[t], git')
<1>3. ASSUME Kept PROVE HoldInv'
  <2>1. \A s \in Schedules, f \in Flux : Alone(s, f)' <=> Alone(s, f)
    BY <1>2 DEF Alone
  <2>2. Picks(git)'
    BY <1>2, <1>3 DEF Picks
  <2>3. Holds(obj, git)'
    BY <1>2, <1>3, <2>1 DEF Holds
  <2>4. \A t \in Schedules : Suspends(t, rec[t], git)'
    BY <1>3, <2>1 DEF Suspends
  <2> QED
    BY <1>1, <2>2, <2>3, <2>4 DEF HoldInv
<1>4. CASE UNCHANGED <<rec, obj, git>>
  BY <1>1, <1>3, <1>4
<1>5. CASE Environment
  <2>1. WorldStep /\ obj' = obj
    BY <1>1, <1>5, WorldIs DEF WorldStep
  <2> QED
    BY <1>1, <1>3, <2>1, HoldWorld
<1>6. ASSUME NEW s \in Schedules, PassStep(s) PROVE HoldInv'
  <2>1. ASSUME NEW w \in Workloads, NEW r, ScaleStepOf(s, w, r) PROVE HoldInv'
    <3>1. git' = git
      BY <2>1 DEF ScaleStepOf
    <3> QED
      BY <1>1, <1>3, <2>1, <3>1, HoldScaled
  <2>2. ASSUME NEW g \in Gits, NEW r, NEW after, GitStep(s, g, r, after) PROVE HoldInv'
    BY <1>3, <2>2, HoldGits
  <2>3. CASE /\ \A w \in Workloads : \A r : ~ScaleStepOf(s, w, r)
             /\ \A g \in Gits : \A r, after : ~GitStep(s, g, r, after)
    <3>1. obj' = obj /\ git' = git
      BY <1>6, <2>3 DEF PassStep, CrStep, QuietStep, LeaveStep, ListStep, TurnStep, objects
    <3> QED
      BY <1>1, <1>3, <1>6, <2>3, <3>1, SuspendsMoves
  <2> QED
    BY <2>1, <2>2, <2>3
<1> QED
  BY <1>1, <1>4, <1>5, <1>6, NextIs DEF vars, objects, SkipStep

\* While a schedule holds a workload at zero, the Flux resources that it alone selects are
\* suspended: through restarts, batches and passes that end early, users who suspend and
\* resume, and schedules that overlap in what else they select.  Of failures, only those
\* of a List or patch of Flux resources in a downscale and of workloads are excluded.
THEOREM FluxHeld ==
    ASSUME Undisturbed
    PROVE  Spec => []HeldWhileDown
<1>1. HoldInv => HeldWhileDown
  BY DEF HoldInv, Holds, Alone, HeldWhileDown
<1> QED
  BY <1>1, HoldInit, HoldStep, PTL DEF Spec

-----------------------------------------------------------------------------
(* Custom resources *)

\* A custom resource is labelled with its owner and its state, and is one of an entry
\* that does not delete.
Named(crs) ==
    \A c \in CRs : /\ crs[c].by # NoOne <=> crs[c].state # NoState
                   /\ crs[c].by # NoOne => \E i \in 1..n : c \in Matches(i)

\* The step of an entry of c, d places after the place of the entry, is still to come, or
\* has c in hand.
Ahead(r, c, d) ==
    \E i \in 1..n : c \in Matches(i)
                      /\ (r.at < i + d \/ (r.at = i + d /\ (r.listed => c \in Parts(r))))

\* A cleanup without errors has still to return what its schedule holds.
Returned(s, r, crs) ==
    r.kind = "cleanup" /\ ~r.errs =>
       \A c \in CRs \cap Selects(s) : crs[c].by = s => Ahead(r, c, 3)

ReturnInv ==
    /\ WorkInv /\ Named(cr)
    /\ \A s \in Schedules : Returned(s, rec[s], cr)

\* What is ahead of a pass stays ahead when it goes on with nothing in hand, or from a
\* step before those of the entries.
LEMMA AheadKept ==
    ASSUME NEW r \in Pass, NEW c, NEW d \in Nat, ~Over(r)
    PROVE  /\ Ahead(r, c, d) /\ NextAt(r) = r.at + 1
                /\ ((r.listed /\ Parts(r) = {}) \/ r.at <= d)
                => Ahead(Onward(r), c, d)
           /\ \A x : Same(x, r) /\ Ahead(r, c, d) => Ahead(x, c, d)
           /\ \A x : /\ x.at = r.at /\ x.listed = r.listed
                     /\ Ahead(r, c, d) /\ (c \in Parts(r) => c \in Parts(x))
                     => Ahead(x, c, d)
<1>1. n \in Nat /\ r.at \in Nat
  BY NextAtIs DEF Pass
<1>2. ASSUME Ahead(r, c, d), NextAt(r) = r.at + 1, (r.listed /\ Parts(r) = {}) \/ r.at <= d
      PROVE  Ahead(Onward(r), c, d)
  <2>1. Onward(r).at = r.at + 1 /\ ~Onward(r).listed
    BY <1>2, OnwardFields
  <2>2. PICK i \in 1..n : c \in Matches(i)
                            /\ (r.at < i + d \/ (r.at = i + d /\ (r.listed => c \in Parts(r))))
    BY <1>2 DEF Ahead
  <2>3. r.at < i + d
    BY <1>1, <1>2, <2>2
  <2>4. r.at + 1 < i + d \/ r.at + 1 = i + d
    BY <1>1, <2>3
  <2> QED
    BY <2>1, <2>2, <2>4 DEF Ahead
<1>3. ASSUME NEW x, x.at = r.at, x.listed = r.listed, Ahead(r, c, d), c \in Parts(r) => c \in Parts(x)
      PROVE  Ahead(x, c, d)
  BY <1>3 DEF Ahead
<1>4. \A x : Same(x, r) => x.at = r.at /\ x.listed = r.listed /\ Parts(x) = Parts(r)
  BY DEF Same, Parts
<1> QED
  BY <1>2, <1>3, <1>4

\* A pass that settles, is outdated or begins, and one that keeps the custom resources it
\* has in hand.
LEMMA ReturnedKept ==
    ASSUME NEW s \in Schedules, NEW crs, NEW r \in Pass
    PROVE  /\ Clean(r) /\ Named(crs) => Returned(s, r, crs)
           /\ ~Over(r) /\ Returned(s, r, crs) /\ ((r.listed /\ Parts(r) = {}) \/ r.at <= 3 \/ r.errs)
                => Returned(s, Onward(r), crs)
           /\ ~Over(r) /\ r.listed /\ Returned(s, r, crs) => Returned(s, Settle(r), crs)
           /\ \A x : Same(x, r) /\ Returned(s, r, crs) => Returned(s, x, crs)
           /\ \A x \in Pass : /\ x.kind = r.kind /\ x.at = r.at /\ x.listed = r.listed
                              /\ (r.errs => x.errs) /\ CRs \cap Parts(r) \subseteq Parts(x)
                              /\ Returned(s, r, crs)
                              => Returned(s, x, crs)
<1>1. ASSUME Clean(r), Named(crs) PROVE Returned(s, r, crs)
  <2>1. \A i \in 1..n : r.at < i + 3
    BY <1>1 DEF Clean, n
  <2>2. s # NoOne
    BY ScalerAssumption
  <2> QED
    BY <1>1, <2>1, <2>2 DEF Named, Ahead, Returned
<1>2. ASSUME ~Over(r), Returned(s, r, crs), (r.listed /\ Parts(r) = {}) \/ r.at <= 3 \/ r.errs
      PROVE  Returned(s, Onward(r), crs)
  <2>1. Onward(r).kind = r.kind /\ Onward(r).errs = r.errs
    BY OnwardFields
  <2>2. r.kind = "cleanup" => NextAt(r) = r.at + 1
    BY <1>2, NextAtIs
  <2>3. r.kind = "cleanup" /\ ~r.errs
          => \A c \in CRs \cap Selects(s) : Ahead(r, c, 3) => Ahead(Onward(r), c, 3)
    BY <1>2, <2>2, AheadKept
  <2> QED
    BY <1>2, <2>1, <2>3 DEF Returned
<1>3. ~Over(r) /\ r.listed /\ Returned(s, r, crs) => Returned(s, Settle(r), crs)
  BY <1>2, SettleIs
<1>4. ASSUME NEW x, x.kind = r.kind, x.at = r.at, x.listed = r.listed, r.errs => x.errs,
             CRs \cap Parts(r) \subseteq Parts(x), Returned(s, r, crs)
      PROVE  Returned(s, x, crs)
  BY <1>4 DEF Returned, Ahead
<1>5. \A x : Same(x, r) /\ Returned(s, r, crs) => Returned(s, x, crs)
  BY <1>4 DEF Same, Parts
<1> QED
  BY <1>1, <1>2, <1>3, <1>4, <1>5

\* The List of a return finds every custom resource of its entry that the schedule holds.
LEMMA ReturnedListed ==
    ASSUME ReturnInv, NEW s \in Schedules, ListStep(s)
    PROVE  Returned(s, Finds(s), cr)
<1> DEFINE r == [rec[s] EXCEPT !.listed = TRUE]
           op == OpOf(rec[s])
           here == Selects(s) \cap ObjsOf(rec[s])
           R == Finds(s)
<1>1. rec[s] \in Pass /\ ~Over(rec[s]) /\ ~rec[s].listed /\ Returned(s, rec[s], cr)
  BY Zenon DEF ReturnInv, WorkInv, OwnInv, ShapeInv, TypeInv, TypeOK, ListStep
<1>2. Found(s, r, op, here, R) /\ R.kind = rec[s].kind /\ R.at = rec[s].at
  BY FindsIs DEF ReturnInv, WorkInv, OwnInv
<1>3. R.errs = rec[s].errs
  <2>1. r.errs = rec[s].errs
    BY <1>1 DEF Pass
  <2> QED
    BY <1>2, <2>1 DEF Found
<1>4. ASSUME rec[s].kind = "cleanup", NEW i \in 1..n, rec[s].at = i + 3
      PROVE  op = "return" /\ here = Selects(s) \cap Matches(i)
  <2>1. n \in Nat /\ op = OpAt("cleanup", i + 3) /\ ObjsOf(rec[s]) = ObjsAt("cleanup", i + 3)
    BY <1>1, <1>4, ScaleAt, NextAtIs
  <2>2. OpAt("cleanup", i + 3) = "return" /\ ObjsAt("cleanup", i + 3) = Matches(i)
    BY <2>1 DEF OpAt, ObjsAt
  <2> QED
    BY <2>1, <2>2
<1> HIDE DEF r, op, here, R
<1>5. op = "return" => \A c \in here : cr[c].by = s => c \in Parts(R)
  BY <1>2 DEF Found, Parts
<1>6. ASSUME R.kind = "cleanup", ~R.errs, NEW c \in CRs \cap Selects(s), cr[c].by = s
      PROVE  Ahead(R, c, 3)
  <2>1. Ahead(rec[s], c, 3)
    BY <1>1, <1>2, <1>3, <1>6 DEF Returned
  <2>2. PICK i \in 1..n : c \in Matches(i) /\ (rec[s].at < i + 3 \/ rec[s].at = i + 3)
    BY <2>1 DEF Ahead
  <2>3. rec[s].at = i + 3 => c \in Parts(R)
    BY <1>2, <1>4, <1>5, <1>6, <2>2
  <2> QED
    BY <1>2, <2>2, <2>3 DEF Ahead
<1> QED
  BY <1>6 DEF Returned, R

\* A write of a custom resource by s gives it to nobody but s, and what another schedule
\* holds stays as it is.
LEMMA CrKept ==
    ASSUME OwnInv, NEW s \in Schedules, NEW c \in CRs, NEW r, NEW x, CrStep(s, c, r, x)
    PROVE  /\ \A t \in Schedules : x.by = t => (t = s /\ OpOf(rec[s]) = "turn") \/ cr[c].by = t
           /\ \A t \in Schedules \ {s} : x.by = t \/ cr[c].by = t => x = cr[c]
           /\ cr'[c] = x /\ \A d \in CRs \ {c} : cr'[d] = cr[d]
<1>1. cr = [d \in CRs |-> cr[d]] /\ CrObject(cr[c]) /\ CrObject(x)
  BY DEF OwnInv, ShapeInv, TypeInv, CrStep
<1>2. NoOne \notin Schedules
  BY ScalerAssumption
<1>3. cr'[c] = x /\ \A d \in CRs \ {c} : cr'[d] = cr[d]
  BY <1>1 DEF CrStep
<1>4. x = cr[c] \/ cr[c].by \in {s, NoOne}
  BY OwnCr
<1>5. \A t \in Schedules : x.by = t => (t = s /\ OpOf(rec[s]) = "turn") \/ cr[c].by = t
  BY <1>1, <1>2, ClearIs DEF CrStep, CrWrite
<1> QED
  BY <1>2, <1>3, <1>4, <1>5

\* A write keeps the labels of a custom resource together.
LEMMA NamedCr ==
    ASSUME OwnInv, Named(cr), NEW s \in Schedules, NEW c \in CRs, NEW r, NEW x, CrStep(s, c, r, x)
    PROVE  Named(cr')
<1>1. /\ CrObject(cr[c]) /\ CrObject(x) /\ rec[s] \in Pass /\ ~Over(rec[s])
      /\ Mine(s, rec[s], cr, git) /\ Shape(rec[s], Selects(s))
  BY Zenon DEF OwnInv, ShapeInv, TypeInv, TypeOK, CrStep
<1>2. s # NoOne
  BY ScalerAssumption
<1>3. OpOf(rec[s]) = "turn" => \E i \in 1..n : ObjsOf(rec[s]) = Matches(i)
  <2> SUFFICES ASSUME OpOf(rec[s]) = "turn" PROVE \E i \in 1..n : ObjsOf(rec[s]) = Matches(i)
    OBVIOUS
  <2>1. /\ rec[s].kind = "down" /\ n \in Nat /\ rec[s].at \in 1..(n + 3)
        /\ OpAt("down", rec[s].at) = "turn" /\ ObjsOf(rec[s]) = ObjsAt("down", rec[s].at)
    BY <1>1, StepOf, ScaleAt, NextAtIs DEF LenOf
  <2>2. /\ rec[s].at - 2 \in 1..n /\ ~Entries[rec[s].at - 2].delete
        /\ ObjsAt("down", rec[s].at) = Entries[rec[s].at - 2].matches
    BY <2>1 DEF OpAt, ObjsAt
  <2> QED
    BY <2>1, <2>2 DEF Matches
<1>4. OpOf(rec[s]) = "turn" /\ c \in rec[s].todo => \E i \in 1..n : c \in Matches(i)
  BY <1>1, <1>3 DEF Shape, Parts
<1>5. OpOf(rec[s]) \in {"restore", "return"} /\ c \in rec[s].fresh => cr[c].by = s
  BY <1>1, StepOf DEF Mine
<1>6. /\ x.by = NoOne <=> x.state = NoState
      /\ x.by # NoOne => \E i \in 1..n : c \in Matches(i)
  BY <1>1, <1>2, <1>4, <1>5, ClearIs DEF Named, CrStep, CrWrite, IsDown, NoState, WarmingUp
<1> QED
  BY <1>6, CrKept DEF Named

\* Nothing is held at first ...
LEMMA ReturnInit == Init => ReturnInv
<1> SUFFICES ASSUME Init PROVE ReturnInv
  OBVIOUS
<1>1. Named(cr)
  BY DEF Init, Named, Untouched
<1>2. \A s \in Schedules : rec[s] \in Pass /\ Clean(rec[s])
  BY IdleIs DEF Init, Clean
<1>3. \A s \in Schedules : Returned(s, rec[s], cr)
  BY <1>1, <1>2, ReturnedKept
<1> QED
  BY <1>1, <1>3, WorkInit DEF ReturnInv

\* ... and a cleanup loses sight of nothing.
LEMMA ReturnStep == ReturnInv /\ [Next]_vars => ReturnInv'
<1> SUFFICES ASSUME ReturnInv, [Next]_vars PROVE ReturnInv'
  OBVIOUS
<1>1. /\ WorkInv /\ WorkInv' /\ OwnInv /\ TypeInv /\ Named(cr)
      /\ \A t \in Schedules : Returned(t, rec[t], cr)
  BY WorkStep DEF ReturnInv, WorkInv, OwnInv, ShapeInv
<1>2. rec \in [Schedules -> Pass]
  BY <1>1, Zenon DEF TypeInv, TypeOK
<1>3. \A t \in Schedules : Selects(t)' = Selects(t)
  BY <1>1, SelectsKept DEF Selects
<1> DEFINE Kept == Named(cr') /\ \A t \in Schedules : Returned(t, rec'[t], cr')
<1>4. ASSUME Kept PROVE ReturnInv'
  <2>1. \A t \in Schedules : Returned(t, rec[t], cr)'
    BY <1>3, <1>4 DEF Returned, Ahead, Parts
  <2> QED
    BY <1>1, <1>4, <2>1 DEF ReturnInv, Named
<1>5. ASSUME NEW s \in Schedules, NEW r \in Pass, Turns(s, r), Returned(s, r, cr), cr' = cr
      PROVE  ReturnInv'
  BY <1>1, <1>2, <1>4, <1>5, ReturnedKept DEF Turns
<1>6. CASE UNCHANGED <<rec, cr>>
  BY <1>1, <1>4, <1>6
<1>7. CASE Environment
  <2>1. WorldStep
    BY <1>1, <1>7, WorldIs
  <2>2. \A c \in CRs : cr'[c].by = cr[c].by /\ cr'[c].state = cr[c].state
    BY <2>1 DEF WorldStep
  <2>3. Named(cr')
    BY <1>1, <2>2 DEF Named
  <2>4. \A t \in Schedules : Returned(t, rec'[t], cr)
    <3>1. \A t \in Schedules : rec'[t] \in Pass /\ (Same(rec'[t], rec[t]) \/ Clean(rec'[t]))
      BY <2>1, IdleIs DEF WorldStep
    <3> QED
      BY <1>1, <1>2, <3>1, ReturnedKept
  <2>5. \A t \in Schedules : Returned(t, rec'[t], cr')
    BY <2>2, <2>4 DEF Returned
  <2> QED
    BY <1>4, <2>3, <2>5
<1>8. ASSUME NEW s \in Schedules, PassStep(s) PROVE ReturnInv'
  <2>0. rec[s] \in Pass
    BY <1>2
  <2>1. ASSUME NEW g \in Gits, NEW r, NEW after, GitStep(s, g, r, after) PROVE ReturnInv'
    <3>1. /\ r \in Pass /\ r.kind = rec[s].kind /\ r.at = rec[s].at /\ r.listed = rec[s].listed
          /\ (rec[s].errs => r.errs) /\ Parts(rec[s]) \subseteq Parts(r) \cup {g} /\ rec[s].listed
      BY <2>1 DEF GitStep, Shrinks, Parts
    <3>2. CRs \cap Parts(rec[s]) \subseteq Parts(r) /\ ~Over(r)
      BY <2>1, <3>1, SortsDiffer, SamePlan DEF GitStep
    <3>3. Returned(s, r, cr)
      BY <1>1, <2>0, <3>1, <3>2, ReturnedKept
    <3>4. Returned(s, Settle(r), cr) /\ Settle(r) \in Pass
      BY <3>1, <3>2, <3>3, ReturnedKept, SettleIs
    <3> QED
      BY <1>5, <2>1, <3>4 DEF GitStep
  <2>2. ASSUME NEW c \in CRs, NEW r, NEW x, CrStep(s, c, r, x) PROVE ReturnInv'
    <3>1. Named(cr')
      BY <1>1, <2>2, NamedCr
    <3>2. /\ r \in Pass /\ r.kind = rec[s].kind /\ r.at = rec[s].at /\ r.listed = rec[s].listed
          /\ rec[s].listed /\ Parts(rec[s]) \subseteq Parts(r) \cup {c} /\ (rec[s].errs => r.errs)
      BY <2>2 DEF CrStep, Shrinks, Returns, Parts
    <3>3. ~Over(r)
      BY <2>2, <3>2, SamePlan DEF CrStep
    <3>4. Returned(s, r, cr')
      <4> SUFFICES ASSUME r.kind = "cleanup", ~r.errs, NEW d \in CRs \cap Selects(s), cr'[d].by = s
                   PROVE  Ahead(r, d, 3)
        BY DEF Returned
      <4>1. OpOf(rec[s]) = "return"
        BY <2>0, <2>2, <3>2, StepOf DEF CrStep
      <4>2. cr[d].by = s
        BY <1>1, <2>2, <4>1, CrKept
      <4>3. Ahead(rec[s], d, 3)
        BY <1>1, <3>2, <4>2 DEF Returned
      <4>4. d = c => d \in Parts(r)
        <5>1. d = c => x.by = s
          BY <1>1, <2>2, CrKept
        <5>2. s # NoOne
          BY ScalerAssumption
        <5>3. CrAnswer(rec[s], c, r, x)
          BY <2>2 DEF CrStep
        <5>4. d = c => Returns(r, rec[s], c)
          BY <4>1, <5>1, <5>2, <5>3 DEF CrAnswer
        <5> QED
          BY <5>4 DEF Returns, Parts
      <4> QED
        BY <2>0, <2>2, <3>2, <4>3, <4>4, AheadKept DEF CrStep
    <3>5. Returned(s, Settle(r), cr') /\ Settle(r) \in Pass
      BY <3>2, <3>3, <3>4, ReturnedKept, SettleIs
    <3>6. Returned(s, rec'[s], cr')
      BY <2>2, <3>5, ReturnedKept DEF CrStep, Turns
    <3>7. ASSUME NEW t \in Schedules \ {s} PROVE Returned(t, rec'[t], cr')
      <4>1. Returned(t, rec'[t], cr)
        BY <1>1, <1>2, <2>2, ReturnedKept DEF CrStep, Turns
      <4>2. \A d \in CRs : cr'[d].by = t => cr[d].by = t
        BY <1>1, <2>2, CrKept
      <4> QED
        BY <4>1, <4>2 DEF Returned
    <3> QED
      BY <1>4, <3>1, <3>6, <3>7
  <2>3. ASSUME NEW w \in Workloads, NEW r, ScaleStepOf(s, w, r) PROVE ReturnInv'
    <3>1. /\ r \in Pass /\ r.kind = rec[s].kind /\ r.at = rec[s].at /\ r.listed = rec[s].listed
          /\ (rec[s].errs => r.errs) /\ Parts(rec[s]) \subseteq Parts(r) \cup {w}
      BY <2>3 DEF ScaleStepOf, Shrinks, Parts
    <3>2. CRs \cap Parts(rec[s]) \subseteq Parts(r)
      BY <3>1, SortsDiffer
    <3>3. Returned(s, r, cr)
      BY <1>1, <2>0, <3>1, <3>2, ReturnedKept
    <3> QED
      BY <1>5, <2>3, <3>1, <3>3 DEF ScaleStepOf
  <2>4. ASSUME NEW r, QuietStep(s, r) PROVE ReturnInv'
    <3>1. r \in Pass /\ r.kind # "cleanup"
      BY <2>0, <2>4, StepOf DEF QuietStep
    <3>2. Settle(r) \in Pass /\ Settle(r).kind # "cleanup"
      BY <3>1, SettleIs, OnwardFields
    <3> QED
      BY <1>5, <2>4, <3>2 DEF QuietStep, Returned
  <2>5. ASSUME NEW r, LeaveStep(s, r) PROVE ReturnInv'
    <3>1. /\ r \in Pass /\ r.kind = rec[s].kind /\ r.at = rec[s].at /\ r.listed = rec[s].listed
          /\ (rec[s].errs => r.errs) /\ Parts(r) = Parts(rec[s]) /\ Turns(s, Onward(r)) /\ cr' = cr
      BY <2>0, <2>5 DEF LeaveStep, Same, Parts, Pass, objects
    <3>2. Returned(s, r, cr)
      BY <1>1, <2>0, <3>1, ReturnedKept
    <3>3. ~Over(r) /\ OpOf(r) = OpOf(rec[s])
      BY <2>5, <3>1, SamePlan DEF LeaveStep
    <3>4. r.kind = "cleanup" => r.at <= 3 \/ (OpOf(r) = "return" /\ ~r.listed)
      <4>1. /\ r.kind = "cleanup" => OpOf(r) = OpAt("cleanup", r.at) /\ r.at \in 1..(n + 3)
            /\ n \in Nat
        BY <3>1, <3>3, ScaleAt, NextAtIs DEF LenOf
      <4>2. r.kind = "cleanup" => r.at <= 3 \/ OpOf(r) = "return"
        BY <4>1 DEF OpAt
      <4> QED
        BY <2>5, <3>1, <3>3, <4>2 DEF LeaveStep
    <3>5. r.kind = "cleanup" => r.at <= 3 \/ r.errs
      BY <2>5, <3>1, <3>3, <3>4 DEF LeaveStep
    <3>6. Onward(r) \in Pass /\ Onward(r).kind = r.kind
      BY <3>1, OnwardIs, OnwardFields
    <3>7. Returned(s, Onward(r), cr)
      <4>1. CASE r.kind = "cleanup"
        BY <3>1, <3>2, <3>3, <3>5, <4>1, ReturnedKept
      <4> QED
        BY <3>6, <4>1 DEF Returned
    <3> QED
      BY <1>5, <3>1, <3>6, <3>7
  <2>6. CASE ListStep(s)
    <3>1. /\ Finds(s) \in Pass /\ Returned(s, Finds(s), cr) /\ Finds(s).listed
          /\ Finds(s).kind = rec[s].kind /\ Finds(s).at = rec[s].at
      BY <2>6, ReturnedListed, FindsIs DEF WorkInv, OwnInv, ReturnInv
    <3>2. ~Over(Finds(s)) /\ Turns(s, Settle(Finds(s))) /\ cr' = cr
      BY <2>6, <3>1, SamePlan DEF ListStep, Finds, objects
    <3> QED
      BY <1>5, <3>1, <3>2, ReturnedKept, SettleIs
  <2>7. CASE TurnStep(s)
    <3>1. Returned(s, rec'[s], cr)
      BY <1>1, <2>7, ReturnedKept DEF TurnStep, Clean
    <3>2. cr' = cr /\ \A t \in Schedules \ {s} : Same(rec'[t], rec[t])
      BY <2>7 DEF TurnStep, objects
    <3> QED
      BY <1>1, <1>2, <1>4, <3>1, <3>2, ReturnedKept
  <2> QED
    BY <1>8, <2>1, <2>2, <2>3, <2>4, <2>5, <2>6, <2>7 DEF PassStep
<1> QED
  BY <1>1, <1>6, <1>7, <1>8, NextIs DEF vars, objects, SkipStep

\* A cleanup that found its namespaces (handleDeletion with restoreManagedWorkloads) ends
\* with the finalizer removed only when none of the workloads and custom resources that
\* the schedule selects is still its own: the errors of their Lists and writes are
\* remembered until the end of the pass, and what did not fail was found and let go,
\* whatever other schedules, users and restarts did meanwhile.  Nothing is said of a blind
\* cleanup, nor of Applications and Flux resources, whose errors are only logged.
THEOREM NothingLeft == Spec => CleanupLeavesNothing
<1> DEFINE Leaves == \A s \in Schedules :
                        /\ sched[s].phase = "deleting" /\ sched'[s].phase = "absent"
                        /\ rec[s].kind = "cleanup"
                        => /\ \A c \in CRs \cap Selects(s) : cr[c].by # s
                           /\ \A w \in Workloads \cap Selects(s) : obj[w].by # s
<1>1. ReturnInv /\ [Next]_vars => [Leaves]_vars
  <2> SUFFICES ASSUME ReturnInv, Next, NEW s \in Schedules,
                      sched[s].phase = "deleting", sched'[s].phase = "absent",
                      rec[s].kind = "cleanup"
               PROVE  /\ \A c \in CRs \cap Selects(s) : cr[c].by # s
                      /\ \A w \in Workloads \cap Selects(s) : obj[w].by # s
    OBVIOUS
  <2>1. /\ TypeInv /\ Returned(s, rec[s], cr) /\ Cleared(s, rec[s], obj) /\ rec[s] \in Pass
        /\ sched \in [Schedules -> [phase : {"absent", "live", "deleting"}, up : BOOLEAN,
                                    selects : SUBSET Objects]]
    BY Zenon DEF ReturnInv, WorkInv, OwnInv, ShapeInv, TypeInv, TypeOK
  <2>2. ~Environment
    BY <2>1, WorldIs DEF WorldStep
  <2>3. sched' # sched
    OBVIOUS
  <2>4. PICK t \in Schedules : TurnStep(t)
    <3>1. PICK t \in Schedules : SkipStep(t) \/ PassStep(t)
      BY <2>1, <2>2, NextIs
    <3>2. PassStep(t)
      BY <2>3, <3>1 DEF SkipStep
    <3>3. TurnStep(t)
      BY <2>3, <3>2 DEF PassStep, GitStep, CrStep, ScaleStepOf, QuietStep, LeaveStep, ListStep
    <3> QED
      BY <3>3
  <2>5. /\ Over(rec[t]) /\ ~rec[t].errs
        /\ sched' = [sched EXCEPT ![t].phase = "absent", ![t].up = TRUE]
    BY <2>3, <2>4 DEF TurnStep, Began, Ended
  <2>6. t = s
    BY <2>1, <2>5
  <2>7. n \in Nat /\ rec[s].at > n + 3
    <3>1. n \in Nat /\ Len(Plan(rec[s])) = n + 3
      BY PlanIs, IntegrationsAssumption DEF Follow, LenOf, n
    <3> QED
      BY <2>5, <2>6, <3>1 DEF Over
  <2>8. \A c : ~Ahead(rec[s], c, 3)
    BY <2>1, <2>7 DEF Ahead, Pass
  <2>9. Scaled(rec[s]) /\ Trusted(rec[s])
    BY <2>1, <2>5, <2>6, <2>7 DEF Scaled, Trusted, Pass
  <2> QED
    BY <2>1, <2>5, <2>6, <2>8, <2>9 DEF Returned, Cleared
<1> QED
  BY <1>1, ReturnInit, ReturnStep, PTL DEF Spec, CleanupLeavesNothing

=============================================================================
