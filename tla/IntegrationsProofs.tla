-------------------------- MODULE IntegrationsProofs --------------------------
(***************************************************************************)
(* The types of Integrations, and the shape of a pass.                     *)
(*                                                                         *)
(* The plans are opened once (PlanIs) and so are the actions: each one is  *)
(* shown to be a step of one of seven forms (NextIs), which name what it   *)
(* writes and what becomes of the pass.  Every invariant of this module    *)
(* and of the two that extend it is proved over those forms.               *)
(***************************************************************************)
EXTENDS Integrations, SequenceTheorems, TLAPS

\* The number of entries of spec.customResources.
n == Len(Entries)

\* s \o t, by the lengths of its parts.
Joined(u, s, t, p, q) ==
    /\ Len(u) = p + q
    /\ \A i \in 1..p : u[i] = s[i]
    /\ \A i \in 1..q : u[i + p] = t[i]

\* Concatenation, element by element.
LEMMA JoinIs ==
    ASSUME NEW S, NEW s \in Seq(S), NEW t \in Seq(S), NEW p, NEW q, Len(s) = p, Len(t) = q
    PROVE  s \o t \in Seq(S) /\ Joined(s \o t, s, t, p, q)
<1>1. Len(s) \in Nat /\ Len(t) \in Nat
  OBVIOUS
<1>2. \A i \in 1..Len(t) : i + Len(s) \in 1..Len(s) + Len(t) /\ ~(i + Len(s) <= Len(s))
                           /\ i + Len(s) - Len(s) = i
  BY <1>1
<1>3. \A i \in 1..Len(s) : i \in 1..Len(s) + Len(t) /\ i <= Len(s)
  BY <1>1
<1>4. /\ s \o t \in Seq(S) /\ Len(s \o t) = Len(s) + Len(t)
      /\ \A i \in 1..Len(s) + Len(t) :
           (s \o t)[i] = IF i <= Len(s) THEN s[i] ELSE t[i - Len(s)]
  BY ConcatProperties, Zenon
<1> QED
  BY <1>1, <1>2, <1>3, <1>4 DEF Joined

\* The steps of a downscale: the GitOps objects, the entries in order, the workloads.
LEMMA DownPlanIs ==
    /\ Len(DownPlan) = n + 3
    /\ DownPlan[1] = Step("hold", Argo, 0) /\ DownPlan[2] = Step("hold", Flux, 0)
    /\ \A i \in 1..n : DownPlan[i + 2] = TurnSteps[i]
    /\ DownPlan[n + 3] = Step("scale", Workloads, 0)
<1> DEFINE front == GitSteps("hold")
           turns == TurnSteps
           two == front \o turns
           S == {front[1], front[2], ScaleStep[1]} \cup {turns[i] : i \in 1..n}
<1>1. n \in Nat
  BY IntegrationsAssumption DEF n
<1>2. front \in Seq(S) /\ ScaleStep \in Seq(S) /\ Len(front) = 2 /\ Len(ScaleStep) = 1
  BY DEF GitSteps, ScaleStep
<1>3. turns \in Seq(S) /\ Len(turns) = n
  BY <1>1 DEF TurnSteps, n
<1>4. front[1] = Step("hold", Argo, 0) /\ front[2] = Step("hold", Flux, 0)
      /\ ScaleStep[1] = Step("scale", Workloads, 0)
  BY DEF GitSteps, ScaleStep
<1>5. DownPlan = two \o ScaleStep
  BY DEF DownPlan
<1> HIDE DEF front, turns, S
<1>6. two \in Seq(S) /\ Joined(two, front, turns, 2, n)
  BY <1>2, <1>3, JoinIs, Zenon
<1>7. Len(two) = n + 2
  BY <1>1, <1>6 DEF Joined
<1> HIDE DEF two
<1>8. Joined(DownPlan, two, ScaleStep, n + 2, 1)
  BY <1>2, <1>5, <1>6, <1>7, JoinIs, Zenon
<1>9. /\ \A i \in 1..n : i + 2 \in 1..n+2
      /\ 1 \in 1..n+2 /\ 2 \in 1..n+2 /\ 1 + (n + 2) = n + 3
  BY <1>1
<1> QED
  BY <1>1, <1>4, <1>6, <1>8, <1>9 DEF Joined, turns

\* The steps of an upscale: the entries are restored, then waited for; the workloads;
\* the GitOps objects.
LEMMA UpPlanIs ==
    /\ Len(UpPlan) = n + n + 3
    /\ \A i \in 1..n : UpPlan[i] = BackSteps("restore")[i]
    /\ \A i \in 1..n : UpPlan[i + n] = BackSteps("gate")[i]
    /\ UpPlan[n + n + 1] = Step("scale", Workloads, 0)
    /\ UpPlan[n + n + 2] = Step("warm", Argo, 0) /\ UpPlan[n + n + 3] = Step("warm", Flux, 0)
<1> DEFINE restores == BackSteps("restore")
           gates == BackSteps("gate")
           warms == GitSteps("warm")
           two == restores \o gates
           three == two \o ScaleStep
           S == {warms[1], warms[2], ScaleStep[1]}
                  \cup {restores[i] : i \in 1..n} \cup {gates[i] : i \in 1..n}
<1>1. n \in Nat
  BY IntegrationsAssumption DEF n
<1>2. warms \in Seq(S) /\ ScaleStep \in Seq(S) /\ Len(warms) = 2 /\ Len(ScaleStep) = 1
  BY DEF GitSteps, ScaleStep
<1>3. /\ restores \in Seq(S) /\ Len(restores) = n
      /\ gates \in Seq(S) /\ Len(gates) = n
  BY <1>1 DEF BackSteps, n
<1>4. /\ warms[1] = Step("warm", Argo, 0) /\ warms[2] = Step("warm", Flux, 0)
      /\ ScaleStep[1] = Step("scale", Workloads, 0)
  BY DEF GitSteps, ScaleStep
<1>5. UpPlan = three \o warms
  BY DEF UpPlan
<1> HIDE DEF restores, gates, warms, S
<1>6. two \in Seq(S) /\ Joined(two, restores, gates, n, n)
  BY <1>3, JoinIs, Zenon
<1>7. Len(two) = n + n
  BY <1>1, <1>6 DEF Joined
<1> HIDE DEF two
<1>8. three \in Seq(S) /\ Joined(three, two, ScaleStep, n + n, 1)
  BY <1>2, <1>6, <1>7, JoinIs, Zenon
<1>9. Len(three) = n + n + 1
  BY <1>1, <1>8 DEF Joined
<1> HIDE DEF three
<1>10. Joined(UpPlan, three, warms, n + n + 1, 2)
  BY <1>2, <1>5, <1>8, <1>9, JoinIs, Zenon
<1>11. /\ \A i \in 1..n : i \in 1..n+n /\ i \in 1..n+n+1 /\ i + n \in 1..n+n /\ i + n \in 1..n+n+1
       /\ 1 + (n + n) = n + n + 1 /\ n + n + 1 \in 1..n+n+1
       /\ 1 + (n + n + 1) = n + n + 2 /\ 2 + (n + n + 1) = n + n + 3 /\ n + n + 1 + 2 = n + n + 3
  BY <1>1
<1> QED
  BY <1>1, <1>4, <1>6, <1>8, <1>10, <1>11 DEF Joined, restores, gates

\* The steps of a cleanup: the workloads, the GitOps objects, the entries.
LEMMA CleanupPlanIs ==
    /\ Len(CleanupPlan) = n + 3
    /\ CleanupPlan[1] = Step("scale", Workloads, 0)
    /\ CleanupPlan[2] = Step("release", Argo, 0) /\ CleanupPlan[3] = Step("release", Flux, 0)
    /\ \A i \in 1..n : CleanupPlan[i + 3] = BackSteps("return")[i]
<1> DEFINE releases == GitSteps("release")
           returns == BackSteps("return")
           two == ScaleStep \o releases
           S == {releases[1], releases[2], ScaleStep[1]} \cup {returns[i] : i \in 1..n}
<1>1. n \in Nat
  BY IntegrationsAssumption DEF n
<1>2. releases \in Seq(S) /\ ScaleStep \in Seq(S) /\ Len(releases) = 2 /\ Len(ScaleStep) = 1
  BY DEF GitSteps, ScaleStep
<1>3. returns \in Seq(S) /\ Len(returns) = n
  BY <1>1 DEF BackSteps, n
<1>4. /\ releases[1] = Step("release", Argo, 0) /\ releases[2] = Step("release", Flux, 0)
      /\ ScaleStep[1] = Step("scale", Workloads, 0)
  BY DEF GitSteps, ScaleStep
<1>5. CleanupPlan = two \o returns
  BY DEF CleanupPlan
<1> HIDE DEF releases, returns, S
<1>6. two \in Seq(S) /\ Joined(two, ScaleStep, releases, 1, 2)
  BY <1>2, JoinIs, Zenon
<1>7. Len(two) = 3
  BY <1>6 DEF Joined
<1> HIDE DEF two
<1>8. Joined(CleanupPlan, two, returns, 3, n)
  BY <1>3, <1>5, <1>6, <1>7, JoinIs, Zenon
<1>9. two[1] = ScaleStep[1] /\ two[2] = releases[1] /\ two[3] = releases[2]
  BY <1>6 DEF Joined
<1> QED
  BY <1>1, <1>4, <1>8, <1>9 DEF Joined, returns

-----------------------------------------------------------------------------
(* The plans, step by step *)

Matches(i) == IF Entries[i].delete THEN {} ELSE Entries[i].matches

LenOf(kind) == IF kind = "down" THEN n + 3 ELSE IF kind = "up" THEN n + n + 3
               ELSE IF kind = "cleanup" THEN n + 3 ELSE 0

OpAt(kind, k) ==
    IF kind = "down"
    THEN IF k <= 2 THEN "hold" ELSE IF k > n + 2 THEN "scale"
         ELSE IF Entries[k - 2].delete THEN "delete" ELSE "turn"
    ELSE IF kind = "up"
    THEN IF k <= n THEN "restore" ELSE IF k <= n + n THEN "gate"
         ELSE IF k = n + n + 1 THEN "scale" ELSE "warm"
    ELSE IF k = 1 THEN "scale" ELSE IF k <= 3 THEN "release" ELSE "return"

ObjsAt(kind, k) ==
    IF kind = "down"
    THEN IF k = 1 THEN Argo ELSE IF k = 2 THEN Flux
         ELSE IF k > n + 2 THEN Workloads ELSE Entries[k - 2].matches
    ELSE IF kind = "up"
    THEN IF k <= n THEN Matches(k) ELSE IF k <= n + n THEN Matches(k - n)
         ELSE IF k = n + n + 1 THEN Workloads ELSE IF k = n + n + 2 THEN Argo ELSE Flux
    ELSE IF k = 1 THEN Workloads ELSE IF k = 2 THEN Argo ELSE IF k = 3 THEN Flux
         ELSE Matches(k - 3)

\* What the steps of the entries do, and to which objects.
LEMMA StepsAre ==
    /\ \A i \in 1..n : /\ TurnSteps[i].op = IF Entries[i].delete THEN "delete" ELSE "turn"
                       /\ TurnSteps[i].objs = Entries[i].matches
    /\ \A op : \A i \in 1..n : BackSteps(op)[i].op = op /\ BackSteps(op)[i].objs = Matches(i)
BY DEF TurnSteps, BackSteps, Matches, Step, n

\* The step at k of each plan.
Follow(plan, kind) ==
    /\ Len(plan) = LenOf(kind)
    /\ \A k \in 1..LenOf(kind) : plan[k].op = OpAt(kind, k) /\ plan[k].objs = ObjsAt(kind, k)

\* Every plan has the operation and the objects of OpAt and ObjsAt at each place.
LEMMA PlanIs ==
    ASSUME NEW r, r.kind \in {"idle", "down", "up", "cleanup", "blind"}
    PROVE  Follow(Plan(r), r.kind)
<1>1. n \in Nat
  BY IntegrationsAssumption DEF n
<1>2. ASSUME r.kind \in {"idle", "blind"} PROVE Follow(Plan(r), r.kind)
  BY <1>2 DEF Plan, LenOf, Follow
<1>3. ASSUME r.kind = "down" PROVE Follow(Plan(r), r.kind)
  <2>1. Plan(r) = DownPlan /\ LenOf("down") = n + 3
    BY <1>3 DEF Plan, LenOf
  <2> SUFFICES ASSUME NEW k \in 1..n+3
               PROVE DownPlan[k].op = OpAt("down", k) /\ DownPlan[k].objs = ObjsAt("down", k)
    BY <1>3, <2>1, DownPlanIs DEF Follow
  <2>2. k = 1 \/ k = 2 \/ k = n + 3 \/ (k - 2 \in 1..n /\ k - 2 + 2 = k /\ k \notin {1, 2} /\ ~(k <= 2) /\ ~(k > n + 2))
    BY <1>1
  <2>3. CASE k = 1
    BY <2>3, DownPlanIs DEF OpAt, ObjsAt, Step
  <2>4. CASE k = 2
    BY <2>4, DownPlanIs DEF OpAt, ObjsAt, Step
  <2>5. CASE k = n + 3
    BY <1>1, <2>5, DownPlanIs DEF OpAt, ObjsAt, Step
  <2>6. CASE k - 2 \in 1..n /\ k - 2 + 2 = k /\ k \notin {1, 2} /\ ~(k <= 2) /\ ~(k > n + 2)
    <3>1. DownPlan[k] = TurnSteps[k - 2]
      BY <2>6, DownPlanIs
    <3> QED
      BY <2>6, <3>1, StepsAre DEF OpAt, ObjsAt
  <2> QED
    BY <2>2, <2>3, <2>4, <2>5, <2>6
<1>4. ASSUME r.kind = "up" PROVE Follow(Plan(r), r.kind)
  <2>1. Plan(r) = UpPlan /\ LenOf("up") = n + n + 3
    BY <1>4 DEF Plan, LenOf
  <2> SUFFICES ASSUME NEW k \in 1..n+n+3
               PROVE UpPlan[k].op = OpAt("up", k) /\ UpPlan[k].objs = ObjsAt("up", k)
    BY <1>4, <2>1, UpPlanIs DEF Follow
  <2>2. k \in 1..n \/ (k - n \in 1..n /\ k - n + n = k /\ ~(k <= n) /\ k <= n + n)
          \/ k \in {n + n + 1, n + n + 2, n + n + 3}
    BY <1>1
  <2>3. CASE k \in 1..n
    <3>1. UpPlan[k] = BackSteps("restore")[k]
      BY <2>3, UpPlanIs
    <3> QED
      BY <1>1, <2>3, <3>1, StepsAre DEF OpAt, ObjsAt
  <2>4. CASE k - n \in 1..n /\ k - n + n = k /\ ~(k <= n) /\ k <= n + n
    <3>1. UpPlan[k] = BackSteps("gate")[k - n]
      BY <2>4, UpPlanIs
    <3> QED
      BY <2>4, <3>1, StepsAre DEF OpAt, ObjsAt
  <2>5. CASE k \in {n + n + 1, n + n + 2, n + n + 3}
    BY <1>1, <2>5, UpPlanIs DEF OpAt, ObjsAt, Step
  <2> QED
    BY <2>2, <2>3, <2>4, <2>5
<1>5. ASSUME r.kind = "cleanup" PROVE Follow(Plan(r), r.kind)
  <2>1. Plan(r) = CleanupPlan /\ LenOf("cleanup") = n + 3
    BY <1>5 DEF Plan, LenOf
  <2> SUFFICES ASSUME NEW k \in 1..n+3
               PROVE /\ CleanupPlan[k].op = OpAt("cleanup", k)
                     /\ CleanupPlan[k].objs = ObjsAt("cleanup", k)
    BY <1>5, <2>1, CleanupPlanIs DEF Follow
  <2>2. k \in {1, 2, 3} \/ (k - 3 \in 1..n /\ k - 3 + 3 = k /\ ~(k <= 3) /\ k \notin {1, 2, 3})
    BY <1>1
  <2>3. CASE k \in {1, 2, 3}
    BY <1>1, <2>3, CleanupPlanIs DEF OpAt, ObjsAt, Step
  <2>4. CASE k - 3 \in 1..n /\ k - 3 + 3 = k /\ ~(k <= 3) /\ k \notin {1, 2, 3}
    <3>1. CleanupPlan[k] = BackSteps("return")[k - 3]
      BY <2>4, CleanupPlanIs
    <3> QED
      BY <2>4, <3>1, StepsAre DEF OpAt, ObjsAt
  <2> QED
    BY <2>2, <2>3, <2>4
<1> QED
  BY <1>2, <1>3, <1>4, <1>5

\* Each operation has objects of one sort.
Sort(op) == IF op \in {"hold", "warm", "release"} THEN Gits
            ELSE IF op \in {"turn", "restore", "gate", "return"} THEN CRs
            ELSE IF op = "scale" THEN Workloads ELSE Rebuilt

\* The operation at a place of a plan tells the sort of its objects and the kind of pass.
LEMMA SortIs ==
    ASSUME NEW r, r.kind \in {"idle", "down", "up", "cleanup", "blind"}, NEW k \in 1..Len(Plan(r))
    PROVE  /\ Plan(r)[k].objs \subseteq Sort(Plan(r)[k].op)
           /\ Plan(r)[k].op \in {"hold", "warm", "release", "turn", "restore", "gate", "return",
                                 "scale", "delete"}
           /\ Plan(r)[k].op \in {"hold", "turn", "delete"} => r.kind = "down"
           /\ Plan(r)[k].op \in {"restore", "gate", "warm"} => r.kind = "up"
           /\ Plan(r)[k].op \in {"release", "return"} => r.kind = "cleanup"
<1> DEFINE op == OpAt(r.kind, k)
           objs == ObjsAt(r.kind, k)
<1>1. n \in Nat /\ Len(Plan(r)) = LenOf(r.kind)
  BY PlanIs, IntegrationsAssumption DEF n, Follow
<1>2. \A i \in 1..n : IF Entries[i].delete THEN Entries[i].matches \subseteq Rebuilt
                                           ELSE Entries[i].matches \subseteq CRs
  BY IntegrationsAssumption DEF n
<1>3. r.kind \notin {"idle", "blind"} /\ k \in 1..LenOf(r.kind)
  BY <1>1 DEF LenOf
<1>4. Plan(r)[k].op = op /\ Plan(r)[k].objs = objs
  BY <1>1, <1>3, PlanIs DEF Follow
<1>5. /\ op \in {"hold", "warm", "release", "turn", "restore", "gate", "return", "scale", "delete"}
      /\ op \in {"hold", "turn", "delete"} => r.kind = "down"
      /\ op \in {"restore", "gate", "warm"} => r.kind = "up"
      /\ op \in {"release", "return"} => r.kind = "cleanup"
  BY <1>1, <1>3 DEF OpAt
<1>6. ASSUME r.kind = "down" PROVE objs \subseteq Sort(op)
  <2>1. k \in {1, 2} \/ k = n + 3 \/ (k - 2 \in 1..n /\ k > 2 /\ ~(k > n + 2))
    BY <1>1, <1>3, <1>6 DEF LenOf
  <2> QED
    BY <1>1, <1>2, <1>6, <2>1 DEF OpAt, ObjsAt, Sort, Gits
<1>7. ASSUME r.kind = "up" PROVE objs \subseteq Sort(op)
  <2>1. k \in 1..n \/ (k - n \in 1..n /\ ~(k <= n) /\ k <= n + n)
          \/ k \in {n + n + 1, n + n + 2, n + n + 3}
    BY <1>1, <1>3, <1>7 DEF LenOf
  <2> QED
    BY <1>1, <1>2, <1>7, <2>1 DEF OpAt, ObjsAt, Sort, Gits, Matches
<1>8. ASSUME r.kind = "cleanup" PROVE objs \subseteq Sort(op)
  <2>1. k \in {1, 2, 3} \/ (k - 3 \in 1..n /\ k > 3)
    BY <1>1, <1>3, <1>8 DEF LenOf
  <2> QED
    BY <1>1, <1>2, <1>8, <2>1 DEF OpAt, ObjsAt, Sort, Gits, Matches
<1> QED
  BY <1>3, <1>4, <1>5, <1>6, <1>7, <1>8

-----------------------------------------------------------------------------
(* A pass in progress *)

\* The objects a step still has to deal with.
Parts(r) == r.todo \cup r.check \cup r.done

\* Drop, field by field.
LEMMA DropIs ==
    ASSUME NEW r \in Pass, NEW x
    PROVE  /\ Drop(r, x) \in Pass
           /\ Drop(r, x) = [r EXCEPT !.todo = r.todo \ {x}, !.check = r.check \ {x},
                                     !.done = r.done \ {x}, !.late = r.late \ {x},
                                     !.fresh = r.fresh \ {x}]
BY DEF Drop, Pass

\* Where a pass goes from a step it has finished.
NextAt(r) ==
    LET last == r.at + 1 > Len(Plan(r)) \/ Plan(r)[r.at + 1].op # Plan(r)[r.at].op
        defers == Plan(r)[r.at].op \in {"restore", "gate"} /\ last /\ r.wait
    IN  IF defers THEN Len(Plan(r)) + 1 ELSE r.at + 1

\* Onward keeps the type of a pass and goes to NextAt with nothing listed.
LEMMA OnwardIs ==
    ASSUME NEW r \in Pass
    PROVE  /\ Onward(r) \in Pass
           /\ Onward(r) = [r EXCEPT !.at = NextAt(r), !.listed = FALSE, !.todo = {},
                                    !.check = {}, !.done = {}, !.late = {}, !.fresh = {}]
<1>1. Onward(r) = [r EXCEPT !.at = NextAt(r), !.listed = FALSE, !.todo = {},
                            !.check = {}, !.done = {}, !.late = {}, !.fresh = {}]
  BY DEF Onward, NextAt
<1>2. r.kind \in {"idle", "down", "up", "cleanup", "blind"} /\ r.at \in Nat \ {0}
  BY DEF Pass
<1>3. Len(Plan(r)) \in Nat
  <2>1. LenOf(r.kind) \in Nat
    BY IntegrationsAssumption DEF LenOf, n
  <2> QED
    BY <1>2, <2>1, PlanIs DEF Follow
<1>4. NextAt(r) \in Nat \ {0}
  BY <1>2, <1>3 DEF NextAt
<1>5. \A at \in Nat \ {0} : [r EXCEPT !.at = at, !.listed = FALSE, !.todo = {}, !.check = {},
                                      !.done = {}, !.late = {}, !.fresh = {}] \in Pass
  BY DEF Pass
<1> QED
  BY <1>1, <1>4, <1>5

\* The fields that the arguments below read of a pass that went on.
LEMMA OnwardFields ==
    ASSUME NEW r \in Pass
    PROVE  /\ Onward(r).kind = r.kind /\ Onward(r).at = NextAt(r) /\ ~Onward(r).listed
           /\ Parts(Onward(r)) = {} /\ Onward(r).fresh = {}
           /\ Onward(r).wait = r.wait /\ Onward(r).errs = r.errs
<1> DEFINE next == NextAt(r)
           x == [r EXCEPT !.at = next, !.listed = FALSE, !.todo = {}, !.check = {},
                          !.done = {}, !.late = {}, !.fresh = {}]
<1>1. Onward(r) = x
  BY OnwardIs
<1> HIDE DEF next
<1>2. /\ x.kind = r.kind /\ x.at = next /\ x.listed = FALSE /\ x.todo = {} /\ x.check = {}
      /\ x.done = {} /\ x.fresh = {} /\ x.wait = r.wait /\ x.errs = r.errs
  BY DEF Pass
<1> QED
  BY <1>1, <1>2 DEF Parts, next

\* Settle goes on exactly when the step has nothing left.
LEMMA SettleIs ==
    ASSUME NEW r \in Pass
    PROVE  /\ Settle(r) \in Pass
           /\ Settle(r) = IF Parts(r) = {} THEN Onward(r) ELSE r
           /\ Settle(r).todo \subseteq r.todo
<1>1. Settle(r) \in Pass /\ Settle(r) = IF Parts(r) = {} THEN Onward(r) ELSE r
  BY OnwardIs DEF Settle, Parts
<1> QED
  BY <1>1, OnwardFields DEF Parts

\* The step that r is at, and what of it there is to list.
OpOf(r) == Plan(r)[r.at].op
ObjsOf(r) == Plan(r)[r.at].objs
Ops == {"hold", "warm", "release", "turn", "restore", "gate", "return", "scale", "delete"}

\* The current step of a pass that is not over: what SortIs says of it.
LEMMA StepOf ==
    ASSUME NEW r \in Pass, ~Over(r)
    PROVE  /\ r.at \in 1..Len(Plan(r)) /\ OpOf(r) \in Ops
           /\ ObjsOf(r) \subseteq Sort(OpOf(r)) /\ r.kind \notin {"idle", "blind"}
           /\ OpOf(r) \in {"hold", "turn", "delete"} => r.kind = "down"
           /\ OpOf(r) \in {"restore", "gate", "warm"} => r.kind = "up"
           /\ OpOf(r) \in {"release", "return"} => r.kind = "cleanup"
<1>1. r.kind \in {"idle", "down", "up", "cleanup", "blind"} /\ r.at \in Nat \ {0}
  BY DEF Pass
<1>2. Len(Plan(r)) = LenOf(r.kind) /\ LenOf(r.kind) \in Nat /\ (r.kind \in {"idle", "blind"} => LenOf(r.kind) = 0)
  BY <1>1, PlanIs, IntegrationsAssumption DEF Follow, LenOf, n
<1>3. r.at \in 1..Len(Plan(r)) /\ r.kind \notin {"idle", "blind"}
  BY <1>1, <1>2 DEF Over
<1> QED
  BY <1>1, <1>3, SortIs DEF OpOf, ObjsOf, Ops

\* Objects of different sorts are different.
LEMMA SortsDiffer ==
    /\ Workloads \cap CRs = {} /\ Workloads \cap Rebuilt = {} /\ Workloads \cap Gits = {}
    /\ CRs \cap Rebuilt = {} /\ CRs \cap Gits = {} /\ Rebuilt \cap Gits = {}
    /\ Argo \cap Flux = {}
    /\ \A op \in Ops : Sort(op) \subseteq Objects
BY IntegrationsAssumption DEF Sort, Ops, Objects

\* What a List finds keeps the type of the pass.
LEMMA ListedOK ==
    ASSUME NEW s, NEW r \in Pass, NEW op \in Ops, NEW here \in SUBSET Sort(op)
    PROVE  Listed(s, r, op, here) \in Pass
<1>1. Sort(op) \subseteq Objects
  BY SortsDiffer
<1>2. op \in {"turn", "restore", "return"} => here \subseteq CRs
  BY DEF Sort
<1>3. ListedGate(s, r, here) \in Pass
  <2> DEFINE warming == {c \in here : cr[c].by = s /\ cr[c].state = WarmingUp}
             late == {c \in warming : cr[c].since = Old}
             fine == {c \in warming : Verdict(Convention[c], status[c].seen, status[c].ready)}
             wait == r.wait \/ warming # fine \cup late
  <2>1. fine \cup late \in SUBSET Objects /\ late \in SUBSET Objects
    BY <1>1
  <2>2. wait \in BOOLEAN
    BY DEF Pass
  <2>3. ListedGate(s, r, here) = [r EXCEPT !.check = fine \cup late, !.late = late, !.wait = wait]
    BY DEF ListedGate, Pass
  <2> HIDE DEF fine, late, wait
  <2> QED
    BY <2>1, <2>2, <2>3 DEF Pass
<1>4. ListedWarm(s, r, here) \in Pass
  <2> DEFINE todo == {g \in here : IF g \in Argo THEN ArgoWarms(git[g], s)
                                                 ELSE FluxWarms(git[g], s)}
             awaited == todo \cup {g \in here \cap Argo : ArgoAwaits(git[g])}
             check == {g \in here : IF g \in Argo THEN ArgoChecks(git[g])
                                                  ELSE FluxChecks(git[g], s)}
             late == {g \in check : git[g].since = Old}
             wait == r.wait \/ awaited # {}
  <2>1. todo \in SUBSET Objects /\ check \ late \in SUBSET Objects /\ late \in SUBSET Objects
    BY <1>1
  <2>2. wait \in BOOLEAN
    BY DEF Pass
  <2>3. ListedWarm(s, r, here)
          = [r EXCEPT !.todo = todo, !.check = check \ late, !.done = late, !.wait = wait]
    BY DEF ListedWarm, Pass
  <2> HIDE DEF todo, check, late, wait
  <2> QED
    BY <2>1, <2>2, <2>3 DEF Pass
<1>5. ASSUME op \notin {"gate", "warm"} PROVE Listed(s, r, op, here) \in Pass
  <2> DEFINE only(f) == f \subseteq here
  <2>1. \A todo \in SUBSET here : [r EXCEPT !.todo = todo] \in Pass
    BY <1>1 DEF Pass
  <2>2. ASSUME here \subseteq CRs
        PROVE  /\ \A todo \in SUBSET here : [r EXCEPT !.todo = todo, !.fresh = todo] \in Pass
               /\ \A todo, done \in SUBSET here :
                    [r EXCEPT !.todo = todo, !.done = done, !.fresh = todo] \in Pass
    BY <1>1, <2>2 DEF Pass
  <2>3. CASE op = "hold"
    BY <2>1, <2>3 DEF Listed
  <2>4. CASE op = "turn"
    BY <1>2, <2>2, <2>4 DEF Listed
  <2>5. CASE op = "delete"
    BY <2>1, <2>5 DEF Listed
  <2>6. CASE op = "restore"
    BY <1>2, <2>2, <2>6 DEF Listed
  <2>7. CASE op = "scale"
    BY <2>1, <2>7 DEF Listed
  <2>8. CASE op = "release"
    BY <2>1, <2>8 DEF Listed
  <2>9. CASE op = "return"
    <3> DEFINE mine == {c \in here : cr[c].by = s}
               todo == {c \in mine : Restores(cr[c], s)}
    <3>1. Listed(s, r, op, here) = [r EXCEPT !.todo = todo, !.done = mine \ todo, !.fresh = todo]
      BY <2>9 DEF Listed
    <3>2. todo \in SUBSET here /\ mine \ todo \in SUBSET here
      OBVIOUS
    <3> HIDE DEF mine, todo
    <3> QED
      BY <1>2, <2>2, <2>9, <3>1, <3>2
  <2> QED
    BY <1>5, <2>3, <2>4, <2>5, <2>6, <2>7, <2>8, <2>9 DEF Ops
<1> QED
  BY <1>3, <1>4, <1>5 DEF Listed

-----------------------------------------------------------------------------
(* Types *)

CrObject(x) ==
    x \in [doc : {x.doc}, saved : {x.saved}, since : Ages, state : States, by : Owners]

\* TypeOK; that the custom resources and what users wrote are functions; and that no
\* workload is marked as its user's, which the schedules here never do.
TypeInv ==
    /\ TypeOK
    /\ \A w \in Workloads : obj[w].saved \in Nat
    /\ cr = [c \in CRs |-> cr[c]] /\ \A c \in CRs : CrObject(cr[c])
    /\ want = [c \in CRs |-> want[c]]

\* TurnDown leaves a custom resource alone, or takes it with captured fields.
LEMMA TurnDownIs ==
    ASSUME NEW cur, NEW fields, NEW s \in Schedules, CrObject(cur)
    PROVE  LET x == TurnDown(cur, fields, s)
           IN  /\ CrObject(x)
               /\ x = cur \/ (x.by = s /\ x.state = IsDown /\ x.saved # NoFields)
<1> DEFINE off == Capture(cur.doc, fields)
           x == [cur EXCEPT !.doc = off.doc, !.saved = off.saved, !.since = Never,
                            !.state = IsDown, !.by = s]
<1>1. TurnDown(cur, fields, s) = IF off.saved = NoFields THEN cur ELSE x
  BY DEF TurnDown
<1> HIDE DEF off
<1>2. CrObject(x) /\ x.by = s /\ x.state = IsDown /\ x.saved = off.saved
  BY DEF CrObject, States, Owners, Ages
<1> QED
  BY <1>1, <1>2

\* Clear lets go of a custom resource.
LEMMA ClearIs ==
    ASSUME NEW cur, CrObject(cur)
    PROVE  /\ CrObject(Clear(cur))
           /\ Clear(cur).by = NoOne /\ Clear(cur).state = NoState /\ Clear(cur).saved = NoFields
           /\ Clear(cur).doc = cur.doc
BY DEF Clear, CrObject, States, Owners, Ages

\* Restored lets go of a resource without captured fields, fails where a field cannot be
\* put back, and leaves any other warming up with the same owner.
LEMMA RestoredIs ==
    ASSUME NEW cur, CrObject(cur), NEW x \in Restored(cur)
    PROVE  /\ CrObject(x)
           /\ \/ cur.saved = NoFields /\ x = Clear(cur)
              \/ cur.saved # NoFields /\ x = cur /\ \E o \in Originals(cur.doc, cur.saved) : ~o.ok
              \/ cur.saved # NoFields /\ x.by = cur.by /\ x.state = WarmingUp
<1>1. CASE cur.saved = NoFields
  BY <1>1, ClearIs DEF Restored
<1>2. CASE cur.saved # NoFields
  <2> DEFINE warm(o) == [cur EXCEPT !.doc = o.doc, !.saved = NoFields, !.since = Recent,
                                    !.state = WarmingUp]
  <2>1. PICK o \in Originals(cur.doc, cur.saved) : x = IF o.ok THEN warm(o) ELSE cur
    BY <1>2 DEF Restored
  <2>2. CASE o.ok
    <3>1. x = warm(o)
      BY <2>1, <2>2
    <3> QED
      BY <1>2, <3>1 DEF CrObject, States, Owners, Ages
  <2>3. CASE ~o.ok
    BY <1>2, <2>1, <2>3
  <2> QED
    BY <2>2, <2>3
<1> QED
  BY <1>1, <1>2

-----------------------------------------------------------------------------
(* The steps of a pass, field by field *)

\* r is x, of whose copies some are outdated.
Same(r, x) ==
    /\ r \in Pass /\ r.fresh \subseteq x.fresh
    /\ r.kind = x.kind /\ r.at = x.at /\ r.listed = x.listed
    /\ r.todo = x.todo /\ r.check = x.check /\ r.done = x.done
    /\ r.late = x.late /\ r.wait = x.wait /\ r.errs = x.errs

\* A step of s, whose pass becomes r, outdates no copies but of what s had in hand, and
\* none of what it goes on with.
Spares(s, r) ==
    /\ \A t \in Schedules \ {s} : rec[t].fresh \subseteq rec'[t].fresh \cup rec[s].fresh \cup rec[s].done
    /\ r.todo \cap r.fresh \subseteq rec'[s].fresh

\* The pass of s becomes r, and no other one moves.
Turns(s, r) ==
    /\ rec' \in [Schedules -> Pass]
    /\ Same(rec'[s], r) /\ \A t \in Schedules \ {s} : Same(rec'[t], rec[t])
    /\ Spares(s, r)

Outdated(c) == \A t \in Schedules : c \notin rec'[t].fresh

\* An action that sets the pass of s moves no other pass.
LEMMA GoesIs ==
    ASSUME TypeInv, NEW s \in Schedules, NEW r \in Pass, Goes(s, r)
    PROVE  Turns(s, r) /\ rec'[s] = r
<1>1. rec \in [Schedules -> Pass]
  BY Zenon DEF TypeInv, TypeOK
<1>2. rec' \in [Schedules -> Pass] /\ rec'[s] = r
      /\ \A t \in Schedules \ {s} : rec'[t] = rec[t]
  BY <1>1 DEF Goes
<1>3. \A x \in Pass : Same(x, x)
  BY DEF Same
<1>4. Spares(s, r)
  BY <1>2 DEF Spares
<1> QED
  BY <1>1, <1>2, <1>3, <1>4 DEF Turns

\* ... and one that writes c leaves no fresh copy of it.
LEMMA GoesPastIs ==
    ASSUME TypeInv, NEW s \in Schedules, NEW c, NEW r \in Pass, GoesPast(s, c, r),
           c \in rec[s].fresh \cup rec[s].done, c \notin r.todo
    PROVE  Turns(s, r) /\ Outdated(c)
<1>1. rec \in [Schedules -> Pass]
  BY Zenon DEF TypeInv, TypeOK
<1> DEFINE less(x) == [x EXCEPT !.fresh = x.fresh \ {c}]
<1>2. \A x \in Pass : /\ less(x) \in Pass /\ Same(less(x), x) /\ c \notin less(x).fresh
                     /\ x.fresh \subseteq less(x).fresh \cup {c}
  BY DEF Same, Pass
<1>3. rec' = [t \in Schedules |-> less(IF t = s THEN r ELSE rec[t])]
  BY DEF GoesPast
<1> HIDE DEF less
<1>4. /\ rec' \in [Schedules -> Pass] /\ rec'[s] = less(r)
      /\ \A t \in Schedules \ {s} : rec'[t] = less(rec[t])
  BY <1>1, <1>2, <1>3
<1>5. Spares(s, r)
  BY <1>1, <1>2, <1>4 DEF Spares
<1> QED
  BY <1>1, <1>2, <1>4, <1>5 DEF Turns, Outdated

\* Nothing of x is left in the step, which goes on.
Shrinks(r, x, y) ==
    /\ r \in Pass /\ r.kind = x.kind /\ r.at = x.at /\ r.listed = x.listed
    /\ r.todo = x.todo \ {y} /\ r.check = x.check \ {y} /\ r.done = x.done \ {y}
    /\ r.fresh = x.fresh \ {y}
    /\ (x.wait => r.wait) /\ (x.errs => r.errs)

\* Dropping an object shrinks the step, also when the pass then waits or has failed.
LEMMA DropShrinks ==
    ASSUME NEW r \in Pass, NEW x
    PROVE  /\ Shrinks(Drop(r, x), r, x)
           /\ \A b \in BOOLEAN : (r.wait => b) => LET y == [Drop(r, x) EXCEPT !.wait = b]
                                                  IN  Shrinks(y, r, x) /\ y.wait = b
           /\ LET y == [Drop(r, x) EXCEPT !.errs = TRUE] IN Shrinks(y, r, x) /\ y.errs
           /\ Drop(r, x).wait = r.wait /\ Drop(r, x).errs = r.errs
<1>1. Drop(r, x) \in Pass
  BY DropIs
<1>2. Shrinks(Drop(r, x), r, x) /\ Drop(r, x).wait = r.wait /\ Drop(r, x).errs = r.errs
  BY <1>1 DEF Drop, Pass, Shrinks
<1> DEFINE d == Drop(r, x)
<1> HIDE DEF d
<1>3. d \in Pass /\ Shrinks(d, r, x)
  BY <1>1, <1>2 DEF d
<1>4. /\ \A b \in BOOLEAN : (r.wait => b) => LET y == [d EXCEPT !.wait = b]
                                             IN  Shrinks(y, r, x) /\ y.wait = b
      /\ LET y == [d EXCEPT !.errs = TRUE] IN Shrinks(y, r, x) /\ y.errs
  BY <1>3 DEF Pass, Shrinks
<1> QED
  BY <1>2, <1>4 DEF d

\* What has shrunk settles without what it lost.
LEMMA ShrunkIs ==
    ASSUME NEW r, NEW x, NEW y, Shrinks(r, x, y)
    PROVE  r \in Pass /\ Settle(r) \in Pass /\ y \notin Settle(r).todo
BY SettleIs DEF Shrinks

\* What a patch of g by s makes of it.
GitWrite(s, r, g, after) ==
    \/ /\ OpOf(r) = "hold" /\ g \in r.todo
       /\ after = IF g \in Argo THEN ArgoHold(git[g], s) ELSE FluxHold(git[g], s)
    \/ OpOf(r) = "warm" /\ g \in r.todo /\ after = WarmUp(git[g], s)
    \/ /\ OpOf(r) = "warm" /\ g \in r.done
       /\ after = IF g \in Argo THEN ArgoComplete(git[g]) ELSE FluxResume(git[g])
    \/ /\ OpOf(r) = "release" /\ g \in r.todo
       /\ after = IF g \in Argo THEN ArgoRemove(git[g]) ELSE FluxResume(git[g])

GitStep(s, g, r, after) ==
    /\ ~Over(rec[s]) /\ rec[s].listed /\ rec[s].kind # "idle"
    /\ GitWrite(s, rec[s], g, after)
    /\ Shrinks(r, rec[s], g) /\ Turns(s, Settle(r))
    /\ \/ git' = [git EXCEPT ![g] = after]
       \/ git' = git /\ <<"write", OpOf(rec[s])>> \in FaultKinds
    /\ faults' \in 0..MaxFaults
    /\ UNCHANGED <<sched, obj, cr, there, world, users, queued>>

\* A call that fails is one of FaultKinds, and is counted.
LEMMA FailsIs ==
    ASSUME TypeInv, NEW call, NEW op, Fails(call, op)
    PROVE  faults' \in 0..MaxFaults /\ <<call, op>> \in FaultKinds
BY IntegrationsAssumption DEF Fails, TypeInv, TypeOK

\* A patch of a GitOps object, whichever way it goes, is a GitStep.
LEMMA WritesGitIs ==
    ASSUME TypeInv, NEW s \in Schedules, NEW g, NEW after, NEW waits \in BOOLEAN,
           ~Over(rec[s]), rec[s].listed, rec[s].kind # "idle", GitWrite(s, rec[s], g, after),
           WritesGit(s, g, after, waits)
    PROVE  \E r : GitStep(s, g, r, after)
<1>1. rec[s] \in Pass /\ faults \in 0..MaxFaults
  BY Zenon DEF TypeInv, TypeOK
<1> DEFINE d == Drop(rec[s], g)
           b == [d EXCEPT !.wait = d.wait \/ waits]
<1>2. Shrinks(d, rec[s], g) /\ Shrinks(b, rec[s], g)
  <2>1. d.wait = rec[s].wait /\ Shrinks(d, rec[s], g)
    BY <1>1, DropShrinks
  <2>2. (d.wait \/ waits) \in BOOLEAN /\ (rec[s].wait => (d.wait \/ waits))
    BY <2>1
  <2> QED
    BY <1>1, <2>1, <2>2, DropShrinks
<1>3. d \in Pass /\ b \in Pass /\ Settle(d) \in Pass /\ Settle(b) \in Pass
  BY <1>2, SettleIs DEF Shrinks
<1>4. UNCHANGED <<sched, obj, cr, there, world, users, queued>>
  BY DEF WritesGit
<1>5. CASE git' = [git EXCEPT ![g] = after] /\ Goes(s, Settle(d)) /\ UNCHANGED faults
  <2>1. Turns(s, Settle(d))
    BY <1>3, <1>5, GoesIs
  <2> QED
    BY <1>1, <1>2, <1>4, <1>5, <2>1 DEF GitStep
<1>6. CASE /\ Fails("write", Current(s).op) /\ git' \in {git, [git EXCEPT ![g] = after]}
           /\ Goes(s, Settle(b))
  <2>1. Turns(s, Settle(b))
    BY <1>3, <1>6, GoesIs
  <2>2. faults' \in 0..MaxFaults /\ <<"write", OpOf(rec[s])>> \in FaultKinds
    BY <1>6, FailsIs DEF OpOf, Current
  <2> QED
    BY <1>1, <1>2, <1>4, <1>6, <2>1, <2>2 DEF GitStep
<1> HIDE DEF d, b
<1> QED
  BY <1>5, <1>6 DEF WritesGit, d, b

\* ... and so are the four actions that patch one.
LEMMA GitStepIs ==
    ASSUME TypeInv, NEW s \in Schedules, NEW g \in Gits,
           HoldGit(s, g) \/ WarmGit(s, g) \/ CompleteGit(s, g) \/ ReleaseGit(s, g)
    PROVE  \E r, after : GitStep(s, g, r, after)
<1>1. CASE HoldGit(s, g)
  <2> DEFINE after == IF g \in Argo THEN ArgoHold(git[g], s) ELSE FluxHold(git[g], s)
  <2>1. /\ ~Over(rec[s]) /\ rec[s].listed /\ rec[s].kind # "idle"
        /\ GitWrite(s, rec[s], g, after) /\ WritesGit(s, g, after, FALSE)
    BY <1>1 DEF HoldGit, At, Current, OpOf, GitWrite
  <2> QED
    BY <2>1, WritesGitIs
<1>2. CASE WarmGit(s, g)
  <2>1. /\ ~Over(rec[s]) /\ rec[s].listed /\ rec[s].kind # "idle"
        /\ GitWrite(s, rec[s], g, WarmUp(git[g], s)) /\ WritesGit(s, g, WarmUp(git[g], s), TRUE)
    BY <1>2 DEF WarmGit, At, Current, OpOf, GitWrite
  <2> QED
    BY <2>1, WritesGitIs
<1>3. CASE CompleteGit(s, g)
  <2> DEFINE after == IF g \in Argo THEN ArgoComplete(git[g]) ELSE FluxResume(git[g])
  <2>1. /\ ~Over(rec[s]) /\ rec[s].listed /\ rec[s].kind # "idle"
        /\ GitWrite(s, rec[s], g, after) /\ WritesGit(s, g, after, TRUE)
    BY <1>3 DEF CompleteGit, At, Current, OpOf, GitWrite
  <2> QED
    BY <2>1, WritesGitIs
<1>4. CASE ReleaseGit(s, g)
  <2> DEFINE after == IF g \in Argo THEN ArgoRemove(git[g]) ELSE FluxResume(git[g])
  <2>1. /\ ~Over(rec[s]) /\ rec[s].listed /\ rec[s].kind # "idle"
        /\ GitWrite(s, rec[s], g, after) /\ WritesGit(s, g, after, FALSE)
    BY <1>4 DEF ReleaseGit, At, Current, OpOf, GitWrite
  <2> QED
    BY <2>1, WritesGitIs
<1> QED
  BY <1>1, <1>2, <1>3, <1>4

\* What a write of c by s makes of it.
CrWrite(s, r, c, x) ==
    \/ x = cr[c]
    \/ /\ OpOf(r) = "turn" /\ c \in r.todo \cap r.fresh
       /\ x.by = s /\ x.state = IsDown /\ x.saved # NoFields
       /\ \E i \in 1..n : ObjsOf(r) = Matches(i) /\ x = TurnDown(cr[c], Entries[i].fields, s)
    \/ /\ OpOf(r) \in {"restore", "return"} /\ c \in r.todo \cap r.fresh
       /\ x \in Restored(cr[c])
       /\ \/ cr[c].saved = NoFields /\ x = Clear(cr[c])
          \/ x.by = cr[c].by /\ x.state = WarmingUp
    \/ OpOf(r) \in {"gate", "return"} /\ c \in r.done /\ x = Clear(cr[c])

\* c was restored in a cleanup and is still to be let go.
Returns(r, x, c) ==
    /\ r \in Pass /\ r.kind = x.kind /\ r.at = x.at /\ r.listed = x.listed
    /\ r.todo = x.todo \ {c} /\ r.check = x.check \ {c} /\ r.done = x.done \cup {c}
    /\ r.fresh \subseteq x.fresh \ {c}
    /\ (x.wait => r.wait) /\ (x.errs => r.errs)

\* What a pass makes of how its write went.
CrAnswer(x, c, r, after) ==
    LET op == OpOf(x)
    IN  /\ op = "restore" =>
             \/ after.by = NoOne
             \/ after.state = WarmingUp /\ (r.wait \/ cr[c].state = WarmingUp)
             \/ c \notin x.fresh \/ <<"write", "restore">> \in FaultKinds
             \/ cr[c].saved # NoFields /\ \E o \in Originals(cr[c].doc, cr[c].saved) : ~o.ok
        /\ op = "gate" => r.wait \/ after.by = NoOne
        /\ op = "return" => r.errs \/ after.by = NoOne \/ Returns(r, x, c)

\* What a write of x into c does to the status its operator wrote.
Tells(c, x) ==
    \/ status' = status /\ x.doc = cr[c].doc
    \/ status' = Noticed(c, x.doc)

CrStep(s, c, r, x) ==
    /\ ~Over(rec[s]) /\ rec[s].listed /\ rec[s].kind # "idle"
    /\ \/ OpOf(rec[s]) \in {"turn", "restore", "return"} /\ c \in rec[s].todo
       \/ OpOf(rec[s]) \in {"gate", "return"} /\ c \in rec[s].done
    /\ CrObject(x) /\ CrWrite(s, rec[s], c, x)
    /\ cr' = [cr EXCEPT ![c] = x] /\ (x # cr[c] => Outdated(c))
    /\ \/ Shrinks(r, rec[s], c)
       \/ /\ OpOf(rec[s]) = "return" /\ c \in rec[s].todo \cap rec[s].fresh
          /\ Returns(r, rec[s], c) /\ (cr[c].saved = NoFields \/ x.by = cr[c].by)
          /\ x # cr[c]
    /\ CrAnswer(rec[s], c, r, x) /\ Turns(s, Settle(r)) /\ Tells(c, x)
    /\ status' \in [CRs -> [seen : BOOLEAN, ready : BOOLEAN]] /\ faults' \in 0..MaxFaults
    /\ UNCHANGED <<sched, obj, git, there, pods, users, queued>>

\* Writing back what is there changes nothing.
LEMMA SameCr ==
    ASSUME TypeInv, NEW c \in CRs
    PROVE  cr = [cr EXCEPT ![c] = cr[c]] /\ CrObject(cr[c])
BY DEF TypeInv

\* The status after a write keeps its type.
LEMMA NoticedIs ==
    ASSUME TypeInv, NEW c \in CRs, NEW doc
    PROVE  Noticed(c, doc) \in [CRs -> [seen : BOOLEAN, ready : BOOLEAN]]
<1>1. status \in [CRs -> [seen : BOOLEAN, ready : BOOLEAN]]
  BY Zenon DEF TypeInv, TypeOK
<1>2. ASSUME NEW same \in BOOLEAN
      PROVE  [status EXCEPT ![c].seen = @ /\ same] \in [CRs -> [seen : BOOLEAN, ready : BOOLEAN]]
  BY <1>1
<1> DEFINE same == SameSpec(doc, cr[c].doc)
<1>3. same \in BOOLEAN
  BY DEF SameSpec
<1>4. Noticed(c, doc) = [status EXCEPT ![c].seen = @ /\ same]
  BY DEF Noticed
<1> HIDE DEF same
<1> QED
  BY <1>2, <1>3, <1>4

\* The ways an Update of c goes: it changes c, it does not, or the call fails.
Updated(s, c, outcomes, good, bad) ==
    /\ \E x \in outcomes \cup {cr[c]} :
         /\ CrObject(x) /\ cr' = [cr EXCEPT ![c] = x] /\ (x # cr[c] => Outdated(c))
         /\ x = cr[c] \/ c \in rec[s].fresh
         /\ \/ x \in outcomes /\ x # cr[c] /\ Turns(s, good[x])
            \/ /\ Turns(s, bad)
               /\ \/ x = cr[c] /\ (c \in rec[s].fresh => x \in outcomes)
                  \/ <<"write", OpOf(rec[s])>> \in FaultKinds
         /\ Tells(c, x)
    /\ status' \in [CRs -> [seen : BOOLEAN, ready : BOOLEAN]] /\ faults' \in 0..MaxFaults
    /\ UNCHANGED <<sched, obj, git, there, pods, users, queued>>

\* An Update of a custom resource goes one of these ways.
LEMMA UpdatesCRIs ==
    ASSUME TypeInv, NEW s \in Schedules, NEW c \in CRs, NEW outcomes, NEW good, NEW bad \in Pass,
           \A x \in outcomes : CrObject(x) /\ good[x] \in Pass /\ c \notin good[x].todo,
           c \notin bad.todo,
           UpdatesCR(s, c, outcomes, good, bad)
    PROVE  Updated(s, c, outcomes, good, bad)
<1>1. /\ faults \in 0..MaxFaults /\ status \in [CRs -> [seen : BOOLEAN, ready : BOOLEAN]]
  BY Zenon DEF TypeInv, TypeOK
<1>2. cr = [cr EXCEPT ![c] = cr[c]] /\ CrObject(cr[c])
  BY SameCr
<1>3. /\ UNCHANGED <<sched, obj, git, there, pods, users, queued>>
      /\ UNCHANGED status => Tells(c, cr[c])
      /\ \A x : status' = Noticed(c, x.doc) => Tells(c, x)
  BY DEF UpdatesCR, Tells
<1>4. ASSUME c \in rec[s].fresh, UNCHANGED faults,
             NEW x \in outcomes, x = cr[c], Goes(s, bad), UNCHANGED <<cr, status>>
      PROVE  Updated(s, c, outcomes, good, bad)
  <2>1. Turns(s, bad)
    BY <1>4, GoesIs
  <2> QED
    BY <1>1, <1>2, <1>3, <1>4, <2>1 DEF Updated
<1>5. ASSUME c \in rec[s].fresh, UNCHANGED faults,
             NEW x \in outcomes, x # cr[c], cr' = [cr EXCEPT ![c] = x],
             status' = Noticed(c, x.doc), GoesPast(s, c, good[x])
      PROVE  Updated(s, c, outcomes, good, bad)
  <2>1. Turns(s, good[x]) /\ Outdated(c)
    BY <1>5, GoesPastIs
  <2>2. status' \in [CRs -> [seen : BOOLEAN, ready : BOOLEAN]]
    BY <1>5, NoticedIs
  <2> QED
    BY <1>1, <1>3, <1>5, <2>1, <2>2 DEF Updated
<1>6. ASSUME c \notin rec[s].fresh, Goes(s, bad), UNCHANGED <<cr, status, faults>>
      PROVE  Updated(s, c, outcomes, good, bad)
  <2>1. Turns(s, bad)
    BY <1>6, GoesIs
  <2> QED
    BY <1>1, <1>2, <1>3, <1>6, <2>1 DEF Updated
<1>7. ASSUME c \in rec[s].fresh, Fails("write", Current(s).op),
             NEW x \in outcomes \cup {cr[c]}, cr' = [cr EXCEPT ![c] = x],
             status' = Noticed(c, x.doc), GoesPast(s, c, bad)
      PROVE  Updated(s, c, outcomes, good, bad)
  <2>1. Turns(s, bad) /\ Outdated(c)
    BY <1>7, GoesPastIs
  <2>2. status' \in [CRs -> [seen : BOOLEAN, ready : BOOLEAN]]
    BY <1>7, NoticedIs
  <2>3. faults' \in 0..MaxFaults /\ <<"write", OpOf(rec[s])>> \in FaultKinds
    BY <1>7, FailsIs DEF OpOf, Current
  <2>4. CrObject(x)
    BY <1>2, <1>7
  <2> QED
    BY <1>3, <1>7, <2>1, <2>2, <2>3, <2>4 DEF Updated
<1> QED
  BY <1>4, <1>5, <1>6, <1>7, Zenon DEF UpdatesCR

\* A step that turns custom resources down has an entry that does not delete.
LEMMA EntryIs ==
    ASSUME NEW r \in Pass, ~Over(r), OpOf(r) = "turn"
    PROVE  \E i \in 1..n : Plan(r)[r.at].entry = i /\ ObjsOf(r) = Matches(i)
<1>1. /\ n \in Nat /\ r.kind = "down" /\ r.at \in 1..Len(Plan(r)) /\ Plan(r) = DownPlan
      /\ Len(DownPlan) = n + 3
  BY StepOf, DownPlanIs, IntegrationsAssumption DEF Plan, n
<1>2. Follow(Plan(r), "down") /\ LenOf("down") = n + 3
  BY <1>1, PlanIs DEF LenOf
<1>3. /\ OpOf(r) = OpAt("down", r.at) /\ ObjsOf(r) = ObjsAt("down", r.at)
  BY <1>1, <1>2 DEF Follow, OpOf, ObjsOf
<1> DEFINE i == r.at - 2
<1>4. /\ i \in 1..n /\ i + 2 = r.at /\ ~Entries[i].delete
      /\ ObjsAt("down", r.at) = Entries[i].matches
  BY <1>1, <1>3 DEF OpAt, ObjsAt
<1> HIDE DEF i
<1>5. Plan(r)[r.at] = TurnSteps[i]
  BY <1>1, <1>4, DownPlanIs
<1>6. TurnSteps[i].entry = i
  BY <1>4 DEF TurnSteps, Step, n
<1> QED
  BY <1>3, <1>4, <1>5, <1>6 DEF Matches

\* Turning a custom resource down is a CrStep.
LEMMA TurnDownCRIs ==
    ASSUME TypeInv, NEW s \in Schedules, NEW c \in CRs, TurnDownCR(s, c)
    PROVE  \E r, x : CrStep(s, c, r, x)
<1> DEFINE d == Drop(rec[s], c)
           off == TurnDown(cr[c], Entries[Current(s).entry].fields, s)
           good == [x \in {off} |-> Settle(d)]
<1>1. rec[s] \in Pass
  BY Zenon DEF TypeInv, TypeOK
<1>2. Shrinks(d, rec[s], c) /\ d \in Pass /\ Settle(d) \in Pass
  BY <1>1, DropShrinks, DropIs, SettleIs
<1>3. CrObject(off) /\ (off = cr[c] \/ (off.by = s /\ off.state = IsDown /\ off.saved # NoFields))
  BY SameCr, TurnDownIs
<1>4. /\ ~Over(rec[s]) /\ rec[s].listed /\ rec[s].kind # "idle" /\ OpOf(rec[s]) = "turn"
      /\ c \in rec[s].todo
  BY DEF TurnDownCR, At, Current, OpOf
<1>5. UpdatesCR(s, c, {off}, good, Settle(d)) /\ \A x \in {off} : good[x] = Settle(d)
  BY DEF TurnDownCR
<1> HIDE DEF d, off, good
<1>6. Updated(s, c, {off}, good, Settle(d))
  BY <1>2, <1>3, <1>5, ShrunkIs, UpdatesCRIs
<1>7. PICK x \in {off, cr[c]} :
         /\ CrObject(x) /\ cr' = [cr EXCEPT ![c] = x] /\ (x # cr[c] => Outdated(c))
         /\ x = cr[c] \/ c \in rec[s].fresh
         /\ Turns(s, Settle(d)) /\ Tells(c, x)
  BY <1>5, <1>6 DEF Updated
<1>8. CrWrite(s, rec[s], c, x)
  <2>1. x # cr[c] => c \in rec[s].fresh /\ x = off
    BY <1>7
  <2>2. \E i \in 1..n : ObjsOf(rec[s]) = Matches(i) /\ off = TurnDown(cr[c], Entries[i].fields, s)
    BY <1>1, <1>4, EntryIs DEF off, Current
  <2> QED
    BY <1>3, <1>4, <2>1, <2>2 DEF CrWrite
<1>9. CrAnswer(rec[s], c, d, x)
  BY <1>4 DEF CrAnswer
<1> QED
  BY <1>2, <1>4, <1>6, <1>7, <1>8, <1>9 DEF CrStep, Updated

\* Restoring one in an upscale is a CrStep.
LEMMA RestoreCRIs ==
    ASSUME TypeInv, NEW s \in Schedules, NEW c \in CRs, RestoreCR(s, c)
    PROVE  \E r, x : CrStep(s, c, r, x)
<1> DEFINE d == Drop(rec[s], c)
           warm(x) == [d EXCEPT !.wait = d.wait \/ x.state = WarmingUp]
           up == [x \in Restored(cr[c]) |-> Settle(warm(x))]
<1>1. rec[s] \in Pass
  BY Zenon DEF TypeInv, TypeOK
<1>2. Shrinks(d, rec[s], c) /\ d.wait = rec[s].wait /\ d \in Pass /\ Settle(d) \in Pass
  BY <1>1, DropShrinks, DropIs, SettleIs
<1>3. ASSUME NEW x \in Restored(cr[c])
      PROVE  /\ Shrinks(warm(x), rec[s], c) /\ (x.state = WarmingUp => warm(x).wait)
             /\ up[x] = Settle(warm(x)) /\ up[x] \in Pass
  <2>1. PICK b \in BOOLEAN : b = (d.wait \/ x.state = WarmingUp)
    OBVIOUS
  <2>2. warm(x) = [d EXCEPT !.wait = b]
    BY <2>1
  <2>3. Shrinks(warm(x), rec[s], c) /\ (x.state = WarmingUp => warm(x).wait)
    BY <1>1, <1>2, <2>1, <2>2, DropShrinks
  <2>4. Settle(warm(x)) \in Pass
    BY <2>3, SettleIs DEF Shrinks
  <2> QED
    BY <2>3, <2>4
<1>4. /\ ~Over(rec[s]) /\ rec[s].listed /\ rec[s].kind # "idle" /\ OpOf(rec[s]) = "restore"
      /\ c \in rec[s].todo
  BY DEF RestoreCR, At, Current, OpOf
<1>5. UpdatesCR(s, c, Restored(cr[c]), up, Settle(d))
  BY DEF RestoreCR
<1>6. CrObject(cr[c])
  BY SameCr
<1> HIDE DEF d, warm, up
<1>7. Updated(s, c, Restored(cr[c]), up, Settle(d))
  BY <1>2, <1>3, <1>5, <1>6, ShrunkIs, RestoredIs, UpdatesCRIs
<1>8. PICK x \in Restored(cr[c]) \cup {cr[c]} :
         /\ CrObject(x) /\ cr' = [cr EXCEPT ![c] = x] /\ (x # cr[c] => Outdated(c))
         /\ x = cr[c] \/ c \in rec[s].fresh
         /\ \/ x \in Restored(cr[c]) /\ x # cr[c] /\ Turns(s, up[x])
            \/ /\ Turns(s, Settle(d))
               /\ \/ x = cr[c] /\ (c \in rec[s].fresh => x \in Restored(cr[c]))
                  \/ <<"write", OpOf(rec[s])>> \in FaultKinds
         /\ Tells(c, x)
  BY <1>7 DEF Updated
<1>9. \/ x = cr[c]
      \/ cr[c].saved = NoFields /\ x = Clear(cr[c])
      \/ x.by = cr[c].by /\ x.state = WarmingUp
  BY <1>6, <1>8, RestoredIs
<1>10. CrWrite(s, rec[s], c, x)
  <2>1. x # cr[c] => x \in Restored(cr[c]) /\ c \in rec[s].fresh
    BY <1>8
  <2> QED
    BY <1>4, <1>9, <2>1 DEF CrWrite
<1>11. CASE x \in Restored(cr[c]) /\ x # cr[c] /\ Turns(s, up[x])
  <2>1. x.by = NoOne \/ (x.state = WarmingUp /\ warm(x).wait)
    BY <1>3, <1>6, <1>9, <1>11, ClearIs
  <2>2. CrAnswer(rec[s], c, warm(x), x)
    BY <1>4, <2>1 DEF CrAnswer
  <2> QED
    BY <1>3, <1>4, <1>7, <1>8, <1>10, <1>11, <2>2 DEF CrStep, Updated
<1>12. CASE /\ Turns(s, Settle(d))
            /\ \/ x = cr[c] /\ (c \in rec[s].fresh => x \in Restored(cr[c]))
               \/ <<"write", OpOf(rec[s])>> \in FaultKinds
  <2>1. CrAnswer(rec[s], c, d, x)
    <3>1. CASE <<"write", OpOf(rec[s])>> \in FaultKinds \/ c \notin rec[s].fresh
      BY <1>4, <3>1 DEF CrAnswer
    <3>2. CASE x = cr[c] /\ x \in Restored(cr[c])
      <4>1. \/ x.by = NoOne
            \/ cr[c].saved # NoFields /\ \E o \in Originals(cr[c].doc, cr[c].saved) : ~o.ok
            \/ x.state = WarmingUp /\ cr[c].state = WarmingUp
        BY <1>6, <3>2, RestoredIs, ClearIs
      <4> QED
        BY <1>4, <4>1 DEF CrAnswer
    <3> QED
      BY <1>12, <3>1, <3>2
  <2> QED
    BY <1>2, <1>4, <1>7, <1>8, <1>10, <1>12, <2>1 DEF CrStep, Updated
<1> QED
  BY <1>8, <1>11, <1>12

\* The patch that lets go of c.
LEMMA ClearsCRIs ==
    ASSUME TypeInv, NEW s \in Schedules, NEW c \in CRs, NEW bad,
           ~Over(rec[s]), rec[s].listed, rec[s].kind # "idle",
           OpOf(rec[s]) \in {"gate", "return"}, c \in rec[s].done,
           Shrinks(bad, rec[s], c), IF OpOf(rec[s]) = "gate" THEN bad.wait ELSE bad.errs,
           ClearsCR(s, c, bad)
    PROVE  \E r, x : CrStep(s, c, r, x)
<1> DEFINE d == Drop(rec[s], c)
           clear == Clear(cr[c])
<1>1. /\ rec[s] \in Pass /\ faults \in 0..MaxFaults
      /\ status \in [CRs -> [seen : BOOLEAN, ready : BOOLEAN]]
  BY Zenon DEF TypeInv, TypeOK
<1>2. Shrinks(d, rec[s], c) /\ d \in Pass /\ Settle(d) \in Pass
  BY <1>1, DropShrinks, DropIs, SettleIs
<1>3. bad \in Pass /\ Settle(bad) \in Pass
  BY SettleIs DEF Shrinks
<1>4. /\ cr = [cr EXCEPT ![c] = cr[c]] /\ CrObject(cr[c]) /\ CrObject(clear)
      /\ clear.by = NoOne /\ clear.doc = cr[c].doc
  BY SameCr, ClearIs
<1>5. /\ UNCHANGED <<sched, obj, git, there, pods, users, queued>> /\ status' = status
      /\ \A x \in {clear, cr[c]} : Tells(c, x)
  BY <1>4 DEF ClearsCR, world, Tells
<1> HIDE DEF d, clear
<1>6. CASE cr' = [cr EXCEPT ![c] = clear] /\ GoesPast(s, c, Settle(d)) /\ UNCHANGED faults
  <2>1. Turns(s, Settle(d)) /\ Outdated(c)
    BY <1>2, <1>6, ShrunkIs, GoesPastIs
  <2>2. CrAnswer(rec[s], c, d, clear) /\ CrWrite(s, rec[s], c, clear)
    BY <1>4 DEF CrAnswer, CrWrite, clear
  <2> QED
    BY <1>1, <1>2, <1>4, <1>5, <1>6, <2>1, <2>2 DEF CrStep
<1>7. ASSUME NEW x \in {clear, cr[c]}, cr' = [cr EXCEPT ![c] = x],
             GoesPast(s, c, Settle(bad)), Fails("write", Current(s).op)
      PROVE  \E r, y : CrStep(s, c, r, y)
  <2>1. Turns(s, Settle(bad)) /\ Outdated(c) /\ faults' \in 0..MaxFaults
    BY <1>3, <1>7, ShrunkIs, GoesPastIs, FailsIs
  <2>2. CrAnswer(rec[s], c, bad, x) /\ CrWrite(s, rec[s], c, x) /\ CrObject(x)
    BY <1>4, <1>7 DEF CrAnswer, CrWrite, clear
  <2> QED
    BY <1>1, <1>5, <1>7, <2>1, <2>2 DEF CrStep
<1> QED
  <2>1. \/ cr' = [cr EXCEPT ![c] = clear] /\ GoesPast(s, c, Settle(d)) /\ UNCHANGED faults
        \/ /\ Fails("write", Current(s).op) /\ cr' \in {cr, [cr EXCEPT ![c] = clear]}
           /\ GoesPast(s, c, Settle(bad))
    BY DEF ClearsCR, d, clear
  <2>2. cr' \in {cr, [cr EXCEPT ![c] = clear]} =>
          \E x \in {clear, cr[c]} : cr' = [cr EXCEPT ![c] = x]
    BY <1>4
  <2> QED
    BY <1>6, <1>7, <2>1, <2>2

\* Completing the warmup of a custom resource is a CrStep.
LEMMA ClearCRIs ==
    ASSUME TypeInv, NEW s \in Schedules, NEW c \in CRs, ClearCR(s, c)
    PROVE  \E r, x : CrStep(s, c, r, x)
<1> DEFINE bad == [Drop(rec[s], c) EXCEPT !.wait = TRUE]
<1>1. rec[s] \in Pass
  BY Zenon DEF TypeInv, TypeOK
<1>2. Shrinks(bad, rec[s], c) /\ bad.wait
  BY <1>1, DropShrinks
<1>3. /\ ~Over(rec[s]) /\ rec[s].listed /\ rec[s].kind # "idle" /\ OpOf(rec[s]) = "gate"
      /\ c \in rec[s].done /\ ClearsCR(s, c, bad)
  BY DEF ClearCR, At, Current, OpOf
<1> HIDE DEF bad
<1> QED
  BY <1>2, <1>3, ClearsCRIs

\* Returning one in a cleanup, either half of it, is a CrStep.
LEMMA ReturnCRIs ==
    ASSUME TypeInv, NEW s \in Schedules, NEW c \in CRs, ReturnCR(s, c)
    PROVE  \E r, x : CrStep(s, c, r, x)
<1> DEFINE d == Drop(rec[s], c)
           bad == [d EXCEPT !.errs = TRUE]
           back == [d EXCEPT !.done = d.done \cup {c}]
           good == [x \in Restored(cr[c]) |-> back]
<1>1. rec[s] \in Pass
  BY Zenon DEF TypeInv, TypeOK
<1>2. /\ d \in Pass /\ Shrinks(d, rec[s], c)
      /\ Shrinks(bad, rec[s], c) /\ bad.errs
  BY <1>1, DropShrinks, DropIs
<1>3. bad \in Pass /\ Settle(bad) \in Pass
  BY <1>2, SettleIs DEF Shrinks
<1>4. /\ ~Over(rec[s]) /\ rec[s].listed /\ rec[s].kind # "idle" /\ OpOf(rec[s]) = "return"
  BY DEF ReturnCR, At, Current, OpOf
<1>5. CrObject(cr[c])
  BY SameCr
<1>6. CASE c \in rec[s].done /\ ClearsCR(s, c, bad)
  <2> HIDE DEF bad
  <2> QED
    BY <1>2, <1>4, <1>6, ClearsCRIs
<1>7. CASE c \in rec[s].todo /\ UpdatesCR(s, c, Restored(cr[c]), good, Settle(bad))
  <2>1. c \in Objects
    BY DEF Objects
  <2>2. back \in Pass /\ Returns(back, rec[s], c)
    <3> HIDE DEF d
    <3> QED
      BY <1>2, <2>1 DEF Pass, Shrinks, Returns
  <2>3. Settle(back) = back
    <3>1. c \in Parts(back)
      BY <2>2 DEF Returns, Parts
    <3> QED
      BY <2>2, <3>1, SettleIs
  <2>4. \A x \in Restored(cr[c]) : good[x] = back
    OBVIOUS
  <2> HIDE DEF d, bad, back, good
  <2>5. Updated(s, c, Restored(cr[c]), good, Settle(bad))
    <3>1. c \notin back.todo /\ c \notin Settle(bad).todo
      BY <1>2, <2>2, ShrunkIs DEF Returns
    <3> QED
      BY <1>3, <1>5, <1>7, <2>2, <2>4, <3>1, RestoredIs, UpdatesCRIs
  <2>6. PICK x \in Restored(cr[c]) \cup {cr[c]} :
           /\ CrObject(x) /\ cr' = [cr EXCEPT ![c] = x] /\ (x # cr[c] => Outdated(c))
           /\ x = cr[c] \/ c \in rec[s].fresh
           /\ \/ x \in Restored(cr[c]) /\ x # cr[c] /\ Turns(s, good[x])
              \/ Turns(s, Settle(bad))
           /\ Tells(c, x)
    BY <2>5 DEF Updated
  <2>7. \/ x = cr[c]
        \/ cr[c].saved = NoFields /\ x = Clear(cr[c])
        \/ x.by = cr[c].by /\ x.state = WarmingUp
    BY <1>5, <2>6, RestoredIs
  <2>8. CrWrite(s, rec[s], c, x)
    <3>1. x # cr[c] => x \in Restored(cr[c]) /\ c \in rec[s].fresh
      BY <2>6
    <3> QED
      BY <1>4, <1>7, <2>7, <3>1 DEF CrWrite
  <2>9. CASE x \in Restored(cr[c]) /\ x # cr[c] /\ Turns(s, good[x])
    <3>1. CrAnswer(rec[s], c, back, x)
      BY <1>4, <2>2 DEF CrAnswer
    <3>2. Turns(s, Settle(back))
      BY <2>3, <2>4, <2>9
    <3>3. /\ status' \in [CRs -> [seen : BOOLEAN, ready : BOOLEAN]] /\ faults' \in 0..MaxFaults
          /\ UNCHANGED <<sched, obj, git, there, pods, users, queued>>
      BY <2>5 DEF Updated
    <3>4. c \in rec[s].todo \cap rec[s].fresh /\ (cr[c].saved = NoFields \/ x.by = cr[c].by)
      BY <1>7, <2>6, <2>7, <2>9
    <3> QED
      BY <1>4, <2>2, <2>6, <2>8, <2>9, <3>1, <3>2, <3>3, <3>4 DEF CrStep
  <2>10. CASE Turns(s, Settle(bad))
    <3>1. CrAnswer(rec[s], c, bad, x)
      BY <1>2, <1>4 DEF CrAnswer
    <3> QED
      BY <1>2, <1>4, <1>7, <2>5, <2>6, <2>8, <2>10, <3>1 DEF CrStep, Updated
  <2> QED
    BY <2>6, <2>9, <2>10
<1> QED
  BY <1>6, <1>7 DEF ReturnCR

\* A step that writes no workload and neither custom resource nor GitOps object.
QuietStep(s, r) ==
    /\ ~Over(rec[s]) /\ rec[s].listed /\ rec[s].kind # "idle"
    /\ r \in Pass /\ r.kind = rec[s].kind /\ r.at = rec[s].at /\ r.listed = rec[s].listed
    /\ r.todo \subseteq rec[s].todo /\ r.check \subseteq rec[s].check
    /\ r.done \subseteq rec[s].done \cup rec[s].check /\ r.fresh \subseteq rec[s].fresh
    /\ (rec[s].wait => r.wait) /\ (rec[s].errs => r.errs)
    /\ OpOf(rec[s]) \in {"warm", "gate", "delete"}
    /\ OpOf(rec[s]) = "gate" =>
         /\ rec[s].check # {}
         /\ \/ r.wait /\ (r.check = {} \/ r.done \subseteq rec[s].done)
            \/ r.check = {} /\ r.done = rec[s].check
    /\ Turns(s, Settle(r))
    /\ there' \in SUBSET Rebuilt /\ faults' \in 0..MaxFaults
    /\ UNCHANGED <<sched, obj, cr, git, world, users, queued>>

\* A readiness check of a GitOps object writes nothing.
LEMMA CheckGitIs ==
    ASSUME TypeInv, NEW s \in Schedules, NEW g \in Gits, CheckGit(s, g)
    PROVE  \E r : QuietStep(s, r)
<1> DEFINE d == Drop(rec[s], g)
           waits == [d EXCEPT !.wait = TRUE]
           fine == [rec[s] EXCEPT !.check = rec[s].check \ {g}, !.done = rec[s].done \cup {g}]
<1>1. rec[s] \in Pass /\ faults \in 0..MaxFaults /\ there \in SUBSET Rebuilt
  BY Zenon DEF TypeInv, TypeOK
<1>2. /\ ~Over(rec[s]) /\ rec[s].listed /\ rec[s].kind # "idle" /\ OpOf(rec[s]) = "warm"
      /\ g \in rec[s].check
  BY DEF CheckGit, At, Current, OpOf
<1>3. UNCHANGED <<sched, obj, cr, git, there, world, users, queued>>
  BY DEF CheckGit, objects
<1>4. CASE UNCHANGED faults /\ Goes(s, fine)
  <2>1. /\ fine \in Pass /\ g \in fine.done
        /\ fine.kind = rec[s].kind /\ fine.at = rec[s].at /\ fine.listed = rec[s].listed
        /\ fine.todo = rec[s].todo /\ fine.check \subseteq rec[s].check
        /\ fine.done = rec[s].done \cup {g} /\ fine.fresh = rec[s].fresh
        /\ fine.wait = rec[s].wait /\ fine.errs = rec[s].errs
    BY <1>1, <1>2 DEF Pass, Objects
  <2> HIDE DEF fine
  <2>2. Settle(fine) = fine
    BY <2>1, SettleIs DEF Parts
  <2>3. Turns(s, Settle(fine))
    BY <1>4, <2>1, <2>2, GoesIs
  <2> QED
    BY <1>1, <1>2, <1>3, <1>4, <2>1, <2>3 DEF QuietStep
<1>5. CASE ((~Ready /\ UNCHANGED faults) \/ Fails("read", "warm")) /\ Goes(s, Settle(waits))
  <2>1. Shrinks(waits, rec[s], g)
    BY <1>1, DropShrinks
  <2> HIDE DEF waits
  <2>2. waits \in Pass /\ Settle(waits) \in Pass
    BY <2>1, SettleIs DEF Shrinks
  <2>3. Turns(s, Settle(waits))
    BY <1>5, <2>2, GoesIs
  <2>4. faults' \in 0..MaxFaults
    BY <1>1, <1>5, FailsIs
  <2> QED
    BY <1>1, <1>2, <1>3, <2>1, <2>3, <2>4 DEF QuietStep, Shrinks
<1> QED
  BY <1>4, <1>5 DEF CheckGit

\* A readiness check of the custom resources writes nothing, and those that do not pass
\* it make the pass wait.
LEMMA CheckGateIs ==
    ASSUME TypeInv, NEW s \in Schedules, CheckGate(s)
    PROVE  \E r : QuietStep(s, r)
<1>1. rec[s] \in Pass /\ faults \in 0..MaxFaults /\ there \in SUBSET Rebuilt
  BY Zenon DEF TypeInv, TypeOK
<1>2. /\ ~Over(rec[s]) /\ rec[s].listed /\ rec[s].kind # "idle" /\ OpOf(rec[s]) = "gate"
      /\ rec[s].check # {}
  BY DEF CheckGate, At, Current, OpOf
<1>3. UNCHANGED <<sched, obj, cr, git, there, world, users, queued>>
  BY DEF CheckGate, objects
<1> DEFINE passed == {c \in rec[s].check : c \in rec[s].late \/ (Ready /\ Observed)}
           wait == rec[s].wait \/ passed # rec[s].check
           some == [rec[s] EXCEPT !.check = {}, !.done = passed, !.wait = wait]
           without(c) == [Drop(rec[s], c) EXCEPT !.wait = TRUE]
<1>4. ASSUME Goes(s, Settle(some)), UNCHANGED faults PROVE \E r : QuietStep(s, r)
  <2>1. passed \subseteq rec[s].check
    OBVIOUS
  <2>2. wait \in BOOLEAN /\ (rec[s].wait => wait) /\ (wait \/ passed = rec[s].check)
    BY <1>1 DEF Pass
  <2> HIDE DEF passed, wait
  <2>3. /\ some \in Pass
        /\ some.kind = rec[s].kind /\ some.at = rec[s].at /\ some.listed = rec[s].listed
        /\ some.todo = rec[s].todo /\ some.check = {}
        /\ some.done = passed /\ some.fresh = rec[s].fresh
        /\ some.wait = wait /\ some.errs = rec[s].errs
    BY <1>1, <2>1, <2>2 DEF Pass
  <2> HIDE DEF some
  <2>4. Turns(s, Settle(some))
    BY <1>4, <2>3, SettleIs, GoesIs
  <2> QED
    BY <1>1, <1>2, <1>3, <1>4, <2>1, <2>2, <2>3, <2>4 DEF QuietStep
<1>5. ASSUME Fails("read", "gate"), NEW c \in rec[s].check, Goes(s, Settle(without(c)))
      PROVE \E r : QuietStep(s, r)
  <2>1. Shrinks(without(c), rec[s], c) /\ without(c).wait
    BY <1>1, DropShrinks
  <2> DEFINE w == without(c)
  <2>3. w \in Pass /\ Settle(w) \in Pass
    BY <2>1, SettleIs DEF Shrinks
  <2>4. Turns(s, Settle(w)) /\ faults' \in 0..MaxFaults
    BY <1>5, <2>3, GoesIs, FailsIs
  <2>5. Shrinks(w, rec[s], c) /\ w.wait
    BY <2>1
  <2> HIDE DEF w
  <2> QED
    BY <1>1, <1>2, <1>3, <2>4, <2>5 DEF QuietStep, Shrinks
<1> QED
  BY <1>4, <1>5 DEF CheckGate

\* A step is left, r being what the pass was then: a resource could not be deleted, the
\* List failed, or every workload was visited.
LeaveStep(s, r) ==
    /\ ~Over(rec[s]) /\ rec[s].kind # "idle"
    /\ Same(r, [rec[s] EXCEPT !.errs = r.errs]) /\ (rec[s].errs => r.errs)
    /\ \/ OpOf(rec[s]) = "delete"
       \/ OpOf(rec[s]) = "scale" /\ rec[s].listed /\ rec[s].todo = {}
       \/ /\ ~rec[s].listed /\ ObjsOf(rec[s]) # {}
          /\ <<"list", OpOf(rec[s])>> \in FaultKinds
          /\ OpOf(rec[s]) \in {"scale", "return"} => r.errs
          /\ OpOf(rec[s]) = "scale" => rec[s].kind = "cleanup"
    /\ Turns(s, Onward(r))
    /\ faults' \in 0..MaxFaults
    /\ UNCHANGED <<sched, objects, world, users, queued>>

\* A pass differs from itself by its errors at most.
LEMMA SameAs ==
    ASSUME NEW x \in Pass
    PROVE  /\ Same(x, [x EXCEPT !.errs = x.errs])
           /\ \A b \in BOOLEAN : LET r == [x EXCEPT !.errs = b]
                                 IN  Same(r, [x EXCEPT !.errs = r.errs]) /\ r.errs = b
BY DEF Same, Pass

\* A deletion goes on with its step, or leaves it when the call fails.
LEMMA DeleteCRIs ==
    ASSUME TypeInv, NEW s \in Schedules, NEW d \in Rebuilt, DeleteCR(s, d)
    PROVE  \E r : QuietStep(s, r) \/ LeaveStep(s, r)
<1>1. rec[s] \in Pass /\ faults \in 0..MaxFaults /\ there \in SUBSET Rebuilt
  BY Zenon DEF TypeInv, TypeOK
<1>2. /\ ~Over(rec[s]) /\ rec[s].listed /\ rec[s].kind # "idle" /\ OpOf(rec[s]) = "delete"
  BY DEF DeleteCR, At, Current, OpOf
<1>3. UNCHANGED <<sched, obj, cr, git, world, users, queued>>
  BY DEF DeleteCR
<1> DEFINE r == Drop(rec[s], d)
<1>4. CASE there' = there \ {d} /\ UNCHANGED faults /\ Goes(s, Settle(r))
  <2>1. Shrinks(r, rec[s], d)
    BY <1>1, DropShrinks
  <2> HIDE DEF r
  <2>2. Turns(s, Settle(r))
    BY <1>4, <2>1, SettleIs, GoesIs DEF Shrinks
  <2> QED
    BY <1>1, <1>2, <1>3, <1>4, <2>1, <2>2 DEF QuietStep, Shrinks
<1>5. CASE Fails("write", "delete") /\ UNCHANGED there /\ Goes(s, Onward(rec[s]))
  <2>1. Turns(s, Onward(rec[s])) /\ faults' \in 0..MaxFaults
    BY <1>1, <1>5, OnwardIs, GoesIs, FailsIs
  <2>2. Same(rec[s], [rec[s] EXCEPT !.errs = rec[s].errs])
    BY <1>1, SameAs
  <2> QED
    BY <1>2, <1>3, <1>5, <2>1, <2>2 DEF LeaveStep, objects
<1> QED
  BY <1>4, <1>5 DEF DeleteCR

\* When every workload was visited, the scale step is left.
LEMMA EndScaleIs ==
    ASSUME TypeInv, NEW s \in Schedules, EndScale(s)
    PROVE  \E r : LeaveStep(s, r)
<1>1. rec[s] \in Pass /\ faults \in 0..MaxFaults
  BY Zenon DEF TypeInv, TypeOK
<1>2. /\ ~Over(rec[s]) /\ rec[s].listed /\ rec[s].kind # "idle" /\ OpOf(rec[s]) = "scale"
      /\ rec[s].todo = {} /\ UNCHANGED <<sched, objects, world, users, queued, faults>>
      /\ Goes(s, Onward(rec[s]))
  BY DEF EndScale, At, Current, OpOf
<1>3. Turns(s, Onward(rec[s]))
  BY <1>1, <1>2, OnwardIs, GoesIs
<1>4. Same(rec[s], [rec[s] EXCEPT !.errs = rec[s].errs])
  BY <1>1, SameAs
<1> QED
  BY <1>1, <1>2, <1>3, <1>4 DEF LeaveStep

\* The pass of s comes to an end, to begin again, or is begun.
Clean(r) ==
    /\ r \in Pass /\ r.at = 1 /\ ~r.listed /\ Parts(r) = {} /\ r.fresh = {}
    /\ ~r.wait /\ ~r.errs

Began(s) ==
    /\ rec[s].kind = "idle" /\ sched' = sched /\ s \in queued
    /\ rec'[s].kind \in {"down", "up", "cleanup", "blind"}
    /\ (rec'[s].kind \in {"cleanup", "blind"} => sched[s].phase = "deleting")
    /\ \A t \in Schedules : (t \in Local <=> s \in Local) => rec[t].kind = "idle"

Ended(s) ==
    /\ rec'[s].kind = "idle"
    /\ \/ sched' = sched
       \/ /\ rec[s].kind \in {"cleanup", "blind"} /\ Over(rec[s]) /\ ~rec[s].errs
          /\ sched' = [sched EXCEPT ![s].phase = "absent", ![s].up = TRUE]

TurnStep(s) ==
    /\ rec' \in [Schedules -> Pass] /\ Clean(rec'[s])
    /\ (\A t \in Schedules \ {s} : Same(rec'[t], rec[t])) /\ Spares(s, rec'[s])
    /\ Began(s) \/ Ended(s)
    /\ queued' \in SUBSET Schedules /\ faults' \in 0..MaxFaults
    /\ UNCHANGED <<objects, world, users>>

\* A worker between two passes has nothing in hand.
LEMMA IdleIs == Clean(Idle) /\ Idle.kind = "idle"
<1>1. BatchSize \in Nat
  BY IntegrationsAssumption
<1> QED
  BY <1>1 DEF Clean, Idle, Pass, Parts

\* The pass of s becomes idle.
LEMMA EndsIs ==
    ASSUME TypeInv, NEW s \in Schedules, rec[s].kind # "idle", Goes(s, Idle),
           faults' \in 0..MaxFaults, queued' \in SUBSET Schedules,
           \/ sched' = sched
           \/ /\ rec[s].kind \in {"cleanup", "blind"} /\ Over(rec[s]) /\ ~rec[s].errs
              /\ sched' = [sched EXCEPT ![s].phase = "absent", ![s].up = TRUE],
           UNCHANGED <<objects, world, users>>
    PROVE  TurnStep(s)
<1>1. Turns(s, Idle) /\ rec'[s] = Idle
  BY IdleIs, GoesIs DEF Clean
<1> QED
  BY <1>1, IdleIs DEF TurnStep, Turns, Ended

\* The three ways a pass ends.
LEMMA EndStepsAre ==
    ASSUME TypeInv, NEW s \in Schedules, EndBatch(s) \/ EndPass(s) \/ EndCleanup(s)
    PROVE  TurnStep(s)
<1>1. queued \in SUBSET Schedules /\ faults \in 0..MaxFaults
  BY Zenon DEF TypeInv, TypeOK
<1>2. \A call, op : Fails(call, op) => faults' \in 0..MaxFaults
  BY FailsIs
<1>3. Abort(s) => Goes(s, Idle) /\ queued' \in SUBSET Schedules
  BY <1>1 DEF Abort
<1>4. CASE EndBatch(s)
  <2>1. rec[s].kind # "idle" /\ Goes(s, Idle) /\ queued' \in SUBSET Schedules
        /\ UNCHANGED <<sched, objects, world, users, faults>>
    BY <1>3, <1>4 DEF EndBatch, At
  <2> QED
    BY <1>1, <2>1, EndsIs
<1>5. CASE EndPass(s)
  <2>1. rec[s].kind # "idle" /\ UNCHANGED <<sched, objects, world, users>>
    BY <1>5 DEF EndPass
  <2>2. Goes(s, Idle) /\ queued' \in SUBSET Schedules /\ faults' \in 0..MaxFaults
    BY <1>1, <1>2, <1>3, <1>5 DEF EndPass
  <2> QED
    BY <2>1, <2>2, EndsIs
<1>6. CASE EndCleanup(s)
  <2>1. rec[s].kind \in {"cleanup", "blind"} /\ Over(rec[s]) /\ UNCHANGED <<objects, world, users>>
    BY <1>6 DEF EndCleanup
  <2>2. Goes(s, Idle) /\ queued' \in SUBSET Schedules /\ faults' \in 0..MaxFaults
    BY <1>1, <1>2, <1>3, <1>6 DEF EndCleanup
  <2>3. \/ sched' = sched
        \/ ~rec[s].errs /\ sched' = [sched EXCEPT ![s].phase = "absent", ![s].up = TRUE]
    BY <1>6 DEF EndCleanup
  <2> QED
    BY <2>1, <2>2, <2>3, EndsIs
<1> QED
  BY <1>4, <1>5, <1>6

\* The worker takes a schedule and no pass begins: the schedule is gone, has no namespace,
\* or looking for its namespaces failed.
SkipStep(s) ==
    /\ UNCHANGED <<sched, objects, world, users, rec>>
    /\ queued' \in SUBSET Schedules /\ faults' \in 0..MaxFaults

\* A pass begins clean.
LEMMA BeginIs ==
    ASSUME TypeInv, NEW s \in Schedules, Takes(s), NEW kind, Goes(s, [Idle EXCEPT !.kind = kind]),
           kind \in {"down", "up", "cleanup", "blind"},
           kind \in {"cleanup", "blind"} => sched[s].phase = "deleting",
           queued' = queued \ {s}, faults' \in 0..MaxFaults,
           UNCHANGED <<sched, objects, world, users>>
    PROVE  TurnStep(s)
<1> DEFINE r == [Idle EXCEPT !.kind = kind]
<1>1. queued \in SUBSET Schedules
  BY Zenon DEF TypeInv, TypeOK
<1>2. s \in queued /\ \A t \in Schedules : (t \in Local <=> s \in Local) => rec[t].kind = "idle"
  BY DEF Takes
<1>3. Clean(r) /\ r.kind = kind
  BY IdleIs DEF Clean, Pass, Parts
<1> HIDE DEF r
<1>4. Turns(s, r) /\ rec'[s] = r
  BY <1>3, GoesIs DEF Clean, r
<1> QED
  BY <1>1, <1>2, <1>3, <1>4 DEF TurnStep, Turns, Began

\* The two ways a pass begins, or does not.
LEMMA BeginStepsAre ==
    ASSUME TypeInv, NEW s \in Schedules, BeginPass(s) \/ BeginCleanup(s)
    PROVE  SkipStep(s) \/ TurnStep(s)
<1>1. /\ queued \in SUBSET Schedules /\ faults \in 0..MaxFaults
      /\ \A call, op : Fails(call, op) => faults' \in 0..MaxFaults
  BY Zenon, FailsIs DEF TypeInv, TypeOK
<1>2. Takes(s) /\ UNCHANGED <<sched, objects, world, users>>
  BY DEF BeginPass, BeginCleanup
<1>3. CASE BeginPass(s)
  <2> DEFINE kind == IF sched[s].up THEN "up" ELSE "down"
  <2>1. \/ queued' = queued \ {s} /\ faults' = faults /\ Goes(s, [Idle EXCEPT !.kind = kind])
        \/ rec' = rec /\ queued' \in SUBSET Schedules /\ faults' \in 0..MaxFaults
    BY <1>1, <1>3 DEF BeginPass
  <2>2. kind \in {"down", "up"}
    OBVIOUS
  <2> HIDE DEF kind
  <2> QED
    BY <1>1, <1>2, <2>1, <2>2, BeginIs DEF SkipStep
<1>4. CASE BeginCleanup(s)
  <2>1. \/ /\ queued' = queued \ {s} /\ faults' \in 0..MaxFaults
           /\ \E kind \in {"cleanup", "blind"} : Goes(s, [Idle EXCEPT !.kind = kind])
        \/ rec' = rec /\ queued' \in SUBSET Schedules /\ faults' \in 0..MaxFaults
    BY <1>1, <1>4 DEF BeginCleanup
  <2>2. sched[s].phase = "deleting"
    BY <1>4 DEF BeginCleanup
  <2> QED
    BY <1>2, <2>1, <2>2, BeginIs DEF SkipStep
<1> QED
  BY <1>3, <1>4

\* The objects of a step are listed.
ListStep(s) ==
    LET r == [rec[s] EXCEPT !.listed = TRUE]
        here == Selects(s) \cap ObjsOf(rec[s])
    IN  /\ ~Over(rec[s]) /\ rec[s].kind # "idle" /\ ~rec[s].listed
        /\ Turns(s, Settle(Listed(s, r, OpOf(rec[s]), here)))
        /\ UNCHANGED <<sched, objects, world, users, queued, faults>>

\* ListedOK, for the List of s.
LEMMA ListedPass ==
    ASSUME NEW s \in Schedules, rec[s] \in Pass, ListStep(s)
    PROVE  Listed(s, [rec[s] EXCEPT !.listed = TRUE], OpOf(rec[s]),
                  Selects(s) \cap ObjsOf(rec[s])) \in Pass
<1> DEFINE r == [rec[s] EXCEPT !.listed = TRUE]
<1>1. OpOf(rec[s]) \in Ops /\ Selects(s) \cap ObjsOf(rec[s]) \in SUBSET Sort(OpOf(rec[s]))
  BY StepOf DEF ListStep
<1>2. r \in Pass
  BY DEF Pass
<1> HIDE DEF r
<1>3. Listed(s, r, OpOf(rec[s]), Selects(s) \cap ObjsOf(rec[s])) \in Pass
  BY <1>1, <1>2, ListedOK
<1> QED
  BY <1>3 DEF r

\* A List does not change the kind of a pass.
LEMMA ListedKind ==
    ASSUME NEW s, NEW x \in Pass, NEW op, NEW here
    PROVE  LET r == [x EXCEPT !.listed = TRUE]
           IN  op \in Ops => Listed(s, r, op, here).kind = x.kind
BY DEF Listed, ListedGate, ListedWarm, Pass, Ops

\* A List finds its objects, or fails and ends the pass or leaves the step.
LEMMA ListIs ==
    ASSUME TypeInv, NEW s \in Schedules, List(s)
    PROVE  ListStep(s) \/ TurnStep(s) \/ \E r : LeaveStep(s, r)
<1>1. /\ rec[s] \in Pass /\ queued \in SUBSET Schedules /\ faults \in 0..MaxFaults
  BY Zenon DEF TypeInv, TypeOK
<1>2. ~Over(rec[s]) /\ rec[s].kind # "idle" /\ ~rec[s].listed
      /\ UNCHANGED <<sched, objects, world, users>>
  BY DEF List
<1> DEFINE op == OpOf(rec[s])
           here == Selects(s) \cap ObjsOf(rec[s])
           r == [rec[s] EXCEPT !.listed = TRUE]
           e == [rec[s] EXCEPT !.errs = rec[s].errs \/ op \in {"scale", "return"}]
<1>3. CASE Goes(s, Settle(Listed(s, r, op, here))) /\ UNCHANGED <<queued, faults>>
  <2>1. r \in Pass
    BY <1>1 DEF Pass
  <2>2. op \in Ops /\ here \subseteq Sort(op)
    BY <1>1, <1>2, StepOf
  <2> HIDE DEF r, op, here
  <2>3. Listed(s, r, op, here) \in Pass
    BY <2>1, <2>2, ListedOK
  <2>4. Turns(s, Settle(Listed(s, r, op, here)))
    BY <1>3, <2>3, SettleIs, GoesIs
  <2> QED
    BY <1>2, <1>3, <2>4 DEF ListStep, op, here, r
<1>4. CASE Fails("list", op) /\ op = "scale" /\ rec[s].kind # "cleanup" /\ Abort(s)
  <2>1. faults' \in 0..MaxFaults
    BY <1>4, FailsIs
  <2>2. Goes(s, Idle) /\ queued' \in SUBSET Schedules
    BY <1>1, <1>4 DEF Abort
  <2>3. TurnStep(s)
    BY <1>2, <2>1, <2>2, EndsIs
  <2> QED
    BY <2>3
<1>5. CASE Fails("list", op) /\ ObjsOf(rec[s]) # {} /\ ~(op = "scale" /\ rec[s].kind # "cleanup")
             /\ Goes(s, Onward(e)) /\ UNCHANGED queued
  <2>1. PICK b \in BOOLEAN : b = (rec[s].errs \/ op \in {"scale", "return"})
    OBVIOUS
  <2>2. e = [rec[s] EXCEPT !.errs = b]
    BY <2>1
  <2>3. e \in Pass /\ Same(e, [rec[s] EXCEPT !.errs = e.errs]) /\ e.errs = b
    <3> HIDE DEF e
    <3> QED
      BY <1>1, <2>2, SameAs DEF Same
  <2> HIDE DEF e
  <2>4. Turns(s, Onward(e))
    BY <1>5, <2>3, OnwardIs, GoesIs
  <2>5. faults' \in 0..MaxFaults /\ <<"list", op>> \in FaultKinds
    BY <1>5, FailsIs
  <2>6. LeaveStep(s, e)
    BY <1>2, <1>5, <2>1, <2>3, <2>4, <2>5 DEF LeaveStep
  <2> QED
    BY <2>6
<1>6. /\ Current(s).op = op /\ Current(s).objs = ObjsOf(rec[s])
  BY DEF Current, OpOf, ObjsOf
<1> HIDE DEF op, here, r, e
<1> QED
  BY <1>3, <1>4, <1>5, <1>6 DEF List, op, here, r, e

\* One workload is scaled.
ScaleStepOf(s, w, r) ==
    LET after == IF rec[s].kind = "down" THEN Down(obj[w], obj[w], s) ELSE Up(obj[w], obj[w])
    IN  /\ ~Over(rec[s]) /\ rec[s].listed /\ rec[s].kind # "idle"
        /\ OpOf(rec[s]) = "scale" /\ w \in rec[s].todo
        /\ Shrinks(r, rec[s], w) /\ Turns(s, r)
        /\ \/ obj' = [obj EXCEPT ![w] = after]
           \/ obj' = obj /\ r.errs /\ <<"write", "scale">> \in FaultKinds
           \/ obj' = [obj EXCEPT ![w] = after] /\ r.errs /\ <<"write", "scale">> \in FaultKinds
        /\ pods' \in [Workloads \cup CRs -> {"none", "starting", "ready"}]
        /\ \A c \in CRs : pods'[c] = pods[c]
        /\ faults' \in 0..MaxFaults
        /\ UNCHANGED <<sched, cr, git, there, status, users, queued>>

\* Scaling one workload is a ScaleStepOf, whichever way the patch goes.
LEMMA ScaleIs ==
    ASSUME TypeInv, NEW s \in Schedules, NEW w \in Workloads, Scale(s, w)
    PROVE  \E r : ScaleStepOf(s, w, r)
<1>1. /\ rec[s] \in Pass /\ faults \in 0..MaxFaults
      /\ pods \in [Workloads \cup CRs -> {"none", "starting", "ready"}]
  BY Zenon DEF TypeInv, TypeOK
<1>2. BatchSize \in Nat
  BY IntegrationsAssumption
<1> DEFINE r == rec[s]
           after == IF r.kind = "down" THEN Down(obj[w], obj[w], s) ELSE Up(obj[w], obj[w])
           spent == IF r.kind = "cleanup" THEN r
                    ELSE [r EXCEPT !.did = TRUE, !.left = IF BatchSize > 0 THEN r.left - 1
                                                                         ELSE r.left]
           bad == [Drop(r, w) EXCEPT !.errs = TRUE]
<1>3. /\ ~Over(r) /\ r.listed /\ r.kind # "idle" /\ OpOf(r) = "scale" /\ w \in r.todo
      /\ Affords(r) /\ UNCHANGED <<sched, cr, git, there, status, users, queued>>
  BY DEF Scale, At, Current, OpOf
<1>4. /\ pods' \in [Workloads \cup CRs -> {"none", "starting", "ready"}]
      /\ \A c \in CRs : pods'[c] = pods[c]
  <2>1. pods' = [pods EXCEPT ![w] = IF obj'[w].size = 0 THEN "none" ELSE pods[w]]
    BY DEF Scale
  <2> QED
    BY <1>1, <2>1, SortsDiffer
<1>5. /\ spent \in Pass /\ spent.kind = r.kind /\ spent.at = r.at /\ spent.listed = r.listed
      /\ spent.todo = r.todo /\ spent.check = r.check /\ spent.done = r.done
      /\ spent.fresh = r.fresh /\ spent.wait = r.wait /\ spent.errs = r.errs
  <2>1. IF BatchSize > 0 /\ r.kind # "cleanup" THEN r.left - 1 \in Nat ELSE r.left \in Nat
    BY <1>1, <1>2, <1>3 DEF Affords, Pass
  <2>2. CASE r.kind = "cleanup"
    BY <1>1, <2>2
  <2>3. CASE r.kind # "cleanup"
    <3> DEFINE left == IF BatchSize > 0 THEN r.left - 1 ELSE r.left
    <3>1. left \in Nat /\ spent = [r EXCEPT !.did = TRUE, !.left = left]
      BY <1>1, <2>1, <2>3 DEF Pass
    <3> HIDE DEF left, spent
    <3> QED
      BY <1>1, <3>1 DEF Pass
  <2> QED
    BY <2>2, <2>3
<1>6. CASE obj' = [obj EXCEPT ![w] = after] /\ UNCHANGED faults /\ Goes(s, Drop(spent, w))
  <2> HIDE DEF spent
  <2>1. Shrinks(Drop(spent, w), spent, w)
    BY <1>5, DropShrinks
  <2>2. Shrinks(Drop(spent, w), r, w)
    BY <1>5, <2>1 DEF Shrinks
  <2>3. Turns(s, Drop(spent, w))
    BY <1>6, <2>1, GoesIs DEF Shrinks
  <2> QED
    BY <1>1, <1>3, <1>4, <1>6, <2>2, <2>3 DEF ScaleStepOf
<1>7. CASE Fails("write", "scale") /\ obj' \in {obj, [obj EXCEPT ![w] = after]} /\ Goes(s, bad)
  <2>1. Shrinks(bad, r, w) /\ bad.errs
    BY <1>1, DropShrinks
  <2> HIDE DEF bad
  <2>2. Turns(s, bad)
    BY <1>7, <2>1, GoesIs DEF Shrinks
  <2>3. faults' \in 0..MaxFaults /\ <<"write", "scale">> \in FaultKinds
    BY <1>7, FailsIs
  <2> QED
    BY <1>3, <1>4, <1>7, <2>1, <2>2, <2>3 DEF ScaleStepOf
<1> HIDE DEF r, after, spent, bad
<1> QED
  BY <1>6, <1>7 DEF Scale, r, after, spent, bad

\* Users, operators, time and crashes move the objects and the schedules, but no pass
\* except that a copy is outdated or that the process stops.
WorldStep ==
    /\ rec' \in [Schedules -> Pass]
    /\ \/ \A s \in Schedules :
            /\ Same(rec'[s], rec[s])
            /\ \A c \in rec[s].fresh \ rec'[s].fresh :
                 \E t \in Schedules : /\ c \in rec[t].fresh
                                      /\ <<"conflict", OpOf(rec[t])>> \in FaultKinds
       \/ \A s \in Schedules : rec'[s] = Idle
    /\ sched' \in [Schedules -> [phase : {"absent", "live", "deleting"}, up : BOOLEAN,
                                 selects : SUBSET Objects]]
    /\ \A s \in Schedules : /\ sched'[s].selects = sched[s].selects
                            /\ \/ sched'[s].phase = sched[s].phase
                               \/ sched'[s].phase = "live" /\ rec[s].kind = "idle"
                               \/ sched'[s].phase = "deleting" /\ sched[s].phase = "live"
    /\ obj' = obj
    /\ cr' = [c \in CRs |-> cr'[c]]
    /\ \A c \in CRs : /\ CrObject(cr'[c]) /\ cr'[c].by = cr[c].by /\ cr'[c].state = cr[c].state
                      /\ cr'[c].saved = cr[c].saved
    /\ \/ git' = git /\ frozen' = frozen
       \/ /\ frozen' = frozen
          /\ \E g \in Gits : git' = [git EXCEPT ![g].since = Old]
       \/ \E f \in Flux :
            /\ git[f].by = NoOne /\ ~AtHand(f)
            /\ \A s \in Schedules, w \in Workloads :
                 f \in Selects(s) /\ w \in Selects(s) => obj[w].saved = Absent
            /\ git' = [git EXCEPT ![f].suspend = ~git[f].suspend]
            /\ frozen' = IF f \in frozen THEN frozen \ {f} ELSE frozen \cup {f}

\* Passes that do not move stay the same.
LEMMA SameRec ==
    ASSUME TypeInv, rec' = rec
    PROVE  /\ rec' \in [Schedules -> Pass]
           /\ \A s \in Schedules : Same(rec'[s], rec[s]) /\ rec'[s].fresh = rec[s].fresh
<1>1. rec \in [Schedules -> Pass]
  BY Zenon DEF TypeInv, TypeOK
<1> QED
  BY <1>1 DEF Same

\* A schedule is created, or loses its finalizer.
LEMMA SchedPut ==
    ASSUME sched \in [Schedules -> [phase : {"absent", "live", "deleting"}, up : BOOLEAN,
                                    selects : SUBSET Objects]],
           NEW s \in Schedules, NEW p \in {"absent", "live", "deleting"}, NEW u \in BOOLEAN,
           sched' = [sched EXCEPT ![s].phase = p, ![s].up = u]
    PROVE  /\ sched' \in [Schedules -> [phase : {"absent", "live", "deleting"}, up : BOOLEAN,
                                        selects : SUBSET Objects]]
           /\ \A t \in Schedules :
                /\ sched'[t].selects = sched[t].selects
                /\ sched'[t].phase = IF t = s THEN p ELSE sched[t].phase
<1> DEFINE Sched == [phase : {"absent", "live", "deleting"}, up : BOOLEAN,
                     selects : SUBSET Objects]
           q == sched[s]
<1>1. /\ \A t \in Schedules \ {s} : sched'[t] = sched[t]
      /\ sched'[s] = [q EXCEPT !.phase = p, !.up = u]
      /\ sched' = [t \in Schedules |-> sched'[t]]
  OBVIOUS
<1>2. q \in Sched
  OBVIOUS
<1> HIDE DEF q
<1>3. sched'[s] \in Sched /\ sched'[s].phase = p /\ sched'[s].selects = q.selects
  BY <1>1, <1>2
<1>4. \A t \in Schedules :
        /\ sched'[t] \in Sched /\ sched'[t].selects = sched[t].selects
        /\ sched'[t].phase = IF t = s THEN p ELSE sched[t].phase
  BY <1>1, <1>3 DEF q
<1> HIDE DEF Sched
<1>5. sched' \in [Schedules -> Sched]
  BY Zenon, <1>1, <1>4
<1> QED
  BY <1>4, <1>5 DEF Sched

\* Every action of the environment is a WorldStep.
LEMMA WorldIs ==
    ASSUME TypeInv, Environment
    PROVE  WorldStep
<1>1. /\ sched \in [Schedules -> [phase : {"absent", "live", "deleting"}, up : BOOLEAN,
                                  selects : SUBSET Objects]]
      /\ git \in [Gits -> GitObject] /\ rec \in [Schedules -> Pass]
  BY Zenon DEF TypeInv, TypeOK
<1>2. cr = [c \in CRs |-> cr[c]] /\ \A c \in CRs : CrObject(cr[c])
  BY Zenon DEF TypeInv
<1>3. ASSUME NEW s \in Schedules, Create(s) \/ Delete(s) \/ Flip(s) PROVE WorldStep
  <2>1. UNCHANGED <<obj, cr, git, frozen, rec>>
    BY <1>3 DEF Create, Delete, Flip, objects, users
  <2>2. /\ sched' \in [Schedules -> [phase : {"absent", "live", "deleting"}, up : BOOLEAN,
                                     selects : SUBSET Objects]]
        /\ \A t \in Schedules : /\ sched'[t].selects = sched[t].selects
                                /\ \/ sched'[t].phase = sched[t].phase
                                   \/ sched'[t].phase = "live" /\ rec[t].kind = "idle"
                                   \/ sched'[t].phase = "deleting" /\ sched[t].phase = "live"
    <3>1. CASE Create(s)
      <4>1. rec[s].kind = "idle"
        BY <3>1 DEF Create
      <4>2. PICK up \in BOOLEAN : sched' = [sched EXCEPT ![s].phase = "live", ![s].up = up]
        BY <3>1 DEF Create
      <4>3. /\ sched' \in [Schedules -> [phase : {"absent", "live", "deleting"}, up : BOOLEAN,
                                         selects : SUBSET Objects]]
            /\ \A t \in Schedules :
                 /\ sched'[t].selects = sched[t].selects
                 /\ sched'[t].phase = IF t = s THEN "live" ELSE sched[t].phase
        BY Zenon, <1>1, <4>2, SchedPut
      <4> QED
        BY <4>1, <4>3
    <3>2. CASE Delete(s)
      BY <1>1, <3>2 DEF Delete, Live
    <3>3. CASE Flip(s)
      BY <1>1, <3>3 DEF Flip, Live
    <3> QED
      BY <1>3, <3>1, <3>2, <3>3
  <2> QED
    BY <1>2, <2>1, <2>2, SameRec DEF WorldStep
<1>4. ASSUME NEW c \in CRs, Rewrite(c) PROVE WorldStep
  <2>1. PICK doc \in Documents[c] : cr' = [cr EXCEPT ![c].doc = doc]
    BY <1>4 DEF Rewrite
  <2>2. UNCHANGED <<sched, obj, git, frozen, rec>>
    BY <1>4 DEF Rewrite
  <2>3. /\ cr' = [d \in CRs |-> cr'[d]]
        /\ \A d \in CRs : /\ CrObject(cr'[d]) /\ cr'[d].by = cr[d].by
                          /\ cr'[d].state = cr[d].state /\ cr'[d].saved = cr[d].saved
    BY <1>2, <2>1 DEF CrObject
  <2> QED
    BY <1>1, <2>2, <2>3, SameRec DEF WorldStep
<1>5. ASSUME NEW c \in CRs, Operate(c) PROVE WorldStep
  BY <1>1, <1>2, <1>5, SameRec DEF WorldStep, Operate, objects, users
<1>6. ASSUME NEW c \in CRs, Report(c) PROVE WorldStep
  <2>1. UNCHANGED <<sched, obj, cr, git, frozen>>
    BY <1>6 DEF Report, objects, users
  <2>2. rec' = [s \in Schedules |-> [rec[s] EXCEPT !.fresh = rec[s].fresh \ {c}]]
    BY <1>6 DEF Report
  <2>3. \A s \in Schedules : c \in rec[s].fresh =>
          \E t \in Schedules : c \in rec[t].fresh /\ <<"conflict", OpOf(rec[t])>> \in FaultKinds
    BY <1>6, FailsIs DEF Report, OpOf, Current
  <2>4. \A x \in Pass : LET r == [x EXCEPT !.fresh = x.fresh \ {c}]
                        IN  Same(r, x) /\ r.fresh = x.fresh \ {c}
    BY DEF Same, Pass
  <2>5. \A s \in Schedules : Same(rec'[s], rec[s]) /\ rec'[s].fresh = rec[s].fresh \ {c}
    BY <1>1, <2>2, <2>4
  <2>6. rec' \in [Schedules -> Pass]
    BY <2>2, <2>5 DEF Same
  <2> QED
    BY <1>1, <1>2, <2>1, <2>3, <2>5, <2>6 DEF WorldStep
<1>7. ASSUME NEW f \in Flux, Freeze(f) PROVE WorldStep
  <2>1. UNCHANGED <<sched, obj, cr, rec>> /\ git[f].by = NoOne /\ ~AtHand(f)
        /\ (\A s \in Schedules, w \in Workloads :
              f \in Selects(s) /\ w \in Selects(s) => obj[w].saved = Absent)
        /\ git' = [git EXCEPT ![f].suspend = ~git[f].suspend]
        /\ frozen' = IF f \in frozen THEN frozen \ {f} ELSE frozen \cup {f}
    BY <1>7 DEF Freeze
  <2> QED
    BY <1>1, <1>2, <2>1, SameRec DEF WorldStep
<1>8. ASSUME NEW x \in Workloads \cup CRs, BecomeReady(x) PROVE WorldStep
  BY <1>1, <1>2, <1>8, SameRec DEF WorldStep, BecomeReady, objects, users
<1>9. ASSUME NEW d \in Rebuilt, Rebuild(d) PROVE WorldStep
  BY <1>1, <1>2, <1>9, SameRec DEF WorldStep, Rebuild, users
<1>10. ASSUME NEW x \in CRs \cup Gits, Elapse(x) PROVE WorldStep
  <2>1. UNCHANGED <<sched, obj, rec, frozen>>
    BY <1>10 DEF Elapse, users
  <2>2. CASE x \in CRs /\ cr' = [cr EXCEPT ![x].since = Old] /\ UNCHANGED git
    <3>1. /\ cr' = [d \in CRs |-> cr'[d]]
          /\ \A d \in CRs : /\ CrObject(cr'[d]) /\ cr'[d].by = cr[d].by
                            /\ cr'[d].state = cr[d].state /\ cr'[d].saved = cr[d].saved
      BY <1>2, <2>2 DEF CrObject, Ages
    <3> QED
      BY <1>1, <2>1, <2>2, <3>1, SameRec DEF WorldStep
  <2>3. CASE x \in Gits /\ git' = [git EXCEPT ![x].since = Old] /\ UNCHANGED cr
    BY <1>1, <1>2, <2>1, <2>3, SameRec DEF WorldStep
  <2> QED
    BY <1>10, <2>2, <2>3 DEF Elapse
<1>11. CASE Restart
  <2>1. UNCHANGED <<sched, obj, cr, git, frozen>> /\ rec' = [s \in Schedules |-> Idle]
    BY <1>11 DEF Restart, objects, users
  <2>2. rec' \in [Schedules -> Pass]
    BY <2>1, IdleIs DEF Clean
  <2> QED
    BY <1>1, <1>2, <2>1, <2>2 DEF WorldStep
<1> QED
  BY <1>3, <1>4, <1>5, <1>6, <1>7, <1>8, <1>9, <1>10, <1>11 DEF Environment

\* ... and keeps the types that WorldStep does not tell.
LEMMA WorldTypes ==
    ASSUME TypeInv, Environment
    PROVE  /\ there' \in SUBSET Rebuilt
           /\ status' \in [CRs -> [seen : BOOLEAN, ready : BOOLEAN]]
           /\ pods' \in [Workloads \cup CRs -> {"none", "starting", "ready"}]
           /\ want' = [c \in CRs |-> want'[c]] /\ \A c \in CRs : want'[c] \in Documents[c]
           /\ queued' \in SUBSET Schedules /\ faults' \in 0..MaxFaults
<1>1. /\ there \in SUBSET Rebuilt
      /\ status \in [CRs -> [seen : BOOLEAN, ready : BOOLEAN]]
      /\ pods \in [Workloads \cup CRs -> {"none", "starting", "ready"}]
      /\ want = [c \in CRs |-> want[c]] /\ \A c \in CRs : want[c] \in Documents[c]
      /\ queued \in SUBSET Schedules /\ faults \in 0..MaxFaults
  BY Zenon DEF TypeInv, TypeOK
<1>2. \A call, op : Fails(call, op) => faults' \in 0..MaxFaults
  BY FailsIs
<1>3. there' \in SUBSET Rebuilt
  BY <1>1 DEF Environment, Create, Delete, Flip, Rewrite, Operate, Report, Freeze, BecomeReady,
              Rebuild, Elapse, Restart, objects
<1>4. status' \in [CRs -> [seen : BOOLEAN, ready : BOOLEAN]]
  <2>1. ASSUME NEW c \in CRs, Rewrite(c) PROVE status' \in [CRs -> [seen : BOOLEAN, ready : BOOLEAN]]
    BY <2>1, NoticedIs DEF Rewrite
  <2>2. ASSUME NEW c \in CRs, Report(c) PROVE status' \in [CRs -> [seen : BOOLEAN, ready : BOOLEAN]]
    <3>1. PICK b \in BOOLEAN : b = (pods[c] = "ready")
      OBVIOUS
    <3>2. status' = [status EXCEPT ![c] = [seen |-> TRUE, ready |-> b]]
      BY <2>2, <3>1 DEF Report
    <3> QED
      BY <1>1, <3>2
  <2> QED
    BY <1>1, <2>1, <2>2 DEF Environment, Create, Delete, Flip, Operate, Freeze, BecomeReady,
                            Rebuild, Elapse, Restart, world
<1>5. pods' \in [Workloads \cup CRs -> {"none", "starting", "ready"}]
  BY <1>1 DEF Environment, Create, Delete, Flip, Rewrite, Operate, Report, Freeze, BecomeReady,
              Rebuild, Elapse, Restart, world
<1>6. want' = [c \in CRs |-> want'[c]] /\ \A c \in CRs : want'[c] \in Documents[c]
  BY <1>1 DEF Environment, Create, Delete, Flip, Rewrite, Operate, Report, Freeze, BecomeReady,
              Rebuild, Elapse, Restart, users
<1>7. queued' \in SUBSET Schedules
  BY <1>1 DEF Environment, Create, Delete, Flip, Rewrite, Operate, Report, Freeze, BecomeReady,
              Rebuild, Elapse, Restart
<1>8. faults' \in 0..MaxFaults
  BY <1>1, <1>2 DEF Environment, Create, Delete, Flip, Rewrite, Operate, Report, Freeze,
                    BecomeReady, Rebuild, Elapse, Restart
<1> QED
  BY <1>3, <1>4, <1>5, <1>6, <1>7, <1>8

\* What a step of the pass of s is.
PassStep(s) ==
    \/ \E g \in Gits : \E r, after : GitStep(s, g, r, after)
    \/ \E c \in CRs : \E r, x : CrStep(s, c, r, x)
    \/ \E w \in Workloads : \E r : ScaleStepOf(s, w, r)
    \/ \E r : QuietStep(s, r)
    \/ \E r : LeaveStep(s, r)
    \/ ListStep(s)
    \/ TurnStep(s)

\* A worker takes a step of a pass, or takes a schedule for which no pass begins.
LEMMA ReconcileIs ==
    ASSUME TypeInv, NEW s \in Schedules, Reconcile(s)
    PROVE  SkipStep(s) \/ PassStep(s)
<1>1. CASE EndBatch(s) \/ EndPass(s) \/ EndCleanup(s)
  BY <1>1, EndStepsAre DEF PassStep
<1>2. CASE List(s)
  BY <1>2, ListIs DEF PassStep
<1>3. ASSUME NEW g \in Gits, HoldGit(s, g) \/ WarmGit(s, g) \/ CompleteGit(s, g) \/ ReleaseGit(s, g)
      PROVE PassStep(s)
  BY <1>3, GitStepIs DEF PassStep
<1>4. ASSUME NEW g \in Gits, CheckGit(s, g) PROVE PassStep(s)
  BY <1>4, CheckGitIs DEF PassStep
<1>5. ASSUME NEW c \in CRs, TurnDownCR(s, c) \/ RestoreCR(s, c) \/ ClearCR(s, c) \/ ReturnCR(s, c)
      PROVE PassStep(s)
  BY <1>5, TurnDownCRIs, RestoreCRIs, ClearCRIs, ReturnCRIs DEF PassStep
<1>6. ASSUME NEW d \in Rebuilt, DeleteCR(s, d) PROVE PassStep(s)
  BY <1>6, DeleteCRIs DEF PassStep
<1>7. CASE CheckGate(s)
  BY <1>7, CheckGateIs DEF PassStep
<1>8. ASSUME NEW w \in Workloads, Scale(s, w) PROVE PassStep(s)
  BY <1>8, ScaleIs DEF PassStep
<1>9. CASE EndScale(s)
  BY <1>9, EndScaleIs DEF PassStep
<1>10. CASE BeginPass(s) \/ BeginCleanup(s)
  BY <1>10, BeginStepsAre DEF PassStep
<1>11. CASE SkipReconcile(s)
  <2>1. queued \in SUBSET Schedules /\ faults \in 0..MaxFaults
    BY Zenon DEF TypeInv, TypeOK
  <2> QED
    BY <1>11, <2>1 DEF SkipReconcile, SkipStep
<1> QED
  BY <1>1, <1>2, <1>3, <1>4, <1>5, <1>6, <1>7, <1>8, <1>9, <1>10, <1>11, Zenon DEF Reconcile

\* Every step is one of a worker, or of the environment.
LEMMA NextIs ==
    ASSUME TypeInv, Next
    PROVE  \/ \E s \in Schedules : SkipStep(s) \/ PassStep(s)
           \/ Environment
BY ReconcileIs DEF Next

\* A patch of a GitOps object keeps its type.
LEMMA GitWriteOK ==
    ASSUME NEW s \in Schedules, NEW r, NEW g, NEW after, git[g] \in GitObject,
           GitWrite(s, r, g, after)
    PROVE  after \in GitObject
BY DEF GitWrite, GitObject, ArgoHold, FluxHold, WarmUp, ArgoComplete, FluxResume, ArgoRemove,
       States, Owners, Ages

\* The types hold at first ...
LEMMA TypeInit == Init => TypeInv
<1> SUFFICES ASSUME Init PROVE TypeInv
  OBVIOUS
<1>1. PICK scope \in Scopes :
        sched = [s \in Schedules |-> [phase |-> "absent", up |-> TRUE, selects |-> scope[s]]]
  BY DEF Init
<1>2. sched \in [Schedules -> [phase : {"absent", "live", "deleting"}, up : BOOLEAN,
                               selects : SUBSET Objects]]
  BY <1>1, IntegrationsAssumption
<1>3. obj \in [Workloads -> Workload] /\ \A w \in Workloads : obj[w].saved \in Nat
  BY IntegrationsAssumption DEF Init, Workload, Absent, Owners
<1>4. want = [c \in CRs |-> want[c]] /\ \A c \in CRs : want[c] \in Documents[c]
  BY DEF Init
<1>5. cr = [c \in CRs |-> cr[c]] /\ \A c \in CRs : CrObject(cr[c])
  BY DEF Init, CrObject, Untouched, States, Owners, Ages
<1>6. /\ git \in [Gits -> GitObject] /\ there \in SUBSET Rebuilt
      /\ status \in [CRs -> [seen : BOOLEAN, ready : BOOLEAN]]
      /\ pods \in [Workloads \cup CRs -> {"none", "starting", "ready"}]
      /\ frozen \in SUBSET Flux /\ queued \in SUBSET Schedules
  BY DEF Init, GitObject, States, Owners, Ages
<1>7. faults \in 0..MaxFaults
  BY IntegrationsAssumption DEF Init
<1>8. rec \in [Schedules -> Pass]
  BY IdleIs DEF Init, Clean
<1>9. \A c \in CRs : cr[c].state \in States /\ cr[c].by \in Owners /\ cr[c].since \in Ages
  BY <1>5 DEF CrObject
<1> QED
  BY <1>2, <1>3, <1>4, <1>5, <1>6, <1>7, <1>8, <1>9 DEF TypeInv, TypeOK

\* ... every step keeps them ...
LEMMA TypeStep == TypeInv /\ [Next]_vars => TypeInv'
<1> SUFFICES ASSUME TypeInv, [Next]_vars PROVE TypeInv'
  OBVIOUS
<1>1. /\ sched \in [Schedules -> [phase : {"absent", "live", "deleting"}, up : BOOLEAN,
                                  selects : SUBSET Objects]]
      /\ obj \in [Workloads -> Workload] /\ git \in [Gits -> GitObject]
      /\ there \in SUBSET Rebuilt
      /\ status \in [CRs -> [seen : BOOLEAN, ready : BOOLEAN]]
      /\ pods \in [Workloads \cup CRs -> {"none", "starting", "ready"}]
      /\ frozen \in SUBSET Flux
      /\ rec \in [Schedules -> Pass] /\ queued \in SUBSET Schedules
      /\ faults \in 0..MaxFaults
  BY Zenon DEF TypeInv, TypeOK
<1>2. /\ cr = [c \in CRs |-> cr[c]] /\ \A c \in CRs : CrObject(cr[c])
      /\ want = [c \in CRs |-> want[c]] /\ \A c \in CRs : want[c] \in Documents[c]
      /\ \A w \in Workloads : obj[w].saved \in Nat
  BY Zenon DEF TypeInv, TypeOK
\* The parts of the invariant, for the next state.
<1> DEFINE SchedOK == sched' \in [Schedules -> [phase : {"absent", "live", "deleting"},
                                                up : BOOLEAN, selects : SUBSET Objects]]
           ObjOK == obj' \in [Workloads -> Workload] /\ \A w \in Workloads : obj'[w].saved \in Nat
           CrOK == cr' = [c \in CRs |-> cr'[c]] /\ \A c \in CRs : CrObject(cr'[c])
           GitOK == git' \in [Gits -> GitObject] /\ there' \in SUBSET Rebuilt
           WorldOK == /\ status' \in [CRs -> [seen : BOOLEAN, ready : BOOLEAN]]
                      /\ pods' \in [Workloads \cup CRs -> {"none", "starting", "ready"}]
           UsersOK == /\ want' = [c \in CRs |-> want'[c]]
                      /\ \A c \in CRs : want'[c] \in Documents[c]
                      /\ frozen' \in SUBSET Flux
           RestOK == /\ rec' \in [Schedules -> Pass] /\ queued' \in SUBSET Schedules
                     /\ faults' \in 0..MaxFaults
<1>3. ASSUME SchedOK, ObjOK, CrOK, GitOK, WorldOK, UsersOK, RestOK
      PROVE  TypeInv'
  <2>1. \A c \in CRs : cr'[c].state \in States /\ cr'[c].by \in Owners /\ cr'[c].since \in Ages
    BY <1>3 DEF CrObject
  <2>2. TypeOK'
    BY <1>3, <2>1 DEF TypeOK
  <2> QED
    BY <1>3, <2>2 DEF TypeInv, CrObject
<1>4. CASE UNCHANGED vars
  BY <1>1, <1>2, <1>3, <1>4 DEF vars, objects, world, users
<1>5. ASSUME NEW s \in Schedules, SkipStep(s) PROVE TypeInv'
  BY <1>1, <1>2, <1>3, <1>5 DEF SkipStep, objects, world, users
<1>6. ASSUME NEW s \in Schedules, PassStep(s) PROVE TypeInv'
  <2>1. ASSUME NEW g \in Gits, NEW r, NEW after, GitStep(s, g, r, after) PROVE TypeInv'
    <3>1. after \in GitObject
      BY <1>1, <2>1, GitWriteOK DEF GitStep
    <3>2. GitOK
      BY <1>1, <2>1, <3>1 DEF GitStep
    <3>3. SchedOK /\ ObjOK /\ CrOK /\ WorldOK /\ UsersOK /\ RestOK
      BY <1>1, <1>2, <2>1 DEF GitStep, Turns, world, users
    <3> QED
      BY <1>3, <3>2, <3>3
  <2>2. ASSUME NEW c \in CRs, NEW r, NEW x, CrStep(s, c, r, x) PROVE TypeInv'
    <3>1. CrOK
      BY <1>2, <2>2 DEF CrStep
    <3>2. SchedOK /\ ObjOK /\ GitOK /\ WorldOK /\ UsersOK /\ RestOK
      BY <1>1, <1>2, <2>2 DEF CrStep, Turns, users
    <3> QED
      BY <1>3, <3>1, <3>2
  <2>3. ASSUME NEW w \in Workloads, NEW r, ScaleStepOf(s, w, r) PROVE TypeInv'
    <3>1. ObjOK
      <4>1. obj[w] \in Workload /\ obj[w].saved \in Nat
        BY <1>1, <1>2
      <4>2. /\ Down(obj[w], obj[w], s) \in Workload /\ Down(obj[w], obj[w], s).saved \in Nat
            /\ Up(obj[w], obj[w]) \in Workload /\ Up(obj[w], obj[w]).saved \in Nat
        BY <4>1 DEF Workload, Down, Up, Absent, Owners
      <4>3. \/ obj' = obj
            \/ obj' = [obj EXCEPT ![w] = Down(obj[w], obj[w], s)]
            \/ obj' = [obj EXCEPT ![w] = Up(obj[w], obj[w])]
        BY <2>3 DEF ScaleStepOf
      <4> QED
        BY <1>1, <1>2, <4>2, <4>3
    <3>2. /\ UNCHANGED <<sched, cr, git, there, status, want, frozen, queued>>
          /\ pods' \in [Workloads \cup CRs -> {"none", "starting", "ready"}]
          /\ faults' \in 0..MaxFaults /\ rec' \in [Schedules -> Pass]
      BY <2>3 DEF ScaleStepOf, Turns, users
    <3>3. SchedOK /\ CrOK /\ GitOK /\ WorldOK /\ UsersOK /\ RestOK
      BY <1>1, <1>2, <3>2
    <3> QED
      BY <1>3, <3>1, <3>3
  <2>4. ASSUME NEW r, QuietStep(s, r) PROVE TypeInv'
    BY <1>1, <1>2, <1>3, <2>4 DEF QuietStep, Turns, world, users
  <2>5. ASSUME NEW r, LeaveStep(s, r) PROVE TypeInv'
    BY <1>1, <1>2, <1>3, <2>5 DEF LeaveStep, Turns, objects, world, users
  <2>6. CASE ListStep(s)
    BY <1>1, <1>2, <1>3, <2>6 DEF ListStep, Turns, objects, world, users
  <2>7. CASE TurnStep(s)
    <3>1. SchedOK
      BY <1>1, <2>7, SchedPut DEF TurnStep, Began, Ended
    <3>2. ObjOK /\ CrOK /\ GitOK /\ WorldOK /\ UsersOK /\ RestOK
      BY <1>1, <1>2, <2>7 DEF TurnStep, objects, world, users
    <3> QED
      BY <1>3, <3>1, <3>2
  <2> QED
    BY <1>6, <2>1, <2>2, <2>3, <2>4, <2>5, <2>6, <2>7 DEF PassStep
<1>7. CASE Environment
  <2>1. WorldStep
    BY <1>7, WorldIs
  <2>2. git' \in [Gits -> GitObject] /\ frozen' \in SUBSET Flux
    <3>1. \A g \in Gits : [git EXCEPT ![g].since = Old] \in [Gits -> GitObject]
      BY <1>1 DEF GitObject, Ages
    <3>2. ASSUME NEW g \in Gits PROVE [git EXCEPT ![g].suspend = ~git[g].suspend] \in [Gits -> GitObject]
      <4>1. git \in [Gits -> GitObject] /\ git[g] \in GitObject
        BY <1>1
      <4>2. [git[g] EXCEPT !.suspend = ~git[g].suspend] \in GitObject
        BY <4>1 DEF GitObject
      <4> QED
        BY <4>1, <4>2
    <3>3. CASE git' = git /\ frozen' = frozen
      BY <1>1, <3>3
    <3>4. CASE frozen' = frozen /\ \E g \in Gits : git' = [git EXCEPT ![g].since = Old]
      BY <1>1, <3>1, <3>4
    <3>5. ASSUME NEW f \in Flux, git' = [git EXCEPT ![f].suspend = ~git[f].suspend],
                 frozen' = IF f \in frozen THEN frozen \ {f} ELSE frozen \cup {f}
          PROVE  git' \in [Gits -> GitObject] /\ frozen' \in SUBSET Flux
      <4>1. f \in Gits
        BY DEF Gits
      <4> QED
        BY <1>1, <3>2, <3>5, <4>1
    <3> QED
      BY <2>1, <3>3, <3>4, <3>5 DEF WorldStep
  <2>3. SchedOK /\ ObjOK /\ CrOK
    BY <1>1, <1>2, <2>1 DEF WorldStep
  <2>4. rec' \in [Schedules -> Pass]
    BY <2>1 DEF WorldStep
  <2> QED
    BY <1>3, <1>7, <2>2, <2>3, <2>4, WorldTypes
<1> QED
  BY <1>4, <1>5, <1>6, <1>7, NextIs

\* The types.  No workload here is marked as its user's, so that an upscale restores
\* a number.
THEOREM TypesHold == Spec => []TypeOK
<1>1. TypeInv => TypeOK
  BY DEF TypeInv
<1> QED
  BY <1>1, TypeInit, TypeStep, PTL DEF Spec

\* ... and so they always hold, with what TypeInv adds to them.
LEMMA TypeInvHolds == Spec => []TypeInv
BY TypeInit, TypeStep, PTL DEF Spec

-----------------------------------------------------------------------------
(* The shape of a pass *)

\* What a List makes of a pass that has nothing in hand.
Found(s, r, op, here, R) ==
    /\ R \in Pass /\ R.kind = r.kind /\ R.at = r.at /\ R.listed = r.listed
    /\ R.errs = r.errs /\ (r.wait => R.wait)
    /\ R.todo \subseteq here /\ R.check \subseteq here /\ R.done \subseteq here
    /\ op \notin {"warm", "gate", "return"} => R.check = {} /\ R.done = {}
    /\ op \notin {"turn", "restore", "return"} => R.fresh = {}
    /\ op \in {"turn", "restore", "return"} => R.fresh = R.todo
    /\ op = "hold" =>
         R.todo = {g \in here : IF g \in Argo THEN ArgoHolds(git[g], s) ELSE FluxHolds(git[g], s)}
    /\ op = "turn" => R.todo = {c \in here : TurnsDown(cr[c], s)}
    /\ op \in {"restore", "return"} => R.todo = {c \in here : Restores(cr[c], s)}
    /\ op = "gate" =>
         /\ R.todo = {} /\ R.done = {}
         /\ \A c \in here : IF cr[c].by = s /\ cr[c].state = WarmingUp
                            THEN R.wait \/ c \in R.check ELSE c \notin R.check
         /\ \A c \in R.check :
              cr[c].since = Old \/ Verdict(Convention[c], status[c].seen, status[c].ready)
    /\ op = "scale" =>
         R.todo = {w \in here : IF r.kind = "down" THEN ScalesDown(obj[w], s)
                                ELSE /\ ScalesUp(obj[w], s)
                                     /\ r.kind = "cleanup" => obj[w].label = s}
    /\ op = "warm" => \A f \in here \ Argo : /\ f \in R.todo => FluxWarms(git[f], s)
                                             /\ f \in R.check \cup R.done => FluxChecks(git[f], s)
    /\ op = "release" => R.todo = {g \in here : Releases(git[g], s)}
    /\ op = "return" => R.check = {} /\ R.done = {c \in here : cr[c].by = s} \ R.todo

\* Listed, operation by operation: the one place where its definition is opened.
LEMMA FoundIs ==
    ASSUME NEW s, NEW r \in Pass, NEW op \in Ops, NEW here \in SUBSET Sort(op),
           Parts(r) = {}, r.fresh = {}
    PROVE  Found(s, r, op, here, Listed(s, r, op, here))
<1> DEFINE R == Listed(s, r, op, here)
<1>1. R \in Pass
  BY ListedOK
<1>2. r.todo = {} /\ r.check = {} /\ r.done = {} /\ r.fresh = {}
  BY DEF Parts
<1>3. /\ \A todo : LET x == [r EXCEPT !.todo = todo]
                   IN  /\ x.kind = r.kind /\ x.at = r.at /\ x.listed = r.listed
                       /\ x.errs = r.errs /\ x.wait = r.wait
                       /\ x.todo = todo /\ x.check = {} /\ x.done = {} /\ x.fresh = {}
      /\ \A todo : LET x == [r EXCEPT !.todo = todo, !.fresh = todo]
                   IN  /\ x.kind = r.kind /\ x.at = r.at /\ x.listed = r.listed
                       /\ x.errs = r.errs /\ x.wait = r.wait
                       /\ x.todo = todo /\ x.check = {} /\ x.done = {} /\ x.fresh = todo
      /\ \A todo, done : LET x == [r EXCEPT !.todo = todo, !.done = done, !.fresh = todo]
                         IN  /\ x.kind = r.kind /\ x.at = r.at /\ x.listed = r.listed
                             /\ x.errs = r.errs /\ x.wait = r.wait
                             /\ x.todo = todo /\ x.check = {} /\ x.done = done /\ x.fresh = todo
  BY <1>2 DEF Pass
<1> SUFFICES Found(s, r, op, here, R)
  OBVIOUS
<1>4. R = Listed(s, r, op, here)
  OBVIOUS
<1> HIDE DEF R
<1>5. CASE op = "hold"
  <2> DEFINE todo == {g \in here : IF g \in Argo THEN ArgoHolds(git[g], s)
                                                 ELSE FluxHolds(git[g], s)}
  <2>1. R = [r EXCEPT !.todo = todo]
    BY <1>4, <1>5 DEF Listed
  <2>2. todo \subseteq here
    OBVIOUS
  <2> HIDE DEF todo
  <2>3. /\ R.kind = r.kind /\ R.at = r.at /\ R.listed = r.listed /\ R.errs = r.errs
        /\ R.wait = r.wait /\ R.todo = todo /\ R.check = {} /\ R.done = {}
        /\ R.fresh = {}
    BY <1>3, <2>1
  <2> QED
    BY <1>1, <1>5, <2>2, <2>3 DEF Found, todo
<1>6. CASE op = "turn"
  <2> DEFINE todo == {c \in here : TurnsDown(cr[c], s)}
  <2>1. R = [r EXCEPT !.todo = todo, !.fresh = todo]
    BY <1>4, <1>6 DEF Listed
  <2>2. todo \subseteq here
    OBVIOUS
  <2> HIDE DEF todo
  <2>3. /\ R.kind = r.kind /\ R.at = r.at /\ R.listed = r.listed /\ R.errs = r.errs
        /\ R.wait = r.wait /\ R.todo = todo /\ R.check = {} /\ R.done = {}
        /\ R.fresh = todo
    BY <1>3, <2>1
  <2> QED
    BY <1>1, <1>6, <2>2, <2>3 DEF Found, todo
<1>7. CASE op = "delete"
  <2> DEFINE todo == here \cap there
  <2>1. R = [r EXCEPT !.todo = todo]
    BY <1>4, <1>7 DEF Listed
  <2>2. todo \subseteq here
    OBVIOUS
  <2> HIDE DEF todo
  <2>3. /\ R.kind = r.kind /\ R.at = r.at /\ R.listed = r.listed /\ R.errs = r.errs
        /\ R.wait = r.wait /\ R.todo = todo /\ R.check = {} /\ R.done = {}
        /\ R.fresh = {}
    BY <1>3, <2>1
  <2> QED
    BY <1>1, <1>7, <2>2, <2>3 DEF Found, todo
<1>8. CASE op = "restore"
  <2> DEFINE todo == {c \in here : Restores(cr[c], s)}
  <2>1. R = [r EXCEPT !.todo = todo, !.fresh = todo]
    BY <1>4, <1>8 DEF Listed
  <2>2. todo \subseteq here
    OBVIOUS
  <2> HIDE DEF todo
  <2>3. /\ R.kind = r.kind /\ R.at = r.at /\ R.listed = r.listed /\ R.errs = r.errs
        /\ R.wait = r.wait /\ R.todo = todo /\ R.check = {} /\ R.done = {}
        /\ R.fresh = todo
    BY <1>3, <2>1
  <2> QED
    BY <1>1, <1>8, <2>2, <2>3 DEF Found, todo
<1>9. CASE op = "scale"
  <2> DEFINE todo == {w \in here : IF r.kind = "down" THEN ScalesDown(obj[w], s)
                          ELSE /\ ScalesUp(obj[w], s)
                               /\ r.kind = "cleanup" => obj[w].label = s}
  <2>1. R = [r EXCEPT !.todo = todo]
    BY <1>4, <1>9 DEF Listed
  <2>2. todo \subseteq here
    OBVIOUS
  <2> HIDE DEF todo
  <2>3. /\ R.kind = r.kind /\ R.at = r.at /\ R.listed = r.listed /\ R.errs = r.errs
        /\ R.wait = r.wait /\ R.todo = todo /\ R.check = {} /\ R.done = {}
        /\ R.fresh = {}
    BY <1>3, <2>1
  <2> QED
    BY <1>1, <1>9, <2>2, <2>3 DEF Found, todo
<1>10. CASE op = "release"
  <2> DEFINE todo == {g \in here : Releases(git[g], s)}
  <2>1. R = [r EXCEPT !.todo = todo]
    BY <1>4, <1>10 DEF Listed
  <2>2. todo \subseteq here
    OBVIOUS
  <2> HIDE DEF todo
  <2>3. /\ R.kind = r.kind /\ R.at = r.at /\ R.listed = r.listed /\ R.errs = r.errs
        /\ R.wait = r.wait /\ R.todo = todo /\ R.check = {} /\ R.done = {}
        /\ R.fresh = {}
    BY <1>3, <2>1
  <2> QED
    BY <1>1, <1>10, <2>2, <2>3 DEF Found, todo
<1>11. CASE op = "return"
  <2> DEFINE mine == {c \in here : cr[c].by = s}
             todo == {c \in mine : Restores(cr[c], s)}
  <2>1. R = [r EXCEPT !.todo = todo, !.done = mine \ todo, !.fresh = todo]
    BY <1>4, <1>11 DEF Listed
  <2>2. todo = {c \in here : Restores(cr[c], s)}
    BY DEF Restores
  <2>3. mine \subseteq here /\ todo \subseteq here
    OBVIOUS
  <2> HIDE DEF todo, mine
  <2>4. /\ R.kind = r.kind /\ R.at = r.at /\ R.listed = r.listed /\ R.errs = r.errs
        /\ R.wait = r.wait /\ R.todo = todo /\ R.check = {} /\ R.done = mine \ todo
        /\ R.fresh = todo
    BY <1>3, <2>1
  <2> QED
    BY <1>1, <1>11, <2>2, <2>3, <2>4 DEF Found, mine
<1>12. CASE op = "gate"
  <2> DEFINE warming == {c \in here : cr[c].by = s /\ cr[c].state = WarmingUp}
             late == {c \in warming : cr[c].since = Old}
             fine == {c \in warming : Verdict(Convention[c], status[c].seen, status[c].ready)}
             wait == r.wait \/ warming # fine \cup late
  <2>1. R = [r EXCEPT !.check = fine \cup late, !.late = late, !.wait = wait]
    BY <1>4, <1>12 DEF Listed, ListedGate, Pass
  <2>2. /\ fine \cup late \subseteq warming /\ warming \subseteq here
        /\ wait \/ fine \cup late = warming
    OBVIOUS
  <2>3. /\ R.kind = r.kind /\ R.at = r.at /\ R.listed = r.listed /\ R.errs = r.errs
        /\ R.wait = wait /\ R.todo = {} /\ R.check = fine \cup late /\ R.done = {} /\ R.fresh = {}
    BY <1>2, <2>1 DEF Pass
  <2>4. \A c \in here : c \in warming <=> cr[c].by = s /\ cr[c].state = WarmingUp
    OBVIOUS
  <2>5. r.wait => wait
    OBVIOUS
  <2>6. \A c \in fine \cup late :
          cr[c].since = Old \/ Verdict(Convention[c], status[c].seen, status[c].ready)
    OBVIOUS
  <2> HIDE DEF warming, late, fine, wait
  <2> QED
    BY <1>1, <1>12, <2>2, <2>3, <2>4, <2>5, <2>6 DEF Found
<1>13. CASE op = "warm"
  <2> DEFINE todo == {g \in here : IF g \in Argo THEN ArgoWarms(git[g], s)
                                                 ELSE FluxWarms(git[g], s)}
             awaited == todo \cup {g \in here \cap Argo : ArgoAwaits(git[g])}
             check == {g \in here : IF g \in Argo THEN ArgoChecks(git[g])
                                                  ELSE FluxChecks(git[g], s)}
             late == {g \in check : git[g].since = Old}
             wait == r.wait \/ awaited # {}
  <2>1. R = [r EXCEPT !.todo = todo, !.check = check \ late, !.done = late, !.wait = wait]
    BY <1>4, <1>13 DEF Listed, ListedWarm, Pass
  <2>2. /\ todo \subseteq here /\ check \subseteq here /\ late \subseteq check
        /\ \A f \in here \ Argo : /\ f \in todo => FluxWarms(git[f], s)
                                  /\ f \in check => FluxChecks(git[f], s)
    OBVIOUS
  <2>3. r.wait => wait
    OBVIOUS
  <2> HIDE DEF todo, check, late, wait
  <2>4. /\ R.kind = r.kind /\ R.at = r.at /\ R.listed = r.listed /\ R.errs = r.errs
        /\ R.wait = wait /\ R.todo = todo /\ R.check = check \ late /\ R.done = late
        /\ R.fresh = {}
    BY <1>2, <2>1 DEF Pass
  <2> QED
    BY <1>1, <1>13, <2>2, <2>3, <2>4 DEF Found
<1> QED
  BY <1>5, <1>6, <1>7, <1>8, <1>9, <1>10, <1>11, <1>12, <1>13 DEF Ops

\* r is x with less in hand, or a pass with nothing in hand.
Less(r, x) ==
    /\ r \in Pass /\ r.kind = x.kind /\ r.at = x.at /\ r.listed = x.listed
    /\ r.todo \subseteq x.todo /\ r.fresh \subseteq x.fresh /\ Parts(r) \subseteq Parts(x)
Empty(r) == Parts(r) = {} /\ r.fresh = {}

\* What the List of s found.
Finds(s) == Listed(s, [rec[s] EXCEPT !.listed = TRUE], OpOf(rec[s]), Selects(s) \cap ObjsOf(rec[s]))

\* What a step of the pass of s, or of the world, may do to the pass of t.
Advances(s, t) ==
    \/ Less(rec'[t], rec[t])
    \/ Empty(rec'[t]) /\ (rec'[t].kind = rec[t].kind \/ rec'[t].kind = "idle")
    \/ t = s /\ Empty(rec'[t]) /\ TurnStep(s)
    \/ t = s /\ ListStep(s) /\ Less(rec'[t], Finds(s))

\* Passes of one kind have one plan.
LEMMA SamePlan ==
    ASSUME NEW r, NEW x, r.kind = x.kind
    PROVE  /\ Plan(r) = Plan(x)
           /\ r.at = x.at => /\ Over(r) <=> Over(x)
                             /\ OpOf(r) = OpOf(x) /\ ObjsOf(r) = ObjsOf(x)
<1>1. Plan(r) = Plan(x)
  BY DEF Plan
<1> QED
  BY <1>1 DEF Over, OpOf, ObjsOf

\* A pass that settles has less in hand, or nothing.
LEMMA SettleMoves ==
    ASSUME NEW r \in Pass, NEW x, Less(r, x)
    PROVE  /\ Less(Settle(r), x) \/ (Empty(Settle(r)) /\ Settle(r).kind = x.kind)
           /\ Empty(Onward(r)) /\ Onward(r).kind = x.kind
BY SettleIs, OnwardFields DEF Less, Empty

\* What is Same as a pass that has moved has moved, too.
LEMMA SameMoves ==
    ASSUME NEW r, NEW x, Same(r, x)
    PROVE  /\ \A y : Less(x, y) => Less(r, y)
           /\ Empty(x) => Empty(r)
           /\ r.kind = x.kind /\ (x \in Pass => Less(r, x))
BY DEF Same, Less, Empty, Parts

\* What a step of a pass does to each pass: it advances ...
LEMMA PassMoves ==
    ASSUME TypeInv, NEW s \in Schedules, PassStep(s), NEW t \in Schedules
    PROVE  Advances(s, t)
<1>1. rec[s] \in Pass /\ rec[t] \in Pass
  BY Zenon DEF TypeInv, TypeOK
<1>2. ASSUME Same(rec'[t], rec[t]) PROVE Advances(s, t)
  BY <1>1, <1>2, SameMoves DEF Advances
<1>3. ASSUME NEW r, r \in Pass, Less(r, rec[s]), Turns(s, Settle(r)) \/ Turns(s, Onward(r)) \/ Turns(s, r)
      PROVE  Advances(s, t)
  <2>1. CASE t # s
    BY <1>2, <1>3, <2>1 DEF Turns
  <2>2. CASE t = s
    <3>1. PICK x \in {Settle(r), Onward(r), r} : Same(rec'[t], x)
      BY <1>3, <2>2 DEF Turns
    <3>2. Less(x, rec[s]) \/ (Empty(x) /\ x.kind = rec[s].kind)
      BY <1>3, <3>1, SettleMoves
    <3>3. Less(rec'[t], rec[s]) \/ (Empty(rec'[t]) /\ rec'[t].kind = rec[s].kind)
      BY <3>1, <3>2, SameMoves
    <3> QED
      BY <2>2, <3>3 DEF Advances
  <2> QED
    BY <2>1, <2>2
<1>4. ASSUME NEW g \in Gits, NEW r, NEW after, GitStep(s, g, r, after) PROVE Advances(s, t)
  <2>1. r \in Pass /\ Less(r, rec[s]) /\ Turns(s, Settle(r))
    BY <1>4 DEF GitStep, Shrinks, Less, Parts
  <2> QED
    BY <1>3, <2>1
<1>5. ASSUME NEW c \in CRs, NEW r, NEW x, CrStep(s, c, r, x) PROVE Advances(s, t)
  <2>1. r \in Pass /\ Less(r, rec[s]) /\ Turns(s, Settle(r))
    BY <1>5 DEF CrStep, Shrinks, Returns, Less, Parts
  <2> QED
    BY <1>3, <2>1
<1>6. ASSUME NEW w \in Workloads, NEW r, ScaleStepOf(s, w, r) PROVE Advances(s, t)
  <2>1. r \in Pass /\ Less(r, rec[s]) /\ Turns(s, r)
    BY <1>6 DEF ScaleStepOf, Shrinks, Less, Parts
  <2> QED
    BY <1>3, <2>1
<1>7. ASSUME NEW r, QuietStep(s, r) PROVE Advances(s, t)
  <2>1. r \in Pass /\ Less(r, rec[s]) /\ Turns(s, Settle(r))
    BY <1>7 DEF QuietStep, Less, Parts
  <2> QED
    BY <1>3, <2>1
<1>8. ASSUME NEW r, LeaveStep(s, r) PROVE Advances(s, t)
  <2>1. r \in Pass /\ Less(r, rec[s]) /\ Turns(s, Onward(r))
    BY <1>1, <1>8 DEF LeaveStep, Same, Less, Parts, Pass
  <2> QED
    BY <1>3, <2>1
<1>9. CASE ListStep(s)
  <2>1. CASE t # s
    BY <1>2, <1>9, <2>1 DEF ListStep, Turns
  <2>2. CASE t = s
    <3>1. Finds(s) \in Pass /\ Same(rec'[t], Settle(Finds(s)))
      BY <1>1, <1>9, <2>2, ListedPass DEF ListStep, Turns, Finds
    <3>2. Less(Finds(s), Finds(s))
      BY <3>1 DEF Less
    <3>3. Less(Settle(Finds(s)), Finds(s))
            \/ (Empty(Settle(Finds(s))) /\ Settle(Finds(s)).kind = Finds(s).kind)
      BY <3>1, <3>2, SettleMoves
    <3>4. Finds(s).kind = rec[s].kind
      BY <1>1, <1>9, ListedKind, StepOf DEF Finds, ListStep
    <3> QED
      BY <1>9, <2>2, <3>1, <3>3, <3>4, SameMoves DEF Advances
  <2> QED
    BY <2>1, <2>2
<1>10. CASE TurnStep(s)
  <2>1. CASE t # s
    BY <1>2, <1>10, <2>1 DEF TurnStep
  <2>2. CASE t = s
    BY <1>10, <2>2 DEF TurnStep, Clean, Empty, Advances
  <2> QED
    BY <2>1, <2>2
<1> QED
  BY <1>4, <1>5, <1>6, <1>7, <1>8, <1>9, <1>10 DEF PassStep

\* ... as it does in a step of the environment.
LEMMA WorldMoves ==
    ASSUME TypeInv, WorldStep, NEW s, NEW t \in Schedules
    PROVE  Advances(s, t)
<1>1. rec[t] \in Pass
  BY Zenon DEF TypeInv, TypeOK
<1>2. Same(rec'[t], rec[t]) \/ rec'[t] = Idle
  BY DEF WorldStep
<1>3. CASE Same(rec'[t], rec[t])
  BY <1>1, <1>3, SameMoves DEF Advances
<1>4. CASE rec'[t] = Idle
  BY <1>4, IdleIs DEF Advances, Clean, Empty
<1> QED
  BY <1>2, <1>3, <1>4

\* A pass has listed what it has in hand, at the step it is at, among what its schedule
\* selects.
Shape(r, selects) ==
    /\ ~r.listed => Empty(r)
    /\ Parts(r) # {} => ~Over(r)
    /\ Parts(r) \subseteq selects \cap ObjsOf(r)

\* What a schedule selects never changes, and a controller runs one pass at a time.
Fixed == \E scope \in Scopes : \A s \in Schedules : Selects(s) = scope[s]
OneEach ==
    \A s, t \in Schedules : s # t /\ (s \in Local <=> t \in Local)
                              => rec[s].kind = "idle" \/ rec[t].kind = "idle"

ShapeInv ==
    /\ TypeInv /\ Fixed /\ OneEach
    /\ \A s \in Schedules : Shape(rec[s], Selects(s))

\* The shape holds at first ...
LEMMA ShapeInit == Init => ShapeInv
<1> SUFFICES ASSUME Init PROVE ShapeInv
  OBVIOUS
<1>1. Fixed
  BY DEF Init, Fixed, Selects
<1>2. \A s \in Schedules : rec[s] = Idle
  BY DEF Init
<1>3. OneEach
  BY <1>2, IdleIs DEF OneEach
<1>4. \A s \in Schedules : Shape(rec[s], Selects(s))
  BY <1>2, IdleIs DEF Shape, Clean, Empty
<1> QED
  BY <1>1, <1>3, <1>4, TypeInit DEF ShapeInv

\* A List finds objects of its step that the schedule selects.
LEMMA FindsIs ==
    ASSUME ShapeInv, NEW s \in Schedules, ListStep(s)
    PROVE  /\ Found(s, [rec[s] EXCEPT !.listed = TRUE], OpOf(rec[s]),
                    Selects(s) \cap ObjsOf(rec[s]), Finds(s))
           /\ Finds(s) \in Pass /\ Finds(s).kind = rec[s].kind /\ Finds(s).at = rec[s].at
           /\ Finds(s).listed /\ Shape(Finds(s), Selects(s))
<1> DEFINE r == [rec[s] EXCEPT !.listed = TRUE]
           op == OpOf(rec[s])
           here == Selects(s) \cap ObjsOf(rec[s])
<1>1. rec[s] \in Pass /\ Empty(rec[s]) /\ ~Over(rec[s])
  BY Zenon DEF ShapeInv, TypeInv, TypeOK, Shape, ListStep
<1>2. op \in Ops /\ here \subseteq Sort(op)
  BY <1>1, StepOf
<1>3. /\ r \in Pass /\ Parts(r) = {} /\ r.fresh = {}
      /\ r.kind = rec[s].kind /\ r.at = rec[s].at /\ r.listed
  BY <1>1 DEF Pass, Parts, Empty
<1>4. Finds(s) = Listed(s, r, op, here)
  BY DEF Finds
<1> HIDE DEF r, op
<1>5. Found(s, r, op, here, Finds(s))
  BY <1>2, <1>3, <1>4, FoundIs
<1>6. /\ Finds(s) \in Pass /\ Finds(s).kind = rec[s].kind /\ Finds(s).at = rec[s].at
      /\ Finds(s).listed /\ Parts(Finds(s)) \subseteq here
  BY <1>3, <1>5 DEF Found, Parts
<1>7. ObjsOf(Finds(s)) = ObjsOf(rec[s]) /\ ~Over(Finds(s))
  BY <1>1, <1>6, SamePlan
<1> QED
  BY <1>5, <1>6, <1>7 DEF Shape, r, op

\* ... a pass that advances keeps it ...
LEMMA ShapeMoves ==
    ASSUME ShapeInv, NEW s \in Schedules, NEW t \in Schedules, Advances(s, t)
    PROVE  /\ Shape(rec'[t], Selects(t))
           /\ rec'[t].kind \in {rec[t].kind, "idle"} \/ (t = s /\ TurnStep(s))
<1>1. Shape(rec[t], Selects(t))
  BY DEF ShapeInv
<1>2. ASSUME NEW r, NEW x, Less(r, x), Shape(x, Selects(t)) PROVE Shape(r, Selects(t))
  BY <1>2, SamePlan DEF Less, Shape, Empty
<1>3. \A r : Empty(r) => Shape(r, Selects(t))
  BY DEF Shape, Empty
<1>4. CASE t = s /\ ListStep(s) /\ Less(rec'[t], Finds(s))
  BY <1>2, <1>4, FindsIs DEF Less
<1> QED
  BY <1>1, <1>2, <1>3, <1>4 DEF Advances, Less

\* ... no step changes what a schedule selects ...
LEMMA SelectsKept ==
    ASSUME TypeInv, [Next]_vars
    PROVE  \A s \in Schedules : sched'[s].selects = sched[s].selects
<1>1. sched \in [Schedules -> [phase : {"absent", "live", "deleting"}, up : BOOLEAN,
                               selects : SUBSET Objects]]
  BY Zenon DEF TypeInv, TypeOK
<1>2. ASSUME NEW s \in Schedules, PassStep(s) \/ SkipStep(s)
      PROVE  \A t \in Schedules : sched'[t].selects = sched[t].selects
  <2>1. CASE TurnStep(s)
    BY <1>1, <2>1, SchedPut DEF TurnStep, Began, Ended
  <2>2. CASE ~TurnStep(s)
    BY <1>2, <2>2 DEF PassStep, GitStep, CrStep, ScaleStepOf, QuietStep, LeaveStep, ListStep,
                      SkipStep
  <2> QED
    BY <2>1, <2>2
<1>3. CASE Environment
  BY <1>3, WorldIs DEF WorldStep
<1> QED
  BY <1>2, <1>3, NextIs DEF vars

\* ... and so every step keeps it.
LEMMA ShapeStep == ShapeInv /\ [Next]_vars => ShapeInv'
<1> SUFFICES ASSUME ShapeInv, [Next]_vars PROVE ShapeInv'
  OBVIOUS
<1>1. TypeInv /\ TypeInv' /\ \A s \in Schedules : Selects(s)' = Selects(s)
  BY TypeStep, SelectsKept DEF ShapeInv, Selects
<1>2. Fixed'
  BY <1>1 DEF ShapeInv, Fixed
<1>3. CASE rec' = rec
  BY <1>1, <1>2, <1>3 DEF ShapeInv, OneEach
<1>4. ASSUME NEW s, \A t \in Schedules : Shape(rec'[t], Selects(t)),
             \A t \in Schedules : rec'[t].kind \in {rec[t].kind, "idle"} \/ (t = s /\ TurnStep(s))
      PROVE  ShapeInv'
  <2>1. OneEach'
    <3>1. CASE \A t \in Schedules : rec'[t].kind \in {rec[t].kind, "idle"}
      BY <3>1 DEF ShapeInv, OneEach
    <3>2. CASE s \in Schedules /\ TurnStep(s)
      BY <1>4, <3>2 DEF ShapeInv, OneEach, TurnStep, Began, Ended
    <3> QED
      BY <1>4, <3>1, <3>2
  <2>2. \A t \in Schedules : Shape(rec[t], Selects(t))'
    BY <1>1, <1>4
  <2> QED
    BY <1>1, <1>2, <2>1, <2>2 DEF ShapeInv
<1>5. CASE Environment
  <2>1. \A s, t \in Schedules : Advances(s, t)
    BY <1>1, <1>5, WorldIs, WorldMoves
  <2>2. \A t \in Schedules : Shape(rec'[t], Selects(t))
    BY <2>1, ShapeMoves
  <2>3. \A t \in Schedules : rec'[t].kind \in {rec[t].kind, "idle"}
    BY <1>1, <1>5, WorldIs, IdleIs DEF WorldStep, Same
  <2> QED
    BY <1>4, <2>2, <2>3
<1>6. ASSUME NEW s \in Schedules, PassStep(s) PROVE ShapeInv'
  <2>1. \A t \in Schedules : Advances(s, t)
    BY <1>1, <1>6, PassMoves
  <2> QED
    BY <1>4, <2>1, ShapeMoves
<1> QED
  BY <1>1, <1>3, <1>5, <1>6, NextIs DEF vars, SkipStep

\* The shape of every pass always holds.
LEMMA ShapeHolds == Spec => []ShapeInv
BY ShapeInit, ShapeStep, PTL DEF Spec
=============================================================================
