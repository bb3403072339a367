------------------------ MODULE IntegrationsOwnersProofs ------------------------
(***************************************************************************)
(* Who may let go of what in Integrations: a Flux resource its user        *)
(* suspended is never touched, and what a schedule holds is let go by it   *)
(* alone.                                                                  *)
(***************************************************************************)
EXTENDS IntegrationsProofs

-----------------------------------------------------------------------------
(* Suspensions of users *)

\* The Flux resources a pass is about to write are selected, and no user suspended them.
Hand(r, selects, suspended) ==
    \A f \in Flux \cap Parts(r) : r.kind # "idle" /\ f \in selects /\ f \notin suspended

\* UserSuspensionKept, for any objects and suspensions.
Untaken(objs, suspended) ==
    \A f \in Flux : IF objs[f].by = NoOne THEN objs[f].suspend <=> f \in suspended
                                         ELSE f \notin suspended

SuspendInv ==
    /\ TypeInv /\ Untaken(git, frozen)
    /\ \A s \in Schedules : Hand(rec[s], Selects(s), frozen)

\* A pass that drops objects, or goes on, has no new ones in hand.
LEMMA HandKept ==
    ASSUME NEW r \in Pass, NEW selects, NEW suspended, Hand(r, selects, suspended)
    PROVE  /\ Hand(Onward(r), selects, suspended) /\ Hand(Settle(r), selects, suspended)
           /\ \A x : x.kind = r.kind /\ Parts(x) \subseteq Parts(r) => Hand(x, selects, suspended)
<1>1. Parts(Onward(r)) = {}
  BY OnwardFields
<1>2. Hand(Onward(r), selects, suspended)
  BY <1>1 DEF Hand
<1> QED
  BY <1>2, SettleIs DEF Hand

\* The passes after a step, from the one that moved and those that did not.
LEMMA HandTurns ==
    ASSUME SuspendInv, NEW s \in Schedules, NEW r, Turns(s, r), Hand(r, Selects(s), frozen),
           sched' = sched, frozen' = frozen
    PROVE  \A t \in Schedules : Hand(rec'[t], sched'[t].selects, frozen')
BY DEF SuspendInv, Turns, Same, Hand, Parts, Selects

\* What a List finds of Flux resources is the schedule's own or nobody's, and then
\* running.
LEMMA HandListed ==
    ASSUME SuspendInv, NEW s \in Schedules, ListStep(s)
    PROVE  Hand(Listed(s, [rec[s] EXCEPT !.listed = TRUE], OpOf(rec[s]),
                       Selects(s) \cap ObjsOf(rec[s])), Selects(s), frozen)
<1> DEFINE r == [rec[s] EXCEPT !.listed = TRUE]
           op == OpOf(rec[s])
           here == Selects(s) \cap ObjsOf(rec[s])
<1>1. rec[s] \in Pass /\ Untaken(git, frozen) /\ Hand(rec[s], Selects(s), frozen)
  BY Zenon DEF SuspendInv, TypeInv, TypeOK
<1>2. op \in Ops /\ here \subseteq Sort(op) /\ rec[s].kind # "idle"
  BY <1>1, StepOf DEF ListStep
<1>3. r \in Pass /\ r.kind = rec[s].kind /\ Parts(r) = Parts(rec[s])
  BY <1>1 DEF Pass, Parts
<1>4. \A f \in Flux : git[f].by \in {s, NoOne} /\ (git[f].by = NoOne => ~git[f].suspend)
                        => f \notin frozen
  BY <1>1 DEF Untaken
<1>5. NoOne # s
  BY ScalerAssumption
<1> DEFINE mine(f) == git[f].by \in {s, NoOne} /\ (git[f].by = NoOne => ~git[f].suspend)
           R == Listed(s, r, op, here)
<1>6. /\ R.kind = r.kind
      /\ \A f \in Flux : f \in Parts(R) => f \in Parts(r) \/ (f \in here /\ mine(f))
  <2>1. \A f \in Flux : f \in Gits /\ f \notin Argo /\ f \notin CRs \cup Workloads \cup Rebuilt
    BY SortsDiffer DEF Gits
  <2> HIDE DEF r, op, here, R
  <2>2. r \in Pass /\ op \in Ops /\ here \subseteq Sort(op) /\ R = Listed(s, r, op, here)
    BY <1>2, <1>3 DEF R
  <2>3. CASE op = "hold"
    BY <2>1, <2>2, <2>3 DEF Listed, Pass, Parts, FluxHolds, Foreign
  <2>4. CASE op = "warm"
    BY <1>5, <2>1, <2>2, <2>4 DEF Listed, ListedWarm, Pass, Parts, FluxWarms, FluxChecks
  <2>5. CASE op = "release"
    BY <1>5, <2>1, <2>2, <2>5 DEF Listed, Pass, Parts, Releases
  <2>6. CASE op = "turn" \/ op = "restore" \/ op = "return" \/ op = "delete" \/ op = "scale"
    BY <2>1, <2>2, <2>6 DEF Listed, Pass, Parts, Sort
  <2>7. CASE op = "gate"
    BY <2>1, <2>2, <2>7 DEF Listed, ListedGate, Pass, Parts, Sort
  <2> QED
    BY <2>2, <2>3, <2>4, <2>5, <2>6, <2>7 DEF Ops
<1>7. here \subseteq Selects(s)
  OBVIOUS
<1> HIDE DEF r, op, here, R
<1>8. Hand(R, Selects(s), frozen)
  BY <1>1, <1>2, <1>3, <1>4, <1>6, <1>7 DEF Hand
<1> QED
  BY <1>8 DEF R, r, op, here

\* The suspensions are respected at first ...
LEMMA SuspendInit == Init => SuspendInv
<1> SUFFICES ASSUME Init PROVE SuspendInv
  OBVIOUS
<1>1. Untaken(git, frozen)
  BY DEF Init, Untaken, Gits
<1>2. \A s \in Schedules : Parts(rec[s]) = {}
  BY DEF Init, Idle, Parts
<1> QED
  BY <1>1, <1>2, TypeInit DEF SuspendInv, Hand

\* A patch of a Flux resource is of one that no user suspended, and leaves it so.
LEMMA SuspendGit ==
    ASSUME SuspendInv, NEW s \in Schedules, NEW g \in Gits, NEW r, NEW after,
           GitStep(s, g, r, after)
    PROVE  Untaken(git', frozen') /\ \A t \in Schedules : Hand(rec'[t], sched'[t].selects, frozen')
<1>1. /\ rec[s] \in Pass /\ Untaken(git, frozen) /\ Hand(rec[s], Selects(s), frozen)
      /\ git \in [Gits -> GitObject]
  BY Zenon DEF SuspendInv, TypeInv, TypeOK
<1>2. r \in Pass /\ r.kind = rec[s].kind /\ Parts(r) \subseteq Parts(rec[s])
  BY DEF GitStep, Shrinks, Parts
<1>3. Hand(Settle(r), Selects(s), frozen)
  BY <1>1, <1>2, HandKept
<1>4. sched' = sched /\ frozen' = frozen /\ Turns(s, Settle(r))
  BY DEF GitStep, users
<1>5. Untaken(git', frozen')
  <2>1. CASE git' = git
    BY <1>1, <1>4, <2>1 DEF Untaken
  <2>2. CASE git' = [git EXCEPT ![g] = after]
    <3>1. ASSUME g \in Flux
          PROVE  g \notin frozen /\ (IF after.by = NoOne THEN ~after.suspend ELSE TRUE)
      <4>1. g \in Parts(rec[s]) /\ g \notin Argo
        BY <3>1, SortsDiffer DEF GitStep, GitWrite, Parts
      <4>2. after \in GitObject /\ git[g] \in GitObject /\ s # NoOne
        BY <1>1, GitWriteOK, ScalerAssumption DEF GitStep
      <4>3. after.by = s \/ ~after.suspend
        BY <4>1, <4>2 DEF GitStep, GitWrite, FluxHold, ArgoHold, WarmUp, FluxResume, ArgoComplete,
                          GitObject
      <4> QED
        BY <1>1, <3>1, <4>1, <4>2, <4>3 DEF Hand
    <3>2. \A f \in Flux : f \in Gits /\ git'[f] = IF f = g THEN after ELSE git[f]
      BY <1>1, <2>2 DEF Gits
    <3> QED
      BY <1>1, <1>4, <3>1, <3>2 DEF Untaken
  <2> QED
    BY <2>1, <2>2 DEF GitStep
<1> QED
  BY <1>3, <1>4, <1>5, HandTurns

\* What users, operators, time and a restart do.
LEMMA SuspendWorld ==
    ASSUME SuspendInv, WorldStep
    PROVE  Untaken(git', frozen') /\ \A t \in Schedules : Hand(rec'[t], sched'[t].selects, frozen')
<1>1. /\ rec \in [Schedules -> Pass] /\ Untaken(git, frozen) /\ git \in [Gits -> GitObject]
      /\ \A t \in Schedules : Hand(rec[t], Selects(t), frozen)
  BY Zenon DEF SuspendInv, TypeInv, TypeOK
<1>2. \A t \in Schedules : sched'[t].selects = Selects(t)
  BY DEF WorldStep, Selects
<1>3. \A t \in Schedules : /\ Parts(rec'[t]) \subseteq Parts(rec[t])
                           /\ rec'[t].kind = rec[t].kind \/ Parts(rec'[t]) = {}
  BY IdleIs DEF WorldStep, Same, Parts, Clean
<1>4. Untaken(git', frozen') /\ \A f \in frozen' \ frozen : ~AtHand(f)
  <2>1. CASE git' = git /\ frozen' = frozen
    BY <1>1, <2>1 DEF Untaken
  <2>2. CASE frozen' = frozen /\ \E g \in Gits : git' = [git EXCEPT ![g].since = Old]
    <3>1. \A f \in Flux : f \in Gits /\ git'[f].by = git[f].by /\ git'[f].suspend = git[f].suspend
      BY <1>1, <2>2 DEF Gits, GitObject
    <3> QED
      BY <1>1, <2>2, <3>1 DEF Untaken
  <2>3. ASSUME NEW f \in Flux, git[f].by = NoOne, ~AtHand(f),
               git' = [git EXCEPT ![f].suspend = ~git[f].suspend],
               frozen' = IF f \in frozen THEN frozen \ {f} ELSE frozen \cup {f}
        PROVE  Untaken(git', frozen') /\ \A g \in frozen' \ frozen : ~AtHand(g)
    <3>1. \A g \in Flux : /\ g \in Gits /\ git'[g].by = git[g].by
                          /\ git'[g].suspend = IF g = f THEN ~git[f].suspend ELSE git[g].suspend
      BY <1>1, <2>3 DEF Gits, GitObject
    <3>2. f \in frozen' <=> f \notin frozen
      BY <2>3
    <3>3. \A g \in Flux \ {f} : g \in frozen' <=> g \in frozen
      BY <2>3
    <3>4. Untaken(git', frozen')
      BY <1>1, <2>3, <3>1, <3>2, <3>3 DEF Untaken
    <3> QED
      BY <2>3, <3>4
  <2> QED
    BY <2>1, <2>2, <2>3 DEF WorldStep
<1>5. \A t \in Schedules : \A f \in Selects(t) : rec[t].kind # "idle" => AtHand(f)
  BY DEF AtHand
<1>6. ASSUME NEW t \in Schedules, NEW f \in Flux, f \in Parts(rec'[t])
      PROVE  rec'[t].kind # "idle" /\ f \in sched'[t].selects /\ f \notin frozen'
  <2>1. f \in Parts(rec[t]) /\ rec'[t].kind = rec[t].kind
    BY <1>3, <1>6
  <2>2. rec[t].kind # "idle" /\ f \in Selects(t) /\ f \notin frozen
    BY <1>1, <1>6, <2>1 DEF Hand
  <2> QED
    BY <1>2, <1>4, <1>5, <2>1, <2>2
<1> QED
  BY <1>4, <1>6 DEF Hand

\* ... and every step respects them.
LEMMA SuspendStep == SuspendInv /\ [Next]_vars => SuspendInv'
<1> SUFFICES ASSUME SuspendInv, [Next]_vars PROVE SuspendInv'
  OBVIOUS
<1>1. TypeInv /\ Untaken(git, frozen) /\ \A t \in Schedules : Hand(rec[t], Selects(t), frozen)
  BY DEF SuspendInv
<1>2. TypeInv'
  BY <1>1, TypeStep
<1> DEFINE Kept == Untaken(git', frozen')
           Hands == \A t \in Schedules : Hand(rec'[t], sched'[t].selects, frozen')
<1>3. ASSUME Kept, Hands PROVE SuspendInv'
  BY <1>2, <1>3 DEF SuspendInv, Selects, Hand, Parts
<1>4. ASSUME git' = git, frozen' = frozen PROVE Kept
  BY <1>1, <1>4 DEF Untaken
<1>5. ASSUME rec' = rec, sched' = sched, frozen' = frozen PROVE Hands
  BY <1>1, <1>5 DEF Hand, Selects
<1>6. CASE UNCHANGED vars
  BY <1>3, <1>4, <1>5, <1>6 DEF vars, objects, users
<1>7. ASSUME NEW s \in Schedules, SkipStep(s) PROVE SuspendInv'
  BY <1>3, <1>4, <1>5, <1>7 DEF SkipStep, objects, users
<1>8. CASE Environment
  BY <1>1, <1>3, <1>8, WorldIs, SuspendWorld
<1>9. ASSUME NEW s \in Schedules, PassStep(s) PROVE SuspendInv'
  <2>0. rec[s] \in Pass /\ Hand(rec[s], Selects(s), frozen)
    BY <1>1, Zenon DEF TypeInv, TypeOK
  <2>1. ASSUME NEW g \in Gits, NEW r, NEW after, GitStep(s, g, r, after) PROVE SuspendInv'
    BY <1>3, <2>1, SuspendGit
  <2>2. ASSUME NEW c \in CRs, NEW r, NEW x, CrStep(s, c, r, x) PROVE SuspendInv'
    <3>1. r \in Pass /\ r.kind = rec[s].kind /\ Parts(r) \subseteq Parts(rec[s])
      BY <2>2 DEF CrStep, Shrinks, Returns, Parts
    <3>2. Hand(Settle(r), Selects(s), frozen)
      BY <2>0, <3>1, HandKept
    <3> QED
      BY <1>3, <1>4, <2>2, <3>2, HandTurns DEF CrStep, users
  <2>3. ASSUME NEW w \in Workloads, NEW r, ScaleStepOf(s, w, r) PROVE SuspendInv'
    <3>1. r.kind = rec[s].kind /\ Parts(r) \subseteq Parts(rec[s])
      BY <2>3 DEF ScaleStepOf, Shrinks, Parts
    <3>2. Hand(r, Selects(s), frozen)
      BY <2>0, <3>1, HandKept
    <3> QED
      BY <1>3, <1>4, <2>3, <3>2, HandTurns DEF ScaleStepOf, users
  <2>4. ASSUME NEW r, QuietStep(s, r) PROVE SuspendInv'
    <3>1. r \in Pass /\ r.kind = rec[s].kind /\ Parts(r) \subseteq Parts(rec[s])
      BY <2>4 DEF QuietStep, Parts
    <3>2. Hand(Settle(r), Selects(s), frozen)
      BY <2>0, <3>1, HandKept
    <3> QED
      BY <1>3, <1>4, <2>4, <3>2, HandTurns DEF QuietStep, users
  <2>5. ASSUME NEW r, LeaveStep(s, r) PROVE SuspendInv'
    <3>1. r \in Pass /\ Parts(r) \subseteq Parts(rec[s]) /\ r.kind = rec[s].kind
      BY <2>0, <2>5 DEF LeaveStep, Same, Parts, Pass
    <3>2. Hand(Onward(r), Selects(s), frozen)
      BY <2>0, <3>1, HandKept
    <3> QED
      BY <1>3, <1>4, <2>5, <3>2, HandTurns DEF LeaveStep, objects, users
  <2>6. CASE ListStep(s)
    <3> DEFINE r == Listed(s, [rec[s] EXCEPT !.listed = TRUE], OpOf(rec[s]),
                           Selects(s) \cap ObjsOf(rec[s]))
    <3>1. Hand(r, Selects(s), frozen)
      BY <2>6, HandListed
    <3>2. r \in Pass
      BY <2>0, <2>6, ListedPass DEF ListStep
    <3>3. UNCHANGED <<sched, objects, world, users>> /\ Turns(s, Settle(r))
      BY <2>6 DEF ListStep
    <3> HIDE DEF r
    <3>4. Hand(Settle(r), Selects(s), frozen)
      BY <3>1, <3>2, HandKept
    <3> QED
      BY <1>3, <1>4, <3>3, <3>4, HandTurns DEF objects, users
  <2>7. CASE TurnStep(s)
    <3>1. \A t \in Schedules : /\ Parts(rec'[t]) \subseteq Parts(rec[t])
                               /\ rec'[t].kind = rec[t].kind \/ Parts(rec'[t]) = {}
      BY <2>7 DEF TurnStep, Clean, Same, Parts
    <3>2. sched \in [Schedules -> [phase : {"absent", "live", "deleting"}, up : BOOLEAN,
                                   selects : SUBSET Objects]]
      BY <1>1, Zenon DEF TypeInv, TypeOK
    <3>3. \A t \in Schedules : sched'[t].selects = sched[t].selects
      BY <2>7, <3>2, SchedPut DEF TurnStep, Began, Ended
    <3>4. Hands
      BY <1>1, <2>7, <3>1, <3>3 DEF Hand, Selects, TurnStep, users
    <3> QED
      BY <1>3, <1>4, <2>7, <3>4 DEF TurnStep, objects, users
  <2> QED
    BY <1>9, <2>1, <2>2, <2>3, <2>4, <2>5, <2>6, <2>7 DEF PassStep
<1> QED
  BY <1>1, <1>6, <1>7, <1>8, <1>9, NextIs

\* LightsOut neither resumes nor takes over a Flux resource its user suspended,
\* whatever the schedules select and whatever fails: at the time of the patch it is
\* still the schedule's own or nobody's, and running.
THEOREM SuspensionsKept == Spec => []UserSuspensionKept
<1>1. SuspendInv => UserSuspensionKept
  <2>1. ASSUME SuspendInv PROVE \A f \in Flux : git[f].suspend \in BOOLEAN
    <3>1. git \in [Gits -> GitObject]
      BY <2>1, Zenon DEF SuspendInv, TypeInv, TypeOK
    <3> QED
      BY <3>1 DEF Gits, GitObject
  <2>2. ASSUME NEW b \in BOOLEAN, NEW f, b <=> f \in frozen PROVE b = (f \in frozen)
    BY <2>2
  <2> QED
    BY <2>1, <2>2, Zenon DEF SuspendInv, Untaken, UserSuspensionKept
<1> QED
  BY <1>1, SuspendInit, SuspendStep, PTL DEF Spec

-----------------------------------------------------------------------------
(* Who lets go *)

\* The hypothesis about Flux resources: a schedule of a namespace and one of the cluster,
\* whose controllers work at the same time, select none in common.
FluxApart ==
    \A scope \in Scopes, s \in Local, t \in Schedules \ Local :
       scope[s] \cap scope[t] \cap Flux = {}

\* What a pass of s is about to let go of is its own: each custom resource of which it
\* has the latest copy, or which it restored or found ready, and each Flux resource.
Mine(s, r, crs, gits) ==
    /\ \A c \in CRs \cap r.fresh : IF r.kind = "down" THEN crs[c].by \in {s, NoOne}
                                   ELSE crs[c].by = s /\ crs[c].state = IsDown
    /\ \A c \in CRs \cap (r.check \cup r.done) : crs[c].by = s
    /\ FluxApart => \A f \in Flux \cap Parts(r) : gits[f].by \in {s, NoOne}

\* A custom resource that is down has its captured fields.
Captured(crs) == \A c \in CRs : crs[c].state = IsDown => crs[c].saved # NoFields

OwnInv ==
    /\ ShapeInv /\ Captured(cr)
    /\ \A s \in Schedules : Mine(s, rec[s], cr, git)

\* r has less in hand than x, and checks no more.
Fewer(r, x) ==
    /\ r.kind = x.kind /\ r.fresh \subseteq x.fresh /\ Parts(r) \subseteq Parts(x)
    /\ r.check \cup r.done \subseteq x.check \cup x.done

\* A pass that keeps less in hand, or nothing, keeps what is its own.
LEMMA MineKept ==
    ASSUME NEW s, NEW r, NEW crs, NEW gits
    PROVE  /\ Empty(r) => Mine(s, r, crs, gits)
           /\ r \in Pass => Mine(s, Onward(r), crs, gits)
           /\ r \in Pass /\ Mine(s, r, crs, gits) => Mine(s, Settle(r), crs, gits)
           /\ \A x : Fewer(x, r) /\ Mine(s, r, crs, gits) => Mine(s, x, crs, gits)
           /\ \A x : Same(x, r) /\ Mine(s, r, crs, gits) => Mine(s, x, crs, gits)
<1>1. \A x : Empty(x) => Mine(s, x, crs, gits)
  BY DEF Mine, Parts, Empty
<1>2. r \in Pass => Mine(s, Onward(r), crs, gits)
  BY <1>1, OnwardFields DEF Empty
<1>3. r \in Pass /\ Mine(s, r, crs, gits) => Mine(s, Settle(r), crs, gits)
  BY <1>2, SettleIs
<1>4. \A x : Fewer(x, r) /\ Mine(s, r, crs, gits) => Mine(s, x, crs, gits)
  BY DEF Mine, Fewer
<1>5. \A x : Same(x, r) => Fewer(x, r)
  BY DEF Same, Fewer, Parts
<1> QED
  BY <1>1, <1>2, <1>3, <1>4, <1>5

\* What a List finds is the schedule's own, or what a downscale finds is nobody's.
LEMMA MineListed ==
    ASSUME OwnInv, NEW s \in Schedules, ListStep(s)
    PROVE  Mine(s, Finds(s), cr, git)
<1> DEFINE r == [rec[s] EXCEPT !.listed = TRUE]
           op == OpOf(rec[s])
           here == Selects(s) \cap ObjsOf(rec[s])
           R == Finds(s)
<1>1. rec[s] \in Pass /\ ~Over(rec[s])
  BY Zenon DEF OwnInv, ShapeInv, TypeInv, TypeOK, ListStep
<1>2. /\ op \in Ops /\ here \subseteq Sort(op)
      /\ op = "turn" <=> rec[s].kind = "down" /\ op \in {"turn", "restore", "return"}
  BY <1>1, StepOf
<1>3. s # NoOne
  BY ScalerAssumption
<1>4. Found(s, r, op, here, R) /\ R.kind = rec[s].kind
  BY FindsIs DEF OwnInv
<1> HIDE DEF r, op, here, R
<1>5. ASSUME NEW c \in CRs, c \in R.fresh
      PROVE  IF R.kind = "down" THEN cr[c].by \in {s, NoOne} ELSE cr[c].by = s /\ cr[c].state = IsDown
  <2>1. op \in {"turn", "restore", "return"} /\ c \in R.todo
    BY <1>4, <1>5 DEF Found
  <2>2. CASE op = "turn"
    BY <1>2, <1>4, <2>1, <2>2 DEF Found, TurnsDown, Foreign
  <2>3. CASE op # "turn"
    BY <1>2, <1>4, <2>1, <2>3 DEF Found, Restores
  <2> QED
    BY <2>2, <2>3
<1>6. ASSUME NEW c \in CRs, c \in R.check \cup R.done PROVE cr[c].by = s
  <2>1. op \in {"warm", "gate", "return"} /\ c \in here
    BY <1>4, <1>6 DEF Found
  <2>2. op # "warm"
    BY <1>2, <2>1, SortsDiffer DEF Sort
  <2> QED
    BY <1>4, <1>6, <2>1, <2>2 DEF Found
<1>7. ASSUME NEW f \in Flux, f \in Parts(R) PROVE git[f].by \in {s, NoOne}
  <2>1. f \in here /\ f \in Gits /\ f \notin Argo
    BY <1>4, <1>7, SortsDiffer DEF Found, Parts, Gits
  <2>2. op \in {"hold", "warm", "release"}
    BY <1>2, <2>1, SortsDiffer DEF Sort, Ops
  <2>3. CASE op = "hold"
    BY <1>4, <1>7, <2>1, <2>3 DEF Found, Parts, FluxHolds, Foreign
  <2>4. CASE op = "warm"
    BY <1>4, <1>7, <2>1, <2>4 DEF Found, Parts, FluxWarms, FluxChecks
  <2>5. CASE op = "release"
    BY <1>4, <1>7, <2>1, <2>5 DEF Found, Parts, Releases
  <2> QED
    BY <2>2, <2>3, <2>4, <2>5
<1> QED
  BY <1>5, <1>6, <1>7 DEF Mine, R

\* What passes hold is their own at first ...
LEMMA OwnInit == Init => OwnInv
<1> SUFFICES ASSUME Init PROVE OwnInv
  OBVIOUS
<1>1. \A s \in Schedules : Empty(rec[s])
  BY IdleIs DEF Init, Clean, Empty
<1>2. Captured(cr)
  BY DEF Init, Captured, Untouched, IsDown, NoState
<1> QED
  BY <1>1, <1>2, ShapeInit, MineKept DEF OwnInv

\* A write of a custom resource by s: of whatever another pass is about to let go, it
\* changes neither the owner nor the state, or the other's copy is outdated.
LEMMA OwnCr ==
    ASSUME OwnInv, NEW s \in Schedules, NEW c \in CRs, NEW r, NEW x, CrStep(s, c, r, x)
    PROVE  /\ Captured(cr') /\ \A t \in Schedules : Mine(t, rec'[t], cr', git')
           /\ cr[c].by \in {x.by, s, NoOne} /\ (x = cr[c] \/ cr[c].by \in {s, NoOne})
<1>1. /\ cr = [d \in CRs |-> cr[d]] /\ Captured(cr) /\ CrObject(cr[c]) /\ CrObject(x)
      /\ \A t \in Schedules : Mine(t, rec[t], cr, git)
  BY Zenon DEF OwnInv, ShapeInv, TypeInv, CrStep
<1>2. /\ cr'[c] = x /\ \A d \in CRs \ {c} : cr'[d] = cr[d]
      /\ git' = git
  BY <1>1 DEF CrStep
<1>3. s # NoOne /\ NoOne \notin Schedules
  BY ScalerAssumption
<1>4. rec[s] \in Pass /\ ~Over(rec[s])
  BY Zenon DEF OwnInv, ShapeInv, TypeInv, TypeOK, CrStep
<1>5. /\ OpOf(rec[s]) = "turn" => rec[s].kind = "down"
      /\ OpOf(rec[s]) \in {"restore", "return"} => rec[s].kind # "down"
  BY <1>4, StepOf
<1>6. /\ OpOf(rec[s]) = "turn" /\ c \in rec[s].fresh => cr[c].by \in {s, NoOne}
      /\ OpOf(rec[s]) \in {"restore", "return"} /\ c \in rec[s].fresh
           => cr[c].by = s /\ cr[c].state = IsDown /\ cr[c].saved # NoFields
      /\ c \in rec[s].done => cr[c].by = s
  BY <1>1, <1>5 DEF Mine, Captured
\* What the write may do.
<1>7. \/ x = cr[c]
      \/ /\ cr[c].by \in {s, NoOne}
         /\ x.state = IsDown => x.saved # NoFields
  BY <1>1, <1>6, ClearIs DEF CrStep, CrWrite, IsDown, NoState, WarmingUp
<1>8. Captured(cr')
  BY <1>1, <1>2, <1>7 DEF Captured
<1>9. ASSUME NEW t \in Schedules \ {s} PROVE Mine(t, rec'[t], cr', git')
  <2>1. Same(rec'[t], rec[t]) /\ (x # cr[c] => c \notin rec'[t].fresh)
    BY DEF CrStep, Turns, Outdated
  <2>2. Mine(t, rec'[t], cr, git)
    BY <1>1, <2>1, MineKept
  <2>3. x # cr[c] => c \notin rec'[t].check \cup rec'[t].done
    BY <1>3, <1>7, <2>2 DEF Mine
  <2> QED
    BY <1>2, <2>1, <2>2, <2>3 DEF Mine
<1>10. Mine(s, rec'[s], cr', git')
  <2>1. r \in Pass /\ Same(rec'[s], Settle(r))
    BY DEF CrStep, Shrinks, Returns, Turns
  <2>2. CASE Shrinks(r, rec[s], c)
    <3>1. Fewer(r, rec[s]) /\ c \notin r.fresh \cup r.check \cup r.done
      BY <2>2 DEF Shrinks, Fewer, Parts
    <3>2. Mine(s, r, cr, git)
      BY <1>1, <3>1, MineKept
    <3>3. Mine(s, r, cr', git')
      BY <1>2, <3>1, <3>2 DEF Mine
    <3> QED
      BY <2>1, <3>3, MineKept
  <2>3. CASE /\ OpOf(rec[s]) = "return" /\ c \in rec[s].todo \cap rec[s].fresh
             /\ Returns(r, rec[s], c) /\ (cr[c].saved = NoFields \/ x.by = cr[c].by)
    <3>1. x.by = s
      BY <1>6, <2>3
    <3>2. /\ r.kind = rec[s].kind /\ r.fresh \subseteq rec[s].fresh \ {c}
          /\ Parts(r) \subseteq Parts(rec[s])
          /\ r.check \cup r.done \subseteq rec[s].check \cup rec[s].done \cup {c}
      BY <2>3 DEF Returns, Parts
    <3>3. Mine(s, rec[s], cr, git)
      BY <1>1
    <3>4. Mine(s, r, cr', git')
      BY <1>2, <3>1, <3>2, <3>3 DEF Mine
    <3> QED
      BY <2>1, <3>4, MineKept
  <2> QED
    BY <2>2, <2>3 DEF CrStep
<1> QED
  BY <1>7, <1>8, <1>9, <1>10

\* Under FluxApart no two passes have the same Flux resource in hand.
LEMMA FluxAlone ==
    ASSUME ShapeInv, FluxApart, NEW s \in Schedules, NEW t \in Schedules \ {s}, NEW f \in Flux,
           f \in Parts(rec[s])
    PROVE  f \notin Parts(rec[t])
<1> SUFFICES ASSUME f \in Parts(rec[t]) PROVE FALSE
  OBVIOUS
<1>1. rec \in [Schedules -> Pass]
  BY Zenon DEF ShapeInv, TypeInv, TypeOK
<1>2. \A x \in {s, t} : f \in Selects(x) /\ rec[x].kind # "idle"
  <2>1. \A x \in {s, t} : Shape(rec[x], Selects(x)) /\ f \in Parts(rec[x]) /\ rec[x] \in Pass
    BY <1>1 DEF ShapeInv
  <2> QED
    BY <2>1, StepOf DEF Shape
<1>3. (s \in Local /\ t \notin Local) \/ (t \in Local /\ s \notin Local)
  BY <1>2 DEF ShapeInv, OneEach
<1>4. PICK scope \in Scopes : \A x \in Schedules : Selects(x) = scope[x]
  BY DEF ShapeInv, Fixed
<1> QED
  BY <1>2, <1>3, <1>4 DEF FluxApart

\* A patch of a GitOps object by s: no other pass has it in hand.
LEMMA OwnGit ==
    ASSUME OwnInv, NEW s \in Schedules, NEW g \in Gits, NEW r, NEW after, GitStep(s, g, r, after)
    PROVE  \A t \in Schedules : Mine(t, rec'[t], cr', git')
<1>1. /\ git \in [Gits -> GitObject] /\ \A t \in Schedules : Mine(t, rec[t], cr, git)
      /\ rec \in [Schedules -> Pass]
  BY Zenon DEF OwnInv, ShapeInv, TypeInv, TypeOK
<1>2. \A f \in Flux \ {g} : git'[f] = git[f]
  BY <1>1 DEF GitStep, Gits
<1>3. cr' = cr /\ r \in Pass /\ g \in Parts(rec[s]) /\ rec[s].kind # "idle"
  BY DEF GitStep, GitWrite, Shrinks, Parts
<1>4. ASSUME NEW t \in Schedules \ {s} PROVE Mine(t, rec'[t], cr', git')
  <2>1. Same(rec'[t], rec[t]) /\ Parts(rec'[t]) = Parts(rec[t])
    BY DEF GitStep, Turns, Same, Parts
  <2>2. Mine(t, rec'[t], cr, git)
    BY <1>1, <2>1, MineKept
  <2>3. FluxApart => g \notin Flux \cap Parts(rec[t])
    BY <1>1, <1>3, FluxAlone DEF OwnInv
  <2> QED
    BY <1>2, <1>3, <2>1, <2>2, <2>3 DEF Mine
<1>5. Mine(s, rec'[s], cr', git')
  <2>1. Same(rec'[s], Settle(r)) /\ Fewer(r, rec[s]) /\ g \notin Parts(r)
    BY DEF GitStep, Turns, Shrinks, Fewer, Parts
  <2>2. Mine(s, r, cr, git)
    BY <1>1, <2>1, MineKept
  <2>3. Mine(s, r, cr', git')
    BY <1>2, <1>3, <2>1, <2>2 DEF Mine
  <2> QED
    BY <1>3, <2>1, <2>3, MineKept
<1> QED
  BY <1>4, <1>5

\* Nobody but LightsOut writes its labels.
LEMMA WorldOwners ==
    ASSUME TypeInv, WorldStep
    PROVE  /\ \A c \in CRs : cr'[c].by = cr[c].by
           /\ \A f \in Flux : git'[f].by = git[f].by
<1>1. git \in [Gits -> GitObject]
  BY Zenon DEF TypeInv, TypeOK
<1>2. \A g \in Gits : git'[g].by = git[g].by
  <2>1. ASSUME NEW g \in Gits, NEW b, git' = [git EXCEPT ![g].since = b] \/ git' = [git EXCEPT ![g].suspend = b]
        PROVE  \A f \in Gits : git'[f].by = git[f].by
    BY <1>1, <2>1 DEF GitObject
  <2>2. CASE git' = git
    BY <2>2
  <2>3. CASE \E g \in Gits : git' = [git EXCEPT ![g].since = Old]
    BY <2>1, <2>3
  <2>4. CASE \E f \in Flux : git' = [git EXCEPT ![f].suspend = ~git[f].suspend]
    BY <2>1, <2>4 DEF Gits
  <2> QED
    BY <2>2, <2>3, <2>4 DEF WorldStep
<1> QED
  BY <1>2 DEF WorldStep, Gits

\* ... every step keeps it so ...
LEMMA OwnStep == OwnInv /\ [Next]_vars => OwnInv'
<1> SUFFICES ASSUME OwnInv, [Next]_vars PROVE OwnInv'
  OBVIOUS
<1>1. /\ ShapeInv /\ TypeInv /\ Captured(cr) /\ ShapeInv'
      /\ \A t \in Schedules : Mine(t, rec[t], cr, git)
  BY ShapeStep DEF OwnInv, ShapeInv
<1>2. rec \in [Schedules -> Pass] /\ git \in [Gits -> GitObject]
  BY <1>1, Zenon DEF TypeInv, TypeOK
<1> DEFINE Kept == Captured(cr') /\ \A t \in Schedules : Mine(t, rec'[t], cr', git')
<1>3. ASSUME Kept PROVE OwnInv'
  BY <1>1, <1>3 DEF OwnInv, Captured, Mine, Parts
<1>4. ASSUME NEW s \in Schedules, NEW r, Turns(s, r), Mine(s, r, cr, git), cr' = cr, git' = git
      PROVE  Kept
  BY <1>1, <1>4, MineKept DEF Turns
<1>5. CASE UNCHANGED <<rec, cr, git>>
  BY <1>1, <1>3, <1>5
<1>6. CASE Environment
  <2>1. WorldStep
    BY <1>1, <1>6, WorldIs
  <2>2. \A c \in CRs : cr'[c].by = cr[c].by /\ cr'[c].state = cr[c].state /\ cr'[c].saved = cr[c].saved
    BY <2>1 DEF WorldStep
  <2>3. \A f \in Flux : git'[f].by = git[f].by
    BY <1>1, <2>1, WorldOwners
  <2>4. \A t \in Schedules : Same(rec'[t], rec[t]) \/ Empty(rec'[t])
    BY <2>1, IdleIs DEF WorldStep, Clean, Empty
  <2>5. \A t \in Schedules : Mine(t, rec'[t], cr, git)
    BY <1>1, <2>4, MineKept
  <2>6. Kept
    BY <1>1, <2>2, <2>3, <2>5 DEF Captured, Mine
  <2> QED
    BY <1>3, <2>6
<1>7. ASSUME NEW s \in Schedules, PassStep(s) PROVE OwnInv'
  <2>0. rec[s] \in Pass /\ Mine(s, rec[s], cr, git)
    BY <1>1, <1>2
  <2>1. ASSUME NEW g \in Gits, NEW r, NEW after, GitStep(s, g, r, after) PROVE OwnInv'
    <3>1. cr' = cr
      BY <2>1 DEF GitStep
    <3> QED
      BY <1>1, <1>3, <2>1, <3>1, OwnGit
  <2>2. ASSUME NEW c \in CRs, NEW r, NEW x, CrStep(s, c, r, x) PROVE OwnInv'
    BY <1>3, <2>2, OwnCr
  <2>3. ASSUME NEW w \in Workloads, NEW r, ScaleStepOf(s, w, r) PROVE OwnInv'
    <3>1. Fewer(r, rec[s]) /\ Turns(s, r) /\ cr' = cr /\ git' = git
      BY <2>3 DEF ScaleStepOf, Shrinks, Fewer, Parts
    <3>2. Mine(s, r, cr, git)
      BY <2>0, <3>1, MineKept
    <3> QED
      BY <1>3, <1>4, <3>1, <3>2
  <2>4. ASSUME NEW r, QuietStep(s, r) PROVE OwnInv'
    <3>1. r \in Pass /\ Fewer(r, rec[s]) /\ Turns(s, Settle(r)) /\ cr' = cr /\ git' = git
      BY <2>4 DEF QuietStep, Fewer, Parts
    <3>2. Mine(s, Settle(r), cr, git)
      BY <2>0, <3>1, MineKept
    <3> QED
      BY <1>3, <1>4, <3>1, <3>2
  <2>5. ASSUME NEW r, LeaveStep(s, r) PROVE OwnInv'
    <3>1. r \in Pass /\ Turns(s, Onward(r)) /\ cr' = cr /\ git' = git
      BY <2>5 DEF LeaveStep, Same, objects
    <3>2. Mine(s, Onward(r), cr, git)
      BY <3>1, MineKept
    <3> QED
      BY <1>3, <1>4, <3>1, <3>2
  <2>6. CASE ListStep(s)
    <3>1. Finds(s) \in Pass /\ Mine(s, Finds(s), cr, git)
      BY <1>1, <2>6, FindsIs, MineListed
    <3>2. Turns(s, Settle(Finds(s))) /\ cr' = cr /\ git' = git
      BY <2>6 DEF ListStep, Finds, objects
    <3>3. Mine(s, Settle(Finds(s)), cr, git)
      BY <3>1, MineKept
    <3> QED
      BY <1>3, <1>4, <3>2, <3>3
  <2>7. CASE TurnStep(s)
    <3>1. \A t \in Schedules : Same(rec'[t], rec[t]) \/ Empty(rec'[t])
      BY <2>7 DEF TurnStep, Clean, Empty
    <3>2. cr' = cr /\ git' = git
      BY <2>7 DEF TurnStep, objects
    <3>3. \A t \in Schedules : Mine(t, rec'[t], cr, git)
      BY <1>1, <3>1, MineKept
    <3> QED
      BY <1>1, <1>3, <3>2, <3>3
  <2> QED
    BY <1>7, <2>1, <2>2, <2>3, <2>4, <2>5, <2>6, <2>7 DEF PassStep
<1> QED
  BY <1>1, <1>5, <1>6, <1>7, NextIs DEF vars, objects, SkipStep

\* A schedule that lets go of something does so in a step of its own pass.
LEMMA ReleaseStep ==
    ASSUME OwnInv, [Next]_vars, NEW s \in Schedules, NEW x \in CRs \cup Flux,
           x \in CRs \/ FluxApart, Owner(x) = s, Owner(x)' # s
    PROVE  Held(s)' # Held(s)
<1>1. /\ TypeInv /\ \A t \in Schedules : Mine(t, rec[t], cr, git)
      /\ cr = [c \in CRs |-> cr[c]] /\ git \in [Gits -> GitObject] /\ rec \in [Schedules -> Pass]
  BY Zenon DEF OwnInv, ShapeInv, TypeInv, TypeOK
<1>2. s # NoOne
  BY ScalerAssumption
<1>3. (x \in CRs /\ Owner(x) = cr[x].by /\ Owner(x)' = cr'[x].by)
        \/ (x \in Flux /\ x \in Gits /\ x \notin CRs /\ Owner(x) = git[x].by /\ Owner(x)' = git'[x].by)
  BY SortsDiffer DEF Owner, Gits
<1>4. ~(cr' = cr /\ git' = git)
  BY <1>3
<1>5. ASSUME NEW t \in Schedules, NEW r \in Pass, Same(rec'[t], Settle(r))
      PROVE  /\ rec'[t].todo \subseteq r.todo /\ rec'[t].done \subseteq r.done
             /\ Parts(rec'[t]) \subseteq Parts(r)
  <2>1. Settle(r) = r \/ Parts(Settle(r)) = {}
    BY <1>5, SettleIs, OnwardFields
  <2> QED
    BY <1>5, <2>1 DEF Same, Parts
<1>6. ASSUME \/ rec'[s].todo # rec[s].todo \/ rec'[s].done # rec[s].done
             \/ Parts(rec'[s]) # Parts(rec[s])
      PROVE  Held(s)' # Held(s)
  <2>1. rec'[s] \in Pass
    BY Zenon, OwnStep DEF OwnInv, ShapeInv, TypeInv, TypeOK
  <2>2. /\ Held(s)'.todo = rec'[s].todo /\ Held(s)'.check = rec'[s].check
        /\ Held(s)'.done = rec'[s].done
    BY <2>1 DEF Held, Pass
  <2>3. /\ Held(s).todo = rec[s].todo /\ Held(s).check = rec[s].check
        /\ Held(s).done = rec[s].done
    BY <1>1 DEF Held, Pass
  <2> QED
    BY <1>6, <2>2, <2>3 DEF Parts
<1>7. ASSUME NEW t \in Schedules, NEW c \in CRs, NEW r, NEW y, CrStep(t, c, r, y)
      PROVE  Held(s)' # Held(s)
  <2>1. x = c /\ cr'[c] = y
    BY <1>1, <1>3, <1>7 DEF CrStep
  <2>2. cr[c].by \in {y.by, t, NoOne}
    BY <1>7, OwnCr
  <2>3. t = s
    BY <1>2, <1>3, <2>1, <2>2
  <2>4. Same(rec'[t], Settle(r)) /\ r \in Pass
    BY <1>7 DEF CrStep, Turns, Shrinks, Returns
  <2>5. \/ c \in rec[t].todo \ r.todo
        \/ c \in rec[t].done \ r.done
    BY <1>7 DEF CrStep, Shrinks, Returns
  <2> QED
    BY <1>5, <1>6, <2>3, <2>4, <2>5
<1>8. ASSUME NEW t \in Schedules, NEW g \in Gits, NEW r, NEW after, GitStep(t, g, r, after)
      PROVE  Held(s)' # Held(s)
  <2>1. x = g /\ x \in Flux /\ FluxApart
    BY <1>1, <1>3, <1>8, SortsDiffer DEF GitStep
  <2>2. g \in Parts(rec[t])
    BY <1>8 DEF GitStep, GitWrite, Parts
  <2>3. t = s
    BY <1>1, <1>2, <1>3, <2>1, <2>2, SortsDiffer DEF Mine
  <2>4. Same(rec'[t], Settle(r)) /\ r \in Pass /\ g \notin Parts(r)
    BY <1>8 DEF GitStep, Turns, Shrinks, Parts
  <2> QED
    BY <1>5, <1>6, <2>2, <2>3, <2>4
<1>9. ~Environment
  BY <1>1, <1>3, WorldIs, WorldOwners
<1>10. ASSUME NEW t \in Schedules, PassStep(t)
      PROVE  \/ \E g \in Gits : \E r, after : GitStep(t, g, r, after)
             \/ \E c \in CRs : \E r, y : CrStep(t, c, r, y)
  BY <1>4, <1>10 DEF PassStep, ScaleStepOf, QuietStep, LeaveStep, ListStep, TurnStep, objects
<1>11. PICK t \in Schedules : PassStep(t)
  <2>1. Next /\ \A t \in Schedules : ~SkipStep(t)
    BY <1>4 DEF vars, objects, SkipStep
  <2> QED
    BY <1>1, <1>9, <2>1, NextIs
<1> QED
  BY <1>7, <1>8, <1>10, <1>11

\* ... and it always is.
LEMMA OwnHolds == Spec => []OwnInv
BY OwnInit, OwnStep, PTL DEF Spec

\* A custom resource that a schedule holds is let go by it alone: whatever passes of
\* other schedules, restarts and conflicts come between a List and the Update it leads
\* to, the Update is refused on an outdated copy, and only the owner clears its labels.
THEOREM CustomResourcesReleased ==
    Spec => [][\A s \in Schedules, c \in CRs :
                 cr[c].by = s /\ cr'[c].by # s => Held(s)' # Held(s)]_vars
<1>1. OwnInv /\ [Next]_vars
        => [\A s \in Schedules, c \in CRs :
              cr[c].by = s /\ cr'[c].by # s => Held(s)' # Held(s)]_vars
  BY ReleaseStep DEF Owner
<1> QED
  BY <1>1, OwnHolds, PTL DEF Spec

\* ... and so is a Flux resource, whose patch carries no resourceVersion, as long as the
\* two controllers have none in common: one that a schedule of each selects can be taken
\* over between the other's List and its patch.
THEOREM OwnerReleases ==
    ASSUME FluxApart
    PROVE  Spec => OnlyOwnerReleases
<1>1. OwnInv /\ [Next]_vars
        => [\A s \in Schedules, x \in CRs \cup Flux :
              Owner(x) = s /\ Owner(x)' # s => Held(s)' # Held(s)]_vars
  BY ReleaseStep
<1> QED
  BY <1>1, OwnHolds, PTL DEF Spec, OnlyOwnerReleases
=============================================================================
