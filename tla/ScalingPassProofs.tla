-------------------------- MODULE ScalingPassProofs --------------------------
(***************************************************************************)
(* Theorems about ScalingPass, for any finite set of workloads in any      *)
(* waves, any batch size and timeout, and any number of failed calls.      *)
(***************************************************************************)
EXTENDS ScalingPass, FiniteSetTheorems, WellFoundedInduction, TLAPS

USE ScalerAssumption, ScalingPassAssumption

-----------------------------------------------------------------------------
(* Waves *)

\* Either direction orders the waves totally.
LEMMA WavesOrdered ==
    ASSUME NEW a \in Int, NEW b \in Int, NEW c \in Int, NEW g \in BOOLEAN
    PROVE  /\ ~WaveBefore(a, a, g)
           /\ WaveBefore(a, b, g) => ~WaveBefore(b, a, g)
           /\ a = b \/ WaveBefore(a, b, g) \/ WaveBefore(b, a, g)
           /\ ~WaveBefore(b, a, g) /\ ~WaveBefore(c, b, g) => ~WaveBefore(c, a, g)
           /\ WaveBefore(a, b, g) /\ ~WaveBefore(c, b, g) => WaveBefore(a, c, g)
BY DEF WaveBefore

\* A pass begins with a wave that no workload's wave comes before.
LEMMA FirstWaveIsFirst ==
    ASSUME NEW g \in BOOLEAN
    PROVE  /\ FirstWave(g) \in Int
           /\ \A w \in Workloads : ~WaveBefore(WaveOf[w], FirstWave(g), g)
<1> DEFINE waves == {WaveOf[w] : w \in Workloads}
           before(a) == {w \in Workloads : WaveBefore(WaveOf[w], a, g)}
           sets == {before(a) : a \in waves}
<1>1. waves \subseteq Int /\ waves # {}
  OBVIOUS
<1>2. PICK least \in sets :
        \A t \in sets : <<t, least>> \notin StrictSubsetOrdering(Workloads)
  <2>1. IsWellFoundedOn(StrictSubsetOrdering(Workloads), SUBSET Workloads)
    <3>1. FiniteSubsetsOf(Workloads) = SUBSET Workloads
      BY FS_FiniteSubsetsOfFinite
    <3>2. QED
      BY <3>1, FS_StrictSubsetOrderingWellFounded, Zenon
  <2>2. sets \subseteq SUBSET Workloads /\ sets # {}
    <3>1. \A a \in waves : before(a) \in SUBSET Workloads /\ before(a) \in sets
      OBVIOUS
    <3> HIDE DEF before, waves
    <3>2. QED
      BY <1>1, <3>1
  <2> HIDE DEF sets
  <2>3. QED
    BY <2>1, <2>2, WFMin
<1>3. PICK a \in waves : least = before(a)
  BY <1>2
<1>4. ASSUME NEW b \in waves, WaveBefore(b, a, g) PROVE FALSE
  <2>1. before(b) \subseteq before(a)
    BY <1>1, <1>4 DEF WaveBefore
  <2>2. PICK w \in Workloads : WaveOf[w] = b
    OBVIOUS
  <2>3. w \in before(a) /\ w \notin before(b)
    BY <1>1, <1>4, <2>2 DEF WaveBefore
  <2>4. <<before(b), before(a)>> \in StrictSubsetOrdering(Workloads)
    BY <2>1, <2>3 DEF StrictSubsetOrdering
  <2>5. before(b) \in sets
    OBVIOUS
  <2> HIDE DEF sets, before, waves
  <2>6. QED
    BY <1>2, <1>3, <2>4, <2>5
<1>5. \A b \in waves \ {a} : WaveBefore(a, b, g)
  BY <1>1, <1>4 DEF WaveBefore
<1>6. FirstWave(g) \in waves /\ \A b \in waves \ {FirstWave(g)} : WaveBefore(FirstWave(g), b, g)
  BY <1>5 DEF FirstWave
<1>7. QED
  BY <1>1, <1>6 DEF WaveBefore

-----------------------------------------------------------------------------
(* Types *)

\* Between passes there is a pass without work, and a progress that is none.
LEMMA NoPassType == NoPass \in Pass /\ NoProgress \in Progress
<1>1. NoProgress \in Progress
  BY DEF NoProgress, Progress
<1>2. QED
  BY <1>1 DEF NoPass, Pass

\* A failing call is counted.
LEMMA FailsType == ASSUME TypeOK, NEW k, Fails(k) PROVE faults' \in Nat
<1>1. faults \in Nat
  BY Zenon DEF TypeOK
<1>2. QED
  BY <1>1 DEF Fails

\* The scaler leaves a well-typed workload, in whichever form it finds it.
LEMMA ScaledType ==
    ASSUME TypeOK, NEW w \in Workloads, Acts(w)
    PROVE  Scaled(w) \in Workload
<1>1. obj[w] \in Workload /\ pass.up \in BOOLEAN
  BY DEF TypeOK, Pass
<1>2. CASE ~pass.up
  BY <1>1, <1>2 DEF Scaled, Down, Workload, Owners
<1>3. CASE pass.up /\ MarksUser(w, obj[w])
  BY <1>1, <1>3 DEF Scaled, Mark, Workload, ByUser
<1>4. CASE pass.up /\ ~MarksUser(w, obj[w])
  <2>1. obj[w].saved \in Nat /\ Scaled(w) = Up(obj[w], obj[w])
    BY <1>1, <1>4 DEF Acts, ScalesUp, Workload, ByUser, Scaled
  <2>2. Up(obj[w], obj[w]) \in Workload
    BY <1>1, <2>1 DEF Up, Workload, Owners, Absent
  <2>3. QED
    BY <2>1, <2>2
<1>5. QED
  BY <1>1, <1>2, <1>3, <1>4

\* A patch leaves workloads and reports of their pods.
LEMMA PatchedType ==
    ASSUME TypeOK, NEW w \in Workloads, Acts(w), Patched(w)
    PROVE  /\ obj' \in [Workloads -> Workload]
           /\ shown' \in [PodWorkloads -> PodStates \cup {"old"}]
BY ScaledType DEF TypeOK, Patched

\* The progress a gate records is one: no clock runs past its timeout.
LEMMA GateProgressType ==
    ASSUME TypeOK PROVE GateProgress \in Progress
<1>1. pass.prog \in Progress /\ pass.wave \in Int
  BY DEF TypeOK, Pass
<1>2. Waited(pass.prog, pass.wave) \in -1..WaveTimeout
  BY <1>1 DEF Waited, Progress
<1>3. QED
  BY <1>1, <1>2 DEF GateProgress, Progress

\* Ending a pass records what it was given.
LEMMA FinishType ==
    ASSUME TypeOK, NEW prog \in Progress, NEW next \in {"timer", "transition"},
           Finish(prog, next), gaveUp' = gaveUp
    PROVE  TypeOK'
<1>1. pass' \in Pass
  BY NoPassType DEF Finish
<1>2. status' \in [state : {"", "Up", "Down"}, prog : Progress]
  <2>1. status \in [state : {"", "Up", "Down"}, prog : Progress]
    BY Zenon DEF TypeOK
  <2>2. Dir(pass.up) \in {"", "Up", "Down"}
    BY DEF Dir
  <2>3. status' \in {status, [state |-> Dir(pass.up), prog |-> prog]}
    BY DEF Finish
  <2>4. [state |-> Dir(pass.up), prog |-> prog] \in [state : {"", "Up", "Down"}, prog : Progress]
    BY <2>2, Zenon
  <2>5. QED
    BY <2>1, <2>3, <2>4, Zenon
<1>3. wake' \in {"now", "timer", "transition"} /\ faults' \in Nat
  BY FailsType DEF TypeOK, Finish
<1>4. QED
  BY <1>1, <1>2, <1>3 DEF TypeOK, Finish

\* Every step of a reconcile keeps the types.
LEMMA ReconcileType == ASSUME TypeOK, Reconcile PROVE TypeOK'
<1>0. pass \in Pass /\ pass.prog \in Progress
  BY DEF TypeOK, Pass
<1>1. CASE BeginPass
  <2> DEFINE calm == {w \in PodWorkloads : Settled(w, up)}
             fresh == [NoPass EXCEPT !.on = TRUE, !.up = up, !.todo = Workloads,
                         !.calm = calm, !.wave = FirstWave(up), !.prog = Carried(up)]
  <2>1. FirstWave(up) \in Int /\ Carried(up) \in Progress
    BY FirstWaveIsFirst, NoPassType DEF TypeOK, Carried
  <2>2. calm \in SUBSET PodWorkloads
    OBVIOUS
  <2> HIDE DEF calm
  <2>3. fresh \in Pass
    BY <2>1, <2>2, NoPassType DEF TypeOK, Pass
  <2> HIDE DEF fresh
  <2>4. /\ pass' \in Pass /\ wake' \in {"now", "timer", "transition"}
        /\ gaveUp' \subseteq Int /\ faults' \in Nat
    BY <1>1, <2>3, FailsType DEF TypeOK, BeginPass, fresh, calm
  <2>5. QED
    BY <1>1, <2>4 DEF TypeOK, BeginPass
<1>2. CASE EndBatch
  BY <1>0, <1>2, FinishType DEF EndBatch
<1>3. CASE EndPass
  BY <1>0, <1>3, FinishType DEF EndPass
<1>4. ASSUME NEW w \in Workloads, ScaleOne(w) PROVE TypeOK'
  <2> DEFINE counts == ~(pass.up /\ MarksUser(w, obj[w]))
             left == IF BatchSize > 0 /\ counts THEN pass.left - 1 ELSE pass.left
             r == [pass EXCEPT !.todo = @ \ {w}, !.calm = @ \ {w},
                               !.members = @ \cup ({w} \ CronJobs),
                               !.did = @ \/ counts, !.left = left]
  <2>1. left \in Nat
    BY <1>0, <1>4 DEF ScaleOne, Turn, BatchLasts, Pass
  <2>2. counts \in BOOLEAN
    OBVIOUS
  <2> HIDE DEF left, counts
  <2>3. r \in Pass
    BY <1>0, <2>1, <2>2 DEF Pass, PodWorkloads
  <2>4. [pass EXCEPT !.todo = @ \ {w}] \in Pass
    BY <1>0 DEF Pass
  <2>5. pass' \in Pass
    <3>1. pass' \in {r, [pass EXCEPT !.todo = @ \ {w}]}
      BY <1>4 DEF ScaleOne, left, counts
    <3>2. QED
      BY <2>3, <2>4, <3>1
  <2>6. obj' \in [Workloads -> Workload] /\ shown' \in [PodWorkloads -> PodStates \cup {"old"}]
    BY <1>4, PatchedType DEF TypeOK, ScaleOne
  <2>7. faults' \in Nat
    BY <1>4, FailsType DEF TypeOK, ScaleOne
  <2>8. QED
    BY <1>4, <2>5, <2>6, <2>7 DEF TypeOK, ScaleOne
<1>5. ASSUME NEW w \in Workloads, SkipOne(w) PROVE TypeOK'
  <2>1. pass' \in Pass
    BY <1>0, <1>5 DEF SkipOne, Pass, PodWorkloads
  <2>2. QED
    BY <1>5, <2>1 DEF TypeOK, SkipOne
<1>6. ASSUME NEW w \in Workloads, NextWave(w) PROVE TypeOK'
  <2>1. GateProgress \in Progress /\ WaveOf[w] \in Int /\ pass.wave \in Int
    BY <1>0, GateProgressType DEF Pass
  <2>2. [pass EXCEPT !.wave = WaveOf[w], !.members = {}, !.prog = GateProgress] \in Pass
    BY <1>0, <2>1 DEF Pass
  <2>3. QED
    BY <1>6, <2>1, <2>2 DEF TypeOK, NextWave
<1>7. ASSUME NEW w \in Workloads, HoldWave(w) PROVE TypeOK'
  BY <1>7, GateProgressType, FinishType DEF HoldWave
<1>8. QED
  BY <1>1, <1>2, <1>3, <1>4, <1>5, <1>6, <1>7 DEF Reconcile

\* So does every step of pods, time, users and the process.
LEMMA EnvironmentType == ASSUME TypeOK, Environment PROVE TypeOK'
<1>1. ASSUME NEW w \in PodWorkloads, PodsMove(w) PROVE TypeOK'
  <2>1. pods' \in [PodWorkloads -> PodStates]
    BY <1>1 DEF TypeOK, PodsMove, PodStates
  <2>2. QED
    BY <1>1, <2>1 DEF TypeOK, PodsMove
<1>2. ASSUME NEW w \in PodWorkloads, Report(w) PROVE TypeOK'
  BY <1>2 DEF TypeOK, Report
<1>3. CASE Tick
  <2> DEFINE age == status.prog.age
             later == IF Known(status.prog) /\ age < WaveTimeout THEN age + 1 ELSE age
  <2>1. status \in [state : {"", "Up", "Down"}, prog : Progress]
    BY Zenon DEF TypeOK
  <2>2. later \in -1..WaveTimeout
    <3>1. age \in -1..WaveTimeout /\ WaveTimeout \in Nat
      BY <2>1 DEF Progress
    <3> HIDE DEF age
    <3>2. QED
      BY <3>1 DEF Known
  <2>3. status' = [status EXCEPT !.prog = [status.prog EXCEPT !.age = later]]
    BY <1>3, <2>1 DEF Tick
  <2> HIDE DEF age, later
  <2>4. status' \in [state : {"", "Up", "Down"}, prog : Progress]
    BY <2>1, <2>2, <2>3 DEF Progress
  <2>5. wake' \in {"now", "timer", "transition"}
    BY <1>3 DEF TypeOK, Tick
  <2>6. QED
    BY <1>3, <2>4, <2>5 DEF TypeOK, Tick
<1>4. CASE Flip
  BY <1>4 DEF TypeOK, Flip
<1>5. CASE Touch
  BY <1>5 DEF TypeOK, Touch
<1>6. CASE Restart
  BY <1>6, NoPassType, FailsType DEF TypeOK, Restart
<1>7. QED
  BY <1>1, <1>2, <1>3, <1>4, <1>5, <1>6 DEF Environment

\* What a schedule may find first is well typed.
LEMMA TypeInit == ASSUME Init PROVE TypeOK
<1>1. ASSUME NEW w \in Workloads PROVE obj[w] \in Workload
  <2>1. obj[w] \in Found(w)
    BY DEF Init
  <2>2. QED
    BY <2>1 DEF Found, Workload, Owners, Absent
<1>2. obj \in [Workloads -> Workload]
  BY <1>1 DEF Init
<1>3. pods \in [PodWorkloads -> PodStates]
  BY DEF Init, PodStates
<1>4. QED
  BY <1>2, <1>3, NoPassType DEF Init, TypeOK

\* Every step keeps the types.
LEMMA TypeStep == ASSUME TypeOK, [Next]_vars PROVE TypeOK'
<1>1. CASE UNCHANGED vars
  BY <1>1 DEF TypeOK, vars
<1>2. QED
  BY <1>1, ReconcileType, EnvironmentType DEF Next

\* Every reachable state is well typed: no pass overdraws its batch, no clock of a
\* wave runs past the timeout, and an upscale never reads a size from a missing
\* annotation.
THEOREM TypeCorrect == Spec => []TypeOK
<1>1. Init => TypeOK
  BY TypeInit
<1>2. TypeOK /\ [Next]_vars => TypeOK'
  BY TypeStep
<1>3. QED
  BY <1>1, <1>2, PTL DEF Spec

-----------------------------------------------------------------------------
(* What carries over from step to step *)

\* A workload that this schedule took down is at zero and says so; a workload with
\* pods carries an annotation only together with its owner.
ObjOK ==
    /\ \A w \in Workloads : obj[w].by = Self => obj[w].size = 0 /\ obj[w].saved # Absent
    /\ \A w \in PodWorkloads : obj[w].saved # Absent => obj[w].by # NoOne

\* The pass is in the wave of its next workload, or in an earlier one it has left.
InWave ==
    pass.on => \A w \in Workloads :
                 /\ w \in pass.todo => ~WaveBefore(WaveOf[w], pass.wave, pass.up)
                 /\ w \notin pass.todo => ~WaveBefore(pass.wave, WaveOf[w], pass.up)

\* What the next gate waits for is of its wave, and is what the pass asked to move.
MembersOurs ==
    pass.on => \A w \in pass.members :
                 /\ WaveOf[w] = pass.wave
                 /\ IF pass.up THEN obj[w].size > 0 ELSE obj[w].by = Self

\* The pass knows at least the progress that the status has.
Ahead ==
    pass.on /\ status.state = Dir(pass.up) /\ Known(status.prog)
      => Known(pass.prog) /\ ~WaveBefore(pass.prog.wave, status.prog.wave, pass.up)

WaveInv == TypeOK /\ ObjOK /\ InWave /\ MembersOurs /\ Ahead

\* Whatever the pass has visited was asked to move.
Asked == pass.on => \A w \in Workloads \ pass.todo : ~Acts(w)

\* The period changes under a pass only when the status tells its direction.
Turned == pass.on /\ pass.up # up => status.state = Dir(pass.up)

\* Beyond wave a, everything this schedule can take down is down, and its pods are
\* gone unless its wave was given up on.
LeftIn(a, objs, podsOf, given) ==
    \A w \in Workloads :
       WaveOf[w] > a => /\ ~ScalesDown(objs[w], Self)
                        /\ w \in PodWorkloads /\ objs[w].by = Self
                             => podsOf[w] = "gone" \/ WaveOf[w] \in given
Left(a) == LeftIn(a, obj, pods, gaveUp)

\* A report of no pods is not of an earlier spec.
ShownOK ==
    \A w \in PodWorkloads : obj[w].by = Self /\ shown[w] = "gone" => pods[w] = "gone"

\* What a downscale has behind it, by its own account and by that of the status.
DownPass ==
    pass.on /\ ~pass.up =>
      /\ Left(pass.wave)
      /\ Known(pass.prog) => Left(pass.prog.wave)
      /\ \A w \in pass.calm : obj[w].by = Self => pods[w] = "gone"
      /\ \A w \in PodWorkloads \ pass.todo :
           WaveOf[w] = pass.wave /\ obj[w].by = Self => w \in pass.members
DownStatus == ~up /\ status.state = "Down" /\ Known(status.prog) => Left(status.prog.wave)

OrderInv == WaveInv /\ Asked /\ Turned /\ ShownOK /\ DownPass /\ DownStatus

-----------------------------------------------------------------------------
(* The steps, field by field *)

\* What scaling makes of a workload it acts on.
LEMMA ScaledIs ==
    ASSUME TypeOK, NEW w \in Workloads, Acts(w)
    PROVE  \/ /\ ~pass.up
              /\ Scaled(w).size = 0 /\ Scaled(w).saved \in Nat \ {0} /\ Scaled(w).by = Self
           \/ /\ pass.up
              /\ Scaled(w).size \in Nat \ {0} /\ Scaled(w).saved = Absent
              /\ Scaled(w).by = NoOne
           \/ /\ pass.up /\ MarksUser(w, obj[w])
              /\ Scaled(w).size = obj[w].size /\ Scaled(w).saved = ByUser
              /\ Scaled(w).by = obj[w].by
<1>1. obj[w] \in Workload
  BY Zenon DEF TypeOK
<1>2. CASE ~pass.up
  <2>1. Scaled(w) = Down(obj[w], obj[w], Self) /\ ScalesDown(obj[w], Self)
    BY <1>2 DEF Scaled, Acts
  <2>2. QED
    BY <1>1, <1>2, <2>1 DEF Down, ScalesDown, Workload
<1>3. CASE pass.up /\ MarksUser(w, obj[w])
  BY <1>1, <1>3 DEF Scaled, Mark, Workload
<1>4. CASE pass.up /\ ~MarksUser(w, obj[w])
  <2>1. Scaled(w) = Up(obj[w], obj[w]) /\ ScalesUp(obj[w], Self)
    BY <1>4 DEF Scaled, Acts
  <2>2. QED
    BY <1>1, <1>4, <2>1 DEF Up, ScalesUp, Workload, Absent, ByUser
<1>5. QED
  BY <1>2, <1>3, <1>4

\* Having been acted on, a workload needs no more.
LEMMA ScaledRests ==
    ASSUME TypeOK, NEW w \in Workloads, Acts(w)
    PROVE  IF pass.up THEN ~MarksUser(w, Scaled(w)) /\ ~ScalesUp(Scaled(w), Self)
                      ELSE ~ScalesDown(Scaled(w), Self)
BY ScaledIs DEF MarksUser, ScalesUp, ScalesDown, Absent, ByUser

\* A pass begins with nothing visited, the progress it may carry over, and the
\* history of its own direction.
LEMMA BeginPassIs ==
    ASSUME TypeOK, BeginPass
    PROVE  \/ UNCHANGED <<pass, gaveUp>>
           \/ /\ pass'.on /\ pass'.up = up /\ pass'.todo = Workloads
              /\ pass'.calm = {w \in PodWorkloads : Settled(w, up)} /\ pass'.members = {}
              /\ pass'.wave = FirstWave(up) /\ pass'.prog = Carried(up)
              /\ gaveUp' = IF status.state = Dir(up) THEN gaveUp ELSE {}
<1> DEFINE calm == {w \in PodWorkloads : Settled(w, up)}
<1>1. CASE pass' = [NoPass EXCEPT !.on = TRUE, !.up = up, !.todo = Workloads, !.calm = calm,
                                  !.wave = FirstWave(up), !.prog = Carried(up)]
           /\ gaveUp' = IF status.state = Dir(up) THEN gaveUp ELSE {}
  <2> HIDE DEF calm
  <2>1. /\ pass'.on /\ pass'.up = up /\ pass'.todo = Workloads /\ pass'.calm = calm
        /\ pass'.members = {} /\ pass'.wave = FirstWave(up) /\ pass'.prog = Carried(up)
    BY <1>1 DEF NoPass
  <2>2. QED
    BY <1>1, <2>1 DEF calm
<1>2. QED
  BY <1>1 DEF BeginPass

\* Scaling a workload: only when the call fails is it left out of the gate.
LEMMA ScaleOneIs ==
    ASSUME TypeOK, NEW w \in Workloads, ScaleOne(w)
    PROVE  /\ pass.on /\ pass'.on /\ w \in pass.todo /\ Acts(w) /\ WaveOf[w] = pass.wave
           /\ pass'.up = pass.up /\ pass'.todo = pass.todo \ {w} /\ pass'.wave = pass.wave
           /\ pass'.prog = pass.prog /\ UNCHANGED <<up, status, pods, gaveUp>>
           /\ \/ /\ Patched(w)
                 /\ pass'.calm = pass.calm \ {w}
                 /\ pass'.members = pass.members \cup ({w} \ CronJobs)
              \/ /\ "scale" \in FaultKinds
                 /\ Patched(w) \/ UNCHANGED <<obj, shown>>
                 /\ pass'.calm = pass.calm /\ pass'.members = pass.members
<1> DEFINE counts == ~(pass.up /\ MarksUser(w, obj[w]))
           left == IF BatchSize > 0 /\ counts THEN pass.left - 1 ELSE pass.left
<1>1. pass \in Pass
  BY Zenon DEF TypeOK
<1>2. /\ pass.on /\ w \in pass.todo /\ Acts(w) /\ WaveOf[w] = pass.wave
      /\ UNCHANGED <<up, status, pods, gaveUp>>
  BY DEF ScaleOne, Turn
<1>3. CASE /\ Patched(w)
           /\ pass' = [pass EXCEPT !.todo = @ \ {w}, !.calm = @ \ {w},
                                   !.members = @ \cup ({w} \ CronJobs),
                                   !.did = @ \/ counts, !.left = left]
  <2> HIDE DEF counts, left
  <2>1. QED
    BY <1>1, <1>2, <1>3 DEF Pass
<1>4. CASE /\ "scale" \in FaultKinds
           /\ Patched(w) \/ UNCHANGED <<obj, shown>>
           /\ pass' = [pass EXCEPT !.todo = @ \ {w}]
  BY <1>1, <1>2, <1>4 DEF Pass
<1>5. QED
  BY <1>3, <1>4 DEF ScaleOne, Fails

\* Skipping a workload writes nothing, and may add it to the gate.
LEMMA SkipOneIs ==
    ASSUME TypeOK, NEW w \in Workloads, SkipOne(w)
    PROVE  /\ pass.on /\ pass'.on /\ w \in pass.todo /\ ~Acts(w) /\ WaveOf[w] = pass.wave
           /\ pass'.up = pass.up /\ pass'.todo = pass.todo \ {w} /\ pass'.wave = pass.wave
           /\ pass'.prog = pass.prog /\ pass'.calm = pass.calm
           /\ pass'.members = IF SkipGates(w, pass.up) THEN pass.members \cup ({w} \ CronJobs)
                                                       ELSE pass.members
           /\ UNCHANGED <<up, wake, status, obj, pods, shown, gaveUp, faults>>
<1>1. pass \in Pass
  BY Zenon DEF TypeOK
<1>2. QED
  BY <1>1 DEF SkipOne, Turn, Pass

\* Going on to the next wave.
LEMMA NextWaveIs ==
    ASSUME TypeOK, NEW w \in Workloads, NextWave(w)
    PROVE  /\ pass.on /\ pass'.on /\ w \in pass.todo /\ WaveOf[w] # pass.wave
           /\ \A v \in pass.todo \ {w} : Before(w, v, pass.up)
           /\ Past \/ Calm \/ Overdue
           /\ pass'.up = pass.up /\ pass'.todo = pass.todo /\ pass'.wave = WaveOf[w]
           /\ pass'.prog = GateProgress /\ pass'.calm = pass.calm /\ pass'.members = {}
           /\ gaveUp' = IF Past \/ Calm THEN gaveUp ELSE gaveUp \cup {pass.wave}
           /\ UNCHANGED <<up, wake, status, obj, pods, shown, faults>>
<1>1. pass \in Pass
  BY Zenon DEF TypeOK
<1>2. QED
  BY <1>1 DEF NextWave, Turn, Pass

\* Finishing leaves no pass, and the progress given to it or none in the status.
LEMMA FinishIs ==
    ASSUME NEW prog, NEW next, Finish(prog, next)
    PROVE  /\ pass' = NoPass /\ UNCHANGED <<up, obj, pods, shown>>
           /\ \/ UNCHANGED status
              \/ status'.state = Dir(pass.up) /\ status'.prog = prog
BY DEF Finish

\* A step belongs to a pass, or leaves it, its objects and its wave alone.
LEMMA Steps ==
    ASSUME [Next]_vars
    PROVE  \/ BeginPass /\ UNCHANGED <<up, status, obj, pods, shown>>
           \/ \E w \in Workloads : ScaleOne(w) \/ SkipOne(w) \/ NextWave(w)
           \/ /\ pass' = NoPass /\ UNCHANGED <<up, obj, pods, shown, gaveUp>>
              /\ \/ UNCHANGED status
                 \/ /\ pass.on /\ status'.state = Dir(pass.up)
                    /\ \/ status'.prog = pass.prog
                       \/ status'.prog = GateProgress
           \/ \E w \in PodWorkloads : PodsMove(w) \/ Report(w)
           \/ Tick \/ Flip
           \/ UNCHANGED <<up, status, obj, pods, shown, pass, gaveUp>>
<1>1. CASE UNCHANGED vars
  BY <1>1 DEF vars
<1>2. CASE BeginPass
  BY <1>2 DEF BeginPass
<1>3. CASE EndBatch \/ EndPass \/ \E w \in Workloads : HoldWave(w)
  BY <1>3, FinishIs DEF EndBatch, EndPass, HoldWave, Turn
<1>4. CASE Restart
  BY <1>4 DEF Restart
<1>5. CASE Touch
  BY <1>5 DEF Touch
<1>6. QED
  BY <1>1, <1>2, <1>3, <1>4, <1>5 DEF Next, Reconcile, Environment

\* No step but scaling writes a workload, and that writes one.
LEMMA ObjSteps ==
    ASSUME TypeOK, [Next]_vars
    PROVE  \/ UNCHANGED obj
           \/ \E w \in Workloads : /\ ScaleOne(w) /\ Acts(w) /\ obj'[w] = Scaled(w)
                                   /\ \A v \in Workloads \ {w} : obj'[v] = obj[v]
<1>1. ASSUME NEW w \in Workloads, ScaleOne(w)
      PROVE  \/ UNCHANGED obj
             \/ /\ ScaleOne(w) /\ Acts(w) /\ obj'[w] = Scaled(w)
                /\ \A v \in Workloads \ {w} : obj'[v] = obj[v]
  <2>1. Acts(w) /\ (Patched(w) \/ UNCHANGED <<obj, shown>>)
    BY <1>1, ScaleOneIs
  <2>2. obj \in [Workloads -> Workload]
    BY Zenon DEF TypeOK
  <2>3. CASE Patched(w)
    <3>1. obj' = [obj EXCEPT ![w] = Scaled(w)]
      BY <2>3 DEF Patched
    <3>2. QED
      BY <1>1, <2>1, <2>2, <3>1
  <2>4. QED
    BY <2>1, <2>3
<1>2. QED
  BY <1>1, Steps, SkipOneIs, NextWaveIs DEF PodsMove, Report, Tick, Flip

-----------------------------------------------------------------------------
(* The wave invariant *)

\* The wave invariant holds at first: nothing is this schedule's yet.
LEMMA InitWave == ASSUME Init PROVE WaveInv
<1>1. ASSUME NEW w \in Workloads
      PROVE  obj[w].by # Self /\ (obj[w].saved # Absent => obj[w].by # NoOne)
  <2>1. obj[w] \in Found(w)
    BY DEF Init
  <2>2. QED
    BY <2>1 DEF Found
<1>2. ~pass.on
  BY DEF Init, NoPass
<1>3. QED
  BY <1>1, <1>2, TypeInit DEF WaveInv, ObjOK, InWave, MembersOurs, Ahead, PodWorkloads

\* Sizes, annotations and owners change together.
LEMMA ObjStep == ASSUME TypeOK, ObjOK, [Next]_vars PROVE ObjOK'
<1>1. CASE UNCHANGED obj
  BY <1>1 DEF ObjOK
<1>2. ASSUME NEW w \in Workloads, Acts(w), obj'[w] = Scaled(w),
             \A v \in Workloads \ {w} : obj'[v] = obj[v]
      PROVE  ObjOK'
  <2>1. /\ obj'[w].by = Self => obj'[w].size = 0 /\ obj'[w].saved # Absent
        /\ w \in PodWorkloads => (obj'[w].saved # Absent => obj'[w].by # NoOne)
    BY <1>2, ScaledIs DEF ObjOK, MarksUser, PodWorkloads, Absent, ByUser
  <2>2. QED
    BY <1>2, <2>1 DEF ObjOK, PodWorkloads
<1>3. QED
  BY <1>1, <1>2, ObjSteps

\* The waves are left in order: the next workload is the least of those to do, so
\* none of an earlier wave remains when a wave begins.
LEMMA InWaveStep == ASSUME TypeOK, InWave, [Next]_vars PROVE InWave'
<1>0. /\ pass \in Pass /\ pass.up \in BOOLEAN /\ pass.wave \in Int
      /\ \A w \in Workloads : WaveOf[w] \in Int
  BY DEF TypeOK, Pass
<1>1. CASE UNCHANGED pass
  BY <1>1 DEF InWave
<1>2. CASE pass' = NoPass
  BY <1>2 DEF InWave, NoPass
<1>3. CASE BeginPass
  <2>1. up \in BOOLEAN
    BY Zenon DEF TypeOK
  <2>2. CASE pass'.up = up /\ pass'.todo = Workloads /\ pass'.wave = FirstWave(up)
    BY <2>1, <2>2, FirstWaveIsFirst DEF InWave
  <2>3. QED
    BY <1>1, <1>3, <2>2, BeginPassIs
<1>4. ASSUME NEW w \in Workloads, ScaleOne(w) \/ SkipOne(w) PROVE InWave'
  <2>1. /\ pass.on /\ WaveOf[w] = pass.wave /\ pass'.up = pass.up
        /\ pass'.todo = pass.todo \ {w} /\ pass'.wave = pass.wave
    BY <1>4, ScaleOneIs, SkipOneIs
  <2>2. ~WaveBefore(WaveOf[w], pass.wave, pass.up) /\ ~WaveBefore(pass.wave, WaveOf[w], pass.up)
    BY <1>0, <2>1, WavesOrdered
  <2>3. QED
    BY <2>1, <2>2 DEF InWave
<1>5. ASSUME NEW w \in Workloads, NextWave(w) PROVE InWave'
  <2>1. /\ pass.on /\ w \in pass.todo /\ WaveOf[w] # pass.wave
        /\ \A v \in pass.todo \ {w} : Before(w, v, pass.up)
        /\ pass'.up = pass.up /\ pass'.todo = pass.todo /\ pass'.wave = WaveOf[w]
    BY <1>5, NextWaveIs
  <2>2. ASSUME NEW v \in Workloads, v \in pass.todo
        PROVE  ~WaveBefore(WaveOf[v], WaveOf[w], pass.up)
    <3>1. v = w \/ WaveBefore(WaveOf[w], WaveOf[v], pass.up) \/ WaveOf[w] = WaveOf[v]
      BY <2>1, <2>2 DEF Before
    <3>2. QED
      BY <1>0, <3>1, WavesOrdered
  <2>3. ASSUME NEW v \in Workloads, v \notin pass.todo
        PROVE  ~WaveBefore(WaveOf[w], WaveOf[v], pass.up)
    <3>1. ~WaveBefore(pass.wave, WaveOf[v], pass.up) /\ WaveBefore(pass.wave, WaveOf[w], pass.up)
      BY <1>0, <2>1, <2>3, WavesOrdered DEF InWave
    <3>2. QED
      BY <1>0, <3>1 DEF WaveBefore
  <2>4. QED
    BY <2>1, <2>2, <2>3 DEF InWave
<1>6. QED
  BY <1>1, <1>2, <1>3, <1>4, <1>5, Steps DEF PodsMove, Report, Tick, Flip

\* Only a workload that was scaled, or that this schedule has down, joins a gate,
\* and both are of the wave in hand.
LEMMA MembersStep == ASSUME TypeOK, ObjOK, MembersOurs, [Next]_vars PROVE MembersOurs'
<1>0. /\ pass \in Pass /\ pass.up \in BOOLEAN
      /\ pass.members \subseteq PodWorkloads /\ PodWorkloads = Workloads \ CronJobs
  BY DEF TypeOK, Pass, PodWorkloads
<1>1. CASE UNCHANGED <<pass, obj>>
  BY <1>1 DEF MembersOurs
<1>2. CASE pass' = NoPass
  BY <1>2 DEF MembersOurs, NoPass
<1>3. CASE BeginPass
  BY <1>1, <1>3, BeginPassIs DEF MembersOurs, BeginPass
<1>4. ASSUME NEW w \in Workloads, ScaleOne(w) PROVE MembersOurs'
  <2>1. /\ pass.on /\ WaveOf[w] = pass.wave /\ pass'.up = pass.up /\ Acts(w)
        /\ pass'.wave = pass.wave
        /\ \/ Patched(w) /\ pass'.members = pass.members \cup ({w} \ CronJobs)
           \/ (Patched(w) \/ UNCHANGED obj) /\ pass'.members = pass.members
    BY <1>4, ScaleOneIs
  <2>2. obj \in [Workloads -> Workload]
    BY Zenon DEF TypeOK
  <2>3. CASE Patched(w)
    <3>1. obj'[w] = Scaled(w) /\ \A v \in Workloads \ {w} : obj'[v] = obj[v]
      BY <2>2, <2>3 DEF Patched
    <3>2. w \in pass'.members => IF pass.up THEN obj'[w].size > 0 ELSE obj'[w].by = Self
      <4>1. w \in pass'.members => w \notin CronJobs
        BY <1>0, <2>1 DEF PodWorkloads
      <4>2. w \notin CronJobs => ~MarksUser(w, obj[w])
        BY DEF MarksUser
      <4>3. QED
        BY <2>1, <3>1, <4>1, <4>2, ScaledIs
    <3>3. QED
      BY <1>0, <2>1, <3>1, <3>2 DEF MembersOurs
  <2>4. QED
    BY <2>1, <2>3 DEF MembersOurs
<1>5. ASSUME NEW w \in Workloads, SkipOne(w) PROVE MembersOurs'
  <2>1. SkipGates(w, pass.up) /\ w \notin CronJobs => ~pass.up /\ obj[w].by = Self
    BY DEF SkipGates, Foreign, ObjOK, PodWorkloads
  <2>2. /\ pass.on /\ WaveOf[w] = pass.wave /\ UNCHANGED obj
        /\ pass'.up = pass.up /\ pass'.wave = pass.wave
        /\ pass'.members = IF SkipGates(w, pass.up) THEN pass.members \cup ({w} \ CronJobs)
                                                    ELSE pass.members
    BY <1>5, SkipOneIs
  <2>3. QED
    BY <2>1, <2>2 DEF MembersOurs
<1>6. ASSUME NEW w \in Workloads, NextWave(w) PROVE MembersOurs'
  BY <1>6, NextWaveIs DEF MembersOurs
<1>7. QED
  BY <1>1, <1>2, <1>3, <1>4, <1>5, <1>6, Steps DEF PodsMove, Report, Tick, Flip

\* A gate leaves a known progress, and not an earlier one.
LEMMA GateProgressIs ==
    ASSUME TypeOK
    PROVE  /\ Known(GateProgress)
           /\ Known(pass.prog) => ~WaveBefore(GateProgress.wave, pass.prog.wave, pass.up)
           /\ GateProgress.wave = IF Past THEN pass.prog.wave ELSE pass.wave
           /\ Past => Known(pass.prog) /\ WaveBefore(pass.wave, pass.prog.wave, pass.up)
<1>0. pass \in Pass
  BY Zenon DEF TypeOK
<1>1. /\ pass.up \in BOOLEAN /\ pass.wave \in Int
      /\ pass.prog.wave \in Int /\ pass.prog.age \in Int
  BY <1>0 DEF Pass, Progress
<1>2. Waited(pass.prog, pass.wave) >= 0
  BY <1>1 DEF Waited, Known
<1>3. QED
  BY <1>1, <1>2, WavesOrdered DEF GateProgress, Known, Past, Passed

\* The progress carried into a pass only grows in it.
LEMMA AheadStep == ASSUME TypeOK, Ahead, [Next]_vars PROVE Ahead'
<1>0. /\ pass \in Pass /\ pass.up \in BOOLEAN /\ pass.prog.wave \in Int
      /\ GateProgress.wave \in Int /\ status.prog.wave \in Int
  BY GateProgressType DEF TypeOK, Pass, Progress
<1>1. CASE UNCHANGED <<pass, status>>
  BY <1>1 DEF Ahead
<1>2. CASE ~pass'.on
  BY <1>2 DEF Ahead
<1>3. CASE BeginPass
  <2>1. UNCHANGED status /\ status.prog.wave \in Int /\ up \in BOOLEAN
    BY <1>0, <1>3 DEF BeginPass, TypeOK
  <2>2. CASE pass'.up = up /\ pass'.prog = Carried(up)
    BY <2>1, <2>2, WavesOrdered DEF Ahead, Carried
  <2>3. QED
    BY <1>1, <1>3, <2>1, <2>2, BeginPassIs
<1>4. ASSUME NEW w \in Workloads, ScaleOne(w) \/ SkipOne(w) PROVE Ahead'
  <2>1. pass.on /\ pass'.up = pass.up /\ pass'.prog = pass.prog /\ UNCHANGED status
    BY <1>4, ScaleOneIs, SkipOneIs
  <2>2. QED
    BY <2>1 DEF Ahead
<1>5. ASSUME NEW w \in Workloads, NextWave(w) PROVE Ahead'
  <2>1. pass.on /\ pass'.up = pass.up /\ pass'.prog = GateProgress /\ UNCHANGED status
    BY <1>5, NextWaveIs
  <2>2. QED
    BY <1>0, <2>1, GateProgressIs, WavesOrdered DEF Ahead
<1>6. QED
  BY <1>1, <1>2, <1>3, <1>4, <1>5, Steps DEF NoPass, PodsMove, Report, Tick, Flip

\* The wave invariant is inductive.
LEMMA WaveStep == ASSUME WaveInv, [Next]_vars PROVE WaveInv'
BY TypeStep, ObjStep, InWaveStep, MembersStep, AheadStep DEF WaveInv

\* It holds in every reachable state.
LEMMA WaveCorrect == Spec => []WaveInv
<1>1. Init => WaveInv
  BY InitWave
<1>2. WaveInv /\ [Next]_vars => WaveInv'
  BY WaveStep
<1>3. QED
  BY <1>1, <1>2, PTL DEF Spec

\* In one direction the wave recorded in the status never goes back and is never
\* forgotten, whatever happens between two reconciles: the pass that writes it
\* started from it, or from a later one.
THEOREM ProgressNeverGoesBack == Spec => ProgressMonotonic
<1> DEFINE Forward ==
      Known(status.prog) /\ status'.state = status.state
        => /\ Known(status'.prog)
           /\ ~WaveBefore(status'.prog.wave, status.prog.wave, status.state = "Up")
<1>1. ASSUME WaveInv, [Next]_vars PROVE Forward
  <2>0. TypeOK /\ Ahead
    BY <1>1 DEF WaveInv
  <2>1. /\ status.prog.wave \in Int /\ pass.prog.wave \in Int /\ pass.up \in BOOLEAN
        /\ GateProgress.wave \in Int
    BY <2>0, GateProgressType DEF TypeOK, Pass, Progress
  <2>2. CASE UNCHANGED status
    BY <2>1, <2>2 DEF WaveBefore
  <2>3. CASE Tick
    <3> DEFINE age == IF Known(status.prog) /\ status.prog.age < WaveTimeout
                        THEN status.prog.age + 1 ELSE status.prog.age
    <3>1. status \in [state : {"", "Up", "Down"}, prog : Progress]
      BY <2>0, Zenon DEF TypeOK
    <3>2. status.prog \in [wave : Int, age : -1..WaveTimeout]
      BY <3>1 DEF Progress
    <3>3. status'.prog = [status.prog EXCEPT !.age = age]
      <4>1. status' = [status EXCEPT !.prog = [status.prog EXCEPT !.age = age]]
        BY <2>3, <3>1 DEF Tick
      <4> HIDE DEF age
      <4>2. QED
        BY <3>1, <4>1
    <3>4. Known(status.prog) => age >= 0
      BY <3>2 DEF Known
    <3> HIDE DEF age
    <3>5. status'.prog.wave = status.prog.wave
          /\ (Known(status.prog) => Known(status'.prog))
      BY <3>2, <3>3, <3>4 DEF Known
    <3>6. QED
      BY <2>1, <3>5 DEF WaveBefore
  <2>4. CASE /\ pass.on /\ status'.state = Dir(pass.up)
             /\ status'.prog = pass.prog \/ status'.prog = GateProgress
    <3>1. ASSUME Known(status.prog), status'.state = status.state
          PROVE  /\ Known(status'.prog)
                 /\ ~WaveBefore(status'.prog.wave, status.prog.wave, pass.up)
      BY <2>0, <2>1, <2>4, <3>1, GateProgressIs, WavesOrdered DEF Ahead
    <3>2. status'.state = status.state => pass.up = (status.state = "Up")
      BY <2>1, <2>4 DEF Dir
    <3>3. QED
      BY <3>1, <3>2
  <2>5. QED
    BY <1>1, <2>0, <2>2, <2>3, <2>4, Steps, ScaleOneIs, SkipOneIs, NextWaveIs
       DEF PodsMove, Report, Flip
<1>2. QED
  BY <1>1, WaveCorrect, PTL DEF Spec, ProgressMonotonic

\* A pass that stops at the boundary of a wave (waveGate) waits for the pods of a
\* workload of that wave that it brought up or that its schedule took down: never
\* for a CronJob, for another schedule's workload, or for one parked at zero.
THEOREM OnlyOwnPodsHold == Spec => HeldByOwnPods
<1>1. ASSUME WaveInv, NEW w \in Workloads, HoldWave(w)
      PROVE  \E v \in PodWorkloads :
               /\ WaveOf[v] = pass.wave /\ v \notin pass.calm
               /\ IF pass.up THEN obj[v].size > 0 ELSE obj[v].by = Self
  <2>1. pass.on /\ ~(pass.members \subseteq pass.calm)
    BY <1>1 DEF HoldWave, Turn, Calm
  <2>2. pass.members \subseteq PodWorkloads
    BY <1>1 DEF WaveInv, TypeOK, Pass
  <2>3. QED
    BY <1>1, <2>1, <2>2 DEF WaveInv, MembersOurs
<1>2. WaveInv => \A w \in Workloads : HoldWave(w) =>
         \E v \in PodWorkloads :
            /\ WaveOf[v] = pass.wave /\ v \notin pass.calm
            /\ IF pass.up THEN obj[v].size > 0 ELSE obj[v].by = Self
  BY <1>1
<1>3. QED
  BY <1>2, WaveCorrect, PTL DEF HeldByOwnPods

-----------------------------------------------------------------------------
(* The order of the waves, when no call of the scaler fails *)

\* A workload that was visited needs no more, until the pass is over.
LEMMA AskedStep ==
    ASSUME "scale" \notin FaultKinds, TypeOK, Asked, [Next]_vars PROVE Asked'
<1>1. CASE UNCHANGED <<pass, obj>>
  BY <1>1 DEF Asked, Acts
<1>2. CASE ~pass'.on \/ pass'.todo = Workloads
  BY <1>2 DEF Asked
<1>3. ASSUME NEW w \in Workloads, ScaleOne(w) PROVE Asked'
  <2>1. /\ pass.on /\ pass'.up = pass.up /\ pass'.todo = pass.todo \ {w}
        /\ Acts(w) /\ Patched(w)
    BY <1>3, ScaleOneIs
  <2>2. obj \in [Workloads -> Workload]
    BY Zenon DEF TypeOK
  <2>3. obj'[w] = Scaled(w) /\ \A v \in Workloads \ {w} : obj'[v] = obj[v]
    BY <2>1, <2>2 DEF Patched
  <2>4. ~Acts(w)'
    BY <2>1, <2>3, ScaledRests DEF Acts
  <2>5. QED
    BY <2>1, <2>3, <2>4 DEF Asked, Acts
<1>4. ASSUME NEW w \in Workloads, SkipOne(w) PROVE Asked'
  <2>1. /\ pass.on /\ pass'.up = pass.up /\ pass'.todo = pass.todo \ {w}
        /\ ~Acts(w) /\ UNCHANGED obj
    BY <1>4, SkipOneIs
  <2>2. QED
    BY <2>1 DEF Asked, Acts
<1>5. ASSUME NEW w \in Workloads, NextWave(w) PROVE Asked'
  <2>1. pass.on /\ pass'.up = pass.up /\ pass'.todo = pass.todo /\ UNCHANGED obj
    BY <1>5, NextWaveIs
  <2>2. QED
    BY <2>1 DEF Asked, Acts
<1>6. QED
  BY <1>1, <1>2, <1>3, <1>4, <1>5, Steps, BeginPassIs DEF NoPass, PodsMove, Report, Tick, Flip

\* A transition in the middle of a pass finds its direction in the status.
LEMMA TurnedStep == ASSUME TypeOK, Turned, [Next]_vars PROVE Turned'
<1>0. up \in BOOLEAN /\ pass.up \in BOOLEAN
  BY DEF TypeOK, Pass
<1>1. CASE ~pass'.on \/ UNCHANGED <<pass, up, status>>
  BY <1>1 DEF Turned
<1>2. CASE pass'.up = up /\ UNCHANGED up
  BY <1>2 DEF Turned
<1>3. CASE pass'.up = pass.up /\ pass.on /\ UNCHANGED <<up, status>>
  BY <1>3 DEF Turned
<1>4. CASE Flip
  BY <1>0, <1>4 DEF Flip, Turned
<1>5. CASE BeginPass
  BY <1>1, <1>2, <1>5, BeginPassIs DEF BeginPass
<1>6. ASSUME NEW w \in Workloads, ScaleOne(w) \/ SkipOne(w) \/ NextWave(w) PROVE Turned'
  BY <1>3, <1>6, ScaleOneIs, SkipOneIs, NextWaveIs
<1>7. CASE pass' = NoPass \/ Tick
  BY <1>1, <1>7 DEF NoPass, Tick
<1>8. QED
  BY <1>1, <1>4, <1>5, <1>6, <1>7, Steps DEF PodsMove, Report

\* The pods of what this schedule has down only go.
LEMMA PodsStep ==
    ASSUME TypeOK, ObjOK, [Next]_vars, NEW w \in PodWorkloads, obj[w].by = Self
    PROVE  pods'[w] \in {pods[w], "gone"}
<1>1. CASE UNCHANGED pods
  BY <1>1
<1>2. ASSUME NEW v \in PodWorkloads, PodsMove(v) PROVE pods'[w] \in {pods[w], "gone"}
  <2>1. obj[w].size = 0 /\ pods \in [PodWorkloads -> PodStates]
    BY DEF ObjOK, PodWorkloads, TypeOK
  <2>2. CASE v = w
    BY <1>2, <2>1, <2>2 DEF PodsMove
  <2>3. CASE v # w
    BY <1>2, <2>1, <2>3 DEF PodsMove
  <2>4. QED
    BY <2>2, <2>3
<1>3. QED
  BY <1>1, <1>2, Steps, ScaleOneIs, SkipOneIs, NextWaveIs DEF Report, Tick, Flip

\* Scaling leaves a status that is of an earlier spec.
LEMMA ShownStep == ASSUME TypeOK, ObjOK, ShownOK, [Next]_vars PROVE ShownOK'
<1>0. obj \in [Workloads -> Workload] /\ shown \in [PodWorkloads -> PodStates \cup {"old"}]
  BY Zenon DEF TypeOK
<1>1. CASE UNCHANGED <<obj, shown>>
  BY <1>1, PodsStep DEF ShownOK
<1>2. ASSUME NEW w \in PodWorkloads, Report(w) PROVE ShownOK'
  BY <1>0, <1>2 DEF Report, ShownOK
<1>3. ASSUME NEW w \in Workloads, ScaleOne(w), Patched(w) PROVE ShownOK'
  <2>1. UNCHANGED pods
    BY <1>3, ScaleOneIs
  <2>2. ASSUME NEW v \in PodWorkloads, obj'[v].by = Self, shown'[v] = "gone"
        PROVE  pods'[v] = "gone"
    <3>1. v # w /\ shown[v] = "gone" /\ v \in Workloads
      BY <1>3, <2>2 DEF Patched, PodWorkloads
    <3>2. obj'[v] = obj[v]
      BY <1>0, <1>3, <3>1 DEF Patched
    <3>3. QED
      BY <2>1, <2>2, <3>1, <3>2 DEF ShownOK
  <2>3. QED
    BY <2>2 DEF ShownOK
<1>4. QED
  BY <1>1, <1>2, <1>3, Steps, ScaleOneIs, SkipOneIs, NextWaveIs DEF PodsMove, Tick, Flip

\* What a downscale has left behind stays behind it: only an upscale brings any of
\* it up, and a wave that was given up on stays given up on in this direction.
LEMMA LeftStep ==
    ASSUME TypeOK, ObjOK, [Next]_vars, pass.on => ~pass.up, gaveUp \subseteq gaveUp',
           NEW a, LeftIn(a, obj, pods, gaveUp)
    PROVE  LeftIn(a, obj', pods', gaveUp')
<1>1. ASSUME NEW w \in Workloads, WaveOf[w] > a
      PROVE  /\ ~ScalesDown(obj'[w], Self)
             /\ w \in PodWorkloads /\ obj'[w].by = Self
                  => pods'[w] = "gone" \/ WaveOf[w] \in gaveUp'
  <2>1. ~ScalesDown(obj[w], Self)
    BY <1>1 DEF LeftIn
  <2>2. obj'[w] = obj[w]
    <3>1. ~(ScaleOne(w) /\ Acts(w))
      BY <2>1, ScaleOneIs DEF Acts
    <3>2. QED
      BY <3>1, ObjSteps
  <2>3. QED
    BY <1>1, <2>1, <2>2, PodsStep DEF LeftIn
<1>2. QED
  BY <1>1 DEF LeftIn

\* Each of the three ways past a gate leaves the wave behind.
LEMMA NextWaveLeaves ==
    ASSUME WaveInv, Asked, DownPass, NEW w \in Workloads, NextWave(w), ~pass.up
    PROVE  LeftIn(WaveOf[w], obj', pods', gaveUp')
<1>0. /\ pass.wave \in Int /\ pass.prog.wave \in Int /\ \A v \in Workloads : WaveOf[v] \in Int
      /\ PodWorkloads = Workloads \ CronJobs
  BY DEF WaveInv, TypeOK, Pass, Progress, PodWorkloads
<1>1. /\ pass.on /\ w \in pass.todo /\ UNCHANGED <<obj, pods>>
      /\ \A v \in pass.todo \ {w} : Before(w, v, pass.up)
      /\ gaveUp' = IF Past \/ Calm THEN gaveUp ELSE gaveUp \cup {pass.wave}
  BY NextWaveIs DEF WaveInv
<1>2. ASSUME NEW v \in Workloads, WaveOf[v] > WaveOf[w]
      PROVE  /\ ~ScalesDown(obj[v], Self)
             /\ v \in PodWorkloads /\ obj[v].by = Self
                  => pods[v] = "gone" \/ WaveOf[v] \in gaveUp'
  <2>1. v \notin pass.todo
    BY <1>0, <1>1, <1>2 DEF Before, WaveBefore
  <2>2. WaveOf[v] >= pass.wave
    BY <1>0, <1>1, <2>1 DEF WaveInv, InWave, WaveBefore
  <2>3. CASE WaveOf[v] > pass.wave
    BY <1>1, <2>3 DEF DownPass, Left, LeftIn
  <2>4. CASE WaveOf[v] = pass.wave
    <3>1. ~ScalesDown(obj[v], Self)
      BY <1>1, <2>1 DEF Asked, Acts
    <3>2. CASE Past
      <4>1. Known(pass.prog) /\ pass.wave > pass.prog.wave
        BY <3>2 DEF Past, Passed, WaveBefore
      <4>2. LeftIn(pass.prog.wave, obj, pods, gaveUp) /\ WaveOf[v] > pass.prog.wave
        BY <1>1, <2>4, <4>1 DEF DownPass, Left
      <4>3. QED
        BY <1>1, <4>2 DEF LeftIn
    <3>3. CASE Calm
      <4>1. v \in PodWorkloads /\ obj[v].by = Self => v \in pass.calm
        BY <1>1, <2>1, <2>4, <3>3 DEF DownPass, Calm
      <4>2. QED
        BY <1>1, <3>1, <4>1 DEF DownPass
    <3>4. CASE ~Past /\ ~Calm
      BY <1>1, <2>4, <3>1, <3>4
    <3>5. QED
      BY <3>2, <3>3, <3>4
  <2>5. QED
    BY <1>0, <2>2, <2>3, <2>4
<1>3. QED
  BY <1>1, <1>2 DEF LeftIn

\* The progress a gate records leaves as much behind as the pass has.
LEMMA GateLeaves ==
    ASSUME TypeOK, DownPass, pass.on, ~pass.up
    PROVE  LeftIn(GateProgress.wave, obj, pods, gaveUp)
BY GateProgressIs DEF DownPass, Left

\* What a downscale knows, it keeps knowing.
LEMMA DownPassStep ==
    ASSUME "scale" \notin FaultKinds, WaveInv, Asked, ShownOK, DownPass, DownStatus, [Next]_vars
    PROVE  DownPass'
<1>0. /\ TypeOK /\ ObjOK /\ pass.up \in BOOLEAN /\ up \in BOOLEAN
      /\ pass.calm \subseteq PodWorkloads /\ PodWorkloads \subseteq Workloads
      /\ \A w \in Workloads : WaveOf[w] \in Int
      /\ pass.wave \in Int
  BY DEF WaveInv, TypeOK, Pass, PodWorkloads
<1>1. CASE ~pass'.on \/ pass'.up
  BY <1>1 DEF DownPass
<1>2. CASE UNCHANGED <<pass, obj, gaveUp>>
  <2>1. SUFFICES ASSUME pass.on, ~pass.up PROVE DownPass'
    BY <1>1, <1>2
  <2>2. Left(pass.wave)' /\ (Known(pass.prog) => Left(pass.prog.wave)')
    BY <1>0, <1>2, <2>1, LeftStep DEF DownPass, Left
  <2>3. \A w \in pass.calm : obj[w].by = Self => pods'[w] = "gone"
    BY <1>0, <2>1, PodsStep DEF DownPass
  <2>4. QED
    BY <1>2, <2>1, <2>2, <2>3 DEF DownPass, Left
<1>3. CASE BeginPass
  <2>1. SUFFICES ASSUME /\ pass'.on /\ pass'.up = up /\ pass'.todo = Workloads
                        /\ pass'.calm = {w \in PodWorkloads : Settled(w, up)}
                        /\ pass'.wave = FirstWave(up) /\ pass'.prog = Carried(up)
                        /\ gaveUp' = IF status.state = Dir(up) THEN gaveUp ELSE {},
                        ~up
                 PROVE  DownPass'
    BY <1>0, <1>1, <1>2, <1>3, BeginPassIs DEF BeginPass
  <2>2. UNCHANGED <<obj, pods>>
    BY <1>3 DEF BeginPass
  <2>3. LeftIn(FirstWave(up), obj, pods, gaveUp')
    BY <1>0, <2>1, FirstWaveIsFirst DEF LeftIn, WaveBefore
  <2>4. Known(Carried(up)) => LeftIn(Carried(up).wave, obj, pods, gaveUp')
    BY <2>1 DEF Carried, Known, NoProgress, DownStatus, Left, Dir
  <2>5. \A w \in pass'.calm : obj[w].by = Self => pods[w] = "gone"
    BY <2>1 DEF Settled, ShownOK
  <2>6. QED
    BY <1>0, <2>1, <2>2, <2>3, <2>4, <2>5 DEF DownPass, Left
<1>4. ASSUME NEW w \in Workloads, ScaleOne(w) \/ SkipOne(w), ~pass.up PROVE DownPass'
  <2>1. /\ pass.on /\ pass'.up = pass.up /\ pass'.todo = pass.todo \ {w}
        /\ pass'.wave = pass.wave /\ pass'.prog = pass.prog /\ UNCHANGED <<pods, gaveUp>>
    BY <1>0, <1>4, ScaleOneIs, SkipOneIs
  <2>2. Left(pass.wave)' /\ (Known(pass.prog) => Left(pass.prog.wave)')
    BY <1>0, <1>4, <2>1, LeftStep DEF DownPass, Left
  <2>3. /\ \A v \in Workloads \ {w} : obj'[v] = obj[v]
        /\ pass'.calm \subseteq pass.calm /\ (obj'[w] # obj[w] => w \notin pass'.calm)
        /\ pass.members \subseteq pass'.members
        /\ w \in PodWorkloads /\ obj'[w].by = Self => w \in pass'.members
    <3>1. CASE ScaleOne(w)
      <4>1. /\ Patched(w) /\ pass'.calm = pass.calm \ {w}
            /\ pass'.members = pass.members \cup ({w} \ CronJobs)
        BY <1>0, <3>1, ScaleOneIs
      <4>2. \A v \in Workloads \ {w} : obj'[v] = obj[v]
        BY <1>0, <4>1 DEF Patched, TypeOK
      <4>3. QED
        BY <4>1, <4>2 DEF PodWorkloads
    <3>2. CASE SkipOne(w)
      <4>1. /\ UNCHANGED obj /\ pass'.calm = pass.calm
            /\ pass'.members = IF SkipGates(w, pass.up) THEN pass.members \cup ({w} \ CronJobs)
                                                        ELSE pass.members
        BY <1>0, <3>2, SkipOneIs
      <4>2. obj[w].by = Self => SkipGates(w, pass.up)
        BY <1>0, <1>4 DEF SkipGates, Foreign, ObjOK
      <4>3. QED
        BY <4>1, <4>2 DEF PodWorkloads
    <3>3. QED
      BY <1>4, <3>1, <3>2
  <2>4. \A v \in pass'.calm : obj'[v].by = Self => pods[v] = "gone"
    BY <1>0, <1>4, <2>1, <2>3 DEF DownPass
  <2>5. \A v \in PodWorkloads \ pass'.todo :
           WaveOf[v] = pass.wave /\ obj'[v].by = Self => v \in pass'.members
    BY <1>0, <1>4, <2>1, <2>3 DEF DownPass
  <2>6. QED
    BY <2>1, <2>2, <2>4, <2>5 DEF DownPass, Left
<1>5. ASSUME NEW w \in Workloads, NextWave(w), ~pass.up PROVE DownPass'
  <2>1. /\ pass.on /\ w \in pass.todo /\ WaveOf[w] # pass.wave
        /\ pass'.up = pass.up /\ pass'.todo = pass.todo /\ pass'.wave = WaveOf[w]
        /\ pass'.prog = GateProgress /\ pass'.calm = pass.calm
        /\ UNCHANGED <<obj, pods>> /\ gaveUp \subseteq gaveUp'
    BY <1>0, <1>5, NextWaveIs
  <2>2. LeftIn(WaveOf[w], obj', pods', gaveUp')
    BY <1>5, NextWaveLeaves
  <2>3. LeftIn(GateProgress.wave, obj', pods', gaveUp')
    BY <1>0, <1>5, <2>1, GateLeaves, LeftStep
  <2>4. \A v \in Workloads \ pass.todo : WaveOf[v] # WaveOf[w]
    BY <1>0, <1>5, <2>1 DEF WaveInv, InWave, WaveBefore
  <2>5. QED
    BY <1>0, <1>5, <2>1, <2>2, <2>3, <2>4 DEF DownPass, Left
<1>6. ASSUME NEW w \in Workloads, ScaleOne(w) \/ SkipOne(w) \/ NextWave(w) PROVE DownPass'
  BY <1>0, <1>1, <1>4, <1>5, <1>6, ScaleOneIs, SkipOneIs, NextWaveIs
<1>7. CASE pass' = NoPass
  BY <1>1, <1>7 DEF NoPass
<1>8. QED
  BY <1>2, <1>3, <1>6, <1>7, Steps DEF PodsMove, Report, Tick, Flip

\* The status vouches for what the pass knew that wrote it.
LEMMA DownStatusStep ==
    ASSUME "scale" \notin FaultKinds, WaveInv, Turned, DownPass, DownStatus, [Next]_vars
    PROVE  DownStatus'
<1>0. /\ TypeOK /\ ObjOK /\ pass.up \in BOOLEAN /\ up \in BOOLEAN
  BY DEF WaveInv, TypeOK, Pass
<1>1. CASE UNCHANGED <<up, status, obj, pods, gaveUp>>
  BY <1>1 DEF DownStatus, Left
<1>2. CASE UNCHANGED <<up, status>> /\ gaveUp \subseteq gaveUp'
  <2>1. SUFFICES ASSUME ~up, status.state = "Down", Known(status.prog)
                 PROVE  LeftIn(status.prog.wave, obj', pods', gaveUp')
    BY <1>2 DEF DownStatus, Left
  <2>2. pass.on => ~pass.up
    BY <1>0, <2>1 DEF Turned, Dir
  <2>3. QED
    BY <1>0, <1>2, <2>1, <2>2, LeftStep DEF DownStatus, Left
<1>3. CASE BeginPass
  <2>1. /\ UNCHANGED <<up, status, obj, pods>>
        /\ UNCHANGED gaveUp \/ gaveUp' = IF status.state = Dir(up) THEN gaveUp ELSE {}
    BY <1>0, <1>3, BeginPassIs DEF BeginPass
  <2>2. QED
    BY <1>1, <2>1 DEF DownStatus, Left, Dir
<1>4. ASSUME NEW w \in Workloads, ScaleOne(w) \/ SkipOne(w) \/ NextWave(w) PROVE DownStatus'
  BY <1>0, <1>2, <1>4, ScaleOneIs, SkipOneIs, NextWaveIs
<1>5. CASE /\ UNCHANGED <<up, obj, pods, gaveUp>> /\ pass.on /\ status'.state = Dir(pass.up)
           /\ status'.prog = pass.prog \/ status'.prog = GateProgress
  <2>1. SUFFICES ASSUME ~pass.up, Known(status'.prog)
                 PROVE  LeftIn(status'.prog.wave, obj, pods, gaveUp)
    BY <1>0, <1>5 DEF DownStatus, Left, Dir
  <2>2. QED
    BY <1>0, <1>5, <2>1, GateLeaves DEF DownPass, Left
<1>6. CASE Tick
  <2> DEFINE age == IF Known(status.prog) /\ status.prog.age < WaveTimeout
                      THEN status.prog.age + 1 ELSE status.prog.age
  <2>1. status \in [state : {"", "Up", "Down"}, prog : [wave : Int, age : -1..WaveTimeout]]
    BY <1>0, Zenon DEF TypeOK, Progress
  <2>2. status' = [status EXCEPT !.prog = [status.prog EXCEPT !.age = age]]
    BY <1>6, <2>1 DEF Tick
  <2>3. ~Known(status.prog) => age = status.prog.age
    OBVIOUS
  <2> HIDE DEF age
  <2>4. /\ status'.state = status.state /\ status'.prog.wave = status.prog.wave
        /\ Known(status'.prog) => Known(status.prog)
    BY <2>1, <2>2, <2>3 DEF Known
  <2>5. QED
    BY <1>6, <2>4 DEF Tick, DownStatus, Left
<1>7. CASE Flip
  BY <1>0, <1>7 DEF Flip, DownStatus, Dir
<1>8. QED
  BY <1>1, <1>2, <1>3, <1>4, <1>5, <1>6, <1>7, Steps DEF PodsMove, Report

\* The order invariant holds at first, with nothing left behind.
LEMMA OrderInit == ASSUME Init PROVE OrderInv
<1>1. WaveInv
  BY InitWave
<1>2. ~pass.on /\ shown = pods
  BY DEF Init, NoPass
<1>3. ~Known(status.prog)
  <2>1. status.prog.age = -1
    BY DEF Init, NoProgress
  <2>2. QED
    BY <2>1 DEF Known
<1>4. QED
  BY <1>1, <1>2, <1>3 DEF OrderInv, Asked, Turned, ShownOK, DownPass, DownStatus

\* It is inductive when no call of the scaler fails.
LEMMA OrderStep ==
    ASSUME "scale" \notin FaultKinds, OrderInv, [Next]_vars PROVE OrderInv'
<1>1. /\ WaveInv /\ TypeOK /\ ObjOK /\ Asked /\ Turned /\ ShownOK /\ DownPass /\ DownStatus
  BY DEF OrderInv, WaveInv
<1>2. WaveInv' /\ Asked' /\ Turned' /\ ShownOK'
  BY <1>1, WaveStep, AskedStep, TurnedStep, ShownStep
<1>3. DownPass' /\ DownStatus'
  BY <1>1, DownPassStep, DownStatusStep
<1>4. QED
  BY <1>2, <1>3 DEF OrderInv

\* And so it holds in every reachable state.
LEMMA OrderCorrect == ASSUME "scale" \notin FaultKinds PROVE Spec => []OrderInv
<1>1. Init => OrderInv
  BY OrderInit
<1>2. OrderInv /\ [Next]_vars => OrderInv'
  BY OrderStep
<1>3. QED
  BY <1>1, <1>2, PTL DEF Spec

\* A step that takes a workload down, or brings it up, is a pass's turn for it.
LEMMA ScalesInItsWave ==
    ASSUME TypeOK, [Next]_vars, NEW w \in Workloads, ScaledDown(w) \/ ScaledUp(w)
    PROVE  /\ pass.on /\ WaveOf[w] = pass.wave
           /\ ScaledDown(w) => ~pass.up
           /\ ScaledUp(w) => pass.up
<1>1. obj'[w] # obj[w]
  BY DEF ScaledDown, ScaledUp
<1>2. ScaleOne(w) /\ Acts(w) /\ obj'[w] = Scaled(w)
  BY <1>1, ObjSteps
<1>3. pass.on /\ WaveOf[w] = pass.wave
  BY <1>2, ScaleOneIs
<1>4. QED
  BY <1>2, <1>3, ScaledIs DEF ScaledDown, ScaledUp, Absent, ByUser

\* When no call of the scaler fails, an upscale brings no workload up while one of
\* an earlier wave has not been asked to: also when batches, restarts, timeouts or
\* lost status updates end a pass in the middle of a wave.
THEOREM UpscaleAsksInOrder ==
    ASSUME "scale" \notin FaultKinds PROVE Spec => UpAskedInOrder
<1>1. ASSUME OrderInv, [Next]_vars, NEW w \in Workloads, ScaledUp(w),
             NEW v \in Workloads, Earlier(v, w, TRUE)
      PROVE  ~ScalesUp(obj[v], Self)
  <2>1. pass.on /\ pass.up /\ WaveOf[w] = pass.wave
    BY <1>1, ScalesInItsWave DEF OrderInv, WaveInv
  <2>2. QED
    BY <1>1, <2>1 DEF OrderInv, WaveInv, InWave, Earlier, Asked, Acts, WaveBefore
<1>2. OrderInv /\ [Next]_vars =>
        \A w \in Workloads : ScaledUp(w) =>
          \A v \in Workloads : Earlier(v, w, TRUE) => ~ScalesUp(obj[v], Self)
  BY <1>1
<1>3. QED
  BY <1>2, OrderCorrect, PTL DEF Spec, UpAskedInOrder

\* When no call of the scaler fails, a workload is taken down only when the pods of
\* all that this schedule took down in the waves before it are gone, or the wave was
\* given up on.  The calm ones of a pass are read from statuses that may be late;
\* what makes them sound is that a status counts only for the spec it was written for.
THEOREM DownscaleGoesInOrder ==
    ASSUME "scale" \notin FaultKinds PROVE Spec => DownInOrder
<1>1. ASSUME OrderInv, [Next]_vars, NEW w \in Workloads, ScaledDown(w),
             NEW v \in PodWorkloads, Earlier(v, w, FALSE), obj[v].by = Self
      PROVE  pods[v] = "gone" \/ WaveOf[v] \in gaveUp
  <2>1. pass.on /\ ~pass.up /\ WaveOf[w] = pass.wave
    BY <1>1, ScalesInItsWave DEF OrderInv, WaveInv
  <2>2. LeftIn(pass.wave, obj, pods, gaveUp) /\ v \in Workloads
    BY <1>1, <2>1 DEF OrderInv, DownPass, Left, PodWorkloads
  <2>3. QED
    BY <1>1, <2>1, <2>2 DEF LeftIn, Earlier, WaveBefore
<1>2. OrderInv /\ [Next]_vars =>
        \A w \in Workloads : ScaledDown(w) =>
          \A v \in PodWorkloads :
            Earlier(v, w, FALSE) /\ obj[v].by = Self
              => pods[v] = "gone" \/ WaveOf[v] \in gaveUp
  BY <1>1
<1>3. QED
  BY <1>2, OrderCorrect, PTL DEF Spec, DownInOrder
=============================================================================
