----------------------------- MODULE ScalingPass -----------------------------
(***************************************************************************)
(* The scaling passes of one schedule with sync waves: the order in which  *)
(* scaleWorkloads (batcher.go) takes the workloads, the gate between two   *)
(* waves (syncwave.go), the progress carried in the schedule's status from *)
(* one reconcile to the next, and when the next reconcile comes            *)
(* (calculateRequeueAfter, applyTerminationRequeue).                       *)
(*                                                                         *)
(* The schedule is the only writer of the workloads' specs here: what      *)
(* other writers do to them is the subject of Reconcilers.  What moves by  *)
(* itself is the pods, and a workload's status reports them late.          *)
(*                                                                         *)
(* Time is counted in ticks.  A pass compares with the time it began, so   *)
(* ticks fall between passes.                                              *)
(***************************************************************************)
EXTENDS Scaler, FiniteSets

CONSTANTS
    Self,           \* the schedule
    Workloads,
    WaveOf,         \* the argocd.argoproj.io/sync-wave annotation
    Rank,           \* a workload's place by namespace and name
    Origins,        \* how each workload may be found first
    BatchSize,      \* operations a pass may make; 0: no rate limit
    WaveTimeout,    \* ticks a wave is waited for
    FaultKinds,     \* the calls that may fail; "crash" for the process
    MaxFaults       \* bound: failures of all kinds

ASSUME ScalingPassAssumption ==
    /\ Self \in Schedules
    /\ Workloads # {} /\ IsFiniteSet(Workloads) /\ CronJobs \subseteq Workloads
    /\ Origins \in [Workloads -> SUBSET {"running", "parked", "another's"}]
    /\ WaveOf \in [Workloads -> Int]
    /\ Rank \in [Workloads -> Nat]
    /\ \A v, w \in Workloads : Rank[v] = Rank[w] => v = w
    /\ BatchSize \in Nat /\ WaveTimeout \in Nat /\ MaxFaults \in Nat

VARIABLES
    up,         \* the direction the current period asks for
    wake,       \* what the schedule's next reconcile waits for
    status,     \* status.state and status.waveProgress of the schedule
    obj,        \* the workloads, as the API server holds them
    pods,       \* the pods a workload has
    shown,      \* the pods its status reports, or "old" while that is of an
                \* earlier spec (observedGeneration < generation)
    pass,       \* the pass in progress
    gaveUp,     \* history: the waves given up on in this direction
    faults

vars == <<up, wake, status, obj, pods, shown, pass, gaveUp, faults>>

PodWorkloads == Workloads \ CronJobs
PodStates == {"gone", "some", "ready"}

\* A WaveProgress: the wave, and the ticks since its wait began; with age -1
\* there is none.
Progress == [wave : Int, age : -1..WaveTimeout]
NoProgress == [wave |-> 0, age |-> -1]
Known(prog) == prog.age >= 0

\* The pass: its direction, the workloads it has not visited, those that were
\* settled in its List, the members of the wave it is in that the next boundary
\* waits for, the progress so far, the batch left, and whether it scaled any.
Pass == [on : BOOLEAN, up : BOOLEAN, todo : SUBSET Workloads,
         calm : SUBSET PodWorkloads, members : SUBSET PodWorkloads,
         wave : Int, prog : Progress, left : Nat, did : BOOLEAN]
NoPass == [on |-> FALSE, up |-> FALSE, todo |-> {}, calm |-> {}, members |-> {},
           wave |-> 0, prog |-> NoProgress, left |-> BatchSize, did |-> FALSE]

Dir(d) == IF d THEN "Up" ELSE "Down"

\* The state of the schedule and everything it keeps is well typed: no batch is
\* overdrawn, and no clock runs past its timeout.
TypeOK ==
    /\ up \in BOOLEAN
    /\ wake \in {"now", "timer", "transition"}
    /\ status \in [state : {"", "Up", "Down"}, prog : Progress]
    /\ obj \in [Workloads -> Workload]
    /\ pods \in [PodWorkloads -> PodStates]
    /\ shown \in [PodWorkloads -> PodStates \cup {"old"}]
    /\ pass \in Pass
    /\ gaveUp \subseteq Int
    /\ faults \in Nat

\* A workload runs, or its user parked it at zero, or another schedule has it down.
Found(w) ==
    LET found(size, saved, by) == [size |-> size, saved |-> saved, by |-> by, label |-> by]
    IN  {found(1, Absent, NoOne) : o \in Origins[w] \cap {"running"}}
        \cup {found(0, Absent, NoOne) : o \in Origins[w] \cap {"parked"}}
        \cup {found(0, 1, s) : s \in IF "another's" \in Origins[w]
                                      THEN Schedules \ {Self} ELSE {}}

Init ==
    /\ up \in BOOLEAN
    /\ wake = "now"
    /\ status = [state |-> "", prog |-> NoProgress]
    /\ obj \in {f \in [Workloads -> UNION {Found(w) : w \in Workloads}] :
                 \A w \in Workloads : f[w] \in Found(w)}
    /\ pods = [w \in PodWorkloads |->
                 CASE obj[w].size > 0 -> "ready"
                   [] Foreign(obj[w], Self) -> "some"
                   [] OTHER -> "gone"]
    /\ shown = pods
    /\ pass = NoPass
    /\ gaveUp = {}
    /\ faults = 0

-----------------------------------------------------------------------------
(* Waves *)

\* The upscale runs the waves in ascending order, the downscale in reverse.
WaveBefore(a, b, goingUp) == IF goingUp THEN a < b ELSE a > b

\* Mutant: the workloads are sorted by name alone.
BeforeByName(v, w, goingUp) == Rank[v] < Rank[w]

\* sortWorkloadsByWave.
Before(v, w, goingUp) ==
    \/ WaveBefore(WaveOf[v], WaveOf[w], goingUp)
    \/ WaveOf[v] = WaveOf[w] /\ Rank[v] < Rank[w]

FirstWave(goingUp) ==
    LET waves == {WaveOf[w] : w \in Workloads}
    IN  CHOOSE a \in waves : \A b \in waves \ {a} : WaveBefore(a, b, goingUp)

\* workloadSettled, of a workload as it is listed: a status of an earlier spec
\* says nothing.
Settled(w, goingUp) ==
    IF goingUp THEN shown[w] = "ready" \/ (obj[w].size = 0 /\ shown[w] # "old")
               ELSE shown[w] = "gone"

\* Mutant: the gate waits for whatever is in the wave.
SkipGatesAll(w, goingUp) == TRUE

\* waveGates, of a workload the scaler skips: only one that this schedule has
\* down already is waited for.
SkipGates(w, goingUp) ==
    ~goingUp /\ ~Foreign(obj[w], Self) /\ obj[w].saved # Absent

\* Mutant: the progress of the other direction is carried over.
CarriedAlways(goingUp) == status.prog

\* carriedWaveProgress.
Carried(goingUp) == IF status.state = Dir(goingUp) THEN status.prog ELSE NoProgress

\* Mutant: a wave that was passed is waited for again.
PassedNever(prog, wave, goingUp) == FALSE

\* Scaling has moved past this wave in an earlier pass.
Passed(prog, wave, goingUp) == Known(prog) /\ WaveBefore(wave, prog.wave, goingUp)

\* Mutant: each reconcile restarts the clock of the wave.
WaitedAnew(prog, wave) == 0

\* How long the wave has been waited for.
Waited(prog, wave) == IF Known(prog) /\ prog.wave = wave THEN prog.age ELSE 0

-----------------------------------------------------------------------------
(* The pass *)

Fails(kind) == kind \in FaultKinds /\ faults < MaxFaults /\ faults' = faults + 1

\* The pass samples the direction and lists the workloads.  A List that fails is
\* retried.
BeginPass ==
    /\ ~pass.on /\ wake = "now"
    /\ \/ /\ pass' = [NoPass EXCEPT
                        !.on = TRUE, !.up = up, !.todo = Workloads,
                        !.calm = {w \in PodWorkloads : Settled(w, up)},
                        !.wave = FirstWave(up), !.prog = Carried(up)]
          /\ wake' = "transition"
          /\ gaveUp' = IF status.state = Dir(up) THEN gaveUp ELSE {}
          /\ UNCHANGED faults
       \/ Fails("list") /\ UNCHANGED <<wake, pass, gaveUp>>
    /\ UNCHANGED <<up, status, obj, pods, shown>>

\* The status is written with the progress, and the schedule comes back when
\* next says, or at once if it was woken meanwhile or the status was not written.
Finish(prog, next) ==
    /\ pass' = NoPass
    /\ \/ /\ status' = [state |-> Dir(pass.up), prog |-> prog]
          /\ wake' = IF wake = "now" THEN wake ELSE next
          /\ UNCHANGED faults
       \/ Fails("status") /\ wake' = "now" /\ UNCHANGED status
    /\ UNCHANGED <<up, obj, pods, shown>>

\* Mutant: nothing stops a pass whose batch is used up.
BatchLastsForever == TRUE

BatchLasts == BatchSize > 0 => pass.left > 0

\* w is the next workload.
Turn(w) ==
    /\ pass.on /\ w \in pass.todo /\ BatchLasts
    /\ \A v \in pass.todo \ {w} : Before(w, v, pass.up)

\* The scaler writes to w.
Acts(w) == IF pass.up THEN MarksUser(w, obj[w]) \/ ScalesUp(obj[w], Self)
                      ELSE ScalesDown(obj[w], Self)

Scaled(w) == CASE ~pass.up -> Down(obj[w], obj[w], Self)
               [] pass.up /\ MarksUser(w, obj[w]) -> Mark(obj[w])
               [] OTHER -> Up(obj[w], obj[w])

\* The patch is applied.  The status is still of the spec before.
Patched(w) ==
    /\ obj' = [obj EXCEPT ![w] = Scaled(w)]
    /\ shown' = [v \in PodWorkloads |-> IF v = w THEN "old" ELSE shown[v]]

\* Scaling w.  Only a workload that was scaled is waited for and counted: one
\* that failed was never asked to move, and marking a CronJob is a skip.
ScaleOne(w) ==
    LET counts == ~(pass.up /\ MarksUser(w, obj[w]))
    IN  /\ Turn(w) /\ WaveOf[w] = pass.wave /\ Acts(w)
        /\ \/ /\ Patched(w)
              /\ pass' = [pass EXCEPT !.todo = @ \ {w}, !.calm = @ \ {w},
                                      !.members = @ \cup ({w} \ CronJobs),
                                      !.did = @ \/ counts,
                                      !.left = IF BatchSize > 0 /\ counts THEN @ - 1 ELSE @]
              /\ UNCHANGED faults
           \/ /\ Fails("scale")
              /\ Patched(w) \/ UNCHANGED <<obj, shown>>
              /\ pass' = [pass EXCEPT !.todo = @ \ {w}]
        /\ UNCHANGED <<up, wake, status, pods, gaveUp>>

SkipOne(w) ==
    /\ Turn(w) /\ WaveOf[w] = pass.wave /\ ~Acts(w)
    /\ pass' = [pass EXCEPT !.todo = @ \ {w},
                            !.members = IF SkipGates(w, pass.up)
                                        THEN @ \cup ({w} \ CronJobs) ELSE @]
    /\ UNCHANGED <<up, wake, status, obj, pods, shown, gaveUp, faults>>

Past == Passed(pass.prog, pass.wave, pass.up)
Calm == pass.members \subseteq pass.calm
Overdue == Waited(pass.prog, pass.wave) >= WaveTimeout
GateProgress == IF Past THEN pass.prog
                ELSE [wave |-> pass.wave, age |-> Waited(pass.prog, pass.wave)]

\* waveGate lets the pass go on to the wave of the next workload.
NextWave(w) ==
    /\ Turn(w) /\ WaveOf[w] # pass.wave
    /\ Past \/ Calm \/ Overdue
    /\ pass' = [pass EXCEPT !.wave = WaveOf[w], !.members = {}, !.prog = GateProgress]
    /\ gaveUp' = IF Past \/ Calm THEN gaveUp ELSE gaveUp \cup {pass.wave}
    /\ UNCHANGED <<up, wake, status, obj, pods, shown, faults>>

\* waveGate holds: the pass ends here and the schedule polls.
HoldWave(w) ==
    /\ Turn(w) /\ WaveOf[w] # pass.wave
    /\ ~Past /\ ~Calm /\ ~Overdue
    /\ Finish(GateProgress, "timer")
    /\ UNCHANGED gaveUp

\* Mutant: the next batch waits for the next transition.
EndBatchForGood ==
    /\ pass.on /\ ~BatchLasts /\ pass.todo # {}
    /\ Finish(pass.prog, "transition")
    /\ UNCHANGED gaveUp

\* The batch is used up and workloads remain.
EndBatch ==
    /\ pass.on /\ ~BatchLasts /\ pass.todo # {}
    /\ Finish(pass.prog, "timer")
    /\ UNCHANGED gaveUp

\* Every workload was visited.  A downscale comes back before the next transition
\* when it scaled something, or when it sees pods terminating.
EndPass ==
    /\ pass.on /\ pass.todo = {}
    /\ \/ (pass.up \/ ~pass.did) /\ Finish(pass.prog, "transition")
       \/ ~pass.up /\ Finish(pass.prog, "timer")
    /\ UNCHANGED gaveUp

Reconcile ==
    \/ BeginPass \/ EndBatch \/ EndPass
    \/ \E w \in Workloads : ScaleOne(w) \/ SkipOne(w) \/ NextWave(w) \/ HoldWave(w)

-----------------------------------------------------------------------------
(* Pods, time, users and the process *)

\* The pods follow the spec: down to none, or up to ready.  Ready pods may fail.
PodsMove(w) ==
    /\ pods' = [pods EXCEPT ![w] = IF obj[w].size = 0 THEN "gone"
                                   ELSE IF @ = "some" THEN "ready" ELSE "some"]
    /\ UNCHANGED <<up, wake, status, obj, shown, pass, gaveUp, faults>>

\* The workload's controller reports its pods, for the spec it has.
Report(w) ==
    /\ shown' = [shown EXCEPT ![w] = pods[w]]
    /\ UNCHANGED <<up, wake, status, obj, pods, pass, gaveUp, faults>>

\* Time passes, and the requeue a pass asked for comes.
Tick ==
    /\ ~pass.on
    /\ status' = [status EXCEPT !.prog.age =
                    IF Known(status.prog) /\ @ < WaveTimeout THEN @ + 1 ELSE @]
    /\ wake' = IF wake = "timer" THEN "now" ELSE wake
    /\ UNCHANGED <<up, obj, pods, shown, pass, gaveUp, faults>>

\* The next transition.  Bound: it does not come before a pass of the period has
\* recorded its status, as a period is longer than the retries of an update.
Flip ==
    /\ status.state = Dir(up)
    /\ up' = ~up /\ wake' = "now"
    /\ UNCHANGED <<status, obj, pods, shown, pass, gaveUp, faults>>

\* The spec is edited in a way that changes nothing here.
Touch ==
    /\ wake' = "now"
    /\ UNCHANGED <<up, status, obj, pods, shown, pass, gaveUp, faults>>

Restart ==
    /\ Fails("crash")
    /\ pass' = NoPass /\ wake' = "now"
    /\ UNCHANGED <<up, status, obj, pods, shown, gaveUp>>

Environment ==
    \/ \E w \in PodWorkloads : PodsMove(w) \/ Report(w)
    \/ Tick \/ Flip \/ Touch \/ Restart

Next == Reconcile \/ Environment

Spec == Init /\ [][Next]_vars

\* The controller works off its queue, and time passes whatever it does.  Nothing
\* is assumed of pods: they may never settle.
FairSpec == Spec /\ WF_vars(Reconcile) /\ SF_vars(Tick)

-----------------------------------------------------------------------------
(* What waves promise *)

ScaledDown(w) == obj[w].saved = Absent /\ obj'[w].saved # Absent /\ obj'[w].size = 0
                 /\ ~MarksUser(w, obj[w])
ScaledUp(w) == obj[w].saved \notin {Absent, ByUser} /\ obj'[w].saved = Absent

\* The waves that come before the one of w.
Earlier(v, w, goingUp) == WaveBefore(WaveOf[v], WaveOf[w], goingUp)

\* A workload is taken down only when what this schedule took down in the waves
\* before it, in this pass or in an earlier one, has no pods left, or its wave
\* was given up on: whatever the statuses say late, and through batches,
\* restarts, lost status updates and changes of direction.
DownInOrder ==
    [][\A w \in Workloads : ScaledDown(w) =>
         \A v \in PodWorkloads :
            Earlier(v, w, FALSE) /\ obj[v].by = Self
              => pods[v] = "gone" \/ WaveOf[v] \in gaveUp]_vars

\* No workload is brought up while one of an earlier wave has not been asked to.
UpAskedInOrder ==
    [][\A w \in Workloads : ScaledUp(w) =>
         \A v \in Workloads : Earlier(v, w, TRUE) => ~ScalesUp(obj[v], Self)]_vars

\* In one direction the recorded wave never goes back, across reconciles, failed
\* updates and restarts.
ProgressMonotonic ==
    [][Known(status.prog) /\ status'.state = status.state
         => /\ Known(status'.prog)
            /\ ~WaveBefore(status'.prog.wave, status.prog.wave, status.state = "Up")]_vars

\* A pass that stops at a boundary waits for pods of its own: no CronJob, no
\* workload of another schedule and none its user parked delays the waves after it.
HeldByOwnPods ==
    [][\A w \in Workloads : HoldWave(w) =>
         \E v \in PodWorkloads :
            /\ WaveOf[v] = pass.wave /\ v \notin pass.calm
            /\ IF pass.up THEN obj[v].size > 0 ELSE obj[v].by = Self]_vars

\* A downscale reaches the last workload of the last wave, whatever its pods do,
\* unless the period ends first.
DownReachesLastWave ==
    ~up ~> (up \/ \A w \in Workloads : ~ScalesDown(obj[w], Self))

\* An upscale reaches the last workload of the last wave.
UpReachesLastWave ==
    up ~> (~up \/ \A w \in Workloads : ~ScalesUp(obj[w], Self))

-----------------------------------------------------------------------------
(* What the documentation says and the code does not keep *)

\* docs/argocd.md: "The upscale brings wave -1 up, waits until every one of its
\* replicas is ready, and then starts wave 1."  No workload is brought up while
\* one of an earlier wave was brought up and has not a single pod yet, unless
\* that wave was given up on.
UpWaitsForPods ==
    [][\A w \in Workloads : ScaledUp(w) =>
         \A v \in PodWorkloads :
            Earlier(v, w, TRUE) /\ obj[v].size > 0
              => pods[v] # "gone" \/ WaveOf[v] \in gaveUp]_vars
=============================================================================
