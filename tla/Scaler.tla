------------------------------- MODULE Scaler -------------------------------
(***************************************************************************)
(* What one call of the workload scaler (scaler.go) and of the HPA helpers *)
(* (hpa.go) does to one object.  Every write there is a merge patch that   *)
(* is computed from the copy a List returned and applied to whatever the   *)
(* API server holds by then, so a write is an operator of two objects: the *)
(* current one and the copy.                                               *)
(*                                                                         *)
(* A Deployment, StatefulSet or CronJob is a record                        *)
(*   size   spec.replicas (nil read as 1); 1 for a running CronJob and 0   *)
(*          for a suspended one                                            *)
(*   saved  the original-replicas (original-suspend) annotation: Absent,   *)
(*          the size it restores, or ByUser for original-suspend "user"    *)
(*   by     the managed-by annotation, which the scaler checks             *)
(*   label  the managed-by label, by which cleanup and the namespace       *)
(*          schedule find the object                                       *)
(* and its HorizontalPodAutoscaler a record of scaleUp.selectPolicy, the   *)
(* annotation that saves it, and its own managed-by annotation.            *)
(***************************************************************************)
EXTENDS Integers

CONSTANTS
    Schedules,      \* schedules of both scopes, by name
    NoOne,          \* the managed-by annotation or label is missing
    CronJobs,       \* the workloads that are CronJobs
    Policies        \* the scaleUp.selectPolicy values a user sets

Absent == 0         \* no original-replicas / original-suspend annotation
ByUser == -1        \* original-suspend: "user"
Disabled == "Disabled"
NoPolicy == "none"  \* no original-hpa-scale-up-policy annotation

ASSUME ScalerAssumption ==
    /\ NoOne \notin Schedules
    /\ NoPolicy \notin Policies

Owners == Schedules \cup {NoOne}
Workload == [size : Nat, saved : Nat \cup {ByUser}, by : Owners, label : Owners]
Autoscaler == [policy : Policies \cup {Disabled},
               saved : Policies \cup {Disabled, NoPolicy}, by : Owners]

-----------------------------------------------------------------------------
(* Deployments, StatefulSets and CronJobs *)

Foreign(o, s) == o.by # NoOne /\ o.by # s

\* Mutant: the down call forgets that it may have run before.
ScalesDownUnguarded(o, s) == ~Foreign(o, s)

\* scaleReplicasDown and scaleCronJobDown write only to an object that no
\* other schedule manages, that is not down already and that runs something.
ScalesDown(o, s) == ~Foreign(o, s) /\ o.saved = Absent /\ o.size # 0

Down(cur, copy, s) ==
    [cur EXCEPT !.size = 0, !.saved = copy.size, !.by = s, !.label = s]

\* scaleCronJobUp takes a suspended CronJob without an annotation for one its
\* user suspended, and writes that down.
MarksUser(w, o) == w \in CronJobs /\ o.size = 0 /\ o.saved = Absent

Mark(cur) == [cur EXCEPT !.saved = ByUser]

\* scaleReplicasUp and scaleCronJobUp resize only what LightsOut scaled down
\* and no other schedule manages.
ScalesUp(o, s) == o.saved \notin {Absent, ByUser} /\ ~Foreign(o, s)

Up(cur, copy) ==
    [cur EXCEPT !.size = copy.saved, !.saved = Absent,
                !.by = NoOne, !.label = NoOne]

\* With transferOwnership, collecting an object labelled for another schedule
\* re-stamps it.
Transfers(o, s) == o.label # NoOne /\ o.label # s

\* Mutant: the re-stamp replaces the annotations and forgets the saved size.
TransferAnew(cur, s) == [cur EXCEPT !.saved = Absent, !.by = s, !.label = s]

Transfer(cur, s) == [cur EXCEPT !.by = s, !.label = s]

-----------------------------------------------------------------------------
(* HorizontalPodAutoscalers *)

\* Mutant: neither the owner nor the policy is looked at before it is saved.
HpaClaimsAlways(h, s) == TRUE

\* PatchHPAForDownscale skips an HPA any schedule manages already (this one
\* included) and one whose scale-up the user disabled.
HpaClaims(h, s) == h.by = NoOne /\ h.policy # Disabled

HpaDisable(cur, copy, s) ==
    [cur EXCEPT !.policy = Disabled, !.saved = copy.policy, !.by = s]

\* RestoreHPA touches only an HPA this schedule manages and saved.
HpaReleases(h, s) == h.by = s /\ h.saved # NoPolicy

HpaRestore(cur, copy) ==
    [cur EXCEPT !.policy = copy.saved, !.saved = NoPolicy, !.by = NoOne]
=============================================================================
