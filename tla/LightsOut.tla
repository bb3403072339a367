----------------------------- MODULE LightsOut ------------------------------
(***************************************************************************)
(* What LightsOut promises the owner of a workload, with no word of        *)
(* schedules, passes, copies or annotations: LightsOut may stop a workload *)
(* that runs and start one it stopped, and a start gives back the size the *)
(* owner last gave it; it may hold an autoscaler still, and letting it go  *)
(* gives back the owner's policy.  Nothing else happens to either.         *)
(***************************************************************************)
EXTENDS Naturals

CONSTANTS Workloads, Sizes, UserPolicy, Disabled

VARIABLES
    want,       \* the size its owner last gave each workload
    size,       \* the size it has
    off,        \* whether LightsOut stopped it
    policy,     \* the scale-up policy of its autoscaler
    held        \* whether LightsOut holds the autoscaler still

vars == <<want, size, off, policy, held>>

Init ==
    /\ want \in [Workloads -> Sizes]
    /\ size = want
    /\ off = [w \in Workloads |-> FALSE]
    /\ policy = UserPolicy
    /\ held = [w \in Workloads |-> FALSE]

Stop(w) ==
    /\ ~off[w] /\ size[w] # 0
    /\ size' = [size EXCEPT ![w] = 0]
    /\ off' = [off EXCEPT ![w] = TRUE]
    /\ UNCHANGED <<want, policy, held>>

Start(w) ==
    /\ off[w]
    /\ size' = [size EXCEPT ![w] = want[w]]
    /\ off' = [off EXCEPT ![w] = FALSE]
    /\ UNCHANGED <<want, policy, held>>

\* The owner resizes a workload that is not stopped.
Resize(w) ==
    /\ ~off[w]
    /\ \E n \in Sizes : /\ want' = [want EXCEPT ![w] = n]
                        /\ size' = [size EXCEPT ![w] = n]
    /\ UNCHANGED <<off, policy, held>>

\* An autoscaler whose owner disabled scaling up is none of LightsOut's.
Hold(w) ==
    /\ ~held[w] /\ policy[w] # Disabled
    /\ policy' = [policy EXCEPT ![w] = Disabled]
    /\ held' = [held EXCEPT ![w] = TRUE]
    /\ UNCHANGED <<want, size, off>>

LetGo(w) ==
    /\ held[w]
    /\ policy' = [policy EXCEPT ![w] = UserPolicy[w]]
    /\ held' = [held EXCEPT ![w] = FALSE]
    /\ UNCHANGED <<want, size, off>>

Next ==
    \E w \in Workloads : Stop(w) \/ Start(w) \/ Resize(w) \/ Hold(w) \/ LetGo(w)

Spec == Init /\ [][Next]_vars
=============================================================================
