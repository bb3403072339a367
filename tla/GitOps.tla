------------------------------- MODULE GitOps -------------------------------
(***************************************************************************)
(* What the ArgoCD (argocd.go) and FluxCD (fluxcd.go) integrations do to   *)
(* one Application, or one Kustomization or HelmRelease: a record of its   *)
(* state and managed-by labels, the age of its warming-up-since annotation *)
(* and, for Flux, spec.suspend.  Every write is a merge patch, which wins  *)
(* whatever came before it; what decides on it is a copy from a List.      *)
(***************************************************************************)
EXTENDS CustomResource

GitObject == [suspend : BOOLEAN, state : States, by : Owners, since : Ages]

-----------------------------------------------------------------------------
(* Downscale *)

\* LabelArgoCDAppDown
ArgoHolds(a, s) == ~Foreign(a, s) /\ ~(a.state = IsDown /\ a.by = s)
ArgoHold(cur, s) == [cur EXCEPT !.state = IsDown, !.by = s, !.since = Never]

\* Mutant: a suspension is taken over whoever made it.
FluxHoldsAny(f, s) ==
    /\ ~Foreign(f, s)
    /\ ~(f.suspend /\ f.state = IsDown /\ f.by = s)

\* SuspendFluxResource: a resource its user suspended is left to the user.
FluxHolds(f, s) ==
    /\ ~Foreign(f, s)
    /\ ~(f.suspend /\ f.by = NoOne)
    /\ ~(f.suspend /\ f.state = IsDown /\ f.by = s)
FluxHold(cur, s) == [ArgoHold(cur, s) EXCEPT !.suspend = TRUE]

-----------------------------------------------------------------------------
(* Upscale, once the workloads are back *)

\* handleArgoCDWarmup on an Application labelled down.  It waits for one that
\* another schedule labelled, too, though it leaves that alone.
ArgoAwaits(a) == a.state = IsDown
ArgoWarms(a, s) == ArgoAwaits(a) /\ ~Foreign(a, s)

\* ... and on one that is warming up, whoever labelled it.
ArgoChecks(a) == a.state = WarmingUp

\* handleFluxCDWarmup looks only at what this schedule suspended, and takes a
\* state it does not know for one to warm up from.
FluxWarms(f, s) == f.by = s /\ f.state # WarmingUp

\* Mutant: warmups are completed for whichever schedule suspended the resource.
FluxChecksAny(f, s) == f.state = WarmingUp
FluxChecks(f, s) == f.by = s /\ f.state = WarmingUp

\* LabelArgoCDAppWarmingUp, TransitionFluxResourceToWarmingUp
WarmUp(cur, s) == [cur EXCEPT !.state = WarmingUp, !.by = s, !.since = Recent]

\* CompleteArgoCDWarmup
ArgoComplete(cur) == [cur EXCEPT !.state = NoState, !.by = NoOne, !.since = Never]

\* CompleteFluxWarmup, and ResumeFluxResource in cleanup
FluxResume(cur) == [ArgoComplete(cur) EXCEPT !.suspend = FALSE]

-----------------------------------------------------------------------------
(* Cleanup *)

Releases(g, s) == g.by = s

\* RemoveArgoCDAppLabels leaves the annotation behind.
ArgoRemove(cur) == [cur EXCEPT !.state = NoState, !.by = NoOne]
=============================================================================
