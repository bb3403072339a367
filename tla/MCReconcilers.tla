---------------------------- MODULE MCReconcilers ----------------------------
(***************************************************************************)
(* Instances of Reconcilers.  "g" is a cluster schedule, "l" a schedule of *)
(* namespace n1; "d" and "e" are Deployments with an HPA each, "c" is a    *)
(* CronJob.                                                                *)
(***************************************************************************)
EXTENDS Reconcilers

\* Cluster and namespace schedule over one Deployment of n1.
MCHomeOfL == [s \in {"l"} |-> "n1"]
MCOneInN1 == [w \in {"d"} |-> "n1"]

\* A cluster schedule alone, over three workloads in two namespaces.
MCNoHome == [s \in {} |-> "n1"]
MCThreeInTwo == [w \in {"d", "c", "e"} |-> IF w = "e" THEN "n2" ELSE "n1"]

MCExcludeNone == [s \in Schedules |-> {}]
MCPolicyMax == [w \in Workloads |-> "Max"]

\* What spec.namespaces selects before and after it is edited.
MCOnlyN1 == {{"n1"}}
MCN1OrNothing == {{"n1"}, {}}
MCWithOrWithoutN2 == {{"n1"}, {"n1", "n2"}}
=============================================================================
