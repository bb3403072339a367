---------------------------- MODULE MCScalingPass ----------------------------
(***************************************************************************)
(* Instances of ScalingPass: the Deployment "api" in wave 1, "db" in wave  *)
(* -1, and a CronJob in wave 0 between them.                               *)
(***************************************************************************)
EXTENDS ScalingPass

MCWaveOf == [w \in Workloads |-> CASE w = "db" -> -1
                                   [] w = "cron" -> 0
                                   [] w = "api" -> 1]
MCRank == [w \in Workloads |-> CASE w = "api" -> 1
                                 [] w = "cron" -> 2
                                 [] w = "db" -> 3]

\* "api" may be another schedule's, and a user may have suspended the CronJob.
MCOrigins == [w \in Workloads |-> CASE w = "api" -> {"running", "another's"}
                                    [] w = "cron" -> {"running", "parked"}
                                    [] w = "db" -> {"running"}]
MCRunning == [w \in Workloads |-> {"running"}]
=============================================================================
