----------------------- MODULE MCMeasurementSummaries -----------------------
(***************************************************************************)
(* One workload measured twice, with times that differ much and none; two  *)
(* workloads measured once with the same times; and two workloads measured *)
(* twice, so that a kill can leave more repetitions of one than of the     *)
(* other.                                                                  *)
(***************************************************************************)
EXTENDS MeasurementSummaries

MCPlans ==
  {[workloads |-> <<"option_parse">>, repetitions |-> 2, times |-> {0, 1, 2, 4}],
   [workloads |-> <<"local_dry_run", "option_parse">>, repetitions |-> 1, times |-> {0, 1, 4}],
   [workloads |-> <<"local_dry_run", "option_parse">>, repetitions |-> 2, times |-> {1}]}
=============================================================================
