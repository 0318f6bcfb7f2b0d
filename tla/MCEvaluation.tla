---------------------------- MODULE MCEvaluation ----------------------------
(***************************************************************************)
(* The tools that run after the programs: the summaries of a measurement   *)
(* and the reports of an evaluation.  They share nothing; a behavior is    *)
(* one of either, and the variables of the other stay at an initial state. *)
(***************************************************************************)
EXTENDS MCMeasurementSummaries, MCEvaluationReports

VARIABLE part   \* "measurement" or "evaluation"

bothVars == <<part, measureVars, evaluationVars>>

BothInit ==
  \/ /\ part = "measurement"
     /\ manifest = <<Baseline, Good>> /\ EvaluationInit
     /\ MeasureInit
  \/ /\ part = "evaluation"
     /\ plan = (CHOOSE p \in Plans : TRUE) /\ MeasureInit
     /\ EvaluationInit

BothNext ==
  \/ part = "measurement" /\ MeasureNext /\ UNCHANGED <<part, evaluationVars>>
  \/ part = "evaluation" /\ EvaluationNext /\ UNCHANGED <<part, measureVars>>

BothSpec == BothInit /\ [][BothNext]_bothVars
=============================================================================
