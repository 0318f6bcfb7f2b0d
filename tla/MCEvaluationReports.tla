------------------------ MODULE MCEvaluationReports -------------------------
(***************************************************************************)
(* Manifests with a baseline, one or two new boundaries, and one of        *)
(* another role, where each can lack one of the things that count.         *)
(***************************************************************************)
EXTENDS EvaluationReports

Good ==
  [role |-> "p7c", full |-> TRUE, shapes |-> {"interior"},
   policy |-> [allocations |-> 2, precise |-> 1, uses |-> 1],
   boundary |-> <<"integration", "adversarial">>, revision |-> TRUE, adversarial |-> TRUE]

Flawed(e) ==
  {e, [e EXCEPT !.full = FALSE], [e EXCEPT !.policy = Missing],
   [e EXCEPT !.policy.uses = 0], [e EXCEPT !.boundary = Missing],
   [e EXCEPT !.boundary = NoFile], [e EXCEPT !.boundary = <<"integration", "other">>],
   [e EXCEPT !.revision = FALSE], [e EXCEPT !.adversarial = FALSE],
   [e EXCEPT !.shapes = {"buffer"}], [e EXCEPT !.policy.allocations = 0, !.policy.precise = 0]}

Baseline == [Good EXCEPT !.role = "baseline"]
Synthetic == [Good EXCEPT !.role = "synthetic", !.shapes = {}]

MCManifests ==
  {<<b, n>> : b \in Flawed(Baseline), n \in Flawed(Good)}
    \cup {<<n, m>> : n \in Flawed(Good), m \in Flawed([Good EXCEPT !.shapes = {"buffer"}])}
    \cup {<<n, s>> : n \in Flawed(Good), s \in Flawed(Synthetic)}

Bench(metric, threads, population) ==
  [metric |-> metric, threads |-> threads, population |-> population]

MCRuntimeFiles ==
  {<<>>,
   <<Bench("register", 1, 1), Bench("remaining_bytes", 1, 256), Bench("check_live", 4, 256),
     Bench("check_live", 1, 256), Bench("check_live", 1, 64), Bench("check_live", 1, 1)>>}
=============================================================================
