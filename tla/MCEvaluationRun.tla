--------------------------- MODULE MCEvaluationRun ---------------------------
(* The evaluation script with a few questions, and with the real numbers. *)
EXTENDS EvaluationRun

MCRequests == 1 .. N
=============================================================================
