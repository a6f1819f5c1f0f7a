----------------------------- MODULE MCJobReads -----------------------------
(* JobReads with two users asking two texts of one question. *)
EXTENDS JobReads, TLC

CONSTANTS q1, q1b, q2, k1, k2

MCQueries == {q1, q1b, q2}
MCKeys == {k1, k2}
MCNormalize == (q1 :> k1) @@ (q1b :> k1) @@ (q2 :> k2)
=============================================================================
