--------------------------- MODULE MCResearchJobs ---------------------------
(* ResearchJobs on small sets: two texts of one question and one other. *)
EXTENDS ResearchJobs, TLC

CONSTANTS q1, q1b, q2, k1, k2

MCQueries == {q1, q1b, q2}
MCKeys == {k1, k2}
MCNormalize == (q1 :> k1) @@ (q1b :> k1) @@ (q2 :> k2)

\* Job identifiers are random: only their equality counts.
Symmetry == Permutations(Jobs)
=============================================================================
