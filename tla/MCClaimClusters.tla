--------------------------- MODULE MCClaimClusters ---------------------------
(* Two statements that normalize to the same text and one that does not. *)
EXTENDS ClaimClusters, TLC

CONSTANTS s1, s2, s3

MCStatements == {s1, s2, s3}
MCNormalize == [s \in MCStatements |-> IF s = s2 THEN s1 ELSE s]
MCSymmetry == Permutations(Agents) \cup Permutations(Evidence)
=============================================================================
