--------------------------- MODULE MCResearchGraph ---------------------------
(* One run of the graph, with up to two claim clusters. *)
EXTENDS ResearchGraph
=============================================================================
