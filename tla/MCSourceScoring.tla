--------------------------- MODULE MCSourceScoring ---------------------------
(* Domains of every quality, ages on both sides of each limit, and the        *)
(* default weights and thresholds of app/core/config.py.                      *)
EXTENDS SourceScoring

CONSTANTS arxiv, gov, org, com1, com2

MCAges == {-1, 30, 31, 365, 366, unknown}
=============================================================================
