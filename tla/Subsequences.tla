---------------------------- MODULE Subsequences ----------------------------
(***************************************************************************)
(* The elements of a sequence at some of its positions, in their order: a  *)
(* filter, or one piece of a stable sort.  (SelectSeq states the same by   *)
(* recursion, of which the proof system cannot reason.)                    *)
(***************************************************************************)
EXTENDS Naturals, FiniteSets

\* rank(i): how many of the positions I there are up to i.
Sift(s, I) ==
    LET rank(i) == Cardinality({k \in I : k <= i})
    IN  [n \in 1..Cardinality(I) |-> s[CHOOSE i \in I : rank(i) = n]]
=============================================================================
