------------------------------- MODULE MCFeed -------------------------------
(* An instance of Feed for TLC: one post and one digest, pages of one row, *)
(* a filter that takes everything and one with a threshold and a period.   *)
EXTENDS Feed, TLC

MCFilters == {[min |-> 0, period |-> Items], [min |-> 2, period |-> Posts]}

Symmetry == Permutations(LoadCalls) \cup Permutations(ReactCalls)
=============================================================================
