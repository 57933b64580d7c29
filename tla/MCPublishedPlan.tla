-------------------------- MODULE MCPublishedPlan --------------------------
(* Instances of PublishedPlan for TLC.                                      *)
EXTENDS PublishedPlan, TLC
Symmetry == Permutations(Lines) \cup Permutations(Requests)
============================================================================
