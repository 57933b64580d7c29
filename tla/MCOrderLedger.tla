--------------------------- MODULE MCOrderLedger ---------------------------
(* Instances of OrderLedger for TLC.                                        *)
EXTENDS OrderLedger, TLC
Symmetry == Permutations(Orders) \cup Permutations(Requests)
============================================================================
