--------------------------- MODULE MCOptimizeJob ---------------------------
(* Instances of OptimizeJob for TLC: the fault sets of the runs.            *)
EXTENDS OptimizeJob, TLC

(* Everything but a shard posted twice and a deadline within a merge. *)
LivenessFaults ==
    {"dispatchFail", "workerDie", "workerErr", "noWinner", "exception", "restart", "retryPlan"}

Symmetry == Permutations(Shards) \cup Permutations(Handlers)
============================================================================
