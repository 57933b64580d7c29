---------------------------- MODULE MCPlanCache ----------------------------
(* One browser that waits for each answer, the edits of everyone else at any *)
(* moment, midnight and a restart.                                          *)
EXTENDS PlanCache, TLC
============================================================================
