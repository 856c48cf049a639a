---------------------------- MODULE MCPlanLimits ----------------------------
(* Small instances of PlanLimits for TLC.                                  *)
EXTENDS PlanLimits, TLC

MCLimit ==
    [free       |-> [projects |-> 1, ttl |-> 1, rpm |-> 1, timeout |-> 1],
     enterprise |-> [projects |-> 2, ttl |-> 2, rpm |-> None, timeout |-> 2]]

Symmetry == Permutations(Requests)
=============================================================================
