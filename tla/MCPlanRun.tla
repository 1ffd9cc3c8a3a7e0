----------------------------- MODULE MCPlanRun -----------------------------
(* Instances of PlanRun for TLC. *)
EXTENDS PlanRun
=============================================================================
