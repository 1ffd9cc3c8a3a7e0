---------------------------- MODULE MCAgentJobs ----------------------------
(* Constants for the runs of AgentJobs. *)
EXTENDS AgentJobs, TLC

CONSTANTS A, B     \* jobs

\* A backup, and a job of another kind.
BackupOrMaintenance == A :> "backup" @@ B :> "maintenance"
OwnCancel == {"backup", "maintenance"}
=============================================================================
