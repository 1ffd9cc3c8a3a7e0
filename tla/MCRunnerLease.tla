--------------------------- MODULE MCRunnerLease ---------------------------
(* Instances of RunnerLease for TLC. *)
EXTENDS RunnerLease

CONSTANTS o1, o2, p1, p2

MCIndexOps == {o1}
=============================================================================
