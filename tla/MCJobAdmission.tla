--------------------------- MODULE MCJobAdmission ---------------------------
(* Instances of JobAdmission for TLC: requests and their repositories. *)
EXTENDS JobAdmission

CONSTANTS b1, rt, pl, pr, ls, A, B

Of(r) ==
    CASE r = b1 -> "backup" [] r = rt -> "retry" [] r = pl -> "plan" [] r = pr -> "prune"
      [] r = ls -> "list"

MCKind == [r \in Reqs |-> Of(r)]

\* The retry, which asks for no row, goes to another repository.
TwoRepos == [r \in Reqs |-> IF r = rt THEN B ELSE A]
=============================================================================
