-------------------------- MODULE MCReviewDispatch --------------------------
(* Small instances of ReviewDispatch for TLC. *)
EXTENDS ReviewDispatch

CONSTANTS p1, p2, c1, c2, general, test, judge, effort, x1, x2, h1

JudgeThenEffort == <<{general, judge}, {general, effort}>>
=============================================================================
