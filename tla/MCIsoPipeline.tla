---------------------------- MODULE MCIsoPipeline ----------------------------
(* Instances of IsoPipeline: two requests for one job (a retry) and one for  *)
(* another job.                                                              *)
EXTENDS IsoPipeline, TLC

CONSTANTS b1, b2, b3, j1, j2

\* b1 and b2 are requests for the same job
RetryJobOf == [b \in Builds |-> IF b = b3 THEN j2 ELSE j1]

\* the two requests of the retry are interchangeable
RetrySymmetry == Permutations({b1, b2})

\* every request is for a job of its own
TwoJobOf == [b \in Builds |-> IF b = b1 THEN j1 ELSE j2]
=============================================================================
