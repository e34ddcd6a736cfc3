---------------------------- MODULE MCJobManager ----------------------------
EXTENDS JobManager, TLC

CONSTANTS j1, j2, j3, t1, t2, s1

\* One job asks for more than there is, and gets all there is; one estimate is
\* below the minimum.
MixedEstimate == [u \in Units |-> CASE u = j1 -> 3 [] u = j2 -> 0 [] OTHER -> 1]
UnitEstimate == [u \in Units |-> 1]

JobSymmetry == Permutations(Jobs)
=============================================================================
