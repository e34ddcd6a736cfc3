--------------------------- MODULE MCCompileQueue ---------------------------
EXTENDS CompileQueue, TLC
\* Every request is as long as every other.
OneByte == [j \in Jobs |-> 1]

\* Job IDs, clients and workers are told apart only by equality.
Interchangeable ==
  Permutations(Clients) \cup Permutations(Workers) \cup Permutations(Jobs)
=============================================================================
