-------------------------- MODULE MCInferenceQueue --------------------------
(* InferenceQueue on small sets, symmetric in the jobs and the replicas.   *)
EXTENDS InferenceQueue, TLC

Symmetry == Permutations(Jobs) \union Permutations(Replicas)

\* Bound: a third submission races with the other two, and is made or held
\* only until as many leases have been granted.
LeasesOfThree == 2

TwoAfterwards ==
    fence > LeasesOfThree
        => Cardinality(counted \union {j \in Jobs : row[j].id # 0}) <= 2
=============================================================================
