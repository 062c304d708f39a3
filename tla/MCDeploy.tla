------------------------------ MODULE MCDeploy ------------------------------
EXTENDS Deploy, TLC

\* Hashes are interchangeable, and so are deployment ids and goroutines of
\* one kind, in a run without a temporal property.
Symm == UNION {Permutations(S) : S \in {Deployments, Hashes, Builders, Callers}}
=============================================================================
