---------------------------- MODULE MCWorkerPool ----------------------------
(* Finite instances of WorkerPool for TLC.                                *)
EXTENDS WorkerPool, TLC

CONSTANTS f1, f2, r1, r2, o1, w1, w2

OneFn == {f1}
TwoFns == {f1, f2}
OneRequest == {r1}
TwoRequests == {r1, r2}
OneOperator == {o1}
OneWorker == {w1}
TwoWorkers == {w1, w2}

\* Requests, operators, functions and worker ids are interchangeable.
Symmetry == Permutations(Functions) \cup Permutations(Requests)
            \cup Permutations(Operators) \cup Permutations(Workers)
=============================================================================
