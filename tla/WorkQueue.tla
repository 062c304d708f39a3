------------------------------ MODULE WorkQueue ------------------------------
(***************************************************************************)
(* What a persistent queue of leased work promises: the background jobs    *)
(* and the webhook deliveries of Orva are both such queues.                *)
(*                                                                         *)
(* A row is handed out at most Budget times; it ends exactly once; only a  *)
(* row somebody works on can be reported; what ended stays ended until an  *)
(* operator starts it over or removes it.                                  *)
(***************************************************************************)
EXTENDS Naturals

CONSTANTS Items, Budget(_)

VARIABLES state, tries

queue == <<state, tries>>

States == {"none", "pending", "running", "succeeded", "failed", "gone"}

QueueInit ==
    /\ state = [i \in Items |-> "none"]
    /\ tries = [i \in Items |-> 0]

Move(i, from, to, n) ==
    /\ state[i] = from
    /\ state' = [state EXCEPT ![i] = to]
    /\ tries' = [tries EXCEPT ![i] = n]

Submit(i) == Move(i, "none", "pending", 0)

\* Several rows may be handed out, taken back or given up in one step.
HandOut(S) ==
    /\ \A i \in S : state[i] = "pending" /\ tries[i] < Budget(i)
    /\ state' = [i \in Items |-> IF i \in S THEN "running" ELSE state[i]]
    /\ tries' = [i \in Items |-> IF i \in S THEN tries[i] + 1 ELSE tries[i]]

TakeBack(S) ==
    /\ \A i \in S : state[i] = "running" /\ tries[i] < Budget(i)
    /\ state' = [i \in Items |-> IF i \in S THEN "pending" ELSE state[i]]
    /\ UNCHANGED tries

End(S, outcome) ==
    /\ \A i \in S : state[i] = "running"
    /\ state' = [i \in Items |-> IF i \in S THEN outcome ELSE state[i]]
    /\ UNCHANGED tries

StartOver(i) ==
    /\ state[i] \in {"succeeded", "failed"}
    /\ Move(i, state[i], "pending", 0)

Remove(S) ==
    /\ state' = [i \in Items |-> IF i \in S /\ state[i] # "none"
                                 THEN "gone" ELSE state[i]]
    /\ UNCHANGED tries

QueueNext ==
    \/ \E i \in Items : Submit(i) \/ StartOver(i)
    \/ \E S \in SUBSET Items :
          \/ HandOut(S)
          \/ TakeBack(S)
          \/ \E outcome \in {"succeeded", "failed"} : End(S, outcome)
          \/ Remove(S)

QueueSpec == QueueInit /\ [][QueueNext]_queue
=============================================================================
