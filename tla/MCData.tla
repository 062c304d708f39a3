------------------------------- MODULE MCData -------------------------------
(***************************************************************************)
(* The data path for TLC: the asynchronous writer, an invocation on its    *)
(* way through the daemon, and the key-value store.  A run explores one of *)
(* them at a time, as in MCQueues.                                         *)
(***************************************************************************)
EXTENDS AsyncWriter, Invocation, KVStore

VARIABLE part

dataVars == <<part, writerVars, invVars, kvVars>>

One(S) == CHOOSE x \in S : TRUE

\* All but one critical row; that row with the other lanes; critical rows
\* and a writer that does not fail.
WriterStarts ==
    \/ WriterStart(FunctionWrites \ {One(CriticalWrites)}, MaxWriteFaults - 1)
    \/ WriterStart({One(CriticalWrites)} \cup ActivityWrites \cup TelemetryWrites, 0)
    \/ WriterStart(CriticalWrites, MaxWriteFaults)

\* Two requests for one warm worker; a call nested in a running request; one
\* request and workers that boot.
InvStarts ==
    \/ InvStart(OuterRequests, {One(Workers)}, {One(Workers)})
    \/ InvRunning(One(OuterRequests), One(Workers))
    \/ InvStart({One(OuterRequests)}, Workers, {})

\* A put waiting while everything else happens to its key; walks through the
\* pages of several keys.
KVStarts == KVStart({One(KVKeys)}, KVCallers, FALSE) \/ KVStart(KVKeys, {}, TRUE)

DataInit ==
    \/ part = "writer" /\ WriterStarts /\ InvStart({}, {}, {}) /\ KVInit
    \/ part = "invocation" /\ WriterInit /\ live /\ InvStarts /\ KVInit
    \/ part = "kv" /\ WriterInit /\ live /\ InvStart({}, {}, {}) /\ KVStarts

DataNext ==
    \/ part = "writer" /\ WriterNext /\ UNCHANGED <<part, invVars, kvVars>>
    \/ part = "invocation" /\ InvNext /\ UNCHANGED <<part, writerVars, kvVars>>
    \/ part = "kv" /\ KVNext /\ UNCHANGED <<part, writerVars, invVars>>

\* The fairness of the parts, each where it can matter.
DataFairness ==
    /\ WF_writerVars(part = "writer" /\ Consume)
    /\ WF_writerVars(part = "writer" /\ (StopQuit \/ \E w \in Writes : Send(w)))
    /\ \A r \in Requests : WF_invVars(part = "invocation" /\ Advance(r))

DataSpec == DataInit /\ [][DataNext]_dataVars /\ DataFairness

-----------------------------------------------------------------------------
(* What the parts say together.                                            *)

DataTypeOK == WriterTypeOK /\ InvTypeOK /\ KVTypeOK

\* What the daemon accepts it finishes: a write that is queued is settled, and
\* an invocation ends whatever the code in the sandbox does.
AcceptedEnds == AcceptedIsSettled /\ InvocationEnds
=============================================================================
