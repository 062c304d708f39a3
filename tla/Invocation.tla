----------------------------- MODULE Invocation -----------------------------
(***************************************************************************)
(* One invocation from its entry point to its execution row: the proxy     *)
(* (proxy/proxy.go), the worker's frame protocol (sandbox/worker.go), the  *)
(* handlers that invoke functions (REST, MCP, function to function,        *)
(* inbound webhooks, replay), the SDK credentials (sdkauth/auth.go) and    *)
(* the ingress budget (pool/request_budget.go).                            *)
(*                                                                         *)
(* The pool is reduced to which workers are parked (module WorkerPool), the *)
(* writer's queue to the lease of the row (module AsyncWriter).  All       *)
(* requests are for one function.  The adapter inside the sandbox runs     *)
(* user code: it answers, streams, breaks the protocol, exits, or hangs.   *)
(***************************************************************************)
EXTENDS Naturals, FiniteSets, Sequences

CONSTANTS
    OuterRequests, \* requests from outside
    InnerRequests, \* calls made by running functions
    Workers,
    MaxCallDepth,  \* nested orva.invoke calls
    IngressLimit,  \* requests whose bodies the daemon may hold
    MaxChunks,     \* chunk frames of one answer
    MaxSpawn       \* workers booting at a time

Requests == OuterRequests \cup InnerRequests
NoRequest == "no request"
NoWorker == "no worker"

ASSUME InvocationAssumption ==
    /\ MaxCallDepth \in Nat \ {0} /\ IngressLimit \in Nat /\ MaxChunks \in Nat
    /\ MaxSpawn \in Nat \ {0}
    /\ NoRequest \notin Requests /\ NoWorker \notin Workers
    /\ IsFiniteSet(Requests) /\ IsFiniteSet(Workers)

VARIABLES
    rq,       \* the requests
    wk,       \* the workers
    adapter,  \* what runs inside each sandbox
    out,      \* frames on their way from the adapter
    active,   \* sdkauth: bound executions
    ingress,  \* requests that hold ingress budget
    got,      \* history: whose frames were handed to the caller of a request
    ran,      \* history: requests whose event reached user code
    wrote     \* history: execution rows queued for a request

invVars == <<rq, wk, adapter, out, active, ingress, got, ran, wrote>>

\* forward: through proxy.Forward; buffered: through Dispatch; piped: a
\* function's streaming call of another one.
Kinds == {"forward", "buffered", "piped"}
Steps == {"idle", "lease", "admit", "acquire", "write", "first", "stream",
          "record", "unbind", "release", "done"}
Frames == [type : {"ready", "response", "start", "chunk", "end", "error", "fatal"},
           of : Requests \cup {NoRequest}]

InvTypeOK ==
    /\ rq \in [Requests -> [pc : Steps, kind : Kinds, w : Workers \cup {NoWorker},
                            depth : 0 .. MaxCallDepth, failed : BOOLEAN,
                            lease : {"none", "held", "spent", "back"}]]
    /\ wk \in [Workers -> [proc : {"none", "up", "exited", "reaped"},
                           at : {"none", "booting", "parked", "leased", "out"},
                           dead : BOOLEAN, token : BOOLEAN,
                           lock : Requests \cup {NoRequest}]]
    /\ adapter \in [Workers -> [stdin : Requests \cup {NoRequest}, run : Requests \cup {NoRequest},
                                phase : {"boot", "idle", "handling", "streaming", "ended"}]]
    /\ out \in [Workers -> Seq(Frames)]
    /\ active \subseteq Requests /\ ingress \subseteq Requests /\ ran \subseteq Requests
    /\ got \in [Requests -> SUBSET (Requests \cup {NoRequest})]
    /\ wrote \in [Requests -> Nat]

Fresh == [pc |-> "idle", kind |-> "forward", w |-> NoWorker, depth |-> 0, failed |-> FALSE,
          lease |-> "none"]
Over(lease) == [Fresh EXCEPT !.pc = "done", !.lease = lease]
Booting == [stdin |-> NoRequest, run |-> NoRequest, phase |-> "boot"]

\* The requests and the workers that will be there are parameters, so that an
\* instance can bound them; the workers in warm have booted already.
InvStart(wanted, present, warm) ==
    /\ rq = [r \in Requests |-> IF r \in wanted THEN Fresh ELSE Over("none")]
    /\ wk = [w \in Workers |-> [proc |-> IF w \in warm THEN "up"
                                        ELSE IF w \in present THEN "none" ELSE "reaped",
                                at |-> IF w \in warm THEN "parked" ELSE "none",
                                dead |-> w \notin present, token |-> w \in warm,
                                lock |-> NoRequest]]
    /\ adapter = [w \in Workers |-> [Booting EXCEPT !.phase = IF w \in warm THEN "idle"
                                                             ELSE "boot"]]
    /\ out = [w \in Workers |-> <<>>]
    /\ active = {} /\ ingress = {} /\ ran = {}
    /\ got = [r \in Requests |-> {}] /\ wrote = [r \in Requests |-> 0]

InvInit == InvStart(Requests, Workers, {})

\* Request r is running on w already, and the others will be nested in it.
InvRunning(r, w) ==
    /\ rq = [s \in Requests |-> IF s = r THEN [Fresh EXCEPT !.pc = "first", !.w = w, !.lease = "held"]
                               ELSE IF s \in InnerRequests THEN Fresh ELSE Over("none")]
    /\ wk = [v \in Workers |-> [proc |-> "up", at |-> IF v = w THEN "leased" ELSE "parked",
                                dead |-> FALSE, token |-> TRUE,
                                lock |-> IF v = w THEN r ELSE NoRequest]]
    /\ adapter = [v \in Workers |-> IF v = w
                                    THEN [stdin |-> NoRequest, run |-> r, phase |-> "handling"]
                                    ELSE [Booting EXCEPT !.phase = "idle"]]
    /\ out = [v \in Workers |-> <<>>]
    /\ active = {r} /\ ingress = {r} /\ ran = {r}
    /\ got = [s \in Requests |-> {}] /\ wrote = [s \in Requests |-> 0]

workerSide == <<wk, adapter, out>>
history == <<got, ran, wrote>>

Goto(r, pc) == rq' = [rq EXCEPT ![r].pc = pc]

-----------------------------------------------------------------------------
(* A worker's life.                                                        *)

\* markDead: the flag, the reader told to stop, stdin closed.
MarkDead(w) == wk' = [wk EXCEPT ![w].dead = TRUE]

\* Kill: SIGKILL to the process group; reaping is the reaper's.
Kill(w) == [wk EXCEPT ![w].dead = TRUE, ![w].at = "out",
                      ![w].proc = IF @ = "up" THEN "exited" ELSE @]

\* The pool's spawn: a credential is minted, nsjail is started, the reader
\* and the reaper run.  The credential dies at once if nothing started.
Spawn(w) ==
    /\ wk[w].proc = "none"
    /\ Cardinality({v \in Workers : wk[v].at = "booting"}) < MaxSpawn
    /\ wk' = [wk EXCEPT ![w] = [@ EXCEPT !.proc = "up", !.at = "booting", !.token = TRUE]]
    /\ UNCHANGED <<rq, adapter, out, active, ingress, history>>

\* The adapter's first frame must be "ready", in time; otherwise the worker
\* is killed.
AwaitReady(w) ==
    /\ wk[w].at = "booting"
    /\ \/ /\ out[w] # <<>> /\ Head(out[w]).type = "ready"
          /\ out' = [out EXCEPT ![w] = Tail(@)]
          /\ wk' = [wk EXCEPT ![w].at = "parked"]
       \/ wk' = Kill(w) /\ UNCHANGED out
    /\ UNCHANGED <<rq, adapter, active, ingress, history>>

\* Mutant of Reap: the credential is not tied to the process.
ReapKeepsToken(w) ==
    /\ wk[w].proc = "exited"
    /\ wk' = [wk EXCEPT ![w].proc = "reaped", ![w].dead = TRUE]
    /\ out' = [out EXCEPT ![w] = <<>>] /\ adapter' = [adapter EXCEPT ![w] = Booting]
    /\ UNCHANGED <<rq, active, ingress, history>>

\* The one goroutine that waits for the process: waitDone, OnExit, cgroup.
\* Frames that were not read yet are gone.
Reap(w) ==
    /\ wk[w].proc = "exited"
    /\ wk' = [wk EXCEPT ![w].proc = "reaped", ![w].dead = TRUE, ![w].token = FALSE]
    /\ out' = [out EXCEPT ![w] = <<>>] /\ adapter' = [adapter EXCEPT ![w] = Booting]
    /\ UNCHANGED <<rq, active, ingress, history>>

\* The pool takes a parked worker out of service: a quit frame, then signals.
Quit(w) ==
    /\ wk[w].at = "parked"
    /\ wk' = Kill(w)
    /\ UNCHANGED <<rq, adapter, out, active, ingress, history>>

-----------------------------------------------------------------------------
(* The adapter and the user code in it.                                    *)

Alive(w) == wk[w].proc = "up"
Emit(w, type) == out' = [out EXCEPT ![w] = Append(@, [type |-> type, of |-> adapter[w].run])]
ChunksOut(w) == Cardinality({i \in DOMAIN out[w] : out[w][i].type = "chunk"})

AdapterBoot(w) ==
    /\ Alive(w) /\ adapter[w].phase = "boot"
    /\ Emit(w, "ready")
    /\ adapter' = [adapter EXCEPT ![w].phase = "idle"]
    /\ UNCHANGED <<rq, wk, active, ingress, history>>

\* One request at a time is read from stdin.
AdapterTake(w) ==
    /\ Alive(w) /\ adapter[w].phase \in {"idle", "ended"} /\ adapter[w].stdin # NoRequest
    /\ adapter' = [adapter EXCEPT ![w] = [stdin |-> NoRequest, run |-> adapter[w].stdin,
                                          phase |-> "handling"]]
    /\ ran' = ran \cup {adapter[w].stdin}
    /\ UNCHANGED <<rq, wk, out, active, ingress, got, wrote>>

\* A whole response, the handler's exception, or a fatal or broken frame.
AdapterAnswer(w) ==
    /\ Alive(w) /\ adapter[w].phase = "handling"
    /\ \E type \in {"response", "error", "fatal"} : Emit(w, type)
    /\ adapter' = [adapter EXCEPT ![w].phase = "idle", ![w].run = NoRequest]
    /\ UNCHANGED <<rq, wk, active, ingress, history>>

AdapterStream(w) ==
    /\ Alive(w)
    /\ \/ /\ adapter[w].phase = "handling"
          /\ Emit(w, "start") /\ adapter' = [adapter EXCEPT ![w].phase = "streaming"]
       \/ /\ adapter[w].phase = "streaming" /\ ChunksOut(w) < MaxChunks
          /\ Emit(w, "chunk") /\ UNCHANGED adapter
       \/ /\ adapter[w].phase = "streaming"
          /\ Emit(w, "end") /\ adapter' = [adapter EXCEPT ![w].phase = "ended"]
       \/ /\ adapter[w].phase = "streaming"
          /\ Emit(w, "response")
          /\ adapter' = [adapter EXCEPT ![w].phase = "idle", ![w].run = NoRequest]
    /\ UNCHANGED <<rq, wk, active, ingress, history>>

\* The keepalive thread of a generator is told to stop only after
\* response_end was written: one more empty chunk may follow it.
LateHeartbeat(w) ==
    /\ Alive(w) /\ adapter[w].phase = "ended" /\ adapter[w].stdin = NoRequest
    /\ ChunksOut(w) < MaxChunks
    /\ Emit(w, "chunk")
    /\ adapter' = [adapter EXCEPT ![w].phase = "idle", ![w].run = NoRequest]
    /\ UNCHANGED <<rq, wk, active, ingress, history>>

\* The process ends: a crash, or stdin was closed and nothing is running.
AdapterExit(w) ==
    /\ Alive(w)
    /\ wk' = [wk EXCEPT ![w].proc = "exited"]
    /\ UNCHANGED <<rq, adapter, out, active, ingress, history>>

-----------------------------------------------------------------------------
(* Entry points, up to the lease of the execution row.                     *)

\* The function is unknown or inactive, the caller is not allowed, over the
\* rate, or the request is malformed.
Refused(r) == rq' = [rq EXCEPT ![r] = Over("none")]

Enter(r, kind, depth) ==
    rq' = [rq EXCEPT ![r] = [@ EXCEPT !.pc = "lease", !.kind = kind, !.depth = depth]]

\* POST /fn/{id} and custom routes.
ServeHTTP(r) ==
    /\ rq[r].pc = "idle"
    /\ Enter(r, "forward", 0) \/ Refused(r)
    /\ UNCHANGED <<workerSide, active, ingress, history>>

\* invoke_function and test_function_with_fixture.
invokeFunction(r) == ServeHTTP(r)

\* An inbound webhook whose signature verified, and a replay.
Trigger(r) ==
    /\ rq[r].pc = "idle"
    /\ Enter(r, "buffered", 0) \/ Refused(r)
    /\ UNCHANGED <<workerSide, active, ingress, history>>

Replay(r) == Trigger(r)

\* Verify: a credential is good while its worker's process is not reaped.
Verify(w) == wk[w].token

\* orva.invoke from code that runs for request p in its worker: the
\* credential, the bound execution and the depth are checked.
InternalCall(r, p, kind) ==
    /\ rq[r].pc = "idle" /\ p # r
    /\ \E w \in Workers : Alive(w) /\ adapter[w].run = p
                          /\ adapter[w].phase \in {"handling", "streaming"}
                          /\ IF Verify(w) /\ p \in active /\ rq[p].depth + 1 <= MaxCallDepth
                             THEN Enter(r, kind, rq[p].depth + 1) ELSE Refused(r)
    /\ UNCHANGED <<workerSide, active, ingress, history>>

Invoke(r, p) == InternalCall(r, p, "buffered")

InvokeStream(r, p) == InternalCall(r, p, "piped")

\* reserveExecution: no place in the writer's queue, no invocation.
ReserveLease(r) ==
    /\ rq[r].pc = "lease"
    /\ \/ rq' = [rq EXCEPT ![r].lease = "held",
                           ![r].pc = IF rq[r].kind = "forward" THEN "admit" ELSE "acquire"]
       \/ Refused(r)
    /\ UNCHANGED <<workerSide, active, ingress, history>>

-----------------------------------------------------------------------------
(* Admission.                                                              *)

PerFunctionLimit == IngressLimit - IngressLimit \div 4

\* ReserveIngress, BindExecution and the body; a refused request is
\* recorded as an error by the caller of Forward.
Admit(r) ==
    /\ rq[r].pc = "admit"
    /\ \/ /\ Cardinality(ingress) < PerFunctionLimit
          /\ ingress' = ingress \cup {r} /\ active' = active \cup {r}
          /\ Goto(r, "acquire")
       \/ /\ UNCHANGED <<ingress, active>>
          /\ rq' = [rq EXCEPT ![r].pc = "record", ![r].failed = TRUE]
    /\ UNCHANGED <<workerSide, history>>

\* A parked worker that is not dead; the other callers bind now.
Acquire(r, w) ==
    /\ rq[r].pc = "acquire" /\ wk[w].at = "parked"
    /\ IF wk[w].dead THEN wk' = Kill(w) /\ UNCHANGED <<rq, active>>
       ELSE /\ wk' = [wk EXCEPT ![w].at = "leased"]
            /\ rq' = [rq EXCEPT ![r].pc = "write", ![r].w = w]
            /\ active' = active \cup {r}
    /\ UNCHANGED <<adapter, out, ingress, history>>

\* No worker in time.  Forward's caller records it; the others give the lease
\* back.
AcquireFails(r) ==
    /\ rq[r].pc = "acquire"
    /\ IF rq[r].kind = "forward"
       THEN rq' = [rq EXCEPT ![r].pc = "unbind", ![r].failed = TRUE]
       ELSE rq' = [rq EXCEPT ![r] = Over("back")]
    /\ UNCHANGED <<workerSide, active, ingress, history>>

-----------------------------------------------------------------------------
(* Dispatch.                                                               *)

\* What a request does after the last frame: Forward releases the worker and
\* unbinds, then its caller records; the others record and unwind.
EndRun(r, failed) ==
    rq' = [rq EXCEPT ![r].failed = failed,
                     ![r].pc = IF rq[r].kind = "forward" THEN "release" ELSE "record"]

\* DispatchEx up to the written frame.
DispatchWrite(r) ==
    /\ rq[r].pc = "write"
    /\ LET w == rq[r].w
       IN  \/ /\ wk[w].dead /\ EndRun(r, TRUE) /\ UNCHANGED <<wk, adapter>>
           \/ /\ ~wk[w].dead /\ wk[w].lock = NoRequest /\ Alive(w)
              /\ wk' = [wk EXCEPT ![w].lock = r]
              /\ adapter' = [adapter EXCEPT ![w].stdin = r]
              /\ Goto(r, "first")
           \/ /\ ~wk[w].dead /\ wk[w].lock = NoRequest
              /\ MarkDead(w) /\ EndRun(r, TRUE) /\ UNCHANGED adapter
    /\ UNCHANGED <<out, active, ingress, history>>

Unlock(w) == wk' = [wk EXCEPT ![w].lock = NoRequest]
DeadUnlock(w) == wk' = [wk EXCEPT ![w].lock = NoRequest, ![w].dead = TRUE]

Deliver(r, f) == got' = [got EXCEPT ![r] = @ \cup {f.of}]

\* The first frame decides: an answer, the head of a stream, an error the
\* worker survives, or the end of the worker.
ReadFirst(r) ==
    /\ rq[r].pc = "first" /\ out[rq[r].w] # <<>>
    /\ LET w == rq[r].w  f == Head(out[w])
       IN  /\ out' = [out EXCEPT ![w] = Tail(@)]
           /\ CASE f.type = "response" -> Unlock(w) /\ Deliver(r, f) /\ EndRun(r, FALSE)
                [] f.type = "start"    -> Deliver(r, f) /\ Goto(r, "stream") /\ UNCHANGED wk
                [] f.type = "error"    -> Unlock(w) /\ EndRun(r, TRUE) /\ UNCHANGED got
                [] OTHER               -> DeadUnlock(w) /\ EndRun(r, TRUE) /\ UNCHANGED got
    /\ UNCHANGED <<adapter, active, ingress, ran, wrote>>

\* NextFrame, driven by the proxy, by InvokeStream or by Dispatch's buffer.
NextFrame(r) ==
    /\ rq[r].pc = "stream" /\ out[rq[r].w] # <<>>
    /\ LET w == rq[r].w  f == Head(out[w])
       IN  /\ out' = [out EXCEPT ![w] = Tail(@)]
           /\ CASE f.type = "chunk" -> Deliver(r, f) /\ UNCHANGED <<wk, rq>>
                [] f.type = "end"   -> Unlock(w) /\ EndRun(r, FALSE) /\ UNCHANGED got
                [] OTHER            -> DeadUnlock(w) /\ EndRun(r, TRUE) /\ UNCHANGED got
    /\ UNCHANGED <<adapter, active, ingress, ran, wrote>>

\* The caller went away in the middle of a stream, or the buffer is full:
\* the stream is left where it is, with the lock held.
StreamAbandoned(r) ==
    /\ rq[r].pc = "stream" /\ out[rq[r].w] # <<>> /\ Head(out[rq[r].w]).type = "chunk"
    /\ out' = [out EXCEPT ![rq[r].w] = Tail(@)]
    /\ EndRun(r, TRUE)
    /\ UNCHANGED <<wk, adapter, active, ingress, history>>

\* Mutant of ReadFails: no deadline, only the end of file.
ReadFailsAtEOF(r) ==
    /\ rq[r].pc \in {"first", "stream"} /\ ~Alive(rq[r].w)
    /\ DeadUnlock(rq[r].w) /\ EndRun(r, TRUE)
    /\ UNCHANGED <<adapter, out, active, ingress, history>>

\* The timeout, the cap of a stream, the caller's cancellation; or the end of
\* file of a worker that is gone, with or without frames left.
ReadFails(r) ==
    /\ rq[r].pc \in {"first", "stream"}
    /\ DeadUnlock(rq[r].w) /\ EndRun(r, TRUE)
    /\ UNCHANGED <<adapter, out, active, ingress, history>>

-----------------------------------------------------------------------------
(* Unwinding.                                                              *)

\* Mutant of Release: only a worker that was marked dead is killed.
ReleaseUnlessDead(r) ==
    /\ rq[r].pc = "release"
    /\ LET w == rq[r].w
       IN  wk' = IF wk[w].dead THEN Kill(w) ELSE [wk EXCEPT ![w].at = "parked"]
    /\ rq' = [rq EXCEPT ![r] = IF rq[r].kind = "forward" THEN [@ EXCEPT !.pc = "unbind"]
                              ELSE Over(IF @.lease = "held" THEN "back" ELSE @.lease)]
    /\ UNCHANGED <<adapter, out, active, ingress, history>>

\* Pool.Release: any error of the request costs the worker.
Release(r) ==
    /\ rq[r].pc = "release"
    /\ LET w == rq[r].w
       IN  wk' = IF rq[r].failed \/ wk[w].dead THEN Kill(w) ELSE [wk EXCEPT ![w].at = "parked"]
    /\ rq' = [rq EXCEPT ![r] = IF rq[r].kind = "forward" THEN [@ EXCEPT !.pc = "unbind"]
                              ELSE Over(IF @.lease = "held" THEN "back" ELSE @.lease)]
    /\ UNCHANGED <<adapter, out, active, ingress, history>>

Unbind(r) ==
    /\ rq[r].pc = "unbind"
    /\ active' = active \ {r} /\ ingress' = ingress \ {r}
    /\ Goto(r, IF rq[r].kind = "forward" THEN "record" ELSE "release")
    /\ UNCHANGED <<workerSide, history>>

\* Mutant of Record: a failed invocation is not recorded.
RecordSuccess(r) ==
    /\ rq[r].pc = "record"
    /\ IF rq[r].failed THEN UNCHANGED wrote ELSE wrote' = [wrote EXCEPT ![r] = @ + 1]
    /\ rq' = [rq EXCEPT ![r] = IF rq[r].kind = "forward" THEN Over("spent")
                              ELSE [@ EXCEPT !.lease = "spent", !.pc = "unbind"]]
    /\ UNCHANGED <<workerSide, active, ingress, got, ran>>

\* The execution's row is handed to the writer.
AsyncInsertExecutionFinal(r) == wrote' = [wrote EXCEPT ![r] = @ + 1]

\* The row takes the lease over, success or not; then captured output and
\* the event for the live view.
Record(r) ==
    /\ rq[r].pc = "record"
    /\ AsyncInsertExecutionFinal(r)
    /\ rq' = [rq EXCEPT ![r] = IF rq[r].kind = "forward" THEN Over("spent")
                              ELSE [@ EXCEPT !.lease = "spent", !.pc = "unbind"]]
    /\ UNCHANGED <<workerSide, active, ingress, got, ran>>

-----------------------------------------------------------------------------
\* What the daemon does for a request it accepted.
Advance(r) ==
    \/ ReserveLease(r) \/ Admit(r) \/ AcquireFails(r) \/ \E w \in Workers : Acquire(r, w)
    \/ DispatchWrite(r) \/ ReadFirst(r) \/ StreamAbandoned(r) \/ ReadFails(r)
    \/ Release(r) \/ Unbind(r) \/ Record(r)

Serve(r) == Advance(r) \/ NextFrame(r)

Arrive(r) ==
    \/ r \in OuterRequests /\ (ServeHTTP(r) \/ Trigger(r))
    \/ r \in InnerRequests /\ \E p \in Requests : Invoke(r, p) \/ InvokeStream(r, p)

Sandbox(w) ==
    \/ AdapterBoot(w) \/ AdapterTake(w) \/ AdapterAnswer(w) \/ AdapterStream(w)
    \/ LateHeartbeat(w) \/ AdapterExit(w)

InvNext ==
    \/ \E r \in Requests : Arrive(r) \/ Serve(r)
    \/ \E w \in Workers : Spawn(w) \/ AwaitReady(w) \/ Quit(w) \/ Reap(w) \/ Sandbox(w)

\* The daemon's goroutines run and deadlines pass; nothing is assumed of the
\* code in the sandbox.  Reading a stream is no progress: its cap ends it.
InvFairness == \A r \in Requests : WF_invVars(Advance(r))

InvSpec == InvInit /\ [][InvNext]_invVars /\ InvFairness

-----------------------------------------------------------------------------
(* Properties.                                                             *)

\* Nobody gets a frame of somebody else's invocation: an answer that is late,
\* left behind in the pipe or still being produced when its request was given
\* up never reaches the next request of that worker.
OwnAnswers == \A r \in Requests : got[r] \subseteq {r}

\* A worker is handed to the next request only when the previous one is over
\* inside it: no other holder, no event unread, nothing running.  The
\* credential of a worker is good then, and not after its process is gone.
CleanHandover ==
    /\ \A w \in Workers : wk[w].proc = "reaped" => ~wk[w].token
    /\ \A r \in Requests : rq[r].pc = "write" /\ Alive(rq[r].w) /\ ~wk[rq[r].w].dead =>
          LET w == rq[r].w
          IN  /\ wk[w].lock = NoRequest /\ wk[w].token
              /\ adapter[w].stdin = NoRequest /\ adapter[w].phase \in {"idle", "ended"}
              /\ \A s \in Requests \ {r} : rq[s].pc \in {"write", "first", "stream"} => rq[s].w # w

\* An invocation whose code ran is recorded exactly once by the time its
\* handler returns, and its lease was used for that; one that never ran is
\* recorded at most once, and leaves no lease, budget or binding behind.
RunIsRecorded ==
    \A r \in Requests :
        /\ wrote[r] <= 1 /\ (wrote[r] = 1 <=> rq[r].lease = "spent")
        /\ rq[r].pc = "done" => /\ r \in ran => wrote[r] = 1
                                /\ rq[r].lease # "held"
                                /\ r \notin active /\ r \notin ingress

\* A worker and the answers it gives belong to one request at a time: nobody
\* gets a frame of somebody else's invocation, and a worker is handed on only
\* when the invocation before is over inside it.
WorkersAreClean == OwnAnswers /\ CleanHandover

\* An invocation keeps its worker clean and leaves one record of itself.
InvocationSafe == WorkersAreClean /\ RunIsRecorded

\* Every invocation that was accepted ends, whatever the code in the sandbox
\* does, nested invocations included.
InvocationEnds == \A r \in Requests : rq[r].pc \notin {"idle", "done"} ~> rq[r].pc = "done"
=============================================================================
