------------------------------- MODULE Deploy -------------------------------
(***************************************************************************)
(* The life of one function: its row in SQLite and in the registry cache,  *)
(* the deploy endpoint, the build queue and its workers, rollback, update  *)
(* and delete (over REST and over MCP), the version directories with their *)
(* `current` symlink, the version GC and a restart of the daemon.          *)
(*                                                                         *)
(* Functions share nothing but the queue, so one function is modelled.     *)
(* One action is one database statement, file-system operation, cache or   *)
(* channel operation, or a few of them that no other process can tell      *)
(* apart.                                                                  *)
(*                                                                         *)
(* Abstractions.  A code archive is the hash its build produces.  The      *)
(* settings that a deployment snapshots are one value.  Extraction,        *)
(* validation, dependency install and the scratch directory are one step   *)
(* that succeeds or fails.  Registry.set's insert-or-update is one write,  *)
(* which also empties the cache entry: between the write and the emptying  *)
(* a reader sees what it would have seen before the write.  SQLite itself  *)
(* does not fail.                                                          *)
(***************************************************************************)
EXTENDS Integers, FiniteSets, Sequences

CONSTANTS
  Deployments, \* deployment ids
  Hashes,      \* code hashes
  Settings,    \* values of the snapshotted settings
  Builders,    \* worker goroutines of the build queue
  Callers,     \* goroutines that serve API and MCP calls
  MaxCalls,    \* bound on the calls, GC ticks and restarts
  QueueCap,    \* capacity of Queue.jobs, the code's 64
  Keep,        \* versions_to_keep
  Calls,       \* what may happen, of AllCalls
  Faults       \* faults that may happen, of AllFaults

\* The calls of MCP tools; the others are REST handlers, an invocation's
\* read of the registry, and a tick of the GC.
McpCalls == {"mcpDeploy", "mcpUpdate", "mcpRollback", "mcpDelete"}
AllCalls == {"get", "deploy", "update", "rollback", "delete", "gc"} \cup McpCalls
AllFaults == {"build", "activate", "crash"}

\* No hash, deployment, settings or process.
NoHash == "noHash"
NoDep == "noDep"
NoCfg == "noCfg"
Nobody == "nobody"

ASSUME DeployAssumption ==
  /\ IsFiniteSet(Deployments) /\ NoDep \notin Deployments
  /\ IsFiniteSet(Hashes) /\ NoHash \notin Hashes
  /\ Settings # {} /\ NoCfg \notin Settings
  /\ Builders \cap Callers = {} /\ Nobody \notin Builders \cup Callers
  /\ MaxCalls \in Nat /\ QueueCap \in Nat \ {0} /\ Keep \in Nat \ {0}
  /\ Calls \subseteq AllCalls /\ Faults \subseteq AllFaults

Procs == Builders \cup Callers

VARIABLES
  row,      \* the row in functions; its status is "none" when there is none
  cache,    \* the registry's cached copy, or NoRow
  dep,      \* the rows in deployments
  versions, \* ready directories under versions/, oldest mtime first
  current,  \* target of the `current` symlink, or NoHash
  jobs,     \* the build queue's channel
  lock,     \* holder of Manager.FunctionLock
  op,       \* what each goroutine is doing
  pc,       \* and how far it is
  fn,       \* its copy of the function row
  arg,      \* the deployment it works on
  num,      \* the version number it allocated
  calls,    \* number of calls, GC ticks and restarts
  acked,    \* settings last acknowledged to a caller
  gpc,      \* program counter of the GC
  gprune,   \* version directories its tick is going to remove, oldest first
  gwritten  \* whether the function's tree was written since its listing

fsVars == <<versions, current>>
procVars == <<op, pc, fn, arg, num>>
gcVars == <<gpc, gprune, gwritten>>
vars == <<row, cache, dep, fsVars, jobs, lock, procVars, calls, acked, gcVars>>

----------------------------------------------------------------------------
(* Rows.                                                                  *)

\* A row of functions; ver counts its mutations.
Rows == [status : {"none", "created", "building", "active", "inactive", "error"},
         hash : Hashes \cup {NoHash}, active : Deployments \cup {NoDep},
         cfg : Settings \cup {NoCfg}, ver : Nat]
NoRow == [status |-> "none", hash |-> NoHash, active |-> NoDep, cfg |-> NoCfg, ver |-> 0]
Exists(r) == r.status # "none"

\* A row of deployments: "none" before it is inserted, "gone" after the cascade.
Deps == [status : {"none", "queued", "succeeded", "failed", "gone"}, ver : Nat,
         src : Hashes \cup {NoHash}, hash : Hashes \cup {NoHash},
         snap : Settings \cup {NoCfg}]
NoDeployment ==
  [status |-> "none", ver |-> 0, src |-> NoHash, hash |-> NoHash, snap |-> NoCfg]
Recorded(d) == dep[d].status \in {"queued", "succeeded", "failed"}

\* FinishDeployment; an UPDATE of a row that is gone changes nothing.
Finish(d, status) ==
  dep' = IF Recorded(d) THEN [dep EXCEPT ![d].status = status] ELSE dep

\* The rows that ON DELETE CASCADE leaves; a queued job still has its archive.
Cascade == [d \in Deployments |->
             IF dep[d].status = "none" THEN dep[d]
             ELSE [NoDeployment EXCEPT !.status = "gone", !.src = dep[d].src]]

\* NextDeploymentVersion: MAX(version) + 1.
NextVersion ==
  1 + (CHOOSE n \in {0} \cup {dep[d].ver : d \in Deployments} :
         \A d \in Deployments : dep[d].ver =< n)

\* Version directories that hold a .orva-ready marker.
Ready == {versions[i] : i \in 1..Len(versions)}

\* The directories s after h is removed; their names are distinct.
Without(s, h) ==
  LET at == {i \in 1..Len(s) : s[i] = h}
      k == CHOOSE i \in at : TRUE
  IN  IF at = {} THEN s ELSE SubSeq(s, 1, k - 1) \o SubSeq(s, k + 1, Len(s))

----------------------------------------------------------------------------
(* Goroutines, the function lock and the registry.                        *)

Goto(p, label) == pc' = [pc EXCEPT ![p] = label]

\* Mutant of Return: an early return of Rollback forgets the unlock.
ReturnLocked(p) ==
  /\ op' = [op EXCEPT ![p] = "none"]
  /\ Goto(p, "idle")
  /\ fn' = [fn EXCEPT ![p] = NoRow]
  /\ arg' = [arg EXCEPT ![p] = NoDep]
  /\ num' = [num EXCEPT ![p] = 0]
  /\ lock' = IF lock = p /\ op[p] # "rollback" THEN Nobody ELSE lock

\* The end of a call or of a build job, with the deferred unlock.
Return(p) ==
  /\ op' = [op EXCEPT ![p] = "none"]
  /\ Goto(p, "idle")
  /\ fn' = [fn EXCEPT ![p] = NoRow]
  /\ arg' = [arg EXCEPT ![p] = NoDep]
  /\ num' = [num EXCEPT ![p] = 0]
  /\ lock' = IF lock = p THEN Nobody ELSE lock

Ops == {"none", "get", "deploy", "update", "rollback", "delete", "build"} \cup McpCalls
Labels == {"idle", "get", "miss", "lock", "version", "insert", "submit", "wait", "write",
           "store", "target", "activate", "delete", "uncache", "purge", "mark",
           "build", "publish", "switch", "finish", "fail", "error"}

\* Mutant of AfterGet: the REST delete takes no function lock either.
AfterGetUnlocked == [deploy |-> "version", update |-> "write", rollback |-> "lock",
                     delete |-> "delete", mcpDeploy |-> "version", mcpUpdate |-> "write",
                     mcpRollback |-> "lock", mcpDelete |-> "delete", build |-> "mark"]

\* Where a goroutine goes from Registry.Get and from the function lock.
AfterGet == [deploy |-> "version", update |-> "write", rollback |-> "lock",
             delete |-> "lock", mcpDeploy |-> "version", mcpUpdate |-> "write",
             mcpRollback |-> "lock", mcpDelete |-> "delete", build |-> "mark"]
AfterLock == [rollback |-> "target", mcpRollback |-> "target",
              delete |-> "delete", build |-> "get"]

\* The calls that go on to use the copy they loaded, not only the id.
KeepsCopy(p) == op[p] \in {"update", "rollback", "mcpUpdate", "mcpRollback", "build"}

\* A call arrives.  A deploy also draws its deployment id.
Call(c, name) ==
  /\ pc[c] = "idle" /\ calls < MaxCalls /\ name \in Calls \ {"gc"}
  /\ calls' = calls + 1
  /\ op' = [op EXCEPT ![c] = name]
  /\ Goto(c, "get")
  /\ IF name \notin {"deploy", "mcpDeploy"} THEN UNCHANGED arg
     ELSE \E d \in Deployments :
            /\ dep[d].status = "none" /\ \A p \in Procs : arg[p] # d
            /\ arg' = [arg EXCEPT ![c] = d]
  /\ UNCHANGED <<row, cache, dep, fsVars, jobs, lock, fn, num, acked, gcVars>>

\* Registry.Get.  A hit returns a copy of the cached row.
GetHit(p) ==
  /\ pc[p] = "get" /\ Exists(cache)
  /\ IF op[p] = "get" THEN Return(p)
     ELSE /\ fn' = IF KeepsCopy(p) THEN [fn EXCEPT ![p] = cache] ELSE fn
          /\ Goto(p, AfterGet[op[p]])
          /\ UNCHANGED <<op, arg, num, lock>>
  /\ UNCHANGED <<row, cache, dep, fsVars, jobs, calls, acked, gcVars>>

\* A miss reads SQLite; without a row a call ends and a build job fails.
GetMiss(p) ==
  /\ pc[p] = "get" /\ ~Exists(cache)
  /\ \/ /\ Exists(row)
        /\ fn' = [fn EXCEPT ![p] = row] /\ Goto(p, "miss")
        /\ UNCHANGED <<op, arg, num, lock>>
     \/ /\ ~Exists(row) /\ op[p] = "build"
        /\ Goto(p, "fail")
        /\ UNCHANGED <<op, fn, arg, num, lock>>
     \/ /\ ~Exists(row) /\ op[p] # "build"
        /\ Return(p)
  /\ UNCHANGED <<row, cache, dep, fsVars, jobs, calls, acked, gcVars>>

\* resolveFunction, when the MCP call gives the function's name: SQLite is
\* read and the cache is neither consulted nor filled.
ResolveByName(p) ==
  /\ pc[p] = "get" /\ op[p] \in McpCalls /\ Exists(row)
  /\ fn' = IF KeepsCopy(p) THEN [fn EXCEPT ![p] = row] ELSE fn
  /\ Goto(p, AfterGet[op[p]])
  /\ UNCHANGED <<row, cache, dep, fsVars, jobs, lock, op, arg, num, calls, acked, gcVars>>

\* After a miss, what was read goes into the cache, whatever happened since.
GetStore(p) ==
  /\ pc[p] = "miss"
  /\ cache' = fn[p]
  /\ IF op[p] = "get" THEN Return(p)
     ELSE /\ fn' = IF KeepsCopy(p) THEN fn ELSE [fn EXCEPT ![p] = NoRow]
          /\ Goto(p, AfterGet[op[p]])
          /\ UNCHANGED <<op, arg, num, lock>>
  /\ UNCHANGED <<row, dep, fsVars, jobs, calls, acked, gcVars>>

\* Mutant of Lock: every handler has a lock of its own.
LockOfItsOwn(p) ==
  /\ pc[p] = "lock"
  /\ Goto(p, AfterLock[op[p]])
  /\ UNCHANGED <<row, cache, dep, fsVars, jobs, lock, op, fn, arg, num, calls, acked, gcVars>>

\* FnLock(fnID).Lock().
Lock(p) ==
  /\ pc[p] = "lock" /\ lock = Nobody
  /\ lock' = p
  /\ Goto(p, AfterLock[op[p]])
  /\ UNCHANGED <<row, cache, dep, fsVars, jobs, op, fn, arg, num, calls, acked, gcVars>>

\* The database half of Registry.set: r is inserted, or updated if it is there.
SetRow(p, r) ==
  /\ row' = r /\ cache' = NoRow
  /\ fn' = [fn EXCEPT ![p] = r]
  /\ Goto(p, "store")
  /\ UNCHANGED <<dep, fsVars, jobs, lock, op, arg, num, calls, acked, gcVars>>

\* Its cache half.  A build goes on from there, unless it just recorded an
\* error; an update or a rollback is over and its settings are acknowledged.
SetCache(p) ==
  /\ pc[p] = "store"
  /\ cache' = fn[p]
  /\ IF op[p] = "build" /\ fn[p].status # "error"
     THEN /\ Goto(p, IF fn[p].status = "building" THEN "build" ELSE "switch")
          /\ UNCHANGED <<op, fn, arg, num, lock>>
     ELSE Return(p)
  /\ acked' = IF op[p] = "build" THEN acked ELSE fn[p].cfg
  /\ UNCHANGED <<row, dep, fsVars, jobs, calls, gcVars>>

----------------------------------------------------------------------------
(* Deploy: enqueueOrBuildSync, and deployInline of the MCP tools.         *)

Allocate(c) ==
  /\ pc[c] = "version"
  /\ num' = [num EXCEPT ![c] = NextVersion]
  /\ Goto(c, "insert")
  /\ UNCHANGED <<row, cache, dep, fsVars, jobs, lock, op, fn, arg, calls, acked, gcVars>>

AllocateVersion(c) == op[c] = "deploy" /\ Allocate(c)
McpAllocateVersion(c) == op[c] = "mcpDeploy" /\ Allocate(c)

\* InsertDeployment; its foreign key refuses a function that is gone.
Insert(c) ==
  /\ pc[c] = "insert"
  /\ \/ /\ ~Exists(row)
        /\ Return(c) /\ UNCHANGED dep
     \/ /\ Exists(row)
        /\ \E h \in Hashes :
             dep' = [dep EXCEPT ![arg[c]] =
                      [NoDeployment EXCEPT !.status = "queued", !.ver = num[c], !.src = h]]
        /\ Goto(c, "submit")
        /\ UNCHANGED <<op, fn, arg, num, lock>>
  /\ UNCHANGED <<row, cache, fsVars, jobs, calls, acked, gcVars>>

InsertDeployment(c) == op[c] = "deploy" /\ Insert(c)
McpInsertDeployment(c) == op[c] = "mcpDeploy" /\ Insert(c)

\* Mutant of Enqueue: the error path leaves the deployment's row alone.
EnqueueOnly(c) ==
  /\ jobs' = IF Len(jobs) < QueueCap THEN Append(jobs, arg[c]) ELSE jobs
  /\ UNCHANGED dep

\* Queue.Submit, and FinishDeployment when the channel is full.
Enqueue(c) ==
  IF Len(jobs) < QueueCap
  THEN jobs' = Append(jobs, arg[c]) /\ UNCHANGED dep
  ELSE Finish(arg[c], "failed") /\ UNCHANGED jobs

Submit(c) ==
  /\ pc[c] = "submit" /\ op[c] = "deploy"
  /\ Enqueue(c)
  /\ Return(c)
  /\ UNCHANGED <<row, cache, fsVars, calls, acked, gcVars>>

\* The tool answers at once, or waits for the build when asked to.
McpSubmit(c) ==
  /\ pc[c] = "submit" /\ op[c] = "mcpDeploy"
  /\ Enqueue(c)
  /\ \/ Return(c)
     \/ /\ Len(jobs) < QueueCap
        /\ Goto(c, "wait") /\ UNCHANGED <<op, fn, arg, num, lock>>
  /\ UNCHANGED <<row, cache, fsVars, calls, acked, gcVars>>

\* waitDeployment: its polls end at a final state, at the deadline or with
\* the client; a deployment that is gone is polled until the deadline.
WaitDeployment(c) ==
  /\ pc[c] = "wait"
  /\ Return(c)
  /\ UNCHANGED <<row, cache, dep, fsVars, jobs, calls, acked, gcVars>>

----------------------------------------------------------------------------
(* Update: PUT /functions/{id}, which takes no function lock.             *)

Update(c) ==
  /\ pc[c] = "write" /\ op[c] = "update"
  /\ \E cfg \in Settings, status \in {fn[c].status, "active", "inactive"} :
       SetRow(c, [fn[c] EXCEPT !.cfg = cfg, !.status = status, !.ver = @ + 1])

\* The MCP tool does not count the mutation.
McpUpdate(c) ==
  /\ pc[c] = "write" /\ op[c] = "mcpUpdate"
  /\ \E cfg \in Settings, status \in {fn[c].status, "active", "inactive"} :
       SetRow(c, [fn[c] EXCEPT !.cfg = cfg, !.status = status])

----------------------------------------------------------------------------
(* Rollback, whose copy of the row was loaded before it took the lock.    *)

\* rollbackIsNoOp: the copy already has d's code and settings.
NoOp(d, r) == dep[d].hash = r.hash /\ dep[d].snap = r.cfg

\* The deployment that the request names, by id or by hash (then a latest
\* succeeded one, and submission times tie), is refused unless it
\* succeeded, differs from the copy, and its directory is still there.
\* What the row will be is all known here, and written after the switch.
Target(c) ==
  /\ pc[c] = "target"
  /\ \/ \E d \in Deployments :
          /\ dep[d].status = "succeeded"
          /\ ~NoOp(d, fn[c])
          /\ dep[d].hash \in Ready
          /\ arg' = [arg EXCEPT ![c] = d]
          /\ fn' = [fn EXCEPT ![c] = [@ EXCEPT !.hash = dep[d].hash, !.cfg = dep[d].snap,
                                              !.status = "active", !.active = d]]
          /\ Goto(c, "activate")
          /\ UNCHANGED <<op, num, lock>>
     \/ Return(c)
  /\ UNCHANGED <<row, cache, dep, fsVars, jobs, calls, acked, gcVars>>

ResolveTarget(c) == op[c] = "rollback" /\ Target(c)
McpResolveTarget(c) == op[c] = "mcpRollback" /\ Target(c)

\* ActivateVersion; the row is written only when it succeeds.
RollbackActivate(c) ==
  /\ pc[c] = "activate"
  /\ \/ /\ current' = fn[c].hash /\ gwritten' = TRUE
        /\ Goto(c, "write")
        /\ UNCHANGED <<op, fn, arg, num, lock>>
     \/ /\ "activate" \in Faults
        /\ Return(c) /\ UNCHANGED <<current, gwritten>>
  /\ UNCHANGED <<row, cache, dep, versions, jobs, calls, acked, gpc, gprune>>

RollbackWrite(c) ==
  /\ pc[c] = "write" /\ op[c] = "rollback"
  /\ SetRow(c, fn[c])

McpRollbackWrite(c) ==
  /\ pc[c] = "write" /\ op[c] = "mcpRollback"
  /\ SetRow(c, fn[c])

----------------------------------------------------------------------------
(* Delete.  The MCP tool's takes no lock and leaves the files behind.     *)

Remove(c) ==
  /\ pc[c] = "delete"
  /\ row' = NoRow /\ dep' = Cascade
  /\ Goto(c, "uncache")
  /\ UNCHANGED <<cache, fsVars, jobs, lock, op, fn, arg, num, calls, acked, gcVars>>

DeleteRow(c) == op[c] = "delete" /\ Remove(c)
McpDeleteRow(c) == op[c] = "mcpDelete" /\ Remove(c)

DeleteCached(c) ==
  /\ pc[c] = "uncache"
  /\ cache' = NoRow
  /\ IF op[c] = "mcpDelete" THEN Return(c)
     ELSE Goto(c, "purge") /\ UNCHANGED <<op, fn, arg, num, lock>>
  /\ UNCHANGED <<row, dep, fsVars, jobs, calls, acked, gcVars>>

\* PurgeFunctionFiles.
PurgeFiles(c) ==
  /\ pc[c] = "purge"
  /\ versions' = <<>> /\ current' = NoHash
  /\ Return(c)
  /\ UNCHANGED <<row, cache, dep, jobs, calls, acked, gcVars>>

----------------------------------------------------------------------------
(* The build queue: worker and runJob.                                    *)

Dequeue(b) ==
  /\ pc[b] = "idle" /\ jobs # <<>>
  /\ arg' = [arg EXCEPT ![b] = Head(jobs)] /\ jobs' = Tail(jobs)
  /\ op' = [op EXCEPT ![b] = "build"]
  /\ Goto(b, "lock")
  /\ UNCHANGED <<row, cache, dep, fsVars, lock, fn, num, calls, acked, gcVars>>

\* A first deploy flips the function to "building".
MarkBuilding(b) ==
  /\ pc[b] = "mark"
  /\ IF fn[b].status \in {"created", "error"}
     THEN SetRow(b, [fn[b] EXCEPT !.status = "building"])
     ELSE /\ Goto(b, "build")
          /\ UNCHANGED <<row, cache, dep, fsVars, jobs, lock, op, fn, arg, num, calls, acked, gcVars>>

\* Mutant of Build: the result does not carry the hash.
BuildWithoutHash(b) ==
  /\ pc[b] = "build"
  /\ Goto(b, IF dep[arg[b]].src \in Ready THEN "write" ELSE "publish")
  /\ UNCHANGED <<row, cache, dep, fsVars, jobs, lock, op, fn, arg, num, calls, acked, gcVars>>

\* Builder.Build up to the publication: the short-circuit for a hash that is
\* ready, else the work in the scratch directory under versions/.  The hash
\* of the archive goes into the copy of the row.
Build(b) ==
  /\ pc[b] = "build"
  /\ LET h == dep[arg[b]].src IN
     \/ /\ Goto(b, IF h \in Ready THEN "write" ELSE "publish")
        /\ gwritten' = (gwritten \/ h \notin Ready)
        /\ fn' = [fn EXCEPT ![b].hash = h]
     \/ /\ "build" \in Faults
        /\ Goto(b, "fail")
        /\ gwritten' \in {gwritten, TRUE} /\ UNCHANGED fn
  /\ UNCHANGED <<row, cache, dep, fsVars, jobs, lock, op, arg, num, calls, acked, gpc, gprune>>

\* The scratch directory is renamed to versions/<hash>, the newest one.
Publish(b) ==
  /\ pc[b] = "publish"
  /\ versions' = Append(Without(versions, fn[b].hash), fn[b].hash)
  /\ gwritten' = TRUE
  /\ Goto(b, "write")
  /\ UNCHANGED <<row, cache, dep, current, jobs, lock, op, fn, arg, num, calls, acked, gpc, gprune>>

\* The row is written from the copy loaded before the build.
BuildWrite(b) ==
  /\ pc[b] = "write" /\ op[b] = "build"
  /\ SetRow(b, [fn[b] EXCEPT !.status = "active", !.active = arg[b], !.ver = @ + 1])

\* SetDeploymentCodeHash and SetDeploymentSnapshot, then ActivateVersion.
Switch(b) ==
  /\ pc[b] = "switch"
  /\ dep' = IF Recorded(arg[b])
            THEN [dep EXCEPT ![arg[b]].hash = fn[b].hash, ![arg[b]].snap = fn[b].cfg]
            ELSE dep
  /\ \/ current' = fn[b].hash /\ gwritten' = TRUE /\ Goto(b, "finish")
     \/ "activate" \in Faults /\ Goto(b, "fail") /\ UNCHANGED <<current, gwritten>>
  /\ UNCHANGED <<row, cache, versions, jobs, lock, op, fn, arg, num, calls, acked, gpc, gprune>>

Succeed(b) ==
  /\ pc[b] = "finish"
  /\ Finish(arg[b], "succeeded")
  /\ Return(b)
  /\ UNCHANGED <<row, cache, fsVars, jobs, calls, acked, gcVars>>

\* Queue.fail; a failed first build then flips the function to "error".
Fail(b) ==
  /\ pc[b] = "fail"
  /\ Finish(arg[b], "failed")
  /\ IF fn[b].status = "building"
     THEN Goto(b, "error") /\ UNCHANGED <<op, fn, arg, num, lock>>
     ELSE Return(b)
  /\ UNCHANGED <<row, cache, fsVars, jobs, calls, acked, gcVars>>

MarkError(b) ==
  /\ pc[b] = "error"
  /\ SetRow(b, [fn[b] EXCEPT !.status = "error"])

----------------------------------------------------------------------------
(* The version GC, which takes no function lock to prune.                 *)

GCList ==
  /\ gpc = "idle" /\ "gc" \in Calls /\ calls < MaxCalls
  /\ calls' = calls + 1
  /\ gpc' = IF Exists(row) THEN "scan" ELSE "sweep"
  /\ gwritten' = FALSE
  /\ UNCHANGED <<row, cache, dep, fsVars, jobs, lock, procVars, acked, gprune>>

\* pruneFunction: all but the newest Keep are candidates ...
GCScan ==
  /\ gpc = "scan"
  /\ gprune' = SubSeq(versions, 1, Len(versions) - Keep)
  /\ gpc' = IF Len(versions) =< Keep THEN "idle" ELSE "active"
  /\ UNCHANGED <<row, cache, dep, fsVars, jobs, lock, procVars, calls, acked, gwritten>>

\* ... except the one that ResolveActiveHash reads from `current`.
GCActive ==
  /\ gpc = "active"
  /\ gprune' = Without(gprune, current)
  /\ gpc' = "remove"
  /\ UNCHANGED <<row, cache, dep, fsVars, jobs, lock, procVars, calls, acked, gwritten>>

\* They are removed one by one, the newest first.
GCRemove ==
  /\ gpc = "remove"
  /\ IF gprune = <<>>
     THEN gpc' = "idle" /\ UNCHANGED <<gprune, versions>>
     ELSE /\ versions' = Without(versions, gprune[Len(gprune)])
          /\ gprune' = SubSeq(gprune, 1, Len(gprune) - 1)
          /\ UNCHANGED gpc
  /\ UNCHANGED <<row, cache, dep, current, jobs, lock, procVars, calls, acked, gwritten>>

\* sweepOrphanFunctionDirs: the tree of a function that was not listed goes,
\* unless it was written lately or the lock is taken; the sweep is skipped
\* when the listing was empty or cut short.
GCSweep ==
  /\ gpc = "sweep"
  /\ gpc' = "idle"
  /\ \/ /\ ~gwritten /\ lock = Nobody
        /\ versions' = <<>> /\ current' = NoHash
     \/ UNCHANGED fsVars
  /\ UNCHANGED <<row, cache, dep, jobs, lock, procVars, calls, acked, gprune, gwritten>>

----------------------------------------------------------------------------
(* The daemon stops at any point and boots again: unfinished deployments  *)
(* are failed, and LoadAll fills the cache unless this function is past   *)
(* the first thousand.                                                    *)

\* Mutant of Abandoned: the WHERE clause only spares what already failed.
NotFailed(d) == dep[d].status \in {"queued", "succeeded"}

\* Deployments that RequeueStuckDeployments fails.
Abandoned(d) == dep[d].status = "queued"

Restart ==
  /\ "crash" \in Faults /\ calls < MaxCalls
  /\ calls' = calls + 1
  /\ dep' = [d \in Deployments |->
              IF Abandoned(d) THEN [dep[d] EXCEPT !.status = "failed"] ELSE dep[d]]
  /\ cache' \in {row, NoRow}
  /\ op' = [p \in Procs |-> "none"] /\ pc' = [p \in Procs |-> "idle"]
  /\ fn' = [p \in Procs |-> NoRow] /\ arg' = [p \in Procs |-> NoDep]
  /\ num' = [p \in Procs |-> 0]
  /\ jobs' = <<>> /\ lock' = Nobody
  /\ gpc' = "idle" /\ gprune' = <<>> /\ gwritten' = FALSE
  /\ UNCHANGED <<row, fsVars, acked>>

----------------------------------------------------------------------------
\* What createFunction stores, over REST and over MCP.
Created(cfg) == [NoRow EXCEPT !.status = "created", !.cfg = cfg, !.ver = 1]

\* A function was just created.
Init ==
  /\ \E cfg \in Settings : row = Created(cfg)
  /\ cache = row /\ acked = row.cfg
  /\ dep = [d \in Deployments |-> NoDeployment]
  /\ versions = <<>> /\ current = NoHash
  /\ op = [p \in Procs |-> "none"] /\ pc = [p \in Procs |-> "idle"]
  /\ fn = [p \in Procs |-> NoRow] /\ arg = [p \in Procs |-> NoDep]
  /\ num = [p \in Procs |-> 0]
  /\ jobs = <<>> /\ lock = Nobody
  /\ gpc = "idle" /\ gprune = <<>> /\ gwritten = FALSE
  /\ calls = 0

\* The steps of a goroutine, without the wait for the lock.
Step(p) ==
  \/ GetHit(p) \/ GetMiss(p) \/ GetStore(p) \/ SetCache(p) \/ ResolveByName(p)
  \/ AllocateVersion(p) \/ InsertDeployment(p) \/ Submit(p)
  \/ McpAllocateVersion(p) \/ McpInsertDeployment(p) \/ McpSubmit(p) \/ WaitDeployment(p)
  \/ Update(p) \/ McpUpdate(p)
  \/ ResolveTarget(p) \/ McpResolveTarget(p) \/ RollbackActivate(p)
  \/ RollbackWrite(p) \/ McpRollbackWrite(p)
  \/ DeleteRow(p) \/ McpDeleteRow(p) \/ DeleteCached(p) \/ PurgeFiles(p)
  \/ MarkBuilding(p) \/ Build(p) \/ Publish(p) \/ BuildWrite(p)
  \/ Switch(p) \/ Succeed(p) \/ Fail(p) \/ MarkError(p)

GC == GCScan \/ GCActive \/ GCRemove \/ GCSweep

Next ==
  \/ \E c \in Callers : \E name \in Calls \ {"gc"} : Call(c, name)
  \/ \E b \in Builders : Dequeue(b)
  \/ \E p \in Procs : Step(p) \/ Lock(p)
  \/ GCList \/ GC
  \/ Restart

Spec == Init /\ [][Next]_vars

\* Goroutines run; a Go mutex hands itself to a waiter that starves.
FairSpec ==
  /\ Spec
  /\ \A p \in Procs : WF_vars(Step(p)) /\ SF_vars(Lock(p))
  /\ \A b \in Builders : WF_vars(Dequeue(b))
  /\ WF_vars(GC)

----------------------------------------------------------------------------
(* Properties.                                                            *)

\* Every variable has its type.
TypeOK ==
  /\ row \in Rows /\ cache \in Rows
  /\ dep \in [Deployments -> Deps]
  /\ versions \in Seq(Hashes) /\ current \in Hashes \cup {NoHash}
  /\ jobs \in Seq(Deployments) /\ lock \in Procs \cup {Nobody}
  /\ op \in [Procs -> Ops] /\ pc \in [Procs -> Labels]
  /\ fn \in [Procs -> Rows] /\ arg \in [Procs -> Deployments \cup {NoDep}]
  /\ num \in [Procs -> Nat]
  /\ calls \in 0..MaxCalls /\ acked \in Settings
  /\ gpc \in {"idle", "scan", "active", "remove", "sweep"}
  /\ gprune \in Seq(Hashes) /\ gwritten \in BOOLEAN

\* No build, rollback, update or delete is between its first and last write.
Quiet == \A p \in Procs : pc[p] \in {"idle", "get", "miss", "lock", "version", "insert", "submit", "wait"}

\* Once the writers are done, an active function serves the code its row
\* names, and the deployment its row points at succeeded with that code:
\* runJob and Rollback write the row, the deployment and the symlink in
\* different orders, and only FnLock keeps two of them apart.  PUT, delete
\* and failing activations are out of this (see the claims below).
ServingConsistent ==
  Quiet /\ row.status = "active" =>
    /\ row.hash = current
    /\ row.active # NoDep
    /\ dep[row.active].status = "succeeded"
    /\ dep[row.active].hash = row.hash

\* A deployment leaves "succeeded" or "failed" only by the delete of its
\* function: late failures, restarts and full queues never overwrite it.
TerminalStays ==
  [][\A d \in Deployments :
       dep[d].status \in {"succeeded", "failed"} => dep'[d].status \in {dep[d].status, "gone"}]_vars

\* Every accepted deployment ends, across deletes, full queues and restarts:
\* runJob, Submit's error path and RequeueStuckDeployments leave none queued.
DeploymentTerminates ==
  \A d \in Deployments : dep[d].status = "queued" ~> dep[d].status # "queued"

\* Builds, rollbacks and deletes never wait for each other for ever.
LockReleased == \A p \in Procs : lock = p ~> lock # p

\* Deployments end and the function's lock is given back, whatever fails.
DeployFinishes == DeploymentTerminates /\ LockReleased

\* `current` never dangles: a version is activated only once it is ready, and
\* purged only under the lock (Builder.Build, ActivateVersion, Delete).  It
\* holds as long as no GC tick runs; gc.go says that the GC "Always preserves
\* the version that `current` resolves to", and MCDeploy_gc refutes that.
CurrentOnDisk == current # NoHash => current \in Ready

(* Claims of the repository that the code does not keep.                  *)

\* functions.go, Delete: the lock keeps a build's final write from inserting
\* the row again after a successful DELETE.
DeletedStaysDeleted == [][Exists(row) \/ ~Exists(row')]_vars

\* Update: once answered, the new settings are what the next invoke sees.
AckedSettingsKept ==
  (\A p \in Callers : pc[p] # "store") => row.cfg = acked

\* invoke.go: "building" means that a deployment is in progress.
BuildingEnds == row.status = "building" ~> row.status # "building"
=============================================================================
