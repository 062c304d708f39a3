---------------------------- MODULE DeployProofs ----------------------------
(***************************************************************************)
(* Proofs about Deploy: types, that a deployment's result is final, that   *)
(* `current` never dangles while no GC tick runs, and that the row, the    *)
(* deployment it names and `current` agree.                                *)
(*                                                                         *)
(* Everything rests on DeployInv: which labels each call passes, that a    *)
(* deployment is in one goroutine's hands or once in the channel, and that *)
(* builds, rollbacks and REST deletes are kept apart by the lock.          *)
(***************************************************************************)
EXTENDS Deploy, SequenceTheorems, TLAPS

-----------------------------------------------------------------------------
(* The inductive invariant.                                                *)

DeployOps == {"deploy", "mcpDeploy"}
RollbackOps == {"rollback", "mcpRollback"}
UpdateOps == {"update", "mcpUpdate"}

\* The labels that each kind of call and a build job pass through.
Path(p) ==
  /\ op[p] = "none" => pc[p] = "idle"
  /\ op[p] = "get" => pc[p] \in {"get", "miss"}
  /\ op[p] \in DeployOps => pc[p] \in {"get", "miss", "version", "insert", "submit", "wait"}
  /\ op[p] \in UpdateOps => pc[p] \in {"get", "miss", "write", "store"}
  /\ op[p] \in RollbackOps =>
       pc[p] \in {"get", "miss", "lock", "target", "activate", "write", "store"}
  /\ op[p] = "delete" => pc[p] \in {"get", "miss", "lock", "delete", "uncache", "purge"}
  /\ op[p] = "mcpDelete" => pc[p] \in {"get", "miss", "delete", "uncache"}
  /\ op[p] = "build" => pc[p] \in {"lock", "get", "miss", "mark", "build", "publish", "write",
                                   "store", "switch", "finish", "fail", "error"}

\* The copy of the row is loaded: after a miss, and from Registry.Get on.
Loaded(p) ==
  \/ pc[p] \in {"miss", "write", "store", "target", "activate", "mark", "build", "publish",
                "switch", "finish", "error"}
  \/ op[p] \in RollbackOps /\ pc[p] = "lock"

\* A row that is there has settings.
Complete(r) == Exists(r) => r.cfg \in Settings

CopyKnown(p) ==
  /\ Complete(fn[p])
  /\ Loaded(p) => Exists(fn[p])
  /\ pc[p] = "publish" => fn[p].hash \in Hashes
  /\ op[p] = "build" /\ pc[p] = "store" => fn[p].status \in {"building", "active", "error"}

\* What a deployment's row says of itself.
DepKnown(d) ==
  /\ dep[d].status = "none" => dep[d].ver = 0
  /\ dep[d].status # "none" => dep[d].src \in Hashes
  /\ dep[d].status = "succeeded" => dep[d].snap \in Settings

\* MAX(version) exists.
VersionsBounded ==
  \E n \in {0} \cup {dep[d].ver : d \in Deployments} : \A d \in Deployments : dep[d].ver =< n

\* The goroutine has a deployment in its hands: a deploy until it has
\* submitted it, a build job until its end.
Holds(p) == op[p] \in DeployOps \cup {"build"} /\ pc[p] # "wait"
\* ... not yet inserted, or not yet finished.
Early(p) == op[p] \in DeployOps /\ pc[p] \in {"get", "miss", "version", "insert"}
Pending(p) ==
  \/ op[p] \in DeployOps /\ pc[p] = "submit"
  \/ /\ op[p] = "build" /\ pc[p] # "error"
     /\ ~(pc[p] = "store" /\ fn[p].status = "error")

\* A deployment is in one goroutine's hands or once in the channel, and its
\* row is as far as they are.
HeldRow(p) ==
  /\ Holds(p) => arg[p] \in Deployments
  /\ Early(p) => dep[arg[p]].status = "none"
  /\ Pending(p) => dep[arg[p]].status \in {"queued", "gone"}
  /\ op[p] = "build" => dep[arg[p]].status # "none"
  /\ pc[p] = "finish" /\ Recorded(arg[p]) => dep[arg[p]].snap \in Settings

OneHolder ==
  \A p, q \in Procs : Holds(p) /\ Holds(q) /\ arg[p] = arg[q] => p = q

ChannelApart ==
  /\ \A i \in 1 .. Len(jobs) : dep[jobs[i]].status \in {"queued", "gone"}
  /\ \A i, j \in 1 .. Len(jobs) : jobs[i] = jobs[j] => i = j
  /\ \A p \in Procs : \A i \in 1 .. Len(jobs) : Holds(p) => jobs[i] # arg[p]

\* Rollback and REST delete past Lock, and a build job, hold the function's lock.
Locked(p) ==
  \/ op[p] = "build" /\ pc[p] # "lock"
  \/ op[p] \in RollbackOps \cup {"delete"} /\ pc[p] \notin {"get", "miss", "lock"}

LocksHeld == \A p \in Procs : Locked(p) => lock = p

DeployInv ==
  /\ TypeOK
  /\ Complete(row) /\ Complete(cache)
  /\ \A p \in Procs : Path(p) /\ CopyKnown(p) /\ HeldRow(p)
  /\ \A d \in Deployments : DepKnown(d)
  /\ VersionsBounded
  /\ OneHolder /\ ChannelApart /\ LocksHeld

\* The build's last write of the row, whose symlink is switched next.
Wrote(p) == op[p] = "build" /\ pc[p] = "store" /\ fn[p].status = "active"

\* What a build or a rollback is about to activate is on disk.
Activates(p) ==
  \/ op[p] \in RollbackOps /\ pc[p] = "activate"
  \/ op[p] = "build" /\ pc[p] \in {"write", "switch"}
  \/ Wrote(p)

HashReady(p) == Activates(p) => fn[p].hash \in Ready

\* No tick of the GC runs.
DiskInv == gpc = "idle" /\ CurrentOnDisk /\ \A p \in Procs : HashReady(p)

\* The row, the deployment it names and `current` agree.
Agree(r) ==
  /\ r.hash = current /\ r.active \in Deployments
  /\ dep[r.active].status = "succeeded" /\ dep[r.active].hash = r.hash

\* The writer of the row has not finished with the symlink and the deployment.
Writing(p) ==
  \/ op[p] = "build" /\ pc[p] \in {"switch", "finish"}
  \/ Wrote(p)
  \/ op[p] \in RollbackOps /\ pc[p] = "write"

ServingCalls == {"get", "deploy", "mcpDeploy", "rollback", "mcpRollback", "gc"}

\* What a writer knows while it holds the lock.
WriterKnows(p) ==
  /\ op[p] \in {"none", "build"} \cup ServingCalls
  /\ op[p] \in RollbackOps /\ pc[p] \in {"activate", "write", "store"} =>
       /\ fn[p].status = "active" /\ fn[p].active \in Deployments
       /\ dep[fn[p].active].status = "succeeded" /\ dep[fn[p].active].hash = fn[p].hash
  /\ op[p] \in RollbackOps /\ pc[p] \in {"write", "store"} => fn[p].hash = current
  /\ op[p] \in RollbackOps \cup {"build"} /\ pc[p] = "store" => row = fn[p]
  /\ op[p] = "build" /\ pc[p] \in {"switch", "finish"} => row = fn[p] /\ fn[p].status = "active"
  /\ op[p] = "build" /\ Writing(p) => fn[p].active = arg[p]
  /\ pc[p] = "finish" =>
       /\ current = row.hash
       /\ dep[arg[p]].status = "queued" /\ dep[arg[p]].hash = row.hash

ServingInv ==
  /\ Exists(row) /\ gpc # "sweep"
  /\ \A d \in Deployments : dep[d].status # "gone"
  /\ \A p \in Procs : WriterKnows(p)
  /\ row.status = "active" /\ (\A p \in Procs : ~Writing(p)) => Agree(row)

\* Removing a directory leaves the others.
LEMMA WithoutKeeps ==
  ASSUME NEW s \in Seq(Hashes), NEW h
  PROVE  /\ Without(s, h) \in Seq(Hashes)
         /\ \A i \in 1..Len(s) : s[i] # h => \E j \in 1..Len(Without(s, h)) : Without(s, h)[j] = s[i]
<1> DEFINE at == {i \in 1..Len(s) : s[i] = h}
           k == CHOOSE i \in at : TRUE
           a == SubSeq(s, 1, k - 1)
           b == SubSeq(s, k + 1, Len(s))
<1>1. CASE at = {}
  BY <1>1 DEF Without
<1>2. CASE at # {}
  <2>1. k \in 1..Len(s) /\ s[k] = h
    BY <1>2
  <2>2. Without(s, h) = a \o b
    BY <1>2 DEF Without
  <2>3. Len(s) \in Nat /\ \A i \in 1..Len(s) : s[i] \in Hashes
    OBVIOUS
  <2> HIDE DEF k, at
  <2>4. /\ a \in Seq(Hashes) /\ Len(a) = k - 1
        /\ \A i \in 1..k - 1 : a[i] = s[i]
    <3>1. \A i \in 1..k - 1 : s[i] \in Hashes
      BY <2>1, <2>3
    <3> QED
      BY <2>1, <3>1, SubSeqProperties
  <2>5. /\ b \in Seq(Hashes) /\ Len(b) = Len(s) - k
        /\ \A i \in 1..Len(s) - k : b[i] = s[k + i]
    <3>1. (k + 1) \in Int /\ \A i \in k + 1..Len(s) : s[i] \in Hashes
      BY <2>1, <2>3
    <3> QED
      BY <2>1, <2>3, <3>1, SubSeqProperties
  <2> HIDE DEF a, b
  <2>6. /\ a \o b \in Seq(Hashes) /\ Len(a \o b) = Len(s) - 1
        /\ \A i \in 1..Len(s) - 1 : (a \o b)[i] = IF i < k THEN s[i] ELSE s[i + 1]
    <3>1. /\ a \o b \in Seq(Hashes) /\ Len(a \o b) = Len(a) + Len(b)
          /\ \A i \in 1..Len(a) + Len(b) :
               (a \o b)[i] = IF i <= Len(a) THEN a[i] ELSE b[i - Len(a)]
      BY <2>4, <2>5, ConcatProperties
    <3>2. Len(a) + Len(b) = Len(s) - 1
      BY <2>1, <2>3, <2>4, <2>5
    <3>3. ASSUME NEW i \in 1..Len(s) - 1
          PROVE  (a \o b)[i] = IF i < k THEN s[i] ELSE s[i + 1]
      <4>1. CASE i < k
        BY <2>1, <2>3, <2>4, <3>1, <3>2, <4>1
      <4>2. CASE i >= k
        <5>1. (a \o b)[i] = b[i - (k - 1)]
          BY <2>1, <2>3, <2>4, <3>1, <3>2, <4>2
        <5>2. i - (k - 1) \in 1..Len(s) - k /\ k + (i - (k - 1)) = i + 1
          BY <2>1, <2>3, <4>2
        <5> QED BY <2>1, <2>3, <2>5, <4>2, <5>1, <5>2
      <4>3. i < k \/ i >= k
        BY <2>1, <2>3
      <4> QED BY <4>1, <4>2, <4>3
    <3> QED BY <3>1, <3>2, <3>3
  <2>7. ASSUME NEW i \in 1..Len(s), s[i] # h
        PROVE  \E j \in 1..Len(a \o b) : (a \o b)[j] = s[i]
    <3>1. CASE i < k
      <4>1. i \in 1..Len(a \o b) /\ (a \o b)[i] = s[i]
        BY <2>1, <2>3, <2>6, <3>1
      <4> QED BY <4>1
    <3>2. CASE i > k
      <4>1. i - 1 \in 1..Len(s) - 1 /\ ~(i - 1 < k) /\ (i - 1) + 1 = i
        BY <2>1, <2>3, <3>2
      <4>2. i - 1 \in 1..Len(a \o b) /\ (a \o b)[i - 1] = s[i]
        BY <2>6, <4>1
      <4> QED BY <4>2
    <3> QED BY <2>1, <2>7, <3>1, <3>2
  <2> QED BY <2>2, <2>6, <2>7
<1> QED BY <1>1, <1>2

-----------------------------------------------------------------------------
(* Steps of one goroutine that leave deployments and channel alone.        *)

ProcTypes ==
  /\ op \in [Procs -> Ops] /\ pc \in [Procs -> Labels]
  /\ fn \in [Procs -> Rows] /\ arg \in [Procs -> Deployments \cup {NoDep}]
  /\ num \in [Procs -> Nat]

RestTypes ==
  /\ row \in Rows /\ cache \in Rows /\ Complete(row) /\ Complete(cache)
  /\ versions \in Seq(Hashes) /\ current \in Hashes \cup {NoHash}
  /\ calls \in 0 .. MaxCalls /\ acked \in Settings
  /\ gpc \in {"idle", "scan", "active", "remove", "sweep"}
  /\ gprune \in Seq(Hashes) /\ gwritten \in BOOLEAN

Others(p) ==
  \A q \in Procs : q # p =>
    op'[q] = op[q] /\ pc'[q] = pc[q] /\ fn'[q] = fn[q] /\ arg'[q] = arg[q]

\* The goroutine p moves on and no other one does.
Moves(p) ==
  /\ Others(p) /\ ProcTypes' /\ RestTypes'
  /\ Path(p)' /\ CopyKnown(p)'
  /\ lock' \in Procs \cup {Nobody}
  /\ Locked(p)' => lock' = p
  /\ \A q \in Procs : q # p /\ lock = q => lock' = q

\* ... and takes no deployment in hand.
Walks(p) ==
  /\ Moves(p)
  /\ UNCHANGED <<dep, jobs>>
  /\ Holds(p)' => Holds(p) /\ arg'[p] = arg[p]
  /\ Early(p)' => Early(p)
  /\ Pending(p)' => Pending(p)
  /\ op'[p] = "build" => op[p] = "build"
  /\ pc'[p] # "finish"

\* DeployInv without the conjuncts of its own.
LEMMA InvParts ==
  ASSUME DeployInv
  PROVE  /\ ProcTypes /\ RestTypes
         /\ dep \in [Deployments -> Deps] /\ jobs \in Seq(Deployments)
         /\ lock \in Procs \cup {Nobody}
         /\ \A p \in Procs : Path(p) /\ CopyKnown(p) /\ HeldRow(p)
         /\ \A d \in Deployments : DepKnown(d)
         /\ VersionsBounded /\ OneHolder /\ ChannelApart /\ LocksHeld
BY DEF DeployInv, TypeOK, ProcTypes, RestTypes

LEMMA InvFromParts ==
  ASSUME (ProcTypes /\ RestTypes)', (dep \in [Deployments -> Deps])', (jobs \in Seq(Deployments))',
         (lock \in Procs \cup {Nobody})',
         \A p \in Procs : Path(p)' /\ CopyKnown(p)' /\ HeldRow(p)',
         \A d \in Deployments : DepKnown(d)',
         (VersionsBounded /\ OneHolder /\ ChannelApart /\ LocksHeld)'
  PROVE  DeployInv'
BY DEF DeployInv, TypeOK, ProcTypes, RestTypes

\* The other goroutines' part of the invariant when p moves.
LEMMA OthersStay ==
  ASSUME DeployInv, NEW p \in Procs, Moves(p), NEW q \in Procs, q # p
  PROVE  /\ Path(q)' /\ CopyKnown(q)'
         /\ Holds(q)' <=> Holds(q)
         /\ Early(q)' <=> Early(q)
         /\ Pending(q)' <=> Pending(q)
         /\ arg'[q] = arg[q] /\ op'[q] = op[q] /\ pc'[q] = pc[q] /\ fn'[q] = fn[q]
         /\ Locked(q)' => lock' = q
<1>1. op'[q] = op[q] /\ pc'[q] = pc[q] /\ fn'[q] = fn[q] /\ arg'[q] = arg[q]
  BY DEF Moves, Others
<1>2. Path(q) /\ CopyKnown(q) /\ (Locked(q) => lock = q)
  BY InvParts DEF LocksHeld
<1>3. Locked(q)' <=> Locked(q)
  BY <1>1 DEF Locked
<1>4. Path(q)' /\ CopyKnown(q)'
  BY <1>1, <1>2 DEF Path, CopyKnown, Loaded, Complete, Exists
<1> QED
  BY <1>1, <1>2, <1>3, <1>4 DEF Holds, Early, Pending, Moves

LEMMA WalksKeep ==
  ASSUME DeployInv, NEW p \in Procs, Walks(p)
  PROVE  DeployInv'
<1>0. /\ ProcTypes /\ RestTypes
      /\ dep \in [Deployments -> Deps] /\ jobs \in Seq(Deployments)
      /\ \A q \in Procs : Path(q) /\ CopyKnown(q) /\ HeldRow(q)
      /\ \A d \in Deployments : DepKnown(d)
      /\ VersionsBounded /\ OneHolder /\ ChannelApart /\ LocksHeld
  BY InvParts
<1>1. Moves(p) /\ dep' = dep /\ jobs' = jobs
  BY DEF Walks
<1>2. ASSUME NEW q \in Procs
      PROVE  /\ Path(q)' /\ CopyKnown(q)'
             /\ Holds(q)' => Holds(q) /\ arg'[q] = arg[q]
             /\ Early(q)' => Early(q)
             /\ Pending(q)' => Pending(q)
             /\ op'[q] = "build" => op[q] = "build"
             /\ pc'[q] = "finish" => pc[q] = "finish"
             /\ Locked(q)' => lock' = q
  <2>1. CASE q = p
    BY <1>1, <2>1 DEF Walks, Moves
  <2>2. CASE q # p
    BY <1>1, <2>2, OthersStay
  <2> QED BY <2>1, <2>2
<1>3. ASSUME NEW q \in Procs PROVE HeldRow(q)'
  <2>1. HeldRow(q)
    BY <1>0
  <2>2. op'[q] = "build" => Holds(q)'
    BY <1>2 DEF Holds, Path
  <2>3. pc'[q] = "finish" => Holds(q)'
    BY <1>2, <1>1 DEF Holds, Path, DeployOps, RollbackOps, UpdateOps, Moves, ProcTypes, Ops, McpCalls
  <2>4. Early(q)' => Holds(q)'
    BY DEF Early, Holds
  <2>5. Pending(q)' => Holds(q)'
    BY <2>2 DEF Pending, Holds
  <2> QED
    BY <2>1, <2>2, <2>3, <2>4, <2>5, <1>1, <1>2 DEF HeldRow, Recorded
<1>4. OneHolder'
  BY <1>0, <1>2 DEF OneHolder
<1>5. ChannelApart'
  BY <1>0, <1>1, <1>2 DEF ChannelApart
<1>6. \A d \in Deployments : DepKnown(d)'
  BY <1>0, <1>1 DEF DepKnown
<1>7. VersionsBounded'
  BY <1>0, <1>1 DEF VersionsBounded
<1>8. LocksHeld'
  BY <1>2 DEF LocksHeld
<1>9. /\ (ProcTypes /\ RestTypes)' /\ (dep \in [Deployments -> Deps])'
      /\ (jobs \in Seq(Deployments))' /\ (lock \in Procs \cup {Nobody})'
  BY <1>0, <1>1 DEF Moves
<1> QED
  BY <1>2, <1>3, <1>4, <1>5, <1>6, <1>7, <1>8, <1>9, InvFromParts

\* A call or a build job ends.
LEMMA ReturnWalks ==
  ASSUME DeployInv, NEW p \in Procs, Return(p), RestTypes', UNCHANGED <<dep, jobs>>
  PROVE  Walks(p)
<1>1. ProcTypes /\ lock \in Procs \cup {Nobody}
  BY InvParts
<1>2. /\ op'[p] = "none" /\ pc'[p] = "idle" /\ fn'[p] = NoRow /\ arg'[p] = NoDep
      /\ Others(p) /\ ProcTypes'
  BY <1>1 DEF ProcTypes, Return, Goto, Others, Ops, Labels, NoRow, Rows
<1>3. Path(p)' /\ CopyKnown(p)' /\ ~Locked(p)' /\ ~Holds(p)' /\ ~Early(p)' /\ ~Pending(p)'
  BY <1>2 DEF Path, CopyKnown, Loaded, Complete, Exists, NoRow, Locked, Holds, Early, Pending,
              DeployOps, RollbackOps, UpdateOps
<1>4. lock' \in Procs \cup {Nobody} /\ \A q \in Procs : q # p /\ lock = q => lock' = q
  BY <1>1 DEF Return
<1> QED
  BY <1>2, <1>3, <1>4 DEF Walks, Moves

\* Where Registry.Get and the lock lead.
LEMMA AfterGetIs ==
  /\ \A o \in DeployOps : AfterGet[o] = "version"
  /\ \A o \in UpdateOps : AfterGet[o] = "write"
  /\ \A o \in RollbackOps \cup {"delete"} : AfterGet[o] = "lock"
  /\ AfterGet["mcpDelete"] = "delete" /\ AfterGet["build"] = "mark"
BY DEF AfterGet, DeployOps, UpdateOps, RollbackOps

LEMMA AfterLockIs ==
  /\ \A o \in RollbackOps : AfterLock[o] = "target"
  /\ AfterLock["delete"] = "delete" /\ AfterLock["build"] = "get"
BY DEF AfterLock, RollbackOps

LEMMA OpsAre ==
  \A o \in Ops : o \in DeployOps \cup UpdateOps \cup RollbackOps
                        \cup {"none", "get", "delete", "mcpDelete", "build"}
BY DEF Ops, McpCalls, DeployOps, UpdateOps, RollbackOps

\* From Registry.Get, with a copy when the call keeps one.
LEMMA GotWalks ==
  ASSUME DeployInv, NEW p \in Procs, pc[p] \in {"get", "miss"}, op[p] # "get",
         pc' = [pc EXCEPT ![p] = AfterGet[op[p]]],
         fn' \in [Procs -> Rows], \A q \in Procs : q # p => fn'[q] = fn[q],
         Complete(fn'[p]), KeepsCopy(p) => Exists(fn'[p]),
         RestTypes', UNCHANGED <<op, arg, num, lock, dep, jobs>>
  PROVE  Walks(p)
<1>1. ProcTypes /\ lock \in Procs \cup {Nobody} /\ Path(p) /\ (Locked(p) => lock = p)
  BY InvParts DEF LocksHeld
<1>2. op[p] \in DeployOps \cup UpdateOps \cup RollbackOps \cup {"delete", "mcpDelete", "build"}
  BY <1>1, OpsAre DEF ProcTypes, Path
<1>3. pc'[p] = AfterGet[op[p]] /\ \A q \in Procs : q # p => pc'[q] = pc[q]
  BY <1>1 DEF ProcTypes
<1>4. \/ op[p] \in DeployOps /\ pc'[p] = "version"
      \/ op[p] \in UpdateOps /\ pc'[p] = "write"
      \/ op[p] \in RollbackOps \cup {"delete"} /\ pc'[p] = "lock"
      \/ op[p] = "mcpDelete" /\ pc'[p] = "delete"
      \/ op[p] = "build" /\ pc'[p] = "mark"
  BY <1>2, <1>3, AfterGetIs
<1>5. pc'[p] \in Labels
  BY <1>4 DEF Labels
<1>6. Others(p) /\ ProcTypes'
  BY <1>1, <1>3, <1>5 DEF Others, ProcTypes
<1>7. Path(p)'
  BY <1>1, <1>4 DEF Path, DeployOps, UpdateOps, RollbackOps
<1>8. CopyKnown(p)'
  BY <1>4 DEF CopyKnown, Loaded, KeepsCopy, DeployOps, UpdateOps, RollbackOps
<1>9. Locked(p)' => lock' = p
  BY <1>1, <1>4 DEF Locked, DeployOps, UpdateOps, RollbackOps
<1>10. (Holds(p)' => Holds(p)) /\ (Early(p)' => Early(p)) /\ (Pending(p)' => Pending(p))
  BY <1>4 DEF Holds, Early, Pending, DeployOps, UpdateOps, RollbackOps
<1> QED
  BY <1>1, <1>4, <1>6, <1>7, <1>8, <1>9, <1>10 DEF Walks, Moves

LEMMA GetHitWalks ==
  ASSUME DeployInv, NEW p \in Procs, GetHit(p)
  PROVE  Walks(p)
<1>1. ProcTypes /\ RestTypes /\ CopyKnown(p)
  BY InvParts
<1>2. RestTypes' /\ UNCHANGED <<dep, jobs>>
  BY <1>1 DEF GetHit, RestTypes, Complete, Exists, fsVars, gcVars
<1>3. CASE op[p] = "get"
  BY <1>2, <1>3, ReturnWalks DEF GetHit
<1>4. CASE op[p] # "get"
  <2>1. /\ fn' \in [Procs -> Rows] /\ \A q \in Procs : q # p => fn'[q] = fn[q]
        /\ Complete(fn'[p]) /\ (KeepsCopy(p) => Exists(fn'[p]))
    BY <1>1, <1>4 DEF GetHit, ProcTypes, RestTypes, CopyKnown
  <2> QED
    BY <1>2, <1>4, <2>1, GotWalks DEF GetHit, Goto
<1> QED BY <1>3, <1>4

LEMMA GetMissWalks ==
  ASSUME DeployInv, NEW p \in Procs, GetMiss(p)
  PROVE  Walks(p)
<1>1. /\ ProcTypes /\ RestTypes /\ CopyKnown(p) /\ Path(p) /\ (Locked(p) => lock = p)
      /\ lock \in Procs \cup {Nobody}
  BY InvParts DEF LocksHeld
<1>2. RestTypes' /\ UNCHANGED <<dep, jobs>>
  BY <1>1 DEF GetMiss, RestTypes, Complete, Exists, fsVars, gcVars
<1>3. CASE Return(p)
  BY <1>2, <1>3, ReturnWalks
<1>4. CASE Exists(row) /\ fn' = [fn EXCEPT ![p] = row] /\ Goto(p, "miss")
           /\ UNCHANGED <<op, arg, num, lock>>
  <2>1. fn'[p] = row /\ pc'[p] = "miss" /\ op'[p] = op[p] /\ arg'[p] = arg[p]
    BY <1>1, <1>4 DEF ProcTypes, Goto
  <2>2. Others(p) /\ ProcTypes'
    BY <1>1, <1>4 DEF ProcTypes, Goto, Others, RestTypes, Labels
  <2>3. Path(p)' /\ CopyKnown(p)'
    BY <1>1, <1>4, <2>1 DEF GetMiss, Path, CopyKnown, Loaded, Complete, RestTypes,
                            DeployOps, UpdateOps, RollbackOps
  <2>4. /\ Locked(p)' => lock' = p
        /\ Holds(p)' => Holds(p)
        /\ Early(p)' => Early(p)
        /\ Pending(p)' => Pending(p)
    BY <1>1, <1>4, <2>1 DEF GetMiss, Locked, Holds, Early, Pending, DeployOps, RollbackOps
  <2> QED
    BY <1>1, <1>2, <1>4, <2>1, <2>2, <2>3, <2>4 DEF Walks, Moves
<1>5. CASE op[p] = "build" /\ Goto(p, "fail") /\ UNCHANGED <<op, fn, arg, num, lock>>
  <2>1. fn'[p] = fn[p] /\ pc'[p] = "fail" /\ op'[p] = "build" /\ arg'[p] = arg[p]
    BY <1>1, <1>5 DEF ProcTypes, Goto
  <2>2. Others(p) /\ ProcTypes'
    BY <1>1, <1>5 DEF ProcTypes, Goto, Others, Labels
  <2>3. Path(p)' /\ CopyKnown(p)'
    BY <1>1, <2>1 DEF Path, CopyKnown, Loaded, Complete, Exists, DeployOps, UpdateOps, RollbackOps
  <2>4. /\ Locked(p)' => lock' = p
        /\ Holds(p)' => Holds(p)
        /\ Early(p)' => Early(p)
        /\ Pending(p)' => Pending(p)
    BY <1>1, <1>5, <2>1 DEF GetMiss, Locked, Holds, Early, Pending, DeployOps, RollbackOps
  <2> QED
    BY <1>1, <1>2, <1>5, <2>1, <2>2, <2>3, <2>4 DEF Walks, Moves
<1> QED BY <1>3, <1>4, <1>5 DEF GetMiss

LEMMA ResolveByNameWalks ==
  ASSUME DeployInv, NEW p \in Procs, ResolveByName(p)
  PROVE  Walks(p)
<1>1. ProcTypes /\ RestTypes /\ CopyKnown(p)
  BY InvParts
<1>2. RestTypes' /\ UNCHANGED <<dep, jobs>>
  BY <1>1 DEF ResolveByName, RestTypes, Complete, Exists, fsVars, gcVars
<1>3. op[p] # "get"
  BY DEF ResolveByName, McpCalls
<1>4. /\ fn' \in [Procs -> Rows] /\ \A q \in Procs : q # p => fn'[q] = fn[q]
      /\ Complete(fn'[p]) /\ (KeepsCopy(p) => Exists(fn'[p]))
  BY <1>1 DEF ResolveByName, ProcTypes, RestTypes, CopyKnown
<1> QED
  BY <1>2, <1>3, <1>4, GotWalks DEF ResolveByName, Goto

LEMMA GetStoreWalks ==
  ASSUME DeployInv, NEW p \in Procs, GetStore(p)
  PROVE  Walks(p)
<1>1. ProcTypes /\ RestTypes /\ CopyKnown(p)
  BY InvParts
<1>2. cache' \in Rows /\ Complete(cache')
  BY <1>1 DEF GetStore, ProcTypes, CopyKnown
<1>3. RestTypes' /\ UNCHANGED <<dep, jobs>>
  BY <1>1, <1>2 DEF GetStore, RestTypes, Complete, Exists, fsVars, gcVars
<1>4. CASE op[p] = "get"
  BY <1>3, <1>4, ReturnWalks DEF GetStore
<1>5. CASE op[p] # "get"
  <2>1. NoRow \in Rows /\ Complete(NoRow)
    BY DEF NoRow, Rows, Complete, Exists
  <2>2. /\ fn' \in [Procs -> Rows] /\ \A q \in Procs : q # p => fn'[q] = fn[q]
        /\ Complete(fn'[p]) /\ (KeepsCopy(p) => Exists(fn'[p]))
    BY <1>1, <1>5, <2>1 DEF GetStore, ProcTypes, CopyKnown, Loaded
  <2> QED
    BY <1>3, <1>5, <2>2, GotWalks DEF GetStore, Goto
<1> QED BY <1>4, <1>5

\* A goroutine goes on in its call.
LEMMA LabelWalks ==
  ASSUME DeployInv, NEW p \in Procs, NEW l \in Labels, Goto(p, l), l # "finish",
         fn' \in [Procs -> Rows], \A q \in Procs : q # p => fn'[q] = fn[q],
         arg' \in [Procs -> Deployments \cup {NoDep}], \A q \in Procs : q # p => arg'[q] = arg[q],
         num' \in [Procs -> Nat], RestTypes', UNCHANGED <<op, dep, jobs, lock>>,
         Path(p)', CopyKnown(p)', Locked(p)' => Locked(p),
         Holds(p)' => Holds(p) /\ arg'[p] = arg[p], Early(p)' => Early(p), Pending(p)' => Pending(p)
  PROVE  Walks(p)
<1>1. ProcTypes /\ lock \in Procs \cup {Nobody} /\ (Locked(p) => lock = p)
  BY InvParts DEF LocksHeld
<1>2. Others(p) /\ ProcTypes' /\ pc'[p] = l
  BY <1>1 DEF Others, ProcTypes, Goto
<1> QED
  BY <1>1, <1>2 DEF Walks, Moves

LEMMA LockWalks ==
  ASSUME DeployInv, NEW p \in Procs, Lock(p)
  PROVE  Walks(p)
<1>1. /\ ProcTypes /\ RestTypes /\ CopyKnown(p) /\ Path(p) /\ (Locked(p) => lock = p)
      /\ lock \in Procs \cup {Nobody}
  BY InvParts DEF LocksHeld
<1>2. RestTypes'
  BY <1>1 DEF Lock, RestTypes, Complete, Exists, fsVars, gcVars
<1>3. op[p] \in RollbackOps \cup {"delete", "build"}
  BY <1>1, OpsAre DEF Lock, Path, ProcTypes, DeployOps, UpdateOps, RollbackOps
<1>4. pc'[p] = AfterLock[op[p]] /\ op'[p] = op[p] /\ fn'[p] = fn[p] /\ arg'[p] = arg[p]
  BY <1>1 DEF Lock, Goto, ProcTypes
<1>5. \/ op[p] \in RollbackOps /\ pc'[p] = "target"
      \/ op[p] = "delete" /\ pc'[p] = "delete"
      \/ op[p] = "build" /\ pc'[p] = "get"
  BY <1>3, <1>4, AfterLockIs
<1>6. pc'[p] \in Labels
  BY <1>5 DEF Labels
<1>7. Others(p) /\ ProcTypes'
  BY <1>1, <1>4, <1>6 DEF Lock, Goto, Others, ProcTypes
<1>8. Path(p)' /\ CopyKnown(p)'
  BY <1>1, <1>4, <1>5 DEF Lock, Path, CopyKnown, Loaded, Complete, Exists,
                          DeployOps, UpdateOps, RollbackOps
<1>9. (Holds(p)' => Holds(p)) /\ (Early(p)' => Early(p)) /\ (Pending(p)' => Pending(p))
  BY <1>4, <1>5 DEF Lock, Holds, Early, Pending, DeployOps, RollbackOps
<1>10. lock' = p /\ \A q \in Procs : q # p /\ lock = q => lock' = q
  BY DeployAssumption DEF Lock, Procs
<1> QED
  BY <1>2, <1>4, <1>5, <1>7, <1>8, <1>9, <1>10 DEF Lock, Walks, Moves

\* The database half of Registry.set.
LEMMA SetRowWalks ==
  ASSUME DeployInv, NEW p \in Procs, NEW r \in Rows, SetRow(p, r), Exists(r), r.cfg \in Settings,
         pc[p] \in {"write", "mark", "error"},
         op[p] = "build" => r.status \in {"building", "active", "error"},
         pc[p] = "error" => r.status = "error"
  PROVE  Walks(p)
<1>1. ProcTypes /\ RestTypes /\ CopyKnown(p) /\ Path(p)
  BY InvParts
<1>2. NoRow \in Rows /\ Complete(NoRow) /\ Complete(r)
  BY DEF NoRow, Rows, Complete, Exists
<1>3. RestTypes'
  BY <1>1, <1>2 DEF SetRow, RestTypes, Complete, Exists, fsVars, gcVars
<1>4. pc'[p] = "store" /\ op'[p] = op[p] /\ fn'[p] = r /\ arg'[p] = arg[p]
  BY <1>1 DEF SetRow, Goto, ProcTypes
<1>5. fn' \in [Procs -> Rows] /\ \A q \in Procs : q # p => fn'[q] = fn[q]
  BY <1>1 DEF SetRow, ProcTypes
<1>6. Path(p)' /\ CopyKnown(p)'
  BY <1>1, <1>2, <1>4 DEF Path, CopyKnown, Loaded, Complete, Exists, DeployOps, UpdateOps, RollbackOps
<1>7. /\ Locked(p)' => Locked(p)
      /\ Holds(p)' => Holds(p)
      /\ Early(p)' => Early(p)
      /\ Pending(p)' => Pending(p)
  BY <1>4 DEF Locked, Holds, Early, Pending, DeployOps, UpdateOps, RollbackOps
<1>8. "store" \in Labels
  BY DEF Labels
<1> QED
  BY <1>1, <1>3, <1>4, <1>5, <1>6, <1>7, <1>8, LabelWalks DEF SetRow, ProcTypes

LEMMA UpdateWalks ==
  ASSUME DeployInv, NEW p \in Procs, Update(p) \/ McpUpdate(p)
  PROVE  Walks(p)
<1>1. ProcTypes /\ CopyKnown(p) /\ pc[p] = "write" /\ op[p] # "build"
  BY InvParts DEF Update, McpUpdate
<1>2. fn[p] \in Rows /\ fn[p].status \in {"created", "building", "active", "inactive", "error"}
  BY <1>1 DEF ProcTypes, CopyKnown, Loaded, Exists, Rows
<1>3. PICK cfg \in Settings, s \in {fn[p].status, "active", "inactive"} :
        \/ SetRow(p, [fn[p] EXCEPT !.cfg = cfg, !.status = s, !.ver = @ + 1])
        \/ SetRow(p, [fn[p] EXCEPT !.cfg = cfg, !.status = s])
  BY DEF Update, McpUpdate
<1>4. s \in {"created", "building", "active", "inactive", "error"}
  BY <1>2
<1>5. CASE SetRow(p, [fn[p] EXCEPT !.cfg = cfg, !.status = s, !.ver = @ + 1])
  <2> DEFINE r == [fn[p] EXCEPT !.cfg = cfg, !.status = s, !.ver = @ + 1]
  <2>0. r = [fn[p] EXCEPT !.cfg = cfg, !.status = s, !.ver = @ + 1] /\ SetRow(p, r)
    BY <1>5
  <2> HIDE DEF r
  <2>3. r = [status |-> s, hash |-> fn[p].hash, active |-> fn[p].active, cfg |-> cfg,
             ver |-> fn[p].ver + 1]
    BY <1>2, <2>0 DEF Rows
  <2>1. r \in Rows /\ r.status = s /\ r.cfg = cfg
    BY <1>2, <1>4, <2>3 DEF Rows
  <2>2. Exists(r) /\ r.cfg \in Settings /\ SetRow(p, r)
    BY <2>0, <2>1, <1>4 DEF Exists
  <2> QED
    BY <1>1, <2>1, <2>2, SetRowWalks
<1>6. CASE SetRow(p, [fn[p] EXCEPT !.cfg = cfg, !.status = s])
  <2> DEFINE r == [fn[p] EXCEPT !.cfg = cfg, !.status = s]
  <2>1. r \in Rows /\ Exists(r) /\ r.cfg \in Settings
    BY <1>2, <1>4 DEF Rows, Exists
  <2> HIDE DEF r
  <2>2. SetRow(p, r)
    BY <1>6 DEF r
  <2> QED
    BY <1>1, <2>1, <2>2, SetRowWalks
<1> QED BY <1>3, <1>5, <1>6

LEMMA RollbackWriteWalks ==
  ASSUME DeployInv, NEW p \in Procs, RollbackWrite(p) \/ McpRollbackWrite(p)
  PROVE  Walks(p)
<1>1. ProcTypes /\ CopyKnown(p)
  BY InvParts
<1>2. /\ SetRow(p, fn[p]) /\ pc[p] = "write" /\ op[p] # "build"
      /\ fn[p] \in Rows /\ Exists(fn[p]) /\ fn[p].cfg \in Settings
  BY <1>1 DEF RollbackWrite, McpRollbackWrite, CopyKnown, Loaded, Complete, ProcTypes
<1> QED
  BY <1>2, SetRowWalks

\* A build job writes the row: when it begins, when it is built, and when it failed.
LEMMA BuildWritesWalk ==
  ASSUME DeployInv, NEW p \in Procs,
         MarkBuilding(p) \/ BuildWrite(p) \/ MarkError(p)
  PROVE  Walks(p)
<1>1. ProcTypes /\ RestTypes /\ CopyKnown(p) /\ Path(p) /\ HeldRow(p)
  BY InvParts
<1>2. op[p] = "build" /\ arg[p] \in Deployments
  BY <1>1 DEF MarkBuilding, BuildWrite, MarkError, Path, ProcTypes, Ops, McpCalls, HeldRow, Holds,
              DeployOps, UpdateOps, RollbackOps
<1>3. /\ fn[p] \in Rows /\ fn[p].status \in {"created", "building", "active", "inactive", "error"}
      /\ fn[p].cfg \in Settings
  BY <1>1 DEF ProcTypes, CopyKnown, Loaded, Exists, Complete, Rows, MarkBuilding, BuildWrite, MarkError
<1>4. CASE MarkBuilding(p) /\ fn[p].status \in {"created", "error"}
  <2> DEFINE r == [fn[p] EXCEPT !.status = "building"]
  <2>1. r \in Rows /\ Exists(r) /\ r.cfg \in Settings /\ r.status = "building"
    BY <1>3 DEF Rows, Exists
  <2>2. SetRow(p, r) /\ pc[p] = "mark"
    BY <1>4 DEF MarkBuilding
  <2> HIDE DEF r
  <2> QED
    BY <2>1, <2>2, SetRowWalks
<1>5. CASE MarkBuilding(p) /\ fn[p].status \notin {"created", "error"}
  <2>1. Goto(p, "build") /\ RestTypes' /\ UNCHANGED <<op, fn, arg, num, lock, dep, jobs>>
    BY <1>1, <1>5 DEF MarkBuilding, RestTypes, Complete, Exists, fsVars, gcVars
  <2>2. pc'[p] = "build" /\ pc[p] = "mark"
    BY <1>1, <1>5, <2>1 DEF Goto, ProcTypes, MarkBuilding
  <2>3. Path(p)' /\ CopyKnown(p)'
    BY <1>1, <1>2, <1>3, <2>1, <2>2 DEF Path, CopyKnown, Loaded, Complete, Exists,
                                       DeployOps, UpdateOps, RollbackOps
  <2>4. /\ Locked(p)' => Locked(p)
        /\ Holds(p)' => Holds(p)
        /\ Early(p)' => Early(p)
        /\ Pending(p)' => Pending(p)
    BY <1>2, <2>1, <2>2 DEF Locked, Holds, Early, Pending, DeployOps, UpdateOps, RollbackOps
  <2>5. "build" \in Labels
    BY DEF Labels
  <2> QED
    BY <1>1, <2>1, <2>3, <2>4, <2>5, LabelWalks DEF ProcTypes
<1>6. CASE BuildWrite(p)
  <2> DEFINE r == [fn[p] EXCEPT !.status = "active", !.active = arg[p], !.ver = @ + 1]
  <2>0. r = [fn[p] EXCEPT !.status = "active", !.active = arg[p], !.ver = @ + 1]
    OBVIOUS
  <2>2. SetRow(p, r) /\ pc[p] = "write"
    BY <1>6 DEF BuildWrite
  <2> HIDE DEF r
  <2>3. r = [status |-> "active", hash |-> fn[p].hash, active |-> arg[p], cfg |-> fn[p].cfg,
             ver |-> fn[p].ver + 1]
    BY <1>3, <2>0 DEF Rows
  <2>1. r \in Rows /\ Exists(r) /\ r.cfg \in Settings /\ r.status = "active"
    BY <1>2, <1>3, <2>3 DEF Rows, Exists
  <2> QED
    BY <2>1, <2>2, SetRowWalks
<1>7. CASE MarkError(p)
  <2> DEFINE r == [fn[p] EXCEPT !.status = "error"]
  <2>1. r \in Rows /\ Exists(r) /\ r.cfg \in Settings /\ r.status = "error"
    BY <1>3 DEF Rows, Exists
  <2>2. SetRow(p, r) /\ pc[p] = "error"
    BY <1>7 DEF MarkError
  <2> HIDE DEF r
  <2> QED
    BY <2>1, <2>2, SetRowWalks
<1> QED BY <1>4, <1>5, <1>6, <1>7

LEMMA SetCacheWalks ==
  ASSUME DeployInv, NEW p \in Procs, SetCache(p)
  PROVE  Walks(p)
<1>1. ProcTypes /\ RestTypes /\ CopyKnown(p) /\ Path(p)
  BY InvParts
<1>2. fn[p] \in Rows /\ Complete(fn[p]) /\ fn[p].cfg \in Settings
  BY <1>1 DEF SetCache, ProcTypes, CopyKnown, Loaded, Complete
<1>3. RestTypes' /\ UNCHANGED <<dep, jobs>>
  BY <1>1, <1>2 DEF SetCache, RestTypes, Complete, Exists, fsVars, gcVars
<1>4. CASE Return(p)
  BY <1>3, <1>4, ReturnWalks
<1>5. CASE ~Return(p)
  <2> DEFINE l == IF fn[p].status = "building" THEN "build" ELSE "switch"
  <2>1. /\ op[p] = "build" /\ pc[p] = "store" /\ fn[p].status # "error"
        /\ Goto(p, l) /\ UNCHANGED <<op, fn, arg, num, lock>>
    BY <1>5 DEF SetCache
  <2>2. l \in {"build", "switch"} /\ l \in Labels
    BY DEF Labels
  <2> HIDE DEF l
  <2>3. pc'[p] = l
    BY <1>1, <2>1 DEF Goto, ProcTypes
  <2>4. Path(p)' /\ CopyKnown(p)'
    BY <1>1, <1>2, <2>1, <2>2, <2>3 DEF Path, CopyKnown, Loaded, Complete, Exists,
                                         DeployOps, UpdateOps, RollbackOps
  <2>5. /\ Locked(p)' => Locked(p)
        /\ Holds(p)' => Holds(p)
        /\ Early(p)' => Early(p)
        /\ Pending(p)' => Pending(p)
    BY <2>1, <2>2, <2>3 DEF Locked, Holds, Early, Pending, DeployOps, UpdateOps, RollbackOps
  <2> QED
    BY <1>1, <1>3, <2>1, <2>2, <2>4, <2>5, LabelWalks DEF ProcTypes
<1> QED BY <1>4, <1>5

LEMMA NextVersionIsNat ==
  ASSUME DeployInv
  PROVE  NextVersion \in Nat
<1> DEFINE S == {0} \cup {dep[d].ver : d \in Deployments}
           n == CHOOSE n \in S : \A d \in Deployments : dep[d].ver =< n
<1>1. \A d \in Deployments : dep[d].ver \in Nat
  BY InvParts DEF Deps
<1>2. n \in S
  BY InvParts DEF VersionsBounded
<1>3. S \subseteq Nat
  BY <1>1
<1>4. NextVersion = 1 + n
  BY DEF NextVersion
<1> HIDE DEF n, S
<1> QED
  BY <1>2, <1>3, <1>4

LEMMA AllocateWalks ==
  ASSUME DeployInv, NEW p \in Procs, Allocate(p), op[p] \in DeployOps
  PROVE  Walks(p)
<1>1. ProcTypes /\ RestTypes /\ CopyKnown(p) /\ Path(p)
  BY InvParts
<1>2. RestTypes' /\ UNCHANGED <<op, fn, arg, dep, jobs, lock>> /\ Goto(p, "insert")
  BY <1>1 DEF Allocate, RestTypes, Complete, Exists, fsVars, gcVars
<1>3. num' \in [Procs -> Nat]
  BY <1>1, NextVersionIsNat DEF Allocate, ProcTypes
<1>4. pc'[p] = "insert" /\ pc[p] = "version"
  BY <1>1 DEF Allocate, Goto, ProcTypes
<1>5. Path(p)' /\ CopyKnown(p)'
  BY <1>1, <1>2, <1>4 DEF Path, CopyKnown, Loaded, Complete, Exists, DeployOps, UpdateOps, RollbackOps
<1>6. /\ Locked(p)' => Locked(p)
      /\ Holds(p)' => Holds(p)
      /\ Early(p)' => Early(p)
      /\ Pending(p)' => Pending(p)
  BY <1>2, <1>4 DEF Locked, Holds, Early, Pending, DeployOps, RollbackOps
<1>7. "insert" \in Labels
  BY DEF Labels
<1> QED
  BY <1>1, <1>2, <1>3, <1>5, <1>6, <1>7, LabelWalks DEF ProcTypes

LEMMA WaitWalks ==
  ASSUME DeployInv, NEW p \in Procs, WaitDeployment(p)
  PROVE  Walks(p)
<1>1. RestTypes' /\ UNCHANGED <<dep, jobs>>
  BY InvParts DEF WaitDeployment, RestTypes, Complete, Exists, fsVars, gcVars
<1> QED
  BY <1>1, ReturnWalks DEF WaitDeployment

LEMMA TargetWalks ==
  ASSUME DeployInv, NEW p \in Procs, Target(p), op[p] \in RollbackOps
  PROVE  Walks(p)
<1>1. ProcTypes /\ RestTypes /\ CopyKnown(p) /\ Path(p) /\ dep \in [Deployments -> Deps]
  BY InvParts
<1>2. RestTypes' /\ UNCHANGED <<dep, jobs>>
  BY <1>1 DEF Target, RestTypes, Complete, Exists, fsVars, gcVars
<1>3. CASE Return(p)
  BY <1>2, <1>3, ReturnWalks
<1>4. CASE ~Return(p)
  <2>1. PICK d \in Deployments :
          /\ dep[d].status = "succeeded"
          /\ arg' = [arg EXCEPT ![p] = d]
          /\ fn' = [fn EXCEPT ![p] = [@ EXCEPT !.hash = dep[d].hash, !.cfg = dep[d].snap,
                                              !.status = "active", !.active = d]]
          /\ Goto(p, "activate")
          /\ UNCHANGED <<op, num, lock>>
    BY <1>4 DEF Target
  <2>2. dep[d].hash \in Hashes \cup {NoHash} /\ dep[d].snap \in Settings
    BY <1>1, <2>1, InvParts DEF Deps, DepKnown
  <2>3. fn'[p] = [fn[p] EXCEPT !.hash = dep[d].hash, !.cfg = dep[d].snap,
                               !.status = "active", !.active = d]
    BY <1>1, <2>1 DEF ProcTypes
  <2>0. fn[p] \in Rows
    BY <1>1 DEF ProcTypes
  <2>4. fn'[p] = [status |-> "active", hash |-> dep[d].hash, active |-> d, cfg |-> dep[d].snap,
                  ver |-> fn[p].ver]
    BY <2>0, <2>3 DEF Rows
  <2>5. fn'[p] \in Rows /\ fn'[p].status = "active" /\ fn'[p].cfg \in Settings
    BY <1>1, <2>2, <2>4 DEF ProcTypes, Rows
  <2>6. fn' \in [Procs -> Rows] /\ \A q \in Procs : q # p => fn'[q] = fn[q]
    BY <1>1, <2>1, <2>5 DEF ProcTypes
  <2>7. pc'[p] = "activate" /\ pc[p] = "target" /\ op'[p] = op[p]
    BY <1>1, <2>1 DEF Target, Goto, ProcTypes
  <2>8. Path(p)' /\ CopyKnown(p)'
    BY <2>5, <2>7 DEF Path, CopyKnown, Loaded, Complete, Exists, DeployOps, UpdateOps, RollbackOps
  <2>9. /\ Locked(p)' => Locked(p)
        /\ ~Holds(p)' /\ ~Early(p)' /\ ~Pending(p)'
    BY <2>7 DEF Locked, Holds, Early, Pending, DeployOps, RollbackOps
  <2>10. arg' \in [Procs -> Deployments \cup {NoDep}] /\ \A q \in Procs : q # p => arg'[q] = arg[q]
    BY <1>1, <2>1 DEF ProcTypes
  <2>11. "activate" \in Labels /\ num' \in [Procs -> Nat] /\ op' = op /\ lock' = lock
    BY <1>1, <2>1 DEF Labels, ProcTypes
  <2> QED
    BY <1>1, <1>2, <2>1, <2>6, <2>8, <2>9, <2>10, <2>11, LabelWalks
<1> QED BY <1>3, <1>4

LEMMA RollbackActivateWalks ==
  ASSUME DeployInv, NEW p \in Procs, RollbackActivate(p)
  PROVE  Walks(p)
<1>1. ProcTypes /\ RestTypes /\ CopyKnown(p) /\ Path(p)
  BY InvParts
<1>2. current' \in Hashes \cup {NoHash} /\ gwritten' \in BOOLEAN
  BY <1>1 DEF RollbackActivate, RestTypes, ProcTypes, Rows
<1>3. RestTypes' /\ UNCHANGED <<dep, jobs>>
  BY <1>1, <1>2 DEF RollbackActivate, RestTypes, Complete, Exists
<1>4. CASE Return(p)
  BY <1>3, <1>4, ReturnWalks
<1>5. CASE ~Return(p)
  <2>1. Goto(p, "write") /\ UNCHANGED <<op, fn, arg, num, lock>> /\ pc[p] = "activate"
    BY <1>5 DEF RollbackActivate
  <2>2. pc'[p] = "write" /\ op[p] \in RollbackOps
    BY <1>1, <2>1, OpsAre DEF Goto, ProcTypes, Path, DeployOps, UpdateOps, RollbackOps
  <2>3. Path(p)' /\ CopyKnown(p)'
    BY <1>1, <2>1, <2>2 DEF Path, CopyKnown, Loaded, Complete, Exists, DeployOps, UpdateOps, RollbackOps
  <2>4. /\ Locked(p)' => Locked(p)
        /\ ~Holds(p)' /\ ~Early(p)' /\ ~Pending(p)'
    BY <2>1, <2>2 DEF Locked, Holds, Early, Pending, DeployOps, RollbackOps
  <2>5. "write" \in Labels
    BY DEF Labels
  <2> QED
    BY <1>1, <1>3, <2>1, <2>3, <2>4, <2>5, LabelWalks DEF ProcTypes
<1> QED BY <1>4, <1>5

LEMMA DeleteCachedWalks ==
  ASSUME DeployInv, NEW p \in Procs, DeleteCached(p)
  PROVE  Walks(p)
<1>1. ProcTypes /\ RestTypes /\ CopyKnown(p) /\ Path(p)
  BY InvParts
<1>2. NoRow \in Rows /\ Complete(NoRow)
  BY DEF NoRow, Rows, Complete, Exists
<1>3. RestTypes' /\ UNCHANGED <<dep, jobs>>
  BY <1>1, <1>2 DEF DeleteCached, RestTypes, Complete, Exists, fsVars, gcVars
<1>4. CASE Return(p)
  BY <1>3, <1>4, ReturnWalks
<1>5. CASE ~Return(p)
  <2>1. Goto(p, "purge") /\ UNCHANGED <<op, fn, arg, num, lock>> /\ pc[p] = "uncache" /\ op[p] # "mcpDelete"
    BY <1>5 DEF DeleteCached
  <2>2. pc'[p] = "purge" /\ op[p] = "delete"
    BY <1>1, <2>1, OpsAre DEF Goto, ProcTypes, Path, DeployOps, UpdateOps, RollbackOps
  <2>3. Path(p)' /\ CopyKnown(p)'
    BY <1>1, <2>1, <2>2 DEF Path, CopyKnown, Loaded, Complete, Exists, DeployOps, UpdateOps, RollbackOps
  <2>4. /\ Locked(p)' => Locked(p)
        /\ ~Holds(p)' /\ ~Early(p)' /\ ~Pending(p)'
    BY <2>1, <2>2 DEF Locked, Holds, Early, Pending, DeployOps, RollbackOps
  <2>5. "purge" \in Labels
    BY DEF Labels
  <2> QED
    BY <1>1, <1>3, <2>1, <2>3, <2>4, <2>5, LabelWalks DEF ProcTypes
<1> QED BY <1>4, <1>5

LEMMA PurgeFilesWalks ==
  ASSUME DeployInv, NEW p \in Procs, PurgeFiles(p)
  PROVE  Walks(p)
<1>1. RestTypes' /\ UNCHANGED <<dep, jobs>>
  BY InvParts DEF PurgeFiles, RestTypes, Complete, Exists, gcVars
<1> QED
  BY <1>1, ReturnWalks DEF PurgeFiles

LEMMA BuildWalks ==
  ASSUME DeployInv, NEW p \in Procs, Build(p)
  PROVE  Walks(p)
<1>1. ProcTypes /\ RestTypes /\ CopyKnown(p) /\ Path(p) /\ HeldRow(p)
  BY InvParts
<1>2. pc[p] = "build" /\ op[p] = "build" /\ arg[p] \in Deployments
  BY <1>1, OpsAre DEF Build, Path, ProcTypes, HeldRow, Holds, DeployOps, UpdateOps, RollbackOps
<1>3. dep[arg[p]].src \in Hashes
  BY <1>1, <1>2, InvParts DEF HeldRow, DepKnown
<1>4. gwritten' \in BOOLEAN
  BY <1>1 DEF Build, RestTypes
<1>5. RestTypes' /\ UNCHANGED <<op, arg, num, dep, jobs, lock>>
  BY <1>1, <1>4 DEF Build, RestTypes, Complete, Exists, fsVars
<1>6. PICK l \in {"write", "publish", "fail"} :
        /\ Goto(p, l)
        /\ \/ fn' = [fn EXCEPT ![p].hash = dep[arg[p]].src]
           \/ fn' = fn /\ l = "fail"
  BY DEF Build
<1>7. pc'[p] = l /\ l \in Labels
  BY <1>1, <1>6 DEF Goto, ProcTypes, Labels
<1>8. /\ fn'[p] \in Rows /\ fn'[p].status = fn[p].status /\ fn'[p].cfg = fn[p].cfg
      /\ fn'[p].hash \in Hashes \/ l = "fail"
  BY <1>1, <1>3, <1>6 DEF ProcTypes, Rows
<1>9. fn' \in [Procs -> Rows] /\ \A q \in Procs : q # p => fn'[q] = fn[q]
  BY <1>1, <1>6, <1>8 DEF ProcTypes
<1>10. Path(p)' /\ CopyKnown(p)'
  BY <1>1, <1>2, <1>5, <1>7, <1>8 DEF Path, CopyKnown, Loaded, Complete, Exists,
                                      DeployOps, UpdateOps, RollbackOps
<1>11. /\ Locked(p)' => Locked(p)
       /\ Holds(p)' => Holds(p)
       /\ Early(p)' => Early(p)
       /\ Pending(p)' => Pending(p)
  BY <1>2, <1>5, <1>7 DEF Locked, Holds, Early, Pending, DeployOps, RollbackOps
<1> QED
  BY <1>1, <1>5, <1>6, <1>7, <1>9, <1>10, <1>11, LabelWalks DEF ProcTypes

LEMMA PublishWalks ==
  ASSUME DeployInv, NEW p \in Procs, Publish(p)
  PROVE  Walks(p)
<1>1. ProcTypes /\ RestTypes /\ CopyKnown(p) /\ Path(p)
  BY InvParts
<1>2. pc[p] = "publish" /\ op[p] = "build" /\ fn[p].hash \in Hashes
  BY <1>1, OpsAre DEF Publish, Path, ProcTypes, CopyKnown, DeployOps, UpdateOps, RollbackOps
<1>3. Without(versions, fn[p].hash) \in Seq(Hashes)
  BY <1>1, WithoutKeeps DEF RestTypes
<1>4. versions' \in Seq(Hashes)
  BY <1>2, <1>3 DEF Publish
<1>5. RestTypes' /\ UNCHANGED <<op, fn, arg, num, dep, jobs, lock>> /\ Goto(p, "write")
  BY <1>1, <1>4 DEF Publish, RestTypes, Complete, Exists
<1>6. pc'[p] = "write" /\ "write" \in Labels
  BY <1>1, <1>5 DEF Goto, ProcTypes, Labels
<1>7. Path(p)' /\ CopyKnown(p)'
  BY <1>1, <1>2, <1>5, <1>6 DEF Path, CopyKnown, Loaded, Complete, Exists,
                                DeployOps, UpdateOps, RollbackOps
<1>8. /\ Locked(p)' => Locked(p)
      /\ Holds(p)' => Holds(p)
      /\ Early(p)' => Early(p)
      /\ Pending(p)' => Pending(p)
  BY <1>2, <1>5, <1>6 DEF Locked, Holds, Early, Pending, DeployOps, RollbackOps
<1> QED
  BY <1>1, <1>5, <1>6, <1>7, <1>8, LabelWalks DEF ProcTypes

-----------------------------------------------------------------------------
(* Steps that change a deployment's row or the channel.                    *)

\* A goroutine writes the row of the deployment in its hands.
LEMMA RowMoves ==
  ASSUME DeployInv, NEW p \in Procs, Moves(p), Holds(p),
         dep' \in [Deployments -> Deps], jobs' = jobs,
         \A d \in Deployments : d # arg[p] => dep'[d] = dep[d],
         \A d \in Deployments : d = arg[p] => DepKnown(d)', VersionsBounded',
         Holds(p)' => arg'[p] = arg[p], HeldRow(p)'
  PROVE  DeployInv'
<1>0. /\ ProcTypes /\ RestTypes
      /\ dep \in [Deployments -> Deps] /\ jobs \in Seq(Deployments)
      /\ \A q \in Procs : Path(q) /\ CopyKnown(q) /\ HeldRow(q)
      /\ \A d \in Deployments : DepKnown(d)
      /\ VersionsBounded /\ OneHolder /\ ChannelApart /\ LocksHeld
  BY InvParts
<1>2. ASSUME NEW q \in Procs
      PROVE  /\ Path(q)' /\ CopyKnown(q)'
             /\ Holds(q)' => Holds(q) /\ arg'[q] = arg[q]
             /\ Locked(q)' => lock' = q
  <2>1. CASE q = p
    BY <2>1 DEF Moves
  <2>2. CASE q # p
    BY <2>2, OthersStay
  <2> QED BY <2>1, <2>2
<1>3. ASSUME NEW q \in Procs PROVE HeldRow(q)'
  <2>1. CASE q = p
    BY <2>1
  <2>2. CASE q # p /\ Holds(q)
    <3>1. arg[q] \in Deployments /\ arg[q] # arg[p] /\ HeldRow(q)
      BY <1>0, <2>2 DEF OneHolder, HeldRow
    <3>2. dep'[arg[q]] = dep[arg[q]]
      BY <3>1
    <3> QED
      BY <2>2, <3>1, <3>2, OthersStay DEF HeldRow, Recorded
  <2>3. CASE q # p /\ ~Holds(q)
    <3>1. ~Holds(q)' /\ Path(q)'
      BY <2>3, OthersStay
    <3>2. ~Early(q)' /\ ~Pending(q)' /\ op'[q] # "build" /\ pc'[q] # "finish"
      BY <3>1 DEF Holds, Early, Pending, Path, DeployOps, RollbackOps, UpdateOps, Moves, ProcTypes,
                  Ops, McpCalls
    <3> QED
      BY <3>1, <3>2 DEF HeldRow
  <2> QED BY <2>1, <2>2, <2>3
<1>4. OneHolder'
  BY <1>0, <1>2 DEF OneHolder
<1>5. ChannelApart'
  <2>1. \A i \in 1 .. Len(jobs) : jobs[i] \in Deployments /\ jobs[i] # arg[p]
    BY <1>0 DEF ChannelApart
  <2>2. \A i \in 1 .. Len(jobs) : dep'[jobs[i]] = dep[jobs[i]]
    BY <2>1
  <2> QED
    BY <1>0, <1>2, <2>2 DEF ChannelApart
<1>6. \A d \in Deployments : DepKnown(d)'
  <2>1. \A d \in Deployments : d # arg[p] => DepKnown(d)'
    BY <1>0 DEF DepKnown
  <2> QED BY <2>1
<1>8. LocksHeld'
  BY <1>2 DEF LocksHeld
<1>9. /\ (ProcTypes /\ RestTypes)' /\ (dep \in [Deployments -> Deps])'
      /\ (jobs \in Seq(Deployments))' /\ (lock \in Procs \cup {Nobody})'
  BY <1>0 DEF Moves
<1> QED
  BY <1>2, <1>3, <1>4, <1>5, <1>6, <1>8, <1>9, InvFromParts

\* A row that changes but for its version leaves MAX(version) there.
LEMMA VersionsStay ==
  ASSUME VersionsBounded, \A d \in Deployments : dep'[d].ver = dep[d].ver
  PROVE  VersionsBounded'
BY DEF VersionsBounded

LEMMA FinishIs ==
  ASSUME dep \in [Deployments -> Deps], NEW d \in Deployments,
         NEW st \in {"succeeded", "failed"}, Finish(d, st)
  PROVE  /\ dep' \in [Deployments -> Deps]
         /\ \A e \in Deployments : e # d => dep'[e] = dep[e]
         /\ \A e \in Deployments : dep'[e].ver = dep[e].ver
         /\ dep'[d].src = dep[d].src /\ dep'[d].hash = dep[d].hash /\ dep'[d].snap = dep[d].snap
         /\ dep'[d].status = IF Recorded(d) THEN st ELSE dep[d].status
<1>1. \A e \in Deployments : dep[e] \in Deps
  OBVIOUS
<1>2. CASE Recorded(d)
  <2>1. dep' = [dep EXCEPT ![d].status = st]
    BY <1>2 DEF Finish
  <2>2. dep'[d] = [dep[d] EXCEPT !.status = st] /\ \A e \in Deployments : e # d => dep'[e] = dep[e]
    BY <2>1
  <2>3. dep'[d] = [status |-> st, ver |-> dep[d].ver, src |-> dep[d].src, hash |-> dep[d].hash,
                   snap |-> dep[d].snap]
    BY <1>1, <2>2 DEF Deps
  <2>4. dep'[d] \in Deps
    BY <1>1, <2>3 DEF Deps
  <2>5. dep' \in [Deployments -> Deps]
    BY <2>1, <2>2, <2>4
  <2> QED
    BY <1>2, <2>2, <2>3, <2>5
<1>3. CASE ~Recorded(d)
  BY <1>3 DEF Finish
<1> QED BY <1>2, <1>3

\* InsertDeployment.
LEMMA InsertKeeps ==
  ASSUME DeployInv, NEW p \in Procs, Insert(p), op[p] \in DeployOps
  PROVE  DeployInv'
<1>1. /\ ProcTypes /\ RestTypes /\ CopyKnown(p) /\ Path(p) /\ HeldRow(p)
      /\ dep \in [Deployments -> Deps] /\ VersionsBounded
      /\ lock \in Procs \cup {Nobody} /\ (Locked(p) => lock = p)
      /\ \A d \in Deployments : DepKnown(d)
  BY InvParts DEF LocksHeld
<1>2. RestTypes' /\ jobs' = jobs
  BY <1>1 DEF Insert, RestTypes, Complete, Exists, fsVars, gcVars
<1>3. CASE Return(p) /\ UNCHANGED dep
  BY <1>2, <1>3, ReturnWalks, WalksKeep
<1>4. CASE ~(Return(p) /\ UNCHANGED dep)
  <2>1. PICK h \in Hashes :
          dep' = [dep EXCEPT ![arg[p]] =
                   [NoDeployment EXCEPT !.status = "queued", !.ver = num[p], !.src = h]]
    BY <1>4 DEF Insert
  <2>2. Goto(p, "submit") /\ UNCHANGED <<op, fn, arg, num, lock>> /\ pc[p] = "insert"
    BY <1>4 DEF Insert
  <2>3. Holds(p) /\ Early(p) /\ arg[p] \in Deployments /\ dep[arg[p]].status = "none"
    BY <1>1, <2>2 DEF Holds, Early, HeldRow
  <2>4. dep'[arg[p]] = [NoDeployment EXCEPT !.status = "queued", !.ver = num[p], !.src = h]
    BY <1>1, <2>1, <2>3
  <2>5. dep'[arg[p]] = [status |-> "queued", ver |-> num[p], src |-> h, hash |-> NoHash, snap |-> NoCfg]
    BY <2>4 DEF NoDeployment
  <2>6. dep'[arg[p]] \in Deps /\ dep'[arg[p]].status = "queued" /\ dep'[arg[p]].src = h
        /\ dep'[arg[p]].ver = num[p] /\ num[p] \in Nat
    BY <1>1, <2>5 DEF Deps, ProcTypes
  <2>7. dep' \in [Deployments -> Deps] /\ \A d \in Deployments : d # arg[p] => dep'[d] = dep[d]
    BY <1>1, <2>1, <2>3, <2>6
  <2>8. pc'[p] = "submit" /\ op'[p] = op[p] /\ arg'[p] = arg[p] /\ fn'[p] = fn[p]
    BY <1>1, <2>2 DEF Goto, ProcTypes
  <2>9. Path(p)' /\ CopyKnown(p)'
    BY <1>1, <2>8 DEF Path, CopyKnown, Loaded, Complete, Exists, DeployOps, UpdateOps, RollbackOps
  <2>10. Others(p) /\ ProcTypes' /\ ~Locked(p)'
    BY <1>1, <2>2, <2>8 DEF Others, ProcTypes, Goto, Labels, Locked, DeployOps, RollbackOps
  <2>11. Moves(p)
    BY <1>1, <1>2, <2>2, <2>9, <2>10 DEF Moves
  <2>12. \A d \in Deployments : d = arg[p] => DepKnown(d)'
    BY <2>6 DEF DepKnown
  <2>13. HeldRow(p)'
    BY <2>3, <2>6, <2>8 DEF HeldRow, Early, DeployOps, Recorded, Holds
  <2>14. VersionsBounded'
    <3>1. PICK n \in {0} \cup {dep[d].ver : d \in Deployments} :
                 \A d \in Deployments : dep[d].ver =< n
      BY <1>1 DEF VersionsBounded
    <3>2. \A d \in Deployments : dep[d].ver \in Nat
      BY <1>1 DEF Deps
    <3>3. dep[arg[p]].ver = 0
      BY <1>1, <2>3 DEF DepKnown
    <3>4. n \in Nat
      BY <3>1, <3>2
    <3>5. CASE num[p] >= n
      <4>1. \A d \in Deployments : dep'[d].ver =< num[p]
        BY <2>6, <2>7, <3>1, <3>2, <3>4, <3>5
      <4>2. num[p] \in {dep'[d].ver : d \in Deployments}
        BY <2>3, <2>6
      <4> QED BY <4>1, <4>2 DEF VersionsBounded
    <3>6. CASE num[p] < n
      <4>1. \A d \in Deployments : dep'[d].ver =< n
        BY <2>6, <2>7, <3>1, <3>2, <3>4, <3>6
      <4>2. n # 0
        BY <2>6, <3>4, <3>6
      <4>3. PICK e \in Deployments : n = dep[e].ver
        BY <3>1, <4>2
      <4>4. dep'[e].ver = n
        BY <2>7, <3>3, <4>2, <4>3
      <4> QED BY <4>1, <4>4 DEF VersionsBounded
    <3> QED BY <2>6, <3>4, <3>5, <3>6
  <2> QED
    BY <1>2, <2>3, <2>7, <2>8, <2>11, <2>12, <2>13, <2>14, RowMoves
<1> QED BY <1>3, <1>4

\* A goroutine ends and its deployment, not yet final, gets its result.
LEMMA FinishKeeps ==
  ASSUME DeployInv, NEW p \in Procs, Return(p), Holds(p), Pending(p), RestTypes', jobs' = jobs,
         NEW st \in {"succeeded", "failed"}, Finish(arg[p], st),
         st = "succeeded" /\ Recorded(arg[p]) => dep[arg[p]].snap \in Settings
  PROVE  DeployInv'
<1>1. /\ ProcTypes /\ HeldRow(p) /\ dep \in [Deployments -> Deps] /\ VersionsBounded
      /\ lock \in Procs \cup {Nobody} /\ \A d \in Deployments : DepKnown(d)
  BY InvParts
<1>2. arg[p] \in Deployments /\ dep[arg[p]].status \in {"queued", "gone"}
  BY <1>1 DEF HeldRow
<1>3. /\ dep' \in [Deployments -> Deps]
      /\ \A e \in Deployments : e # arg[p] => dep'[e] = dep[e]
      /\ \A e \in Deployments : dep'[e].ver = dep[e].ver
      /\ dep'[arg[p]].src = dep[arg[p]].src /\ dep'[arg[p]].snap = dep[arg[p]].snap
      /\ dep'[arg[p]].status = IF Recorded(arg[p]) THEN st ELSE dep[arg[p]].status
  BY <1>1, <1>2, FinishIs
<1>4. /\ op'[p] = "none" /\ pc'[p] = "idle" /\ fn'[p] = NoRow /\ arg'[p] = NoDep
      /\ Others(p) /\ ProcTypes'
  BY <1>1 DEF ProcTypes, Return, Goto, Others, Ops, Labels, NoRow, Rows
<1>5. /\ Path(p)' /\ CopyKnown(p)' /\ ~Locked(p)' /\ ~Holds(p)' /\ ~Early(p)' /\ ~Pending(p)'
      /\ HeldRow(p)'
  BY <1>4 DEF Path, CopyKnown, Loaded, Complete, Exists, NoRow, Locked, Holds, Early, Pending,
              DeployOps, RollbackOps, UpdateOps, HeldRow
<1>6. lock' \in Procs \cup {Nobody} /\ \A q \in Procs : q # p /\ lock = q => lock' = q
  BY <1>1 DEF Return
<1>7. Moves(p)
  BY <1>4, <1>5, <1>6 DEF Moves
<1>8. VersionsBounded'
  BY <1>1, <1>3, VersionsStay
<1>9. \A d \in Deployments : d = arg[p] => DepKnown(d)'
  <2>1. DepKnown(arg[p])
    BY <1>1, <1>2
  <2> QED BY <1>2, <1>3, <2>1 DEF DepKnown, Recorded
<1> QED
  BY <1>3, <1>5, <1>7, <1>8, <1>9, RowMoves

\* A deployment that was submitted is in the channel.
LEMMA AppendKeeps ==
  ASSUME DeployInv, NEW p \in Procs, Moves(p), Holds(p), Pending(p), ~Holds(p)', HeldRow(p)',
         dep' = dep, jobs' = Append(jobs, arg[p])
  PROVE  DeployInv'
<1>0. /\ ProcTypes /\ RestTypes
      /\ dep \in [Deployments -> Deps] /\ jobs \in Seq(Deployments)
      /\ \A q \in Procs : Path(q) /\ CopyKnown(q) /\ HeldRow(q)
      /\ \A d \in Deployments : DepKnown(d)
      /\ VersionsBounded /\ OneHolder /\ ChannelApart /\ LocksHeld
  BY InvParts
<1>1. arg[p] \in Deployments /\ dep[arg[p]].status \in {"queued", "gone"}
  BY <1>0 DEF HeldRow
<1>2. ASSUME NEW q \in Procs
      PROVE  /\ Path(q)' /\ CopyKnown(q)'
             /\ Holds(q)' => Holds(q) /\ arg'[q] = arg[q] /\ q # p
             /\ Locked(q)' => lock' = q
             /\ HeldRow(q)'
  <2>1. CASE q = p
    BY <2>1 DEF Moves
  <2>2. CASE q # p
    <3>1. HeldRow(q)
      BY <1>0
    <3>2. HeldRow(q)'
      BY <2>2, <3>1, OthersStay DEF HeldRow, Recorded
    <3> QED
      BY <2>2, <3>2, OthersStay
  <2> QED BY <2>1, <2>2
<1>3. OneHolder'
  BY <1>0, <1>2 DEF OneHolder
<1>4. /\ jobs' \in Seq(Deployments) /\ Len(jobs') = Len(jobs) + 1
      /\ \A i \in 1 .. Len(jobs) : jobs'[i] = jobs[i]
      /\ jobs'[Len(jobs) + 1] = arg[p]
      /\ \A i \in 1 .. Len(jobs') : i \in 1 .. Len(jobs) \/ i = Len(jobs) + 1
  BY <1>0, <1>1
<1>5. ChannelApart'
  <2>1. \A i \in 1 .. Len(jobs) : jobs[i] # arg[p]
    BY <1>0 DEF ChannelApart
  <2>2. \A i \in 1 .. Len(jobs') : dep'[jobs'[i]].status \in {"queued", "gone"}
    BY <1>0, <1>1, <1>4 DEF ChannelApart
  <2>3. \A i, j \in 1 .. Len(jobs') : jobs'[i] = jobs'[j] => i = j
    BY <1>0, <1>4, <2>1 DEF ChannelApart
  <2>4. ASSUME NEW q \in Procs, NEW i \in 1 .. Len(jobs'), Holds(q)'
        PROVE  jobs'[i] # arg'[q]
    <3>1. Holds(q) /\ arg'[q] = arg[q] /\ q # p
      BY <1>2, <2>4
    <3>2. arg[q] # arg[p] /\ \A j \in 1 .. Len(jobs) : jobs[j] # arg[q]
      BY <1>0, <3>1 DEF OneHolder, ChannelApart
    <3> QED BY <1>4, <3>1, <3>2
  <2> QED
    BY <2>2, <2>3, <2>4 DEF ChannelApart
<1>6. \A d \in Deployments : DepKnown(d)'
  BY <1>0 DEF DepKnown
<1>7. VersionsBounded'
  BY <1>0 DEF VersionsBounded
<1>8. LocksHeld'
  BY <1>2 DEF LocksHeld
<1>9. /\ (ProcTypes /\ RestTypes)' /\ (dep \in [Deployments -> Deps])'
      /\ (jobs \in Seq(Deployments))' /\ (lock \in Procs \cup {Nobody})'
  BY <1>0, <1>4 DEF Moves
<1> QED
  BY <1>2, <1>3, <1>5, <1>6, <1>7, <1>8, <1>9, InvFromParts

\* Queue.Submit, for both kinds of deploy.
LEMMA SubmitKeeps ==
  ASSUME DeployInv, NEW p \in Procs, Submit(p) \/ McpSubmit(p)
  PROVE  DeployInv'
<1>1. /\ ProcTypes /\ RestTypes /\ CopyKnown(p) /\ Path(p) /\ HeldRow(p)
      /\ lock \in Procs \cup {Nobody}
  BY InvParts
<1>2. /\ pc[p] = "submit" /\ op[p] \in DeployOps /\ Enqueue(p) /\ RestTypes'
      /\ \/ Return(p)
         \/ /\ Len(jobs) < QueueCap /\ op[p] = "mcpDeploy"
            /\ Goto(p, "wait") /\ UNCHANGED <<op, fn, arg, num, lock>>
  BY <1>1 DEF Submit, McpSubmit, DeployOps, RestTypes, Complete, Exists, fsVars, gcVars
<1>3. Holds(p) /\ Pending(p)
  BY <1>2 DEF Holds, Pending
<1>4. CASE Len(jobs) < QueueCap
  <2>1. jobs' = Append(jobs, arg[p]) /\ dep' = dep
    BY <1>2, <1>4 DEF Enqueue
  <2>2. CASE Return(p)
    <3>1. /\ op'[p] = "none" /\ pc'[p] = "idle" /\ fn'[p] = NoRow /\ arg'[p] = NoDep
          /\ Others(p) /\ ProcTypes'
      BY <1>1, <2>2 DEF ProcTypes, Return, Goto, Others, Ops, Labels, NoRow, Rows
    <3>2. /\ Path(p)' /\ CopyKnown(p)' /\ ~Locked(p)' /\ ~Holds(p)' /\ HeldRow(p)'
      BY <3>1 DEF Path, CopyKnown, Loaded, Complete, Exists, NoRow, Locked, Holds, Early, Pending,
                  DeployOps, RollbackOps, UpdateOps, HeldRow
    <3>3. lock' \in Procs \cup {Nobody} /\ \A q \in Procs : q # p /\ lock = q => lock' = q
      BY <1>1, <2>2 DEF Return
    <3>4. Moves(p)
      BY <1>2, <3>1, <3>2, <3>3 DEF Moves
    <3> QED
      BY <1>3, <2>1, <3>2, <3>4, AppendKeeps
  <2>3. CASE op[p] = "mcpDeploy" /\ Goto(p, "wait") /\ UNCHANGED <<op, fn, arg, num, lock>>
    <3>1. pc'[p] = "wait" /\ op'[p] = "mcpDeploy" /\ fn'[p] = fn[p] /\ Others(p) /\ ProcTypes'
      BY <1>1, <2>3 DEF ProcTypes, Goto, Others, Labels
    <3>2. /\ Path(p)' /\ CopyKnown(p)' /\ ~Locked(p)' /\ ~Holds(p)' /\ HeldRow(p)'
      BY <1>1, <3>1 DEF Path, CopyKnown, Loaded, Complete, Exists, Locked, Holds, Early, Pending,
                  DeployOps, RollbackOps, UpdateOps, HeldRow
    <3>3. Moves(p)
      BY <1>1, <1>2, <2>3, <3>1, <3>2 DEF Moves
    <3> QED
      BY <1>3, <2>1, <3>2, <3>3, AppendKeeps
  <2> QED BY <1>2, <2>2, <2>3
<1>5. CASE ~(Len(jobs) < QueueCap)
  <2>1. Finish(arg[p], "failed") /\ jobs' = jobs /\ Return(p)
    BY <1>2, <1>5 DEF Enqueue
  <2> QED
    BY <1>2, <1>3, <2>1, FinishKeeps
<1> QED BY <1>4, <1>5

LEMMA SucceedKeeps ==
  ASSUME DeployInv, NEW p \in Procs, Succeed(p)
  PROVE  DeployInv'
<1>1. ProcTypes /\ RestTypes /\ Path(p) /\ HeldRow(p)
  BY InvParts
<1>2. pc[p] = "finish" /\ op[p] = "build"
  BY <1>1, OpsAre DEF Succeed, Path, ProcTypes, DeployOps, UpdateOps, RollbackOps
<1>3. Holds(p) /\ Pending(p) /\ (Recorded(arg[p]) => dep[arg[p]].snap \in Settings)
  BY <1>1, <1>2 DEF Holds, Pending, HeldRow
<1>4. RestTypes' /\ jobs' = jobs /\ Return(p) /\ Finish(arg[p], "succeeded")
  BY <1>1 DEF Succeed, RestTypes, Complete, Exists, fsVars, gcVars
<1> QED
  BY <1>3, <1>4, FinishKeeps

LEMMA FailKeeps ==
  ASSUME DeployInv, NEW p \in Procs, Fail(p)
  PROVE  DeployInv'
<1>1. /\ ProcTypes /\ RestTypes /\ Path(p) /\ HeldRow(p) /\ CopyKnown(p)
      /\ dep \in [Deployments -> Deps] /\ VersionsBounded /\ (Locked(p) => lock = p)
      /\ lock \in Procs \cup {Nobody} /\ \A d \in Deployments : DepKnown(d)
  BY InvParts DEF LocksHeld
<1>2. pc[p] = "fail" /\ op[p] = "build"
  BY <1>1, OpsAre DEF Fail, Path, ProcTypes, DeployOps, UpdateOps, RollbackOps
<1>3. Holds(p) /\ Pending(p) /\ Locked(p)
  BY <1>2 DEF Holds, Pending, Locked
<1>4. RestTypes' /\ jobs' = jobs /\ Finish(arg[p], "failed")
  BY <1>1 DEF Fail, RestTypes, Complete, Exists, fsVars, gcVars
<1>5. CASE Return(p)
  BY <1>3, <1>4, <1>5, FinishKeeps
<1>6. CASE ~Return(p)
  <2>1. fn[p].status = "building" /\ Goto(p, "error") /\ UNCHANGED <<op, fn, arg, num, lock>>
    BY <1>6 DEF Fail
  <2>2. arg[p] \in Deployments /\ dep[arg[p]].status \in {"queued", "gone"}
    BY <1>1, <1>3 DEF HeldRow
  <2>3. /\ dep' \in [Deployments -> Deps]
        /\ \A e \in Deployments : e # arg[p] => dep'[e] = dep[e]
        /\ \A e \in Deployments : dep'[e].ver = dep[e].ver
        /\ dep'[arg[p]].src = dep[arg[p]].src /\ dep'[arg[p]].snap = dep[arg[p]].snap
        /\ dep'[arg[p]].status = IF Recorded(arg[p]) THEN "failed" ELSE dep[arg[p]].status
    BY <1>1, <1>4, <2>2, FinishIs
  <2>4. /\ pc'[p] = "error" /\ op'[p] = "build" /\ fn'[p] = fn[p] /\ arg'[p] = arg[p]
        /\ Others(p) /\ ProcTypes'
    BY <1>1, <1>2, <2>1 DEF ProcTypes, Goto, Others, Labels
  <2>5. Path(p)' /\ CopyKnown(p)'
    BY <1>1, <2>1, <2>4 DEF Path, CopyKnown, Loaded, Complete, Exists, DeployOps, UpdateOps, RollbackOps
  <2>6. Moves(p)
    BY <1>1, <1>3, <1>4, <2>1, <2>4, <2>5 DEF Moves
  <2>7. HeldRow(p)'
    BY <2>2, <2>3, <2>4 DEF HeldRow, Holds, Early, Pending, DeployOps, Recorded
  <2>8. VersionsBounded'
    BY <1>1, <2>3, VersionsStay
  <2>9. \A d \in Deployments : d = arg[p] => DepKnown(d)'
    <3>1. DepKnown(arg[p])
      BY <1>1, <2>2
    <3> QED BY <2>2, <2>3, <3>1 DEF DepKnown, Recorded
  <2> QED
    BY <1>3, <1>4, <2>3, <2>4, <2>6, <2>7, <2>8, <2>9, RowMoves
<1> QED BY <1>5, <1>6

LEMMA SwitchIs ==
  ASSUME DeployInv, NEW p \in Procs, Switch(p)
  PROVE  /\ pc[p] = "switch" /\ op[p] = "build" /\ arg[p] \in Deployments
         /\ dep' \in [Deployments -> Deps] /\ jobs' = jobs
         /\ \A e \in Deployments : e # arg[p] => dep'[e] = dep[e]
         /\ \A e \in Deployments : /\ dep'[e].ver = dep[e].ver /\ dep'[e].status = dep[e].status
                                   /\ dep'[e].src = dep[e].src
         /\ Recorded(arg[p]) => dep'[arg[p]].hash = fn[p].hash /\ dep'[arg[p]].snap = fn[p].cfg
         /\ dep[arg[p]].status \in {"queued", "gone"} /\ fn[p].cfg \in Settings
<1>1. /\ ProcTypes /\ Path(p) /\ HeldRow(p) /\ CopyKnown(p) /\ dep \in [Deployments -> Deps]
  BY InvParts
<1>2. pc[p] = "switch" /\ op[p] = "build" /\ jobs' = jobs
  BY <1>1, OpsAre DEF Switch, Path, ProcTypes, DeployOps, UpdateOps, RollbackOps
<1>3. arg[p] \in Deployments /\ dep[arg[p]].status \in {"queued", "gone"}
  BY <1>1, <1>2 DEF HeldRow, Holds, Pending
<1>4. fn[p] \in Rows /\ fn[p].cfg \in Settings /\ \A e \in Deployments : dep[e] \in Deps
  BY <1>1, <1>2 DEF ProcTypes, CopyKnown, Loaded, Complete
<1>5. CASE Recorded(arg[p])
  <2>1. dep' = [dep EXCEPT ![arg[p]].hash = fn[p].hash, ![arg[p]].snap = fn[p].cfg]
    BY <1>5 DEF Switch
  <2>2. /\ dep'[arg[p]] = [dep[arg[p]] EXCEPT !.hash = fn[p].hash, !.snap = fn[p].cfg]
        /\ \A e \in Deployments : e # arg[p] => dep'[e] = dep[e]
    BY <1>1, <1>3, <2>1
  <2>3. dep'[arg[p]] = [status |-> dep[arg[p]].status, ver |-> dep[arg[p]].ver, src |-> dep[arg[p]].src,
                        hash |-> fn[p].hash, snap |-> fn[p].cfg]
    BY <1>3, <1>4, <2>2 DEF Deps
  <2>4. fn[p].hash \in Hashes \cup {NoHash}
    BY <1>4 DEF Rows
  <2>5. dep'[arg[p]] \in Deps
    BY <1>3, <1>4, <2>3, <2>4 DEF Deps
  <2>6. dep' \in [Deployments -> Deps]
    BY <1>1, <2>1, <2>2, <2>5
  <2> QED
    BY <1>2, <1>3, <1>4, <2>2, <2>3, <2>6
<1>6. CASE ~Recorded(arg[p])
  BY <1>1, <1>2, <1>3, <1>4, <1>6 DEF Switch
<1> QED BY <1>5, <1>6

LEMMA SwitchKeeps ==
  ASSUME DeployInv, NEW p \in Procs, Switch(p)
  PROVE  DeployInv'
<1>1. /\ ProcTypes /\ RestTypes /\ Path(p) /\ HeldRow(p) /\ CopyKnown(p)
      /\ VersionsBounded /\ (Locked(p) => lock = p)
      /\ lock \in Procs \cup {Nobody} /\ \A d \in Deployments : DepKnown(d)
  BY InvParts DEF LocksHeld
<1>2. /\ pc[p] = "switch" /\ op[p] = "build" /\ arg[p] \in Deployments
      /\ dep' \in [Deployments -> Deps] /\ jobs' = jobs
      /\ \A e \in Deployments : e # arg[p] => dep'[e] = dep[e]
      /\ \A e \in Deployments : /\ dep'[e].ver = dep[e].ver /\ dep'[e].status = dep[e].status
                                /\ dep'[e].src = dep[e].src
      /\ Recorded(arg[p]) => dep'[arg[p]].snap = fn[p].cfg
      /\ dep[arg[p]].status \in {"queued", "gone"} /\ fn[p].cfg \in Settings
  BY SwitchIs
<1>3. current' \in Hashes \cup {NoHash} /\ gwritten' \in BOOLEAN
  BY <1>1 DEF Switch, RestTypes, ProcTypes, Rows
<1>4. RestTypes'
  BY <1>1, <1>3 DEF Switch, RestTypes, Complete, Exists
<1>5. PICK l \in {"finish", "fail"} : Goto(p, l) /\ UNCHANGED <<op, fn, arg, num, lock>>
  BY DEF Switch
<1>6. /\ pc'[p] = l /\ op'[p] = "build" /\ fn'[p] = fn[p] /\ arg'[p] = arg[p]
      /\ Others(p) /\ ProcTypes'
  BY <1>1, <1>2, <1>5 DEF ProcTypes, Goto, Others, Labels
<1>7. Holds(p) /\ Locked(p)
  BY <1>2 DEF Holds, Locked
<1>8. Path(p)' /\ CopyKnown(p)'
  BY <1>1, <1>2, <1>6 DEF Path, CopyKnown, Loaded, Complete, Exists, DeployOps, UpdateOps, RollbackOps
<1>9. Moves(p)
  BY <1>1, <1>4, <1>5, <1>6, <1>7, <1>8 DEF Moves
<1>10. HeldRow(p)'
  BY <1>2, <1>6 DEF HeldRow, Holds, Early, Pending, DeployOps, Recorded
<1>11. VersionsBounded'
  BY <1>1, <1>2, VersionsStay
<1>12. \A d \in Deployments : d = arg[p] => DepKnown(d)'
  <2>1. DepKnown(arg[p])
    BY <1>1, <1>2
  <2> QED BY <1>2, <2>1 DEF DepKnown
<1> QED
  BY <1>2, <1>6, <1>7, <1>9, <1>10, <1>11, <1>12, RowMoves

\* A call arrives; a deploy draws an id that nobody has.
LEMMA CallKeeps ==
  ASSUME DeployInv, NEW p \in Procs, NEW name \in Calls \ {"gc"}, Call(p, name)
  PROVE  DeployInv'
<1>0. /\ ProcTypes /\ RestTypes
      /\ dep \in [Deployments -> Deps] /\ jobs \in Seq(Deployments) /\ lock \in Procs \cup {Nobody}
      /\ \A q \in Procs : Path(q) /\ CopyKnown(q) /\ HeldRow(q)
      /\ \A d \in Deployments : DepKnown(d)
      /\ VersionsBounded /\ OneHolder /\ ChannelApart /\ LocksHeld
  BY InvParts
<1>1. name \in Ops \ {"none", "build"}
  BY DeployAssumption DEF AllCalls, Ops, McpCalls
<1>2. RestTypes' /\ dep' = dep /\ jobs' = jobs /\ lock' = lock /\ fn' = fn /\ num' = num
  BY <1>0, DeployAssumption DEF Call, RestTypes, Complete, Exists, fsVars, gcVars
<1>3. /\ pc[p] = "idle" /\ pc'[p] = "get" /\ op'[p] = name
      /\ \A q \in Procs : q # p => arg'[q] = arg[q]
      /\ arg' \in [Procs -> Deployments \cup {NoDep}]
      /\ \A q \in Procs : q # p => pc'[q] = pc[q] /\ op'[q] = op[q]
      /\ pc' \in [Procs -> Labels] /\ op' \in [Procs -> Ops]
  BY <1>0, <1>1 DEF Call, Goto, ProcTypes, Labels
<1>4. name \in DeployOps =>
        /\ arg'[p] \in Deployments /\ dep[arg'[p]].status = "none"
        /\ \A q \in Procs : arg[q] # arg'[p]
  BY <1>0 DEF Call, DeployOps, ProcTypes
<1>5. Path(p)' /\ CopyKnown(p)' /\ ~Locked(p)' /\ Others(p) /\ ProcTypes'
  <2>1. Path(p)'
    BY <1>1, <1>3 DEF Path, DeployOps, UpdateOps, RollbackOps
  <2>2. CopyKnown(p)'
    BY <1>0, <1>1, <1>2, <1>3 DEF CopyKnown, Loaded, Complete, Exists
  <2>3. ~Locked(p)'
    BY <1>1, <1>3 DEF Locked
  <2> QED
    BY <1>0, <1>2, <1>3, <2>1, <2>2, <2>3 DEF Others, ProcTypes
<1>6. Moves(p)
  BY <1>0, <1>2, <1>5 DEF Moves
<1>7. Holds(p)' => name \in DeployOps
  BY <1>1, <1>3 DEF Holds
<1>8. ASSUME NEW q \in Procs
      PROVE  /\ Path(q)' /\ CopyKnown(q)'
             /\ Locked(q)' => lock' = q
             /\ HeldRow(q)'
             /\ q # p => (Holds(q)' <=> Holds(q)) /\ arg'[q] = arg[q]
  <2>1. CASE q = p
    <3>1. HeldRow(p)'
      BY <1>1, <1>2, <1>3, <1>4, <1>7 DEF HeldRow, Holds, Early, Pending
    <3> QED BY <1>5, <2>1, <3>1
  <2>2. CASE q # p
    <3>1. HeldRow(q)
      BY <1>0
    <3>2. HeldRow(q)'
      BY <1>2, <1>6, <2>2, <3>1, OthersStay DEF HeldRow, Recorded
    <3> QED BY <1>6, <2>2, <3>2, OthersStay
  <2> QED BY <2>1, <2>2
<1>9. OneHolder'
  <2> SUFFICES ASSUME NEW q \in Procs, NEW r \in Procs, Holds(q)', Holds(r)', arg'[q] = arg'[r]
               PROVE  q = r
    BY DEF OneHolder
  <2>1. CASE q # p /\ r # p
    BY <1>0, <1>8, <2>1 DEF OneHolder
  <2>2. CASE q = p /\ r # p
    BY <1>4, <1>7, <1>8, <2>2
  <2>3. CASE q # p /\ r = p
    BY <1>4, <1>7, <1>8, <2>3
  <2> QED BY <2>1, <2>2, <2>3
<1>10. ChannelApart'
  <2>1. ASSUME NEW q \in Procs, NEW i \in 1 .. Len(jobs), Holds(q)'
        PROVE  jobs[i] # arg'[q]
    <3>1. CASE q = p
      BY <1>0, <1>4, <1>7, <2>1, <3>1 DEF ChannelApart
    <3>2. CASE q # p
      BY <1>0, <1>8, <2>1, <3>2 DEF ChannelApart
    <3> QED BY <3>1, <3>2
  <2> QED
    BY <1>0, <1>2, <2>1 DEF ChannelApart
<1>11. (\A d \in Deployments : DepKnown(d)') /\ VersionsBounded'
  BY <1>0, <1>2 DEF DepKnown, VersionsBounded
<1>12. LocksHeld'
  BY <1>8 DEF LocksHeld
<1>13. /\ (ProcTypes /\ RestTypes)' /\ (dep \in [Deployments -> Deps])'
       /\ (jobs \in Seq(Deployments))' /\ (lock \in Procs \cup {Nobody})'
  BY <1>0, <1>2, <1>6 DEF Moves
<1> QED
  BY <1>8, <1>9, <1>10, <1>11, <1>12, <1>13, InvFromParts

\* A worker of the build queue takes the oldest job.
LEMMA DequeueKeeps ==
  ASSUME DeployInv, NEW p \in Procs, Dequeue(p)
  PROVE  DeployInv'
<1>0. /\ ProcTypes /\ RestTypes
      /\ dep \in [Deployments -> Deps] /\ jobs \in Seq(Deployments) /\ lock \in Procs \cup {Nobody}
      /\ \A q \in Procs : Path(q) /\ CopyKnown(q) /\ HeldRow(q)
      /\ \A d \in Deployments : DepKnown(d)
      /\ VersionsBounded /\ OneHolder /\ ChannelApart /\ LocksHeld
  BY InvParts
<1>1. RestTypes' /\ dep' = dep /\ lock' = lock /\ fn' = fn /\ num' = num
  BY <1>0 DEF Dequeue, RestTypes, Complete, Exists, fsVars, gcVars
<1>2. /\ jobs' \in Seq(Deployments) /\ Len(jobs') = Len(jobs) - 1 /\ Len(jobs) \in Nat \ {0}
      /\ \A i \in 1 .. Len(jobs') : i + 1 \in 1 .. Len(jobs) /\ jobs'[i] = jobs[i + 1]
      /\ 1 \in 1 .. Len(jobs) /\ Head(jobs) = jobs[1]
  BY <1>0 DEF Dequeue
<1>3. /\ jobs[1] \in Deployments /\ dep[jobs[1]].status \in {"queued", "gone"}
      /\ \A q \in Procs : Holds(q) => arg[q] # jobs[1]
      /\ \A i \in 1 .. Len(jobs') : jobs'[i] # jobs[1]
  BY <1>0, <1>2 DEF ChannelApart
<1>4. /\ pc[p] = "idle" /\ pc'[p] = "lock" /\ op'[p] = "build" /\ arg'[p] = jobs[1]
      /\ \A q \in Procs : q # p => pc'[q] = pc[q] /\ op'[q] = op[q] /\ arg'[q] = arg[q]
      /\ ProcTypes'
  BY <1>0, <1>1, <1>2, <1>3 DEF Dequeue, Goto, ProcTypes, Labels, Ops
<1>5. Path(p)' /\ CopyKnown(p)' /\ ~Locked(p)' /\ Others(p)
  BY <1>0, <1>1, <1>4 DEF Path, CopyKnown, Loaded, Complete, Exists, Locked, Others,
                          DeployOps, UpdateOps, RollbackOps
<1>6. Moves(p)
  BY <1>0, <1>1, <1>4, <1>5 DEF Moves
<1>8. ASSUME NEW q \in Procs
      PROVE  /\ Path(q)' /\ CopyKnown(q)'
             /\ Locked(q)' => lock' = q
             /\ HeldRow(q)'
             /\ q # p => (Holds(q)' <=> Holds(q)) /\ arg'[q] = arg[q]
  <2>1. CASE q = p
    <3>1. HeldRow(p)'
      BY <1>1, <1>3, <1>4 DEF HeldRow, Holds, Early, Pending, DeployOps
    <3> QED BY <1>5, <2>1, <3>1
  <2>2. CASE q # p
    <3>1. HeldRow(q)
      BY <1>0
    <3>2. HeldRow(q)'
      BY <1>1, <1>6, <2>2, <3>1, OthersStay DEF HeldRow, Recorded
    <3> QED BY <1>6, <2>2, <3>2, OthersStay
  <2> QED BY <2>1, <2>2
<1>9. OneHolder'
  <2> SUFFICES ASSUME NEW q \in Procs, NEW r \in Procs, Holds(q)', Holds(r)', arg'[q] = arg'[r]
               PROVE  q = r
    BY DEF OneHolder
  <2>1. CASE q # p /\ r # p
    BY <1>0, <1>8, <2>1 DEF OneHolder
  <2>2. CASE q = p /\ r # p
    BY <1>3, <1>4, <1>8, <2>2
  <2>3. CASE q # p /\ r = p
    BY <1>3, <1>4, <1>8, <2>3
  <2> QED BY <2>1, <2>2, <2>3
<1>10. ChannelApart'
  <2>1. ASSUME NEW q \in Procs, NEW i \in 1 .. Len(jobs'), Holds(q)'
        PROVE  jobs'[i] # arg'[q]
    <3>1. CASE q = p
      BY <1>3, <1>4, <3>1
    <3>2. CASE q # p
      BY <1>0, <1>2, <1>8, <2>1, <3>2 DEF ChannelApart
    <3> QED BY <3>1, <3>2
  <2>2. \A i \in 1 .. Len(jobs') : dep'[jobs'[i]].status \in {"queued", "gone"}
    BY <1>0, <1>1, <1>2 DEF ChannelApart
  <2>3. ASSUME NEW i \in 1 .. Len(jobs'), NEW j \in 1 .. Len(jobs'), jobs'[i] = jobs'[j]
        PROVE  i = j
    <3>1. i + 1 = j + 1
      BY <1>0, <1>2, <2>3 DEF ChannelApart
    <3> QED BY <1>2, <3>1
  <2> QED
    BY <2>1, <2>2, <2>3 DEF ChannelApart
<1>11. (\A d \in Deployments : DepKnown(d)') /\ VersionsBounded'
  BY <1>0, <1>1 DEF DepKnown, VersionsBounded
<1>12. LocksHeld'
  BY <1>8 DEF LocksHeld
<1>13. /\ (ProcTypes /\ RestTypes)' /\ (dep \in [Deployments -> Deps])'
       /\ (jobs \in Seq(Deployments))' /\ (lock \in Procs \cup {Nobody})'
  BY <1>0, <1>1, <1>2, <1>6 DEF Moves
<1> QED
  BY <1>8, <1>9, <1>10, <1>11, <1>12, <1>13, InvFromParts

\* The cascade of a delete: nothing is recorded any more.
LEMMA CascadeIs ==
  ASSUME dep \in [Deployments -> Deps], dep' = Cascade
  PROVE  /\ dep' \in [Deployments -> Deps]
         /\ \A d \in Deployments :
              \/ dep[d].status = "none" /\ dep'[d] = dep[d]
              \/ /\ dep[d].status # "none" /\ dep'[d].status = "gone"
                 /\ dep'[d].ver = 0 /\ dep'[d].src = dep[d].src
<1>1. \A e \in Deployments : dep[e] \in Deps
  OBVIOUS
<1>2. ASSUME NEW d \in Deployments, dep[d].status # "none"
      PROVE  /\ dep'[d] \in Deps /\ dep'[d].status = "gone"
             /\ dep'[d].ver = 0 /\ dep'[d].src = dep[d].src
  <2>1. dep'[d] = [NoDeployment EXCEPT !.status = "gone", !.src = dep[d].src]
    BY <1>2 DEF Cascade
  <2>2. dep'[d] = [status |-> "gone", ver |-> 0, src |-> dep[d].src, hash |-> NoHash, snap |-> NoCfg]
    BY <2>1 DEF NoDeployment
  <2> QED
    BY <1>1, <2>2 DEF Deps
<1>3. \A d \in Deployments : dep[d].status = "none" => dep'[d] = dep[d]
  BY DEF Cascade
<1>4. dep' \in [Deployments -> Deps]
  <2>1. DOMAIN dep' = Deployments /\ dep' = [d \in DOMAIN dep' |-> dep'[d]]
    BY DEF Cascade
  <2>2. \A d \in Deployments : dep'[d] \in Deps
    BY <1>1, <1>2, <1>3
  <2> QED BY <2>1, <2>2
<1> QED BY <1>2, <1>3, <1>4

LEMMA RemoveKeeps ==
  ASSUME DeployInv, NEW p \in Procs, Remove(p), op[p] \in {"delete", "mcpDelete"}
  PROVE  DeployInv'
<1>0. /\ ProcTypes /\ RestTypes
      /\ dep \in [Deployments -> Deps] /\ jobs \in Seq(Deployments) /\ lock \in Procs \cup {Nobody}
      /\ \A q \in Procs : Path(q) /\ CopyKnown(q) /\ HeldRow(q)
      /\ \A d \in Deployments : DepKnown(d)
      /\ VersionsBounded /\ OneHolder /\ ChannelApart /\ LocksHeld
  BY InvParts
<1>1. NoRow \in Rows /\ Complete(NoRow)
  BY DEF NoRow, Rows, Complete, Exists
<1>2. RestTypes' /\ jobs' = jobs /\ lock' = lock /\ fn' = fn /\ op' = op /\ arg' = arg /\ num' = num
  BY <1>0, <1>1 DEF Remove, RestTypes, Complete, Exists, fsVars, gcVars
<1>3. /\ dep' \in [Deployments -> Deps]
      /\ \A d \in Deployments :
           \/ dep[d].status = "none" /\ dep'[d] = dep[d]
           \/ /\ dep[d].status # "none" /\ dep'[d].status = "gone"
              /\ dep'[d].ver = 0 /\ dep'[d].src = dep[d].src
  BY <1>0, CascadeIs DEF Remove
<1>4. /\ pc[p] = "delete" /\ pc'[p] = "uncache" /\ ProcTypes'
      /\ \A q \in Procs : q # p => pc'[q] = pc[q]
  BY <1>0, <1>2 DEF Remove, Goto, ProcTypes, Labels
<1>5. Path(p)' /\ CopyKnown(p)' /\ (Locked(p)' => Locked(p)) /\ Others(p) /\ ~Holds(p)'
  BY <1>0, <1>2, <1>4 DEF Path, CopyKnown, Loaded, Complete, Exists, Locked, Others, Holds,
                          DeployOps, UpdateOps, RollbackOps
<1>6. Moves(p)
  BY <1>0, <1>2, <1>4, <1>5 DEF Moves, LocksHeld
<1>8. ASSUME NEW q \in Procs
      PROVE  /\ Path(q)' /\ CopyKnown(q)'
             /\ Locked(q)' => lock' = q
             /\ Holds(q)' => Holds(q) /\ arg'[q] = arg[q]
             /\ HeldRow(q)'
  <2>1. CASE q = p
    <3>1. HeldRow(p)'
      BY <1>2, <1>4 DEF HeldRow, Holds, Early, Pending, DeployOps
    <3> QED BY <1>5, <1>6, <2>1, <3>1 DEF Moves
  <2>2. CASE q # p
    <3>1. HeldRow(q) /\ (Pending(q) => Holds(q)) /\ (Early(q) => Holds(q)) /\ (op[q] = "build" => Holds(q))
      BY <1>0 DEF Early, Pending, Holds, Path
    <3>2. /\ Path(q)' /\ CopyKnown(q)' /\ arg'[q] = arg[q] /\ op'[q] = op[q] /\ pc'[q] = pc[q]
          /\ (Holds(q)' <=> Holds(q)) /\ (Early(q)' <=> Early(q)) /\ (Pending(q)' <=> Pending(q))
          /\ (Locked(q)' => lock' = q)
      BY <1>6, <2>2, OthersStay
    <3>3. pc[q] = "finish" => Holds(q)
      BY <1>0 DEF Holds, Path, ProcTypes, Ops, McpCalls, DeployOps, UpdateOps, RollbackOps
    <3>4. HeldRow(q)'
      BY <1>3, <3>1, <3>2, <3>3 DEF HeldRow, Recorded
    <3> QED BY <3>2, <3>4
  <2> QED BY <2>1, <2>2
<1>9. OneHolder'
  BY <1>0, <1>8 DEF OneHolder
<1>10. ChannelApart'
  <2>1. \A i \in 1 .. Len(jobs) : jobs[i] \in Deployments /\ dep'[jobs[i]].status = "gone"
    BY <1>0, <1>3 DEF ChannelApart
  <2> QED
    BY <1>0, <1>2, <1>8, <2>1 DEF ChannelApart
<1>11. \A d \in Deployments : DepKnown(d)' /\ dep'[d].ver = 0
  BY <1>0, <1>3 DEF DepKnown
<1>12. VersionsBounded'
  BY <1>11 DEF VersionsBounded
<1>13. LocksHeld'
  BY <1>8 DEF LocksHeld
<1>14. /\ (ProcTypes /\ RestTypes)' /\ (dep \in [Deployments -> Deps])'
       /\ (jobs \in Seq(Deployments))' /\ (lock \in Procs \cup {Nobody})'
  BY <1>0, <1>2, <1>3, <1>6 DEF Moves
<1> QED
  BY <1>8, <1>9, <1>10, <1>11, <1>12, <1>13, <1>14, InvFromParts

-----------------------------------------------------------------------------
(* The GC, a restart, and the invariant.                                   *)

LEMMA StillKeeps ==
  ASSUME DeployInv, UNCHANGED <<dep, jobs, lock, op, pc, fn, arg, num>>, RestTypes'
  PROVE  DeployInv'
<1>0. /\ ProcTypes
      /\ dep \in [Deployments -> Deps] /\ jobs \in Seq(Deployments) /\ lock \in Procs \cup {Nobody}
      /\ \A q \in Procs : Path(q) /\ CopyKnown(q) /\ HeldRow(q)
      /\ \A d \in Deployments : DepKnown(d)
      /\ VersionsBounded /\ OneHolder /\ ChannelApart /\ LocksHeld
  BY InvParts
<1>1. \A q \in Procs : Path(q)' /\ CopyKnown(q)'
  BY <1>0 DEF Path, CopyKnown, Loaded, Complete, Exists
<1>2. \A q \in Procs : HeldRow(q)'
  BY <1>0 DEF HeldRow, Holds, Early, Pending, Recorded
<1>3. OneHolder' /\ LocksHeld' /\ ProcTypes'
  BY <1>0 DEF OneHolder, LocksHeld, Holds, Locked, ProcTypes
<1>4. ChannelApart'
  BY <1>0 DEF ChannelApart, Holds
<1>5. (\A d \in Deployments : DepKnown(d)') /\ VersionsBounded'
  BY <1>0 DEF DepKnown, VersionsBounded
<1>6. (dep \in [Deployments -> Deps])' /\ (jobs \in Seq(Deployments))' /\ (lock \in Procs \cup {Nobody})'
  BY <1>0
<1> QED
  BY <1>1, <1>2, <1>3, <1>4, <1>5, <1>6, InvFromParts

LEMMA GCKeeps ==
  ASSUME DeployInv, GCList \/ GC
  PROVE  DeployInv'
<1>1. RestTypes
  BY InvParts
<1>2. UNCHANGED <<dep, jobs, lock, op, pc, fn, arg, num>>
  BY DEF GCList, GC, GCScan, GCActive, GCRemove, GCSweep, procVars
<1>3. RestTypes'
  <2>1. CASE GCList
    <3>1. calls' \in 0 .. MaxCalls
      BY <1>1, <2>1, DeployAssumption DEF GCList, RestTypes
    <3>2. gpc' \in {"idle", "scan", "active", "remove", "sweep"} /\ gwritten' \in BOOLEAN
      BY <2>1 DEF GCList
    <3> QED
      BY <1>1, <2>1, <3>1, <3>2 DEF GCList, RestTypes, Complete, Exists, fsVars
  <2>2. CASE GCScan
    <3>1. Len(versions) - Keep \in Int /\ \A i \in 1 .. Len(versions) - Keep : versions[i] \in Hashes
      BY <1>1, DeployAssumption DEF RestTypes
    <3>2. SubSeq(versions, 1, Len(versions) - Keep) \in Seq(Hashes)
      BY <3>1, SubSeqProperties
    <3> QED
      BY <1>1, <2>2, <3>2 DEF GCScan, RestTypes, Complete, Exists, fsVars
  <2>3. CASE GCActive
    <3>1. Without(gprune, current) \in Seq(Hashes)
      BY <1>1, WithoutKeeps DEF RestTypes
    <3> QED
      BY <1>1, <2>3, <3>1 DEF GCActive, RestTypes, Complete, Exists, fsVars
  <2>4. CASE GCRemove
    <3>1. Without(versions, gprune[Len(gprune)]) \in Seq(Hashes)
      BY <1>1, WithoutKeeps DEF RestTypes
    <3>2. Len(gprune) - 1 \in Int /\ \A i \in 1 .. Len(gprune) - 1 : gprune[i] \in Hashes
      BY <1>1 DEF RestTypes
    <3>3. SubSeq(gprune, 1, Len(gprune) - 1) \in Seq(Hashes)
      BY <3>2, SubSeqProperties
    <3> QED
      BY <1>1, <2>4, <3>1, <3>3 DEF GCRemove, RestTypes, Complete, Exists
  <2>5. CASE GCSweep
    <3>1. versions' \in Seq(Hashes) /\ current' \in Hashes \cup {NoHash}
      <4>1. (versions' = <<>> /\ current' = NoHash) \/ (versions' = versions /\ current' = current)
        BY <2>5 DEF GCSweep, fsVars
      <4>2. <<>> \in Seq(Hashes)
        OBVIOUS
      <4>3. versions \in Seq(Hashes) /\ current \in Hashes \cup {NoHash}
        BY <1>1 DEF RestTypes
      <4> QED
        BY <4>1, <4>2, <4>3
    <3>2. UNCHANGED <<row, cache, calls, acked, gprune, gwritten>> /\ gpc' = "idle"
      BY <2>5 DEF GCSweep
    <3> QED
      BY <1>1, <3>1, <3>2 DEF RestTypes, Complete, Exists
  <2> QED BY <2>1, <2>2, <2>3, <2>4, <2>5 DEF GC
<1> QED
  BY <1>2, <1>3, StillKeeps

\* RequeueStuckDeployments.
LEMMA RestartIs ==
  ASSUME dep \in [Deployments -> Deps], Restart
  PROVE  /\ dep' \in [Deployments -> Deps]
         /\ \A d \in Deployments :
              \/ dep[d].status # "queued" /\ dep'[d] = dep[d]
              \/ /\ dep[d].status = "queued" /\ dep'[d].status = "failed"
                 /\ dep'[d].ver = dep[d].ver /\ dep'[d].src = dep[d].src
<1>1. \A e \in Deployments : dep[e] \in Deps
  OBVIOUS
<1>2. ASSUME NEW d \in Deployments, dep[d].status = "queued"
      PROVE  /\ dep'[d] \in Deps /\ dep'[d].status = "failed"
             /\ dep'[d].ver = dep[d].ver /\ dep'[d].src = dep[d].src
  <2>1. dep'[d] = [dep[d] EXCEPT !.status = "failed"]
    BY <1>2 DEF Restart, Abandoned
  <2>2. dep'[d] = [status |-> "failed", ver |-> dep[d].ver, src |-> dep[d].src,
                   hash |-> dep[d].hash, snap |-> dep[d].snap]
    BY <1>1, <2>1 DEF Deps
  <2> QED
    BY <1>1, <2>2 DEF Deps
<1>3. \A d \in Deployments : dep[d].status # "queued" => dep'[d] = dep[d]
  BY DEF Restart, Abandoned
<1>4. dep' \in [Deployments -> Deps]
  <2>1. DOMAIN dep' = Deployments /\ dep' = [d \in DOMAIN dep' |-> dep'[d]]
    BY DEF Restart
  <2>2. \A d \in Deployments : dep'[d] \in Deps
    BY <1>1, <1>2, <1>3
  <2> QED BY <2>1, <2>2
<1> QED BY <1>2, <1>3, <1>4

LEMMA RestartKeeps ==
  ASSUME DeployInv, Restart
  PROVE  DeployInv'
<1>0. /\ ProcTypes /\ RestTypes /\ dep \in [Deployments -> Deps]
      /\ (\A d \in Deployments : DepKnown(d)) /\ VersionsBounded
  BY InvParts
<1>1. NoRow \in Rows /\ Complete(NoRow)
  BY DEF NoRow, Rows, Complete, Exists
<1>2. RestTypes'
  <2>1. calls' \in 0 .. MaxCalls
    BY <1>0, DeployAssumption DEF Restart, RestTypes
  <2>2. UNCHANGED <<row, versions, current, acked>> /\ (cache' = row \/ cache' = NoRow)
    BY DEF Restart, fsVars
  <2>3. gpc' = "idle" /\ gprune' \in Seq(Hashes)
    BY DEF Restart
  <2>4. gwritten' \in BOOLEAN
    BY DEF Restart
  <2> QED
    BY <1>0, <1>1, <2>1, <2>2, <2>3, <2>4 DEF RestTypes, Complete, Exists
<1>3. /\ dep' \in [Deployments -> Deps]
      /\ \A d \in Deployments :
           \/ dep[d].status # "queued" /\ dep'[d] = dep[d]
           \/ /\ dep[d].status = "queued" /\ dep'[d].status = "failed"
              /\ dep'[d].ver = dep[d].ver /\ dep'[d].src = dep[d].src
  BY <1>0, RestartIs
<1>4. /\ ProcTypes' /\ jobs' = <<>> /\ lock' = Nobody
      /\ \A q \in Procs : op'[q] = "none" /\ pc'[q] = "idle" /\ fn'[q] = NoRow
  BY <1>1 DEF Restart, ProcTypes, Ops, Labels
<1>5. \A q \in Procs : Path(q)' /\ CopyKnown(q)' /\ HeldRow(q)' /\ ~Holds(q)' /\ ~Locked(q)'
  BY <1>1, <1>4 DEF Path, CopyKnown, Loaded, Exists, NoRow, HeldRow, Holds, Early, Pending, Locked,
                    DeployOps, UpdateOps, RollbackOps
<1>6. OneHolder' /\ LocksHeld' /\ ChannelApart'
  BY <1>4, <1>5 DEF OneHolder, LocksHeld, ChannelApart
<1>7. \A d \in Deployments : DepKnown(d)' /\ dep'[d].ver = dep[d].ver
  BY <1>0, <1>3 DEF DepKnown
<1>8. VersionsBounded'
  BY <1>0, <1>7, VersionsStay
<1>9. (jobs \in Seq(Deployments))' /\ (lock \in Procs \cup {Nobody})'
  BY <1>4
<1> QED
  BY <1>2, <1>3, <1>4, <1>5, <1>6, <1>7, <1>8, <1>9, InvFromParts

LEMMA InitHolds == Init => DeployInv
<1> SUFFICES ASSUME Init PROVE DeployInv
  OBVIOUS
<1>1. PICK cfg \in Settings : row = Created(cfg)
  BY DEF Init
<1>2. row = [status |-> "created", hash |-> NoHash, active |-> NoDep, cfg |-> cfg, ver |-> 1]
  BY <1>1 DEF Created, NoRow
<1>3. row \in Rows /\ row.cfg \in Settings /\ cache = row /\ acked = row.cfg
  BY <1>2 DEF Rows, Init
<1>4. NoRow \in Rows /\ NoDeployment \in Deps
  BY DEF NoRow, Rows, NoDeployment, Deps
<1>5. TypeOK
  <2>1. /\ dep \in [Deployments -> Deps] /\ op \in [Procs -> Ops] /\ pc \in [Procs -> Labels]
        /\ fn \in [Procs -> Rows] /\ arg \in [Procs -> Deployments \cup {NoDep}]
        /\ num \in [Procs -> Nat]
    BY <1>4 DEF Init, Ops, Labels
  <2>2. /\ versions \in Seq(Hashes) /\ current \in Hashes \cup {NoHash}
        /\ jobs \in Seq(Deployments) /\ lock \in Procs \cup {Nobody} /\ gprune \in Seq(Hashes)
    BY DEF Init
  <2>3. gwritten \in BOOLEAN /\ gpc \in {"idle", "scan", "active", "remove", "sweep"}
    BY DEF Init
  <2>4. calls \in 0 .. MaxCalls
    BY DeployAssumption DEF Init
  <2> QED
    BY <1>3, <2>1, <2>2, <2>3, <2>4 DEF TypeOK
<1>6. \A p \in Procs : op[p] = "none" /\ pc[p] = "idle" /\ fn[p] = NoRow /\ arg[p] = NoDep
  BY DEF Init
<1>7. \A p \in Procs : Path(p) /\ CopyKnown(p) /\ HeldRow(p) /\ ~Holds(p) /\ ~Locked(p)
  BY <1>6 DEF Path, CopyKnown, Loaded, Complete, Exists, NoRow, HeldRow, Holds, Early, Pending,
              Locked, DeployOps, UpdateOps, RollbackOps
<1>8. \A d \in Deployments : dep[d].status = "none" /\ dep[d].ver = 0
  BY DEF Init, NoDeployment
<1>9. (\A d \in Deployments : DepKnown(d)) /\ VersionsBounded
  BY <1>8 DEF DepKnown, VersionsBounded
<1>10. OneHolder /\ LocksHeld /\ ChannelApart
  BY <1>7 DEF OneHolder, LocksHeld, ChannelApart, Init
<1> QED
  BY <1>3, <1>5, <1>7, <1>9, <1>10 DEF DeployInv, Complete

LEMMA StepKeeps ==
  ASSUME DeployInv, NEW p \in Procs, Step(p) \/ Lock(p)
  PROVE  DeployInv'
<1>1. CASE GetHit(p)
  BY <1>1, GetHitWalks, WalksKeep
<1>2. CASE GetMiss(p)
  BY <1>2, GetMissWalks, WalksKeep
<1>3. CASE GetStore(p)
  BY <1>3, GetStoreWalks, WalksKeep
<1>4. CASE SetCache(p)
  BY <1>4, SetCacheWalks, WalksKeep
<1>5. CASE ResolveByName(p)
  BY <1>5, ResolveByNameWalks, WalksKeep
<1>6. CASE AllocateVersion(p) \/ McpAllocateVersion(p)
  BY <1>6, AllocateWalks, WalksKeep DEF AllocateVersion, McpAllocateVersion, DeployOps
<1>7. CASE InsertDeployment(p) \/ McpInsertDeployment(p)
  BY <1>7, InsertKeeps DEF InsertDeployment, McpInsertDeployment, DeployOps
<1>8. CASE Submit(p) \/ McpSubmit(p)
  BY <1>8, SubmitKeeps
<1>9. CASE WaitDeployment(p)
  BY <1>9, WaitWalks, WalksKeep
<1>10. CASE Update(p) \/ McpUpdate(p)
  BY <1>10, UpdateWalks, WalksKeep
<1>11. CASE ResolveTarget(p) \/ McpResolveTarget(p)
  BY <1>11, TargetWalks, WalksKeep DEF ResolveTarget, McpResolveTarget, RollbackOps
<1>12. CASE RollbackActivate(p)
  BY <1>12, RollbackActivateWalks, WalksKeep
<1>13. CASE RollbackWrite(p) \/ McpRollbackWrite(p)
  BY <1>13, RollbackWriteWalks, WalksKeep
<1>14. CASE DeleteRow(p) \/ McpDeleteRow(p)
  BY <1>14, RemoveKeeps DEF DeleteRow, McpDeleteRow
<1>15. CASE DeleteCached(p)
  BY <1>15, DeleteCachedWalks, WalksKeep
<1>16. CASE PurgeFiles(p)
  BY <1>16, PurgeFilesWalks, WalksKeep
<1>17. CASE MarkBuilding(p) \/ BuildWrite(p) \/ MarkError(p)
  BY <1>17, BuildWritesWalk, WalksKeep
<1>18. CASE Build(p)
  BY <1>18, BuildWalks, WalksKeep
<1>19. CASE Publish(p)
  BY <1>19, PublishWalks, WalksKeep
<1>20. CASE Switch(p)
  BY <1>20, SwitchKeeps
<1>21. CASE Succeed(p)
  BY <1>21, SucceedKeeps
<1>22. CASE Fail(p)
  BY <1>22, FailKeeps
<1>23. CASE Lock(p)
  BY <1>23, LockWalks, WalksKeep
<1> QED
  BY <1>1, <1>2, <1>3, <1>4, <1>5, <1>6, <1>7, <1>8, <1>9, <1>10, <1>11, <1>12, <1>13, <1>14,
     <1>15, <1>16, <1>17, <1>18, <1>19, <1>20, <1>21, <1>22, <1>23 DEF Step

LEMMA NextKeeps == DeployInv /\ [Next]_vars => DeployInv'
<1> SUFFICES ASSUME DeployInv, [Next]_vars PROVE DeployInv'
  OBVIOUS
<1>1. CASE \E c \in Callers : \E name \in Calls \ {"gc"} : Call(c, name)
  BY <1>1, CallKeeps DEF Procs
<1>2. CASE \E b \in Builders : Dequeue(b)
  BY <1>2, DequeueKeeps DEF Procs
<1>3. CASE \E p \in Procs : Step(p) \/ Lock(p)
  BY <1>3, StepKeeps
<1>4. CASE GCList \/ GC
  BY <1>4, GCKeeps
<1>5. CASE Restart
  BY <1>5, RestartKeeps
<1>6. CASE UNCHANGED vars
  <2>1. UNCHANGED <<dep, jobs, lock, op, pc, fn, arg, num>> /\ RestTypes'
    BY <1>6, InvParts DEF vars, procVars, fsVars, gcVars, RestTypes, Complete, Exists
  <2> QED BY <2>1, StillKeeps
<1> QED
  BY <1>1, <1>2, <1>3, <1>4, <1>5, <1>6 DEF Next

LEMMA DeployInvHolds == Spec => []DeployInv
BY InitHolds, NextKeeps, PTL DEF Spec

\* Every variable has its type, for any number of goroutines, deployments
\* and queue slots.
THEOREM DeployTypesHold == Spec => []TypeOK
<1>1. DeployInv => TypeOK
  BY DEF DeployInv
<1> QED
  BY <1>1, DeployInvHolds, PTL

-----------------------------------------------------------------------------
(* A deployment's result is final.                                         *)

ResultsStay ==
  \A d \in Deployments :
    dep[d].status \in {"succeeded", "failed"} => dep'[d].status \in {dep[d].status, "gone"}

LEMMA FinishStays ==
  ASSUME DeployInv, NEW p \in Procs, Pending(p), Holds(p),
         NEW st \in {"succeeded", "failed"}, Finish(arg[p], st)
  PROVE  ResultsStay
<1>1. dep \in [Deployments -> Deps] /\ HeldRow(p)
  BY InvParts
<1>2. arg[p] \in Deployments /\ dep[arg[p]].status \in {"queued", "gone"}
  BY <1>1 DEF HeldRow
<1>3. \A e \in Deployments : e # arg[p] => dep'[e] = dep[e]
  BY <1>1, <1>2, FinishIs
<1> QED
  BY <1>2, <1>3 DEF ResultsStay

LEMMA StepStays ==
  ASSUME DeployInv, NEW p \in Procs, Step(p) \/ Lock(p)
  PROVE  ResultsStay
<1>0. /\ ProcTypes /\ Path(p) /\ HeldRow(p) /\ dep \in [Deployments -> Deps]
      /\ \A o \in Ops : o \in DeployOps \cup UpdateOps \cup RollbackOps
                              \cup {"none", "get", "delete", "mcpDelete", "build"}
  BY InvParts, OpsAre
<1>1. CASE InsertDeployment(p) \/ McpInsertDeployment(p)
  <2>1. arg[p] \in Deployments /\ dep[arg[p]].status = "none"
    BY <1>0, <1>1 DEF InsertDeployment, McpInsertDeployment, Insert, HeldRow, Early, Holds, DeployOps
  <2>2. \A e \in Deployments : e # arg[p] => dep'[e] = dep[e]
    BY <1>0, <1>1 DEF InsertDeployment, McpInsertDeployment, Insert
  <2> QED BY <2>1, <2>2 DEF ResultsStay
<1>2. CASE Submit(p) \/ McpSubmit(p)
  <2>1. pc[p] = "submit" /\ op[p] \in DeployOps /\ Enqueue(p)
    BY <1>2 DEF Submit, McpSubmit, DeployOps
  <2>2. Holds(p) /\ Pending(p)
    BY <2>1 DEF Holds, Pending
  <2>3. CASE dep' = dep
    BY <2>3 DEF ResultsStay
  <2>4. CASE Finish(arg[p], "failed")
    BY <2>2, <2>4, FinishStays
  <2> QED BY <2>1, <2>3, <2>4 DEF Enqueue
<1>3. CASE DeleteRow(p) \/ McpDeleteRow(p)
  <2>1. dep' = Cascade
    BY <1>3 DEF DeleteRow, McpDeleteRow, Remove
  <2> QED BY <1>0, <2>1, CascadeIs DEF ResultsStay
<1>4. CASE Switch(p)
  BY <1>4, SwitchIs DEF ResultsStay
<1>5. CASE Succeed(p) \/ Fail(p)
  <2>1. Holds(p) /\ Pending(p)
    BY <1>0, <1>5 DEF Succeed, Fail, Path, ProcTypes, DeployOps, UpdateOps, RollbackOps, Holds, Pending
  <2>2. \E st \in {"succeeded", "failed"} : Finish(arg[p], st)
    BY <1>5 DEF Succeed, Fail
  <2> QED BY <2>1, <2>2, FinishStays
<1>6. CASE dep' = dep
  BY <1>6 DEF ResultsStay
<1>7. CASE SetCache(p) \/ GetHit(p) \/ GetMiss(p) \/ GetStore(p) \/ ResolveByName(p) \/ Lock(p)
  BY <1>6, <1>7 DEF SetCache, GetHit, GetMiss, GetStore, ResolveByName, Lock
<1>8. CASE AllocateVersion(p) \/ McpAllocateVersion(p) \/ WaitDeployment(p)
           \/ ResolveTarget(p) \/ McpResolveTarget(p) \/ RollbackActivate(p)
           \/ DeleteCached(p) \/ PurgeFiles(p) \/ Build(p) \/ Publish(p)
  BY <1>6, <1>8 DEF AllocateVersion, McpAllocateVersion, Allocate, WaitDeployment, ResolveTarget,
                    McpResolveTarget, Target, RollbackActivate, DeleteCached, PurgeFiles, Build, Publish
<1>9. CASE Update(p) \/ McpUpdate(p) \/ RollbackWrite(p) \/ McpRollbackWrite(p)
           \/ MarkBuilding(p) \/ BuildWrite(p) \/ MarkError(p)
  BY <1>6, <1>9 DEF Update, McpUpdate, RollbackWrite, McpRollbackWrite, MarkBuilding, BuildWrite,
                    MarkError, SetRow
<1> QED
  BY <1>1, <1>2, <1>3, <1>4, <1>5, <1>7, <1>8, <1>9 DEF Step

LEMMA NextStays == DeployInv /\ [Next]_vars => ResultsStay
<1> SUFFICES ASSUME DeployInv, [Next]_vars PROVE ResultsStay
  OBVIOUS
<1>1. CASE dep' = dep
  BY <1>1 DEF ResultsStay
<1>2. CASE \E c \in Callers : \E name \in Calls \ {"gc"} : Call(c, name)
  BY <1>1, <1>2 DEF Call
<1>3. CASE \E b \in Builders : Dequeue(b)
  BY <1>1, <1>3 DEF Dequeue
<1>4. CASE \E p \in Procs : Step(p) \/ Lock(p)
  BY <1>4, StepStays
<1>5. CASE GCList \/ GC
  BY <1>1, <1>5 DEF GCList, GC, GCScan, GCActive, GCRemove, GCSweep
<1>6. CASE Restart
  BY <1>6, InvParts, RestartIs DEF ResultsStay
<1>7. CASE UNCHANGED vars
  BY <1>1, <1>7 DEF vars
<1> QED
  BY <1>2, <1>3, <1>4, <1>5, <1>6, <1>7 DEF Next

\* The result of a deployment is final: it is in one goroutine's hands, which
\* ends it once, and neither a full queue, a late failure nor a restart finds
\* it again.
THEOREM ResultsAreFinal == Spec => TerminalStays
<1>1. DeployInv /\ [Next]_vars =>
        [\A d \in Deployments : dep[d].status \in {"succeeded", "failed"} =>
            dep'[d].status \in {dep[d].status, "gone"}]_vars
  BY NextStays DEF ResultsStay
<1> QED
  BY <1>1, DeployInvHolds, PTL DEF TerminalStays, Spec

-----------------------------------------------------------------------------
(* `current` on disk, while no tick of the GC runs.                        *)

LEMMA StepOthers ==
  ASSUME DeployInv, NEW p \in Procs, Step(p) \/ Lock(p)
  PROVE  Others(p)
<1>0. ProcTypes
  BY InvParts
<1>1. CASE SetCache(p) \/ GetHit(p) \/ GetMiss(p) \/ GetStore(p) \/ ResolveByName(p) \/ Lock(p)
  BY <1>0, <1>1 DEF SetCache, GetHit, GetMiss, GetStore, ResolveByName, Lock, Return, Goto, Others, ProcTypes
<1>2. CASE AllocateVersion(p) \/ McpAllocateVersion(p) \/ WaitDeployment(p)
           \/ InsertDeployment(p) \/ McpInsertDeployment(p) \/ Submit(p) \/ McpSubmit(p)
  BY <1>0, <1>2 DEF AllocateVersion, McpAllocateVersion, Allocate, WaitDeployment, InsertDeployment,
                    McpInsertDeployment, Insert, Submit, McpSubmit, Return, Goto, Others, ProcTypes
<1>3. CASE ResolveTarget(p) \/ McpResolveTarget(p) \/ RollbackActivate(p)
           \/ DeleteRow(p) \/ McpDeleteRow(p) \/ DeleteCached(p) \/ PurgeFiles(p)
  BY <1>0, <1>3 DEF ResolveTarget, McpResolveTarget, Target, RollbackActivate, DeleteRow, McpDeleteRow,
                    Remove, DeleteCached, PurgeFiles, Return, Goto, Others, ProcTypes
<1>4. CASE Build(p) \/ Publish(p) \/ Switch(p) \/ Succeed(p) \/ Fail(p)
  BY <1>0, <1>4 DEF Build, Publish, Switch, Succeed, Fail, Return, Goto, Others, ProcTypes
<1>5. CASE Update(p) \/ McpUpdate(p) \/ RollbackWrite(p) \/ McpRollbackWrite(p)
           \/ MarkBuilding(p) \/ BuildWrite(p) \/ MarkError(p)
  BY <1>0, <1>5 DEF Update, McpUpdate, RollbackWrite, McpRollbackWrite, MarkBuilding, BuildWrite,
                    MarkError, SetRow, Goto, Others, ProcTypes
<1> QED
  BY <1>1, <1>2, <1>3, <1>4, <1>5 DEF Step

LEMMA DiskStays ==
  ASSUME DiskInv, NEW p \in Procs, Others(p), gpc' = gpc, Ready \subseteq Ready',
         current' = current \/ current' \in Ready',
         Activates(p)' => fn'[p].hash \in Ready'
  PROVE  DiskInv'
<1>1. ASSUME NEW q \in Procs PROVE HashReady(q)'
  <2>1. CASE q = p
    BY <2>1 DEF HashReady
  <2>2. CASE q # p
    <3>1. op'[q] = op[q] /\ pc'[q] = pc[q] /\ fn'[q] = fn[q] /\ HashReady(q)
      BY <2>2 DEF Others, DiskInv
    <3>2. Activates(q)' <=> Activates(q)
      BY <3>1 DEF Activates, Wrote
    <3> HIDE DEF Ready
    <3> QED BY <3>1, <3>2 DEF HashReady
  <2> QED BY <2>1, <2>2
<1>2. CurrentOnDisk'
  BY DEF DiskInv, CurrentOnDisk
<1> QED
  BY <1>1, <1>2 DEF DiskInv

\* A step that activates nothing and leaves the files alone.
LEMMA FilesKept ==
  ASSUME DiskInv, NEW p \in Procs, Others(p), UNCHANGED <<versions, current, gpc>>,
         Activates(p)' => fn'[p].hash \in Ready
  PROVE  DiskInv'
<1>1. Ready' = Ready
  BY DEF Ready
<1> HIDE DEF Ready
<1> QED
  BY <1>1, DiskStays

\* The published directory is on disk, and so is all that was there.
LEMMA PublishReady ==
  ASSUME DeployInv, NEW p \in Procs, Publish(p)
  PROVE  fn[p].hash \in Ready' /\ Ready \subseteq Ready'
<1> DEFINE h == fn[p].hash
           w == Without(versions, h)
<1>1. ProcTypes /\ RestTypes /\ CopyKnown(p)
  BY InvParts
<1>2. h \in Hashes /\ versions' = Append(w, h) /\ versions \in Seq(Hashes)
  BY <1>1 DEF Publish, CopyKnown, RestTypes
<1>3. /\ w \in Seq(Hashes)
      /\ \A i \in 1..Len(versions) : versions[i] # h => \E j \in 1..Len(w) : w[j] = versions[i]
  BY <1>2, WithoutKeeps
<1> HIDE DEF w, h
<1>4. /\ Len(versions') = Len(w) + 1 /\ Len(w) \in Nat /\ versions'[Len(w) + 1] = h
      /\ \A j \in 1..Len(w) : j \in 1..Len(versions') /\ versions'[j] = w[j]
  BY <1>2, <1>3
<1>5. h \in Ready'
  <2>1. Len(w) + 1 \in 1..Len(versions')
    BY <1>4
  <2> QED BY <1>4, <2>1 DEF Ready
<1>6. ASSUME NEW i \in 1..Len(versions) PROVE versions[i] \in Ready'
  <2>1. CASE versions[i] = h
    BY <1>5, <2>1
  <2>2. CASE versions[i] # h
    <3>1. PICK j \in 1..Len(w) : w[j] = versions[i]
      BY <1>3, <2>2
    <3> QED BY <1>4, <3>1 DEF Ready
  <2> QED BY <2>1, <2>2
<1>7. Ready \subseteq Ready'
  BY <1>6 DEF Ready
<1> QED BY <1>5, <1>7 DEF h

LEMMA StepOnDisk ==
  ASSUME DeployInv, DiskInv, NEW p \in Procs, Step(p) \/ Lock(p)
  PROVE  DiskInv'
<1>0. /\ ProcTypes /\ RestTypes /\ Path(p) /\ CopyKnown(p) /\ Others(p) /\ HashReady(p) /\ op[p] \in Ops
      /\ \A o \in Ops : o \in DeployOps \cup UpdateOps \cup RollbackOps
                              \cup {"none", "get", "delete", "mcpDelete", "build"}
  BY InvParts, OpsAre, StepOthers DEF DiskInv, ProcTypes
<1>1. ASSUME UNCHANGED <<versions, current, gpc>>, ~Activates(p)'
      PROVE  DiskInv'
  BY <1>0, <1>1, FilesKept
<1>2. ASSUME Return(p) PROVE ~Activates(p)'
  BY <1>0, <1>2 DEF Return, Goto, ProcTypes, Activates, Wrote, RollbackOps
<1>3. ASSUME NEW l \in {"miss", "insert", "submit", "wait", "target", "lock", "mark", "build", "publish",
                        "delete", "uncache", "purge", "finish", "fail", "error", "version"}, Goto(p, l)
      PROVE  ~Activates(p)'
  BY <1>0, <1>3 DEF Goto, ProcTypes, Activates, Wrote, RollbackOps
<1>4. CASE GetHit(p) \/ GetStore(p) \/ ResolveByName(p)
  <2>1. UNCHANGED <<versions, current, gpc>>
    BY <1>4 DEF GetHit, GetStore, ResolveByName, fsVars, gcVars
  <2>2. CASE Return(p)
    BY <1>1, <1>2, <2>1, <2>2
  <2>3. CASE ~Return(p)
    <3>1. /\ pc[p] \in {"get", "miss"} /\ op[p] # "get" /\ op'[p] = op[p]
          /\ pc'[p] = AfterGet[op[p]]
      BY <1>0, <1>4, <2>3 DEF GetHit, GetStore, ResolveByName, Goto, ProcTypes, McpCalls
    <3>2. op[p] \in UpdateOps \/ pc'[p] \in {"version", "lock", "delete", "mark"}
      BY <1>0, <3>1, AfterGetIs DEF Path, DeployOps, UpdateOps, RollbackOps
    <3>3. ~Activates(p)'
      BY <3>1, <3>2 DEF Activates, Wrote, RollbackOps, UpdateOps
    <3> QED BY <1>1, <2>1, <3>3
  <2> QED BY <2>2, <2>3
<1>5. CASE GetMiss(p)
  <2>1. UNCHANGED <<versions, current, gpc>>
    BY <1>5 DEF GetMiss, fsVars, gcVars
  <2>2. Return(p) \/ Goto(p, "miss") \/ Goto(p, "fail")
    BY <1>5 DEF GetMiss
  <2> QED BY <1>1, <1>2, <1>3, <2>1, <2>2
<1>6. CASE Lock(p)
  <2>1. UNCHANGED <<versions, current, gpc>>
    BY <1>6 DEF Lock, fsVars, gcVars
  <2>2. pc'[p] = AfterLock[op[p]] /\ op[p] \in RollbackOps \cup {"delete", "build"}
    BY <1>0, <1>6 DEF Lock, Goto, Path, ProcTypes, DeployOps, UpdateOps, RollbackOps
  <2>3. pc'[p] \in {"target", "delete", "get"}
    BY <2>2, AfterLockIs
  <2>4. ~Activates(p)'
    BY <2>3 DEF Activates, Wrote
  <2> QED BY <1>1, <2>1, <2>4
<1>7. CASE \/ AllocateVersion(p) \/ McpAllocateVersion(p) \/ WaitDeployment(p)
           \/ InsertDeployment(p) \/ McpInsertDeployment(p) \/ Submit(p) \/ McpSubmit(p)
           \/ DeleteRow(p) \/ McpDeleteRow(p) \/ DeleteCached(p) \/ Succeed(p) \/ Fail(p)
  <2>1. UNCHANGED <<versions, current, gpc>>
    BY <1>7 DEF AllocateVersion, McpAllocateVersion, Allocate, WaitDeployment, InsertDeployment,
                McpInsertDeployment, Insert, Submit, McpSubmit, DeleteRow, McpDeleteRow, Remove,
                DeleteCached, Succeed, Fail, fsVars, gcVars
  <2>2. \/ Return(p) \/ Goto(p, "insert") \/ Goto(p, "submit") \/ Goto(p, "wait")
        \/ Goto(p, "uncache") \/ Goto(p, "purge") \/ Goto(p, "error")
    BY <1>7 DEF AllocateVersion, McpAllocateVersion, Allocate, WaitDeployment, InsertDeployment,
                McpInsertDeployment, Insert, Submit, McpSubmit, DeleteRow, McpDeleteRow, Remove,
                DeleteCached, Succeed, Fail
  <2> QED BY <1>1, <1>2, <1>3, <2>1, <2>2
<1>8. CASE \/ Update(p) \/ McpUpdate(p) \/ RollbackWrite(p) \/ McpRollbackWrite(p)
  <2>1. op[p] # "build" /\ \E r : SetRow(p, r)
    BY <1>8 DEF Update, McpUpdate, RollbackWrite, McpRollbackWrite
  <2>2. UNCHANGED <<versions, current, gpc>> /\ op'[p] # "build" /\ pc'[p] = "store"
    BY <1>0, <2>1 DEF SetRow, Goto, ProcTypes, fsVars, gcVars
  <2>3. ~Activates(p)'
    BY <2>2 DEF Activates, Wrote
  <2> QED BY <1>1, <2>2, <2>3
<1>9. CASE MarkBuilding(p)
  <2>1. UNCHANGED <<versions, current, gpc>>
    BY <1>9 DEF MarkBuilding, SetRow, fsVars, gcVars
  <2>2. CASE Goto(p, "build")
    BY <1>1, <1>3, <2>1, <2>2
  <2>3. CASE SetRow(p, [fn[p] EXCEPT !.status = "building"])
    <3>1. pc'[p] = "store" /\ fn'[p].status = "building"
      BY <1>0, <2>3 DEF SetRow, Goto, ProcTypes, Rows
    <3>2. ~Activates(p)'
      BY <3>1 DEF Activates, Wrote
    <3> QED BY <1>1, <2>1, <3>2
  <2> QED BY <1>9, <2>2, <2>3 DEF MarkBuilding
<1>10. CASE MarkError(p)
  <2>1. UNCHANGED <<versions, current, gpc>>
    BY <1>10 DEF MarkError, SetRow, fsVars, gcVars
  <2>2. pc'[p] = "store" /\ fn'[p].status = "error"
    BY <1>0, <1>10 DEF MarkError, SetRow, Goto, ProcTypes, Rows
  <2>3. ~Activates(p)'
    BY <2>2 DEF Activates, Wrote
  <2> QED BY <1>1, <2>1, <2>3
<1>11. CASE BuildWrite(p)
  <2>1. UNCHANGED <<versions, current, gpc>>
    BY <1>11 DEF BuildWrite, SetRow, fsVars, gcVars
  <2>2. fn'[p].hash = fn[p].hash /\ fn[p].hash \in Ready
    BY <1>0, <1>11 DEF BuildWrite, SetRow, ProcTypes, Rows, HashReady, Activates
  <2> QED BY <1>0, <2>1, <2>2, FilesKept
<1>12. CASE SetCache(p)
  <2>1. UNCHANGED <<versions, current, gpc>>
    BY <1>12 DEF SetCache, fsVars, gcVars
  <2>2. CASE Return(p)
    BY <1>1, <1>2, <2>1, <2>2
  <2>3. CASE ~Return(p)
    <3>1. /\ op[p] = "build" /\ pc[p] = "store" /\ fn'[p] = fn[p]
          /\ \/ fn[p].status = "building" /\ Goto(p, "build")
             \/ fn[p].status = "active"
      BY <1>0, <1>12, <2>3 DEF SetCache, CopyKnown
    <3>2. CASE fn[p].status = "active"
      <4>1. fn'[p].hash \in Ready
        BY <1>0, <3>1, <3>2 DEF HashReady, Activates, Wrote
      <4> QED BY <1>0, <2>1, <4>1, FilesKept
    <3> QED BY <1>1, <1>3, <2>1, <3>1, <3>2
  <2> QED BY <2>2, <2>3
<1>13. CASE ResolveTarget(p) \/ McpResolveTarget(p)
  <2>1. UNCHANGED <<versions, current, gpc>> /\ Target(p)
    BY <1>13 DEF ResolveTarget, McpResolveTarget, Target, fsVars, gcVars
  <2>2. CASE Return(p)
    BY <1>1, <1>2, <2>1, <2>2
  <2>3. CASE ~Return(p)
    <3>1. PICK d \in Deployments :
            /\ dep[d].hash \in Ready
            /\ fn' = [fn EXCEPT ![p] = [@ EXCEPT !.hash = dep[d].hash, !.cfg = dep[d].snap,
                                                !.status = "active", !.active = d]]
      BY <2>1, <2>3 DEF Target
    <3>2. fn'[p] = [fn[p] EXCEPT !.hash = dep[d].hash, !.cfg = dep[d].snap,
                                 !.status = "active", !.active = d]
      BY <1>0, <3>1 DEF ProcTypes
    <3>3. fn[p] \in Rows
      BY <1>0 DEF ProcTypes
    <3>4. fn'[p].hash = dep[d].hash
      BY <3>2, <3>3 DEF Rows
    <3> QED BY <1>0, <2>1, <3>1, <3>4, FilesKept
  <2> QED BY <2>2, <2>3
<1>14. CASE RollbackActivate(p)
  <2>1. versions' = versions /\ gpc' = gpc /\ Ready' = Ready
    BY <1>14 DEF RollbackActivate, Ready
  <2>2. fn[p].hash \in Ready /\ (current' = current \/ current' = fn[p].hash)
    BY <1>0, <1>14 DEF RollbackActivate, HashReady, Activates, Path, ProcTypes,
                       DeployOps, UpdateOps, RollbackOps
  <2>3. ~Activates(p)'
    <3>1. CASE Return(p)
      BY <1>2, <3>1
    <3>2. CASE ~Return(p)
      <4>1. pc'[p] = "write" /\ op'[p] # "build"
        BY <1>0, <1>14, <3>2 DEF RollbackActivate, Goto, ProcTypes, Path
      <4> QED BY <4>1 DEF Activates, Wrote
    <3> QED BY <3>1, <3>2
  <2> HIDE DEF Ready
  <2>4. (current' = current \/ current' \in Ready') /\ Ready \subseteq Ready'
    BY <2>1, <2>2
  <2> QED BY <1>0, <2>1, <2>3, <2>4, DiskStays
<1>15. CASE Switch(p)
  <2>1. versions' = versions /\ gpc' = gpc /\ Ready' = Ready
    BY <1>15 DEF Switch, Ready
  <2>2. fn[p].hash \in Ready /\ (current' = current \/ current' = fn[p].hash)
    BY <1>0, <1>15, SwitchIs DEF Switch, HashReady, Activates
  <2>3. ~Activates(p)'
    BY <1>3, <1>15 DEF Switch
  <2> HIDE DEF Ready
  <2>4. (current' = current \/ current' \in Ready') /\ Ready \subseteq Ready'
    BY <2>1, <2>2
  <2> QED BY <1>0, <2>1, <2>3, <2>4, DiskStays
<1>16. CASE Build(p)
  <2>1. UNCHANGED <<versions, current, gpc>>
    BY <1>16 DEF Build, fsVars
  <2>2. CASE Goto(p, "fail") \/ Goto(p, "publish")
    BY <1>1, <1>3, <2>1, <2>2
  <2>3. CASE ~(Goto(p, "fail") \/ Goto(p, "publish"))
    <3>1. dep[arg[p]].src \in Ready /\ fn' = [fn EXCEPT ![p].hash = dep[arg[p]].src]
      BY <1>16, <2>3 DEF Build
    <3>2. fn'[p].hash = dep[arg[p]].src
      BY <1>0, <3>1 DEF ProcTypes, Rows
    <3> QED BY <1>0, <2>1, <3>1, <3>2, FilesKept
  <2> QED BY <2>2, <2>3
<1>17. CASE Publish(p)
  <2>1. fn[p].hash \in Ready' /\ Ready \subseteq Ready'
    BY <1>17, PublishReady
  <2>2. current' = current /\ gpc' = gpc /\ fn'[p] = fn[p]
    BY <1>17 DEF Publish
  <2> HIDE DEF Ready
  <2> QED BY <1>0, <2>1, <2>2, DiskStays
<1>18. CASE PurgeFiles(p)
  <2>1. pc[p] = "purge" /\ op[p] = "delete"
    BY <1>0, <1>18 DEF PurgeFiles, Path, ProcTypes, DeployOps, UpdateOps, RollbackOps
  <2>2. lock = p
    BY <2>1, InvParts DEF LocksHeld, Locked
  <2>3. ASSUME NEW q \in Procs PROVE ~Activates(q)'
    <3>1. CASE q = p
      BY <1>2, <1>18, <3>1 DEF PurgeFiles
    <3>2. CASE q # p
      <4>1. ~Locked(q)
        BY <2>2, <3>2, InvParts DEF LocksHeld
      <4>2. op'[q] = op[q] /\ pc'[q] = pc[q] /\ fn'[q] = fn[q]
        BY <1>0, <3>2 DEF Others
      <4> QED BY <4>1, <4>2 DEF Activates, Wrote, Locked, RollbackOps
    <3> QED BY <3>1, <3>2
  <2>4. current' = NoHash /\ gpc' = gpc
    BY <1>18 DEF PurgeFiles, gcVars
  <2> QED BY <2>3, <2>4 DEF DiskInv, HashReady, CurrentOnDisk
<1> QED
  BY <1>4, <1>5, <1>6, <1>7, <1>8, <1>9, <1>10, <1>11, <1>12, <1>13, <1>14, <1>15, <1>16, <1>17, <1>18
     DEF Step

LEMMA NextOnDisk ==
  ASSUME "gc" \notin Calls, DeployInv, DiskInv, [Next]_vars
  PROVE  DiskInv'
<1>0. ProcTypes /\ gpc = "idle" /\ \A q \in Procs : HashReady(q)
  BY InvParts DEF DiskInv
<1>1. CASE \E c \in Callers : \E name \in Calls \ {"gc"} : Call(c, name)
  <2>1. PICK c \in Callers : \E name \in Calls \ {"gc"} : Call(c, name)
    BY <1>1
  <2>2. c \in Procs
    BY DEF Procs
  <2>3. UNCHANGED <<versions, current, gpc>> /\ Others(c)
    BY <1>0, <2>1 DEF Call, Goto, Others, ProcTypes, fsVars, gcVars
  <2>4. pc'[c] = "get"
    BY <1>0, <2>1, <2>2 DEF Call, Goto, ProcTypes
  <2>5. ~Activates(c)'
    BY <2>4 DEF Activates, Wrote
  <2> QED BY <2>2, <2>3, <2>5, FilesKept
<1>2. CASE \E b \in Builders : Dequeue(b)
  <2>1. PICK b \in Builders : Dequeue(b)
    BY <1>2
  <2>2. b \in Procs
    BY DEF Procs
  <2>3. UNCHANGED <<versions, current, gpc>> /\ Others(b)
    BY <1>0, <2>1 DEF Dequeue, Goto, Others, ProcTypes, fsVars, gcVars
  <2>4. pc'[b] = "lock"
    BY <1>0, <2>1, <2>2 DEF Dequeue, Goto, ProcTypes
  <2>5. ~Activates(b)'
    BY <2>4 DEF Activates, Wrote
  <2> QED BY <2>2, <2>3, <2>5, FilesKept
<1>3. CASE \E p \in Procs : Step(p) \/ Lock(p)
  BY <1>3, StepOnDisk
<1>4. CASE GCList \/ GC
  BY <1>0, <1>4 DEF GCList, GC, GCScan, GCActive, GCRemove, GCSweep
<1>5. CASE Restart
  <2>1. \A q \in Procs : pc'[q] = "idle"
    BY <1>5 DEF Restart
  <2>2. \A q \in Procs : ~Activates(q)'
    BY <2>1 DEF Activates, Wrote
  <2>3. UNCHANGED <<versions, current>> /\ gpc' = "idle"
    BY <1>5 DEF Restart, fsVars
  <2>4. CurrentOnDisk'
    BY <2>3 DEF DiskInv, CurrentOnDisk, Ready
  <2> QED BY <2>2, <2>3, <2>4 DEF DiskInv, HashReady
<1>6. CASE UNCHANGED vars
  <2>1. UNCHANGED <<versions, current, gpc, op, pc, fn>>
    BY <1>6 DEF vars, procVars, fsVars, gcVars
  <2>2. Ready' = Ready
    BY <2>1 DEF Ready
  <2> HIDE DEF Ready
  <2>3. \A q \in Procs : HashReady(q)'
    BY <1>0, <2>1, <2>2 DEF HashReady, Activates, Wrote
  <2> QED BY <2>1, <2>2, <2>3 DEF DiskInv, CurrentOnDisk
<1> QED
  BY <1>1, <1>2, <1>3, <1>4, <1>5, <1>6 DEF Next

\* While no tick of the GC runs, `current` never dangles: builds, rollbacks
\* and deletes interleave as the lock lets them, activations fail and the
\* daemon restarts at any point.
THEOREM CurrentNeverDangles ==
  ASSUME "gc" \notin Calls
  PROVE  Spec => []CurrentOnDisk
<1>1. Init => DiskInv
  <2> SUFFICES ASSUME Init PROVE DiskInv
    OBVIOUS
  <2>1. gpc = "idle" /\ current = NoHash /\ \A q \in Procs : pc[q] = "idle"
    BY DEF Init
  <2> QED BY <2>1 DEF DiskInv, CurrentOnDisk, HashReady, Activates, Wrote
<1>2. DeployInv /\ DiskInv /\ [Next]_vars => DiskInv'
  BY NextOnDisk
<1>3. DiskInv => CurrentOnDisk
  BY DEF DiskInv
<1> QED
  BY <1>1, <1>2, <1>3, DeployInvHolds, PTL DEF Spec

-----------------------------------------------------------------------------
(* What is served: builds, rollbacks, invocations and the GC.              *)

\* No settings are edited, no function is deleted, activation succeeds and
\* the daemon runs on.
Undisturbed == Calls \subseteq ServingCalls /\ Faults \subseteq {"build"}

\* A goroutine moves, and neither the row nor `current` nor a deployment
\* that succeeded changes.
LEMMA ServingKept ==
  ASSUME DeployInv, ServingInv, NEW p \in Procs, Others(p), UNCHANGED <<row, current>>,
         gpc' # "sweep",
         \A d \in Deployments : dep'[d].status # "gone",
         \A d \in Deployments : dep[d].status = "succeeded" => dep'[d] = dep[d],
         \A q \in Procs : q # p /\ pc[q] = "finish" => dep'[arg[q]] = dep[arg[q]],
         WriterKnows(p)', Writing(p) => Writing(p)'
  PROVE  ServingInv'
<1>1. ASSUME NEW q \in Procs, q # p
      PROVE  WriterKnows(q)' /\ (Writing(q) => Writing(q)')
  <2>1. op'[q] = op[q] /\ pc'[q] = pc[q] /\ fn'[q] = fn[q] /\ arg'[q] = arg[q] /\ WriterKnows(q)
    BY <1>1 DEF Others, ServingInv
  <2>2. Writing(q)' <=> Writing(q)
    BY <2>1 DEF Writing, Wrote
  <2>3. /\ op[q] \in RollbackOps /\ pc[q] \in {"activate", "write", "store"} =>
             dep'[fn[q].active] = dep[fn[q].active]
        /\ pc[q] = "finish" => dep'[arg[q]] = dep[arg[q]]
    BY <1>1, <2>1 DEF WriterKnows
  <2>4. WriterKnows(q)'
    BY <2>1, <2>2, <2>3 DEF WriterKnows
  <2> QED BY <2>2, <2>4
<1>2. \A q \in Procs : WriterKnows(q)' /\ (Writing(q) => Writing(q)')
  BY <1>1
<1>3. ASSUME row'.status = "active", \A q \in Procs : ~Writing(q)'
      PROVE  Agree(row)'
  <2>1. Agree(row)
    BY <1>2, <1>3 DEF ServingInv
  <2> QED
    BY <2>1 DEF Agree
<1>4. Exists(row)'
  BY DEF ServingInv, Exists
<1> QED
  BY <1>2, <1>3, <1>4 DEF ServingInv

\* The holder of the lock writes; nobody else knows anything of the row.
LEMMA ServingWritten ==
  ASSUME DeployInv, ServingInv, NEW p \in Procs, Others(p), Locked(p), Exists(row)', gpc' = gpc,
         \A d \in Deployments : dep'[d].status # "gone",
         WriterKnows(p)',
         row'.status = "active" /\ ~Writing(p)' => Agree(row)'
  PROVE  ServingInv'
<1>0. ProcTypes
  BY InvParts
<1>1. ASSUME NEW q \in Procs, q # p PROVE WriterKnows(q)'
  <2>1. op'[q] = op[q] /\ pc'[q] = pc[q] /\ fn'[q] = fn[q] /\ arg'[q] = arg[q]
        /\ op[q] \in {"none", "build"} \cup ServingCalls
    BY <1>1 DEF Others, ServingInv, WriterKnows
  <2>2. ~Locked(q) /\ Path(q) /\ op[q] \in Ops
    BY <1>0, <1>1, InvParts DEF LocksHeld, ProcTypes
  <2>3. /\ ~(op[q] \in RollbackOps /\ pc[q] \in {"activate", "write", "store"})
        /\ ~(op[q] = "build" /\ pc[q] # "lock")
    BY <2>2 DEF Locked, RollbackOps
  <2>4. pc[q] # "finish"
    BY <2>2, <2>3, OpsAre DEF Path, DeployOps, UpdateOps, RollbackOps
  <2>5. ~Wrote(q)' /\ ~(op'[q] = "build" /\ Writing(q)')
    BY <2>1, <2>3 DEF Wrote, Writing, RollbackOps
  <2> QED
    BY <2>1, <2>3, <2>4, <2>5 DEF WriterKnows, RollbackOps
<1>2. \A q \in Procs : WriterKnows(q)'
  BY <1>1
<1>3. gpc' # "sweep"
  BY DEF ServingInv
<1> QED
  BY <1>2, <1>3 DEF ServingInv

LEMMA StepServes ==
  ASSUME Undisturbed, DeployInv, ServingInv, NEW p \in Procs, Step(p) \/ Lock(p)
  PROVE  ServingInv'
<1>0. /\ ProcTypes /\ RestTypes /\ Path(p) /\ CopyKnown(p) /\ HeldRow(p) /\ Others(p)
      /\ dep \in [Deployments -> Deps] /\ fn[p] \in Rows
      /\ op[p] \in Ops /\ WriterKnows(p) /\ Exists(row) /\ gpc # "sweep"
      /\ \A d \in Deployments : dep[d].status # "gone"
  BY InvParts, StepOthers DEF ServingInv, ProcTypes
<1>00. op[p] \in {"none", "build", "get"} \cup DeployOps \cup RollbackOps
  BY <1>0 DEF WriterKnows, ServingCalls, Ops, McpCalls, DeployOps, RollbackOps
\* Steps of which the property depends on nothing.
<1>1. ASSUME UNCHANGED <<row, current, dep, gpc>>, WriterKnows(p)', Writing(p) => Writing(p)'
      PROVE  ServingInv'
  BY <1>0, <1>1, ServingKept
<1>2. ASSUME Return(p) PROVE WriterKnows(p)' /\ ~Writing(p)'
  <2>1. op'[p] = "none" /\ pc'[p] = "idle"
    BY <1>0, <1>2 DEF Return, Goto, ProcTypes
  <2> QED BY <2>1 DEF WriterKnows, Writing, Wrote, RollbackOps
<1>3. ASSUME NEW l \in {"get", "miss", "insert", "submit", "wait", "target", "lock", "mark", "build",
                        "publish", "fail", "error", "version"}, pc'[p] = l, op'[p] = op[p]
      PROVE  WriterKnows(p)' /\ ~Writing(p)'
  BY <1>0, <1>3 DEF WriterKnows, Writing, Wrote, RollbackOps
<1>4. CASE GetHit(p) \/ GetStore(p) \/ ResolveByName(p)
  <2>1. UNCHANGED <<row, current, dep, gpc>> /\ ~Writing(p)
    BY <1>4 DEF GetHit, GetStore, ResolveByName, fsVars, gcVars, Writing, Wrote
  <2>2. CASE Return(p)
    BY <1>1, <1>2, <2>1, <2>2
  <2>3. CASE ~Return(p)
    <3>1. /\ pc[p] \in {"get", "miss"} /\ op[p] # "get" /\ op'[p] = op[p]
          /\ pc'[p] = AfterGet[op[p]]
      BY <1>0, <1>4, <2>3 DEF GetHit, GetStore, ResolveByName, Goto, ProcTypes, McpCalls
    <3>2. pc'[p] \in {"version", "lock", "mark"}
      BY <1>0, <1>00, <3>1, AfterGetIs DEF Path, DeployOps, UpdateOps, RollbackOps
    <3> QED BY <1>1, <1>3, <2>1, <3>1, <3>2
  <2> QED BY <2>2, <2>3
<1>5. CASE GetMiss(p)
  <2>1. UNCHANGED <<row, current, dep, gpc>> /\ ~Writing(p)
    BY <1>5 DEF GetMiss, fsVars, gcVars, Writing, Wrote
  <2>2. Return(p) \/ (pc'[p] = "miss" /\ op'[p] = op[p])
    BY <1>0, <1>5 DEF GetMiss, Goto, ProcTypes
  <2> QED BY <1>1, <1>2, <1>3, <2>1, <2>2
<1>6. CASE Lock(p)
  <2>1. UNCHANGED <<row, current, dep, gpc>> /\ ~Writing(p) /\ op'[p] = op[p]
    BY <1>6 DEF Lock, fsVars, gcVars, Writing, Wrote
  <2>2. pc'[p] = AfterLock[op[p]] /\ op[p] \in RollbackOps \cup {"build"}
    BY <1>0, <1>00, <1>6 DEF Lock, Goto, Path, ProcTypes, DeployOps, UpdateOps, RollbackOps
  <2>3. pc'[p] \in {"target", "get"}
    BY <2>2, AfterLockIs
  <2> QED BY <1>1, <1>3, <2>1, <2>3
<1>7. CASE AllocateVersion(p) \/ McpAllocateVersion(p) \/ WaitDeployment(p)
  <2>1. UNCHANGED <<row, current, dep, gpc>> /\ ~Writing(p)
    BY <1>7 DEF AllocateVersion, McpAllocateVersion, Allocate, WaitDeployment, fsVars, gcVars, Writing, Wrote
  <2>2. Return(p) \/ (pc'[p] = "insert" /\ op'[p] = op[p])
    BY <1>0, <1>7 DEF AllocateVersion, McpAllocateVersion, Allocate, WaitDeployment, Goto, ProcTypes
  <2> QED BY <1>1, <1>2, <1>3, <2>1, <2>2
\* A deployment that is in p's hands is not the one of another build.
<1>8. ASSUME Holds(p), dep[arg[p]].status # "succeeded",
             \A d \in Deployments : d # arg[p] => dep'[d] = dep[d],
             dep'[arg[p]].status # "gone", UNCHANGED <<row, current, gpc>>,
             WriterKnows(p)', ~Writing(p)
      PROVE  ServingInv'
  <2>1. ASSUME NEW q \in Procs, q # p, pc[q] = "finish"
        PROVE  dep'[arg[q]] = dep[arg[q]]
    <3>1. Path(q) /\ HeldRow(q) /\ op[q] \in Ops /\ OneHolder
      BY <1>0, InvParts DEF ProcTypes
    <3>2. op[q] = "build" /\ Holds(q)
      BY <2>1, <3>1, OpsAre DEF Path, Holds, DeployOps, UpdateOps, RollbackOps
    <3>3. arg[q] \in Deployments /\ arg[q] # arg[p]
      BY <1>8, <2>1, <3>1, <3>2 DEF OneHolder, HeldRow
    <3> QED BY <1>8, <3>3
  <2>2. \A d \in Deployments : dep'[d].status # "gone"
    BY <1>0, <1>8
  <2>3. \A d \in Deployments : dep[d].status = "succeeded" => dep'[d] = dep[d]
    BY <1>8
  <2>4. gpc' # "sweep"
    BY <1>0, <1>8
  <2> QED BY <1>0, <1>8, <2>1, <2>2, <2>3, <2>4, ServingKept
<1>9. CASE InsertDeployment(p) \/ McpInsertDeployment(p)
  <2>0. UNCHANGED <<row, current, gpc>> /\ Insert(p) /\ op[p] \in DeployOps /\ pc[p] = "insert"
    BY <1>9 DEF InsertDeployment, McpInsertDeployment, Insert, fsVars, gcVars, DeployOps
  <2>1. Holds(p) /\ arg[p] \in Deployments /\ dep[arg[p]].status = "none" /\ ~Writing(p)
    BY <1>0, <2>0 DEF HeldRow, Early, Holds, DeployOps, Writing, Wrote, RollbackOps
  <2>2. PICK h \in Hashes :
          dep' = [dep EXCEPT ![arg[p]] =
                   [NoDeployment EXCEPT !.status = "queued", !.ver = num[p], !.src = h]]
    BY <1>0, <2>0 DEF Insert
  <2>3. dep'[arg[p]] = [NoDeployment EXCEPT !.status = "queued", !.ver = num[p], !.src = h]
    BY <1>0, <2>1, <2>2
  <2>4. dep'[arg[p]].status = "queued" /\ \A d \in Deployments : d # arg[p] => dep'[d] = dep[d]
    BY <1>0, <2>2, <2>3 DEF NoDeployment
  <2>5. pc'[p] = "submit" /\ op'[p] = op[p]
    BY <1>0, <2>0 DEF Insert, Goto, ProcTypes
  <2>6. WriterKnows(p)'
    BY <1>3, <2>5
  <2> QED BY <1>8, <2>0, <2>1, <2>4, <2>6
<1>10. CASE Submit(p) \/ McpSubmit(p)
  <2>0. /\ UNCHANGED <<row, current, gpc>> /\ Enqueue(p) /\ op[p] \in DeployOps /\ pc[p] = "submit"
        /\ Return(p) \/ (pc'[p] = "wait" /\ op'[p] = op[p])
    BY <1>0, <1>10 DEF Submit, McpSubmit, fsVars, gcVars, DeployOps, Goto, ProcTypes
  <2>1. Holds(p) /\ Pending(p) /\ ~Writing(p)
    BY <2>0 DEF Holds, Pending, DeployOps, Writing, Wrote, RollbackOps
  <2>2. arg[p] \in Deployments /\ dep[arg[p]].status = "queued"
    BY <1>0, <2>1 DEF HeldRow
  <2>3. WriterKnows(p)'
    BY <1>2, <1>3, <2>0
  <2>4. CASE dep' = dep
    BY <1>1, <2>0, <2>1, <2>3, <2>4
  <2>5. CASE Finish(arg[p], "failed")
    <3>1. /\ \A e \in Deployments : e # arg[p] => dep'[e] = dep[e]
          /\ dep'[arg[p]].status = IF Recorded(arg[p]) THEN "failed" ELSE dep[arg[p]].status
      BY <1>0, <2>2, <2>5, FinishIs
    <3> QED BY <1>8, <2>0, <2>1, <2>2, <2>3, <3>1
  <2> QED BY <2>0, <2>4, <2>5 DEF Enqueue
<1>11. CASE Fail(p)
  <2>0. /\ UNCHANGED <<row, current, gpc>> /\ Finish(arg[p], "failed") /\ op[p] = "build" /\ pc[p] = "fail"
        /\ Return(p) \/ (pc'[p] = "error" /\ op'[p] = op[p])
    BY <1>0, <1>00, <1>11 DEF Fail, fsVars, gcVars, Goto, ProcTypes, Path, DeployOps, RollbackOps
  <2>1. Holds(p) /\ Pending(p) /\ ~Writing(p)
    BY <2>0 DEF Holds, Pending, DeployOps, Writing, Wrote, RollbackOps
  <2>2. arg[p] \in Deployments /\ dep[arg[p]].status = "queued"
    BY <1>0, <2>1 DEF HeldRow
  <2>3. WriterKnows(p)'
    BY <1>2, <1>3, <2>0
  <2>4. /\ \A e \in Deployments : e # arg[p] => dep'[e] = dep[e]
        /\ dep'[arg[p]].status = IF Recorded(arg[p]) THEN "failed" ELSE dep[arg[p]].status
    BY <1>0, <2>0, <2>2, FinishIs
  <2> QED BY <1>8, <2>0, <2>1, <2>2, <2>3, <2>4
<1>12. CASE ResolveTarget(p) \/ McpResolveTarget(p)
  <2>0. /\ UNCHANGED <<row, current, dep, gpc>> /\ Target(p) /\ op[p] \in RollbackOps
        /\ pc[p] = "target" /\ ~Writing(p)
    BY <1>12 DEF ResolveTarget, McpResolveTarget, Target, fsVars, gcVars, RollbackOps, Writing, Wrote
  <2>1. CASE Return(p)
    BY <1>1, <1>2, <2>0, <2>1
  <2>2. CASE ~Return(p)
    <3>1. PICK d \in Deployments :
            /\ dep[d].status = "succeeded"
            /\ fn' = [fn EXCEPT ![p] = [@ EXCEPT !.hash = dep[d].hash, !.cfg = dep[d].snap,
                                                !.status = "active", !.active = d]]
            /\ Goto(p, "activate") /\ op' = op
      BY <2>0, <2>2 DEF Target
    <3>2. fn'[p] = [fn[p] EXCEPT !.hash = dep[d].hash, !.cfg = dep[d].snap,
                                 !.status = "active", !.active = d]
      BY <1>0, <3>1 DEF ProcTypes
    <3>3. fn'[p].hash = dep[d].hash /\ fn'[p].status = "active" /\ fn'[p].active = d
      BY <1>0, <3>2 DEF Rows
    <3>4. pc'[p] = "activate" /\ op'[p] = op[p]
      BY <1>0, <3>1 DEF Goto, ProcTypes
    <3>5. WriterKnows(p)'
      BY <1>0, <2>0, <3>1, <3>3, <3>4 DEF WriterKnows, RollbackOps
    <3> QED BY <1>1, <2>0, <3>5
  <2> QED BY <2>1, <2>2
<1>13. CASE RollbackActivate(p)
  <2>1. op[p] \in RollbackOps /\ pc[p] = "activate"
    BY <1>0, <1>00, <1>13 DEF RollbackActivate, Path, DeployOps
  <2>2. /\ current' = fn[p].hash /\ pc'[p] = "write" /\ op'[p] = op[p] /\ fn'[p] = fn[p]
        /\ row' = row /\ dep' = dep /\ gpc' = gpc
    BY <1>0, <1>13 DEF RollbackActivate, Goto, ProcTypes, Undisturbed
  <2>3. Locked(p) /\ Writing(p)'
    BY <2>1, <2>2 DEF Locked, Writing
  <2>4. WriterKnows(p)'
    BY <1>0, <2>1, <2>2 DEF WriterKnows, RollbackOps
  <2>5. Exists(row)' /\ \A d \in Deployments : dep'[d].status # "gone"
    BY <1>0, <2>2 DEF Exists
  <2> QED BY <1>0, <2>2, <2>3, <2>4, <2>5, ServingWritten
<1>14. CASE RollbackWrite(p) \/ McpRollbackWrite(p)
  <2>1. op[p] \in RollbackOps /\ pc[p] = "write" /\ SetRow(p, fn[p])
    BY <1>14 DEF RollbackWrite, McpRollbackWrite, RollbackOps
  <2>2. /\ row' = fn[p] /\ fn'[p] = fn[p] /\ pc'[p] = "store" /\ op'[p] = op[p]
        /\ dep' = dep /\ gpc' = gpc /\ current' = current
    BY <1>0, <2>1 DEF SetRow, Goto, ProcTypes, fsVars, gcVars
  <2>3. /\ fn[p].status = "active" /\ fn[p].active \in Deployments
        /\ dep[fn[p].active].status = "succeeded" /\ dep[fn[p].active].hash = fn[p].hash
        /\ fn[p].hash = current
    BY <1>0, <2>1 DEF WriterKnows
  <2>4. Locked(p)
    BY <2>1 DEF Locked
  <2>5. WriterKnows(p)'
    BY <1>0, <2>1, <2>2, <2>3 DEF WriterKnows, RollbackOps
  <2>6. Exists(row)' /\ Agree(row)' /\ \A d \in Deployments : dep'[d].status # "gone"
    BY <1>0, <2>2, <2>3 DEF Exists, Agree
  <2> QED BY <1>0, <2>2, <2>4, <2>5, <2>6, ServingWritten
<1>15. CASE Update(p) \/ McpUpdate(p) \/ DeleteRow(p) \/ McpDeleteRow(p) \/ DeleteCached(p) \/ PurgeFiles(p)
  BY <1>0, <1>00, <1>15 DEF Update, McpUpdate, DeleteRow, McpDeleteRow, Remove, DeleteCached, PurgeFiles,
                            Path, DeployOps, RollbackOps
<1>16. CASE MarkBuilding(p) \/ MarkError(p)
  <2>0. op[p] = "build" /\ pc[p] \in {"mark", "error"} /\ ~Writing(p)
    BY <1>0, <1>00, <1>16 DEF MarkBuilding, MarkError, Path, DeployOps, RollbackOps, Writing, Wrote
  <2>1. CASE \E s \in {"building", "error"} : SetRow(p, [fn[p] EXCEPT !.status = s])
    <3>1. PICK s \in {"building", "error"} : SetRow(p, [fn[p] EXCEPT !.status = s])
      BY <2>1
    <3>2. /\ row' = fn'[p] /\ fn'[p].status = s /\ pc'[p] = "store" /\ op'[p] = op[p]
          /\ dep' = dep /\ gpc' = gpc
      BY <1>0, <3>1 DEF SetRow, Goto, ProcTypes, gcVars, Rows
    <3>3. Locked(p) /\ ~Writing(p)'
      BY <2>0, <3>2 DEF Locked, Writing, Wrote, RollbackOps
    <3>4. WriterKnows(p)'
      BY <1>0, <2>0, <3>2, <3>3 DEF WriterKnows, RollbackOps
    <3>5. Exists(row)' /\ row'.status # "active" /\ \A d \in Deployments : dep'[d].status # "gone"
      BY <1>0, <3>2 DEF Exists
    <3> QED BY <1>0, <3>2, <3>3, <3>4, <3>5, ServingWritten
  <2>2. CASE UNCHANGED <<row, current, dep, gpc>> /\ pc'[p] = "build" /\ op'[p] = op[p]
    BY <1>1, <1>3, <2>0, <2>2
  <2> QED
    BY <1>0, <1>16, <2>1, <2>2 DEF MarkBuilding, MarkError, Goto, ProcTypes, fsVars, gcVars
<1>17. CASE Build(p)
  <2>1. /\ UNCHANGED <<row, current, dep, gpc>> /\ op[p] = "build" /\ pc[p] = "build" /\ op'[p] = op[p]
        /\ pc'[p] \in {"write", "publish", "fail"} /\ ~Writing(p)
    BY <1>0, <1>00, <1>17 DEF Build, fsVars, Goto, ProcTypes, Path, DeployOps, RollbackOps, Writing, Wrote
  <2>2. WriterKnows(p)'
    BY <1>0, <2>1 DEF WriterKnows, RollbackOps, Writing, Wrote
  <2> QED BY <1>1, <2>1, <2>2
<1>18. CASE Publish(p)
  <2>1. /\ UNCHANGED <<row, current, dep, gpc>> /\ op[p] = "build" /\ pc[p] = "publish" /\ op'[p] = op[p]
        /\ pc'[p] = "write" /\ ~Writing(p)
    BY <1>0, <1>00, <1>18 DEF Publish, Goto, ProcTypes, Path, DeployOps, RollbackOps, Writing, Wrote
  <2>2. WriterKnows(p)'
    BY <1>0, <2>1 DEF WriterKnows, RollbackOps, Writing, Wrote
  <2> QED BY <1>1, <2>1, <2>2
<1>19. CASE BuildWrite(p)
  <2>0. op[p] = "build" /\ pc[p] = "write" /\ arg[p] \in Deployments
    BY <1>0, <1>19 DEF BuildWrite, HeldRow, Holds
  <2>1. /\ row' = fn'[p] /\ pc'[p] = "store" /\ op'[p] = op[p] /\ arg'[p] = arg[p]
        /\ fn'[p] = [fn[p] EXCEPT !.status = "active", !.active = arg[p], !.ver = @ + 1]
        /\ dep' = dep /\ gpc' = gpc
    BY <1>0, <1>19 DEF BuildWrite, SetRow, Goto, ProcTypes, gcVars
  <2>2. fn'[p].status = "active" /\ fn'[p].active = arg[p]
    BY <1>0, <2>1 DEF Rows
  <2>3. Locked(p) /\ Writing(p)'
    BY <2>0, <2>1, <2>2 DEF Locked, Writing, Wrote
  <2>4. WriterKnows(p)'
    BY <1>0, <2>0, <2>1, <2>2 DEF WriterKnows, RollbackOps
  <2>5. Exists(row)' /\ \A d \in Deployments : dep'[d].status # "gone"
    BY <1>0, <2>1, <2>2 DEF Exists
  <2> QED BY <1>0, <2>1, <2>3, <2>4, <2>5, ServingWritten
<1>20. CASE SetCache(p)
  <2>0. UNCHANGED <<row, current, dep, gpc>> /\ pc[p] = "store"
    BY <1>20 DEF SetCache, fsVars, gcVars
  <2>1. CASE Return(p)
    <3>1. ~Writing(p)
      <4>1. CASE op[p] = "build" /\ fn[p].status # "error"
        <5>1. Goto(p, IF fn[p].status = "building" THEN "build" ELSE "switch")
          BY <1>20, <4>1 DEF SetCache
        <5>2. pc'[p] # "idle"
          BY <1>0, <5>1 DEF Goto, ProcTypes
        <5>3. pc'[p] = "idle"
          BY <1>0, <2>1 DEF Return, Goto, ProcTypes
        <5> QED BY <5>2, <5>3
      <4>2. CASE ~(op[p] = "build" /\ fn[p].status # "error")
        BY <2>0, <4>2 DEF Writing, Wrote
      <4> QED BY <4>1, <4>2
    <3> QED BY <1>1, <1>2, <2>0, <2>1, <3>1
  <2>2. CASE ~Return(p)
    <3>1. /\ op[p] = "build" /\ fn'[p] = fn[p] /\ op'[p] = op[p] /\ arg'[p] = arg[p]
          /\ \/ fn[p].status = "building" /\ pc'[p] = "build"
             \/ fn[p].status = "active" /\ pc'[p] = "switch"
      BY <1>0, <1>20, <2>2 DEF SetCache, CopyKnown, Goto, ProcTypes
    <3>2. CASE fn[p].status = "building"
      BY <1>1, <1>3, <2>0, <3>1, <3>2 DEF Writing, Wrote, RollbackOps
    <3>3. CASE fn[p].status = "active"
      <4>1. pc'[p] = "switch" /\ Writing(p)' /\ Writing(p) /\ row = fn[p] /\ fn[p].active = arg[p]
        BY <1>0, <2>0, <3>1, <3>3 DEF WriterKnows, Writing, Wrote
      <4>2. WriterKnows(p)'
        BY <1>0, <2>0, <3>1, <3>3, <4>1 DEF WriterKnows, RollbackOps
      <4> QED BY <1>1, <2>0, <4>1, <4>2
    <3> QED BY <3>1, <3>2, <3>3
  <2> QED BY <2>1, <2>2
<1>21. CASE Switch(p)
  <2>1. /\ pc[p] = "switch" /\ op[p] = "build" /\ arg[p] \in Deployments
        /\ \A e \in Deployments : dep'[e].status = dep[e].status
        /\ Recorded(arg[p]) => dep'[arg[p]].hash = fn[p].hash
        /\ dep[arg[p]].status \in {"queued", "gone"}
    BY <1>21, SwitchIs
  <2>2. dep[arg[p]].status = "queued" /\ Recorded(arg[p])
    BY <1>0, <2>1 DEF Recorded
  <2>3. /\ row' = row /\ gpc' = gpc /\ current' = fn[p].hash /\ pc'[p] = "finish"
        /\ op'[p] = op[p] /\ arg'[p] = arg[p] /\ fn'[p] = fn[p]
    BY <1>0, <1>21 DEF Switch, Goto, ProcTypes, Undisturbed
  <2>4. Locked(p) /\ Writing(p)' /\ Writing(p)
    BY <2>1, <2>3 DEF Locked, Writing
  <2>5. row = fn[p] /\ fn[p].status = "active" /\ fn[p].active = arg[p]
    BY <1>0, <2>1, <2>4 DEF WriterKnows
  <2>6. WriterKnows(p)'
    BY <1>0, <2>1, <2>2, <2>3, <2>5 DEF WriterKnows, RollbackOps
  <2>7. Exists(row)' /\ \A d \in Deployments : dep'[d].status # "gone"
    BY <1>0, <2>1, <2>3 DEF Exists
  <2> QED BY <1>0, <2>3, <2>4, <2>6, <2>7, ServingWritten
<1>22. CASE Succeed(p)
  <2>1. /\ pc[p] = "finish" /\ op[p] = "build" /\ Return(p) /\ Finish(arg[p], "succeeded")
        /\ UNCHANGED <<row, current, gpc>>
    BY <1>0, <1>00, <1>22 DEF Succeed, Path, DeployOps, RollbackOps, fsVars, gcVars
  <2>2. Locked(p) /\ Holds(p) /\ Writing(p)
    BY <2>1 DEF Locked, Holds, Writing
  <2>3. /\ arg[p] \in Deployments /\ row = fn[p] /\ fn[p].active = arg[p] /\ current = row.hash
        /\ dep[arg[p]].status = "queued" /\ dep[arg[p]].hash = row.hash
    BY <1>0, <2>1, <2>2 DEF WriterKnows, HeldRow
  <2>4. /\ \A e \in Deployments : e # arg[p] => dep'[e] = dep[e]
        /\ dep'[arg[p]].hash = dep[arg[p]].hash
        /\ dep'[arg[p]].status = IF Recorded(arg[p]) THEN "succeeded" ELSE dep[arg[p]].status
    BY <1>0, <2>1, <2>3, FinishIs
  <2>5. dep'[arg[p]].status = "succeeded" /\ \A d \in Deployments : dep'[d].status # "gone"
    BY <1>0, <2>3, <2>4 DEF Recorded
  <2>6. WriterKnows(p)' /\ Exists(row)'
    BY <1>0, <1>2, <2>1 DEF Exists
  <2>7. Agree(row)'
    BY <2>1, <2>3, <2>4, <2>5 DEF Agree
  <2> QED BY <1>0, <2>1, <2>2, <2>5, <2>6, <2>7, ServingWritten
<1> QED
  BY <1>4, <1>5, <1>6, <1>7, <1>9, <1>10, <1>11, <1>12, <1>13, <1>14, <1>15, <1>16, <1>17, <1>18,
     <1>19, <1>20, <1>21, <1>22 DEF Step

\* The same when nothing but the GC's own state moves.
LEMMA ServingStill ==
  ASSUME ServingInv, UNCHANGED <<row, current, dep, procVars>>, gpc' # "sweep"
  PROVE  ServingInv'
<1>1. UNCHANGED <<op, pc, fn, arg>>
  BY DEF procVars
<1>2. \A q \in Procs : WriterKnows(q)' /\ (Writing(q)' <=> Writing(q))
  BY <1>1 DEF ServingInv, WriterKnows, Writing, Wrote
<1>3. Agree(row) => Agree(row)'
  BY DEF Agree
<1> QED
  BY <1>2, <1>3 DEF ServingInv, Exists

LEMMA NextServes ==
  ASSUME Undisturbed, DeployInv, ServingInv, [Next]_vars
  PROVE  ServingInv'
<1>0. ProcTypes /\ Exists(row) /\ gpc # "sweep" /\ \A d \in Deployments : dep[d].status # "gone"
  BY InvParts DEF ServingInv
<1>1. CASE \E c \in Callers : \E name \in Calls \ {"gc"} : Call(c, name)
  <2>1. PICK c \in Callers, name \in Calls \ {"gc"} : Call(c, name)
    BY <1>1
  <2>2. c \in Procs /\ name \in ServingCalls
    BY DEF Procs, Undisturbed
  <2>3. UNCHANGED <<row, current, dep, gpc>> /\ Others(c) /\ pc[c] = "idle"
    BY <1>0, <2>1 DEF Call, Goto, Others, ProcTypes, fsVars, gcVars
  <2>4. pc'[c] = "get" /\ op'[c] = name
    BY <1>0, <2>1, <2>2 DEF Call, Goto, ProcTypes
  <2>5. WriterKnows(c)' /\ ~Writing(c)
    BY <2>2, <2>3, <2>4 DEF WriterKnows, Writing, Wrote
  <2> QED BY <1>0, <2>2, <2>3, <2>5, ServingKept
<1>2. CASE \E b \in Builders : Dequeue(b)
  <2>1. PICK b \in Builders : Dequeue(b)
    BY <1>2
  <2>2. b \in Procs
    BY DEF Procs
  <2>3. UNCHANGED <<row, current, dep, gpc>> /\ Others(b) /\ pc[b] = "idle"
    BY <1>0, <2>1 DEF Dequeue, Goto, Others, ProcTypes, fsVars, gcVars
  <2>4. pc'[b] = "lock" /\ op'[b] = "build"
    BY <1>0, <2>1, <2>2 DEF Dequeue, Goto, ProcTypes
  <2>5. WriterKnows(b)' /\ ~Writing(b)
    BY <2>3, <2>4 DEF WriterKnows, Writing, Wrote, RollbackOps
  <2> QED BY <1>0, <2>2, <2>3, <2>5, ServingKept
<1>3. CASE \E p \in Procs : Step(p) \/ Lock(p)
  BY <1>3, StepServes
<1>4. CASE GCList \/ GC
  <2>1. UNCHANGED <<row, current, dep, procVars>> /\ gpc' # "sweep"
    BY <1>0, <1>4 DEF GCList, GC, GCScan, GCActive, GCRemove, GCSweep, fsVars
  <2> QED BY <2>1, ServingStill
<1>5. CASE Restart
  BY <1>5 DEF Restart, Undisturbed
<1>6. CASE UNCHANGED vars
  <2>1. UNCHANGED <<row, current, dep, procVars>> /\ gpc' # "sweep"
    BY <1>0, <1>6 DEF vars, fsVars, gcVars
  <2> QED BY <2>1, ServingStill
<1> QED
  BY <1>1, <1>2, <1>3, <1>4, <1>5, <1>6 DEF Next

\* When no build and no rollback is past FnLock, the row that is active
\* names a deployment that succeeded, with the row's hash, and that is the
\* hash `current` points to: runJob writes the row, the symlink and the
\* deployment in three steps and Rollback two of them, over REST and over
\* MCP, in any interleaving with other deploys, invocations and GC ticks.
THEOREM ServingAgrees ==
  ASSUME Undisturbed
  PROVE  Spec => []ServingConsistent
<1>1. Init => ServingInv
  <2> SUFFICES ASSUME Init PROVE ServingInv
    OBVIOUS
  <2>1. PICK cfg \in Settings : row = Created(cfg)
    BY DEF Init
  <2>2. row.status = "created"
    BY <2>1 DEF Created, NoRow
  <2>3. gpc = "idle" /\ \A q \in Procs : op[q] = "none" /\ pc[q] = "idle"
    BY DEF Init
  <2>4. \A d \in Deployments : dep[d].status = "none"
    BY DEF Init, NoDeployment
  <2>5. \A q \in Procs : WriterKnows(q)
    BY <2>3 DEF WriterKnows, Writing, Wrote
  <2> QED BY <2>2, <2>3, <2>4, <2>5 DEF ServingInv, Exists
<1>2. DeployInv /\ ServingInv /\ [Next]_vars => ServingInv'
  BY NextServes
<1>3. ServingInv => ServingConsistent
  <2> SUFFICES ASSUME ServingInv, Quiet, row.status = "active"
               PROVE  /\ row.hash = current /\ row.active # NoDep
                      /\ dep[row.active].status = "succeeded" /\ dep[row.active].hash = row.hash
    BY DEF ServingConsistent
  <2>1. \A q \in Procs : ~Writing(q)
    BY DEF Quiet, Writing, Wrote
  <2>2. Agree(row)
    BY <2>1 DEF ServingInv
  <2> QED BY <2>2, DeployAssumption DEF Agree
<1> QED
  BY <1>1, <1>2, <1>3, DeployInvHolds, PTL DEF Spec

=============================================================================
