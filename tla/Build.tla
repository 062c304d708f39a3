------------------------------- MODULE Build -------------------------------
(***************************************************************************)
(* The builder and its disk: build-queue workers that turn an uploaded     *)
(* archive into versions/<hash>/, the per-function installer caches they   *)
(* share with the GC's cache sweep, and the free-disk floor.               *)
(*                                                                         *)
(* Deploy models what a build does to the function row and to `current`;   *)
(* here a build is the sequence of its own steps, each of which can fail,  *)
(* hang or be cut off by a crash, while another worker, the GC or a delete *)
(* removes caches.  Sizes are in units of one archive.                     *)
(***************************************************************************)
EXTENDS Naturals, FiniteSets, FiniteSetsExt

CONSTANTS BuildFns, BuildWorkers, Uploads, Entries,
          DiskSize, DiskFloor,    \* the disk, and min_free_disk_mb
          CacheCap,               \* build_cache_max_mb
          MaxCache,               \* bound on one installer cache
          MaxBuilds, MaxTicks, MaxEvents \* builds; time steps; edits, deletes, crashes

ASSUME BuildAssumption ==
    /\ IsFiniteSet(BuildWorkers) /\ BuildWorkers \cap {"unlocked", "delete"} = {}
    /\ MaxCache \in Nat /\ MaxBuilds \in Nat /\ MaxTicks \in Nat /\ MaxEvents \in Nat

(* A source file or entrypoint: a stem, and handler.ts, handler.js or      *)
(* dist/handler.js.  An upload: its files, whether it declares packages,   *)
(* whether it has a tsconfig.json and whether typescript is declared.      *)
Ts(s) == [stem |-> s, ext |-> "ts"]
Js(s) == [stem |-> s, ext |-> "js"]
Dist(s) == [stem |-> s, ext |-> "dist"]

Unlocked == "unlocked"
Fresh == 0     \* written within buildCacheGrace
Stale == 3     \* unused for build_cache_max_age_days
NoCache == [there |-> FALSE, size |-> 0, age |-> Fresh]
NoMemo == MaxCache + 1
NoJob == [pc |-> "idle"]
NoSweep == [pc |-> "idle"]

VARIABLES fnRow,     \* function rows: alive, entrypoint, run_entrypoint, code_hash
          published, \* versions/<hash>/ with the marker, and what Build returned for it
          fnLock,    \* the per-function lock
          job,       \* the workers
          cache,     \* build-cache/<fn>/
          memo,      \* the GC's memoized cache sizes
          sweep,     \* the GC's cache sweep
          debris,    \* versions/<hash>.tmp.* left by a crash
          ident,     \* the interpreter installed in the rootfs
          refused,   \* caches beside which the last refusal for want of disk was made
          offered,   \* the uploads each function is deployed with in this behaviour
          builtCount, tickCount, eventCount

buildVars == <<fnRow, published, fnLock, job, cache, memo, sweep, debris, ident, refused,
               builtCount, tickCount, eventCount, offered>>
counters == <<builtCount, tickCount, eventCount>>
caching == <<cache, memo>>

-----------------------------------------------------------------------------
(* Entrypoints.                                                            *)

(* The file an upload is validated against: the entrypoint itself, or the  *)
(* .ts source it was compiled from, else handler.ts, else any .ts file.    *)
ResolveSourceEntrypoint(a, e) ==
    CASE ~a.tsconfig \/ e \in a.src     -> e
      [] a.tsconfig /\ e \notin a.src /\ Ts(e.stem) \in a.src -> Ts(e.stem)
      [] OTHER -> IF \E f \in a.src : f.ext = "ts" THEN CHOOSE f \in a.src : f.ext = "ts" ELSE e

ValidateArchive(a, e) == ResolveSourceEntrypoint(a, e) \in a.src

(* checkSyntax compiles .js and .py in the jail and refuses TypeScript     *)
(* that nothing would compile.                                             *)
SyntaxRefused(a, e) == ResolveSourceEntrypoint(a, e).ext = "ts" /\ ~a.tsconfig

(* What tsc leaves beside the sources.                                     *)
Compiled(a) == a.src \cup IF a.tsconfig THEN {Dist(f.stem) : f \in {x \in a.src : x.ext = "ts"}} ELSE {}
TsSourceStem(e) == e.stem
MaybeCompileTypeScript(a, e) == IF a.tsconfig THEN Dist(TsSourceStem(e)) ELSE e

KeepAuthored(a, e) == e                     \* mutant: a cached build runs the authored file
ResolveCachedEntrypoint(a, e) ==
    IF a.tsconfig /\ Dist(TsSourceStem(e)) \in Compiled(a) THEN Dist(TsSourceStem(e)) ELSE e

-----------------------------------------------------------------------------
(* The disk.                                                               *)

Scratches == {w \in BuildWorkers : job[w].pc \in {"validate", "syntax", "install", "tsc", "publish"}}
Used == Cardinality(Scratches) + debris
        + MapThenSumSet(LAMBDA f : Cardinality(published[f]) + cache[f].size, BuildFns)
Free == IF Used >= DiskSize THEN 0 ELSE DiskSize - Used

(* Eviction takes the function's lock without blocking: a build or delete  *)
(* of that function, the caller's own too, keeps its cache.                *)
AnyLock(f) == TRUE                          \* mutant: caches are evicted without the lock
TryFnLock(f) == fnLock[f] = Unlocked
EvictBuildCache(f) == cache' = [cache EXCEPT ![f] = NoCache]

(* The caches the mtime grace does not protect, as a listing finds them.   *)
ListIdleCaches == {f \in BuildFns : cache[f].there /\ cache[f].age # Fresh}

-----------------------------------------------------------------------------
(* A build.                                                                *)

At(w, p) == job[w].pc = p
Step(w, p) == job' = [job EXCEPT ![w].pc = p]
Unlock(f) == fnLock' = [fnLock EXCEPT ![f] = Unlocked]

(* A worker takes a job off the queue.                                     *)
TakeJob(w, f, a) ==
    /\ At(w, "idle") /\ builtCount < MaxBuilds
    /\ builtCount' = builtCount + 1
    /\ job' = [job EXCEPT ![w] = [pc |-> "lock", fn |-> f, arch |-> a, hung |-> FALSE]]
    /\ UNCHANGED <<fnRow, published, fnLock, caching, sweep, debris, ident, refused, tickCount, eventCount>>

(* runJob waits for the lock; a function deleted meanwhile fails the job.  *)
RunJob(w) ==
    /\ At(w, "lock") /\ fnLock[job[w].fn] = Unlocked
    /\ IF fnRow[job[w].fn].alive
         THEN /\ fnLock' = [fnLock EXCEPT ![job[w].fn] = w]
              /\ job' = [job EXCEPT ![w] = [pc |-> "disk", fn |-> @.fn, arch |-> @.arch, hung |-> FALSE,
                                            entry |-> fnRow[@.fn].entry, todo |-> {}]]
         ELSE job' = [job EXCEPT ![w] = NoJob] /\ UNCHANGED fnLock
    /\ UNCHANGED <<fnRow, published, caching, sweep, debris, ident, refused, counters>>

(* Below the floor, checkFreeDisk lists the caches no build touched within *)
(* the grace and evicts them one at a time.                                *)
CheckFreeDisk(w) ==
    /\ At(w, "disk")
    /\ job' = [job EXCEPT ![w].pc = IF Free >= DiskFloor THEN "hash" ELSE "reclaim",
                          ![w].todo = IF Free >= DiskFloor THEN {} ELSE ListIdleCaches]
    /\ UNCHANGED <<fnRow, published, fnLock, caching, sweep, debris, ident, refused, counters>>

EvictIdleBuildCaches(w, f) ==
    /\ At(w, "reclaim") /\ f \in job[w].todo
    /\ job' = [job EXCEPT ![w].todo = @ \ {f}]
    /\ IF TryFnLock(f) THEN EvictBuildCache(f) ELSE UNCHANGED cache
    /\ UNCHANGED <<fnRow, published, fnLock, memo, sweep, debris, ident, refused, counters>>

(* A failed build removes its scratch directory and frees the lock.        *)
Fail(w) == job' = [job EXCEPT ![w] = NoJob] /\ Unlock(job[w].fn)

InsufficientDisk(w) ==
    /\ At(w, "reclaim") /\ job[w].todo = {}
    /\ IF Free < DiskFloor
         THEN /\ Fail(w)
              /\ refused' = {f \in ListIdleCaches : fnLock[f] \in {Unlocked, w}}
         ELSE Step(w, "hash") /\ UNCHANGED <<fnLock, refused>>
    /\ UNCHANGED <<fnRow, published, caching, sweep, debris, ident, counters>>

(* The version hash: the upload and the interpreter it is built for.       *)
VersionHash(a) == [arch |-> a, ident |-> ident]
Cached(f, h) == \E v \in published[f] : v.hash = h

HashArchive(w) ==
    /\ At(w, "hash")
    /\ LET f == job[w].fn  a == job[w].arch  e == job[w].entry IN
       job' = [job EXCEPT ![w] = IF Cached(f, VersionHash(a))
                 THEN [pc |-> "finish", fn |-> f, hash |-> VersionHash(a), entry |-> e,
                       run |-> ResolveCachedEntrypoint(a, e)]
                 ELSE [pc |-> "extract", fn |-> f, arch |-> a, hung |-> FALSE, entry |-> e,
                       hash |-> VersionHash(a)]]
    /\ UNCHANGED <<fnRow, published, fnLock, caching, sweep, debris, ident, refused, counters>>

Extract(w) ==
    /\ At(w, "extract") /\ Free > 0
    /\ Step(w, "validate")
    /\ UNCHANGED <<fnRow, published, fnLock, caching, sweep, debris, ident, refused, counters>>

Validate(w) ==
    /\ At(w, "validate") /\ ValidateArchive(job[w].arch, job[w].entry)
    /\ Step(w, "syntax")
    /\ UNCHANGED <<fnRow, published, fnLock, caching, sweep, debris, ident, refused, counters>>

(* The next step of the pipeline after a step's success.                   *)
AfterSyntax(a) == IF a.deps THEN "install" ELSE IF a.tsconfig THEN "tsc" ELSE "publish"
AfterInstall(a) == IF a.tsconfig THEN "tsc" ELSE "publish"

(* Starting an installer or tsc creates the function's cache and stamps it *)
(* once; nothing stamps it again while the step runs.                      *)
Stamped(f) == /\ cache' = [cache EXCEPT ![f] = [there |-> TRUE, size |-> @.size, age |-> Fresh]]
              /\ memo' = [memo EXCEPT ![f] = NoMemo]
PrepareBuildCache(f, p) == IF p \in {"install", "tsc"} THEN Stamped(f) ELSE UNCHANGED caching

CheckSyntax(w) ==
    /\ At(w, "syntax") /\ ~job[w].hung /\ ~SyntaxRefused(job[w].arch, job[w].entry)
    /\ LET p == AfterSyntax(job[w].arch) IN
       Step(w, p) /\ PrepareBuildCache(job[w].fn, p)
    /\ UNCHANGED <<fnRow, published, fnLock, sweep, debris, ident, refused, counters>>

(* npm or pip running in the jail, its cache bound in: it downloads, ...   *)
Download(w) ==
    /\ At(w, "install") /\ ~job[w].hung
    /\ cache[job[w].fn].size < MaxCache /\ Free > 0
    /\ cache' = [cache EXCEPT ![job[w].fn].size = @ + 1]
    /\ UNCHANGED <<fnRow, published, fnLock, job, memo, sweep, debris, ident, refused, counters>>

(* ... and ends.                                                           *)
InstallDependencies(w) ==
    /\ At(w, "install") /\ ~job[w].hung
    /\ LET p == AfterInstall(job[w].arch) IN
       Step(w, p) /\ PrepareBuildCache(job[w].fn, p)
    /\ UNCHANGED <<fnRow, published, fnLock, sweep, debris, ident, refused, counters>>

(* typescript must be declared, and the compiled entrypoint must exist.    *)
TscRefused(a, e) == ~a.declared \/ MaybeCompileTypeScript(a, e) \notin Compiled(a)
CompileTypeScript(w) ==
    /\ At(w, "tsc") /\ ~job[w].hung /\ ~TscRefused(job[w].arch, job[w].entry)
    /\ Step(w, "publish")
    /\ UNCHANGED <<fnRow, published, fnLock, caching, sweep, debris, ident, refused, counters>>

(* A registry that never answers.                                          *)
Jailed == {"syntax", "install", "tsc"}
Hang(w) ==
    /\ job[w].pc \in Jailed /\ ~job[w].hung
    /\ job' = [job EXCEPT ![w].hung = TRUE]
    /\ UNCHANGED <<fnRow, published, fnLock, caching, sweep, debris, ident, refused, counters>>

(* RunBuild kills a step at build_timeout_seconds.                         *)
OnlyTsc(p) == p = "tsc"                     \* mutant: installs have no deadline
BuildStepTimeout(p) == p \in Jailed
TimedOut(w) ==
    /\ job[w].pc \in Jailed /\ job[w].hung /\ BuildStepTimeout(job[w].pc)
    /\ Fail(w)
    /\ UNCHANGED <<fnRow, published, caching, sweep, debris, ident, refused, counters>>

(* Any step can fail: a bad archive, a full disk, a syntax error, no       *)
(* compiled egress policy, an installer's exit status.                     *)
BuildFails(w) ==
    /\ \/ job[w].pc \in {"extract", "validate", "publish"}
       \/ job[w].pc \in Jailed /\ ~job[w].hung
    /\ Fail(w)
    /\ UNCHANGED <<fnRow, published, caching, sweep, debris, ident, refused, counters>>

(* Adapter wrapper, ready marker, rename into place.                       *)
PublishVersion(w) ==
    /\ At(w, "publish")
    /\ LET f == job[w].fn  h == job[w].hash
           run == MaybeCompileTypeScript(job[w].arch, job[w].entry)
       IN /\ published' = [published EXCEPT ![f] =
                              {v \in @ : v.hash # h} \cup {[hash |-> h, entry |-> job[w].entry, run |-> run]}]
          /\ job' = [job EXCEPT ![w] = [pc |-> "finish", fn |-> f, hash |-> h, entry |-> job[w].entry, run |-> run]]
    /\ UNCHANGED <<fnRow, fnLock, caching, sweep, debris, ident, refused, counters>>

(* The queue worker writes the row it read, with the result in it.         *)
FinishJob(w) ==
    /\ At(w, "finish")
    /\ LET j == job[w] IN
       /\ fnRow' = [fnRow EXCEPT ![j.fn] = [alive |-> TRUE, entry |-> j.entry, hash |-> {j.hash},
                       run |-> IF j.run = j.entry THEN {} ELSE {j.run}]]
       /\ job' = [job EXCEPT ![w] = NoJob]
       /\ Unlock(j.fn)
    /\ UNCHANGED <<published, caching, sweep, debris, ident, refused, counters>>

-----------------------------------------------------------------------------
(* The GC's cache sweep: orphaned and stale caches first, then the least   *)
(* recently used until the total is under the cap.                         *)

(* Inside the grace the size is measured and not remembered.               *)
Memoized(f) == IF ~cache[f].there THEN NoMemo
               ELSE IF cache[f].age = Fresh THEN memo[f]
               ELSE IF memo[f] # NoMemo THEN memo[f] ELSE cache[f].size
CachedSize(f) == IF cache[f].age = Fresh \/ memo[f] = NoMemo THEN cache[f].size ELSE memo[f]

ListBuildCaches ==
    /\ sweep.pc = "idle" /\ \E f \in BuildFns : fnRow[f].alive   \* an empty table sweeps nothing
    /\ LET L == {f \in BuildFns : cache[f].there} IN
       /\ L # {}
       /\ sweep' = [pc |-> "stale", caches |-> [f \in L |-> [size |-> CachedSize(f), age |-> cache[f].age]],
                    todo |-> {f \in L : cache[f].age # Fresh
                                 /\ (~fnRow[f].alive \/ cache[f].age = Stale)},
                    kept |-> L]
    /\ memo' = [f \in BuildFns |-> Memoized(f)]
    /\ UNCHANGED <<fnRow, published, fnLock, job, cache, debris, ident, refused, counters>>

(* The eviction of a listed cache; a busy one is kept.                     *)
SweepOne(f) ==
    IF TryFnLock(f)
      THEN /\ EvictBuildCache(f)
           /\ memo' = [memo EXCEPT ![f] = NoMemo]
           /\ sweep' = [sweep EXCEPT !.todo = @ \ {f}, !.kept = @ \ {f}]
      ELSE sweep' = [sweep EXCEPT !.todo = @ \ {f}] /\ UNCHANGED caching

SweepStale(f) ==
    /\ sweep.pc = "stale" /\ f \in sweep.todo
    /\ SweepOne(f)
    /\ UNCHANGED <<fnRow, published, fnLock, job, debris, ident, refused, counters>>

SweepCap ==
    /\ sweep.pc = "stale" /\ sweep.todo = {}
    /\ sweep' = [sweep EXCEPT !.pc = "cap", !.todo = {f \in sweep.kept : sweep.caches[f].age # Fresh}]
    /\ UNCHANGED <<fnRow, published, fnLock, job, caching, debris, ident, refused, counters>>

OverCap == MapThenSumSet(LAMBDA f : sweep.caches[f].size, sweep.kept) > CacheCap
SweepLRU(f) ==
    /\ sweep.pc = "cap" /\ OverCap /\ f \in sweep.todo
    /\ \A g \in sweep.todo : sweep.caches[g].age <= sweep.caches[f].age
    /\ SweepOne(f)
    /\ UNCHANGED <<fnRow, published, fnLock, job, debris, ident, refused, counters>>

SweepEnds ==
    /\ sweep.pc = "cap" /\ (~OverCap \/ sweep.todo = {})
    /\ sweep' = NoSweep
    /\ UNCHANGED <<fnRow, published, fnLock, job, caching, debris, ident, refused, counters>>

-----------------------------------------------------------------------------
(* Requests, time and crashes.                                             *)

Event == eventCount < MaxEvents /\ eventCount' = eventCount + 1

(* PUT with an entrypoint: any path, validated by no build.                *)
UpdateEntrypoint(f, e) ==
    /\ Event /\ fnRow[f].alive /\ fnRow[f].entry # e
    /\ fnRow' = [fnRow EXCEPT ![f].entry = e]
    /\ UNCHANGED <<published, fnLock, job, caching, sweep, debris, ident, refused, builtCount, tickCount>>

(* DELETE under the lock: the row, then the files.                         *)
DeleteFunctionRow(f) ==
    /\ Event /\ fnRow[f].alive /\ fnLock[f] = Unlocked
    /\ fnLock' = [fnLock EXCEPT ![f] = "delete"]
    /\ fnRow' = [fnRow EXCEPT ![f].alive = FALSE]
    /\ UNCHANGED <<published, job, caching, sweep, debris, ident, refused, builtCount, tickCount>>
PurgeFiles(f) ==
    /\ fnLock[f] = "delete"
    /\ Unlock(f)
    /\ published' = [published EXCEPT ![f] = {}]
    /\ EvictBuildCache(f)
    /\ UNCHANGED <<fnRow, job, memo, sweep, debris, ident, refused, counters>>

(* DELETE of the build cache alone waits for the lock.                     *)
PurgeBuildCache(f) ==
    /\ Event /\ fnRow[f].alive /\ cache[f].there /\ fnLock[f] = Unlocked
    /\ EvictBuildCache(f)
    /\ UNCHANGED <<fnRow, published, fnLock, job, memo, sweep, debris, ident, refused, builtCount, tickCount>>

(* Scratch directories outlive the process, which may come back over a     *)
(* rootfs with another interpreter.                                        *)
BuilderCrash(i) ==
    /\ Event
    /\ job' = [w \in BuildWorkers |-> NoJob]
    /\ fnLock' = [f \in BuildFns |-> Unlocked]
    /\ memo' = [f \in BuildFns |-> NoMemo]
    /\ sweep' = NoSweep
    /\ debris' = debris + Cardinality(Scratches)
    /\ ident' = i
    /\ UNCHANGED <<fnRow, published, cache, refused, builtCount, tickCount>>

(* A step of time longer than the grace.                                   *)
Tick ==
    /\ tickCount < MaxTicks /\ tickCount' = tickCount + 1
    /\ cache' = [f \in BuildFns |-> IF cache[f].there
                    THEN [cache[f] EXCEPT !.age = IF @ = Stale THEN Stale ELSE @ + 1] ELSE cache[f]]
    /\ UNCHANGED <<fnRow, published, fnLock, job, memo, sweep, debris, ident, refused, builtCount, eventCount>>

-----------------------------------------------------------------------------
BuildStart(us, e, c, b, t, n) ==
    /\ offered = us
    /\ fnRow = [f \in BuildFns |-> [alive |-> TRUE, entry |-> e, hash |-> {}, run |-> {}]]
    /\ published = [f \in BuildFns |-> {}]
    /\ fnLock = [f \in BuildFns |-> Unlocked]
    /\ job = [w \in BuildWorkers |-> NoJob]
    /\ cache = c
    /\ memo = [f \in BuildFns |-> NoMemo]
    /\ sweep = NoSweep
    /\ debris = 0 /\ ident = "v1" /\ refused = {}
    /\ builtCount = b /\ tickCount = t /\ eventCount = n

(* Any uploads, one entrypoint and whatever caches earlier builds left.    *)
BuildInit ==
    \E us \in [BuildFns -> SUBSET Uploads], e \in Entries,
       c \in [BuildFns -> [there : BOOLEAN, size : 0 .. MaxCache, age : Fresh .. Stale]] :
        /\ \A f \in BuildFns : c[f].there \/ c[f] = NoCache
        /\ BuildStart(us, e, c, 0, 0, 0)

WorkerStep(w) ==
    \/ RunJob(w) \/ CheckFreeDisk(w) \/ InsufficientDisk(w) \/ HashArchive(w)
    \/ \E f \in BuildFns : EvictIdleBuildCaches(w, f)
    \/ Extract(w) \/ Validate(w) \/ CheckSyntax(w) \/ InstallDependencies(w) \/ CompileTypeScript(w)
    \/ TimedOut(w) \/ BuildFails(w) \/ PublishVersion(w) \/ FinishJob(w)
SweepNext == \/ ListBuildCaches \/ SweepCap \/ SweepEnds
             \/ \E f \in BuildFns : SweepStale(f) \/ SweepLRU(f)
BuildStepAny ==
    \/ \E w \in BuildWorkers : \/ WorkerStep(w) \/ Download(w) \/ Hang(w)
                               \/ \E f \in BuildFns : \E a \in offered[f] : TakeJob(w, f, a)
    \/ SweepNext
    \/ \E f \in BuildFns : \/ DeleteFunctionRow(f) \/ PurgeFiles(f) \/ PurgeBuildCache(f)
                           \/ \E e \in Entries : UpdateEntrypoint(f, e)
    \/ \E i \in {"v1", "v2"} : BuilderCrash(i)
    \/ Tick
BuildNext == BuildStepAny /\ UNCHANGED offered
BuildSpec == BuildInit /\ [][BuildNext]_buildVars

(* Workers and the delete handler keep running, and the kernel kills a     *)
(* step at its deadline; whether a download ends is not assumed.  A        *)
(* sync.Mutex in starvation mode hands over in order, so a waiting worker  *)
(* gets the lock.                                                          *)
BuildFairness ==
    /\ \A w \in BuildWorkers : SF_buildVars(WorkerStep(w) /\ UNCHANGED offered)
    /\ \A f \in BuildFns : WF_buildVars(PurgeFiles(f) /\ UNCHANGED offered)
    /\ WF_buildVars(SweepNext /\ UNCHANGED offered)

-----------------------------------------------------------------------------
RunFiles == Entries \cup {Dist(e.stem) : e \in Entries}
Hashes == [arch : Uploads, ident : {"v1", "v2"}]

(* What a worker knows of its job: nothing, the job, what the build starts *)
(* from, what it makes, and its result.                                    *)
QueuedJobs == [pc : {"lock"}, fn : BuildFns, arch : Uploads, hung : {FALSE}]
StartedJobs == [pc : {"disk", "reclaim", "hash"}, fn : BuildFns, arch : Uploads, hung : {FALSE},
                entry : Entries, todo : SUBSET BuildFns]
BuildingJobs == [pc : {"extract", "validate", "syntax", "install", "tsc", "publish"}, fn : BuildFns,
                 arch : Uploads, hung : BOOLEAN, entry : Entries, hash : Hashes]
BuiltJobs == [pc : {"finish"}, fn : BuildFns, hash : Hashes, entry : Entries, run : RunFiles]
BuildJobs == {NoJob} \cup QueuedJobs \cup StartedJobs \cup BuildingJobs \cup BuiltJobs

BuildTypeOK ==
    /\ fnRow \in [BuildFns -> [alive : BOOLEAN, entry : Entries, hash : SUBSET Hashes,
                               run : SUBSET RunFiles]]
    /\ published \in [BuildFns -> SUBSET [hash : Hashes, entry : Entries, run : RunFiles]]
    /\ fnLock \in [BuildFns -> BuildWorkers \cup {Unlocked, "delete"}]
    /\ job \in [BuildWorkers -> BuildJobs]
    /\ cache \in [BuildFns -> [there : BOOLEAN, size : 0 .. MaxCache, age : Fresh .. Stale]]
    /\ memo \in [BuildFns -> 0 .. NoMemo]
    /\ debris \in Nat /\ ident \in {"v1", "v2"}
    /\ refused \in SUBSET BuildFns /\ offered \in [BuildFns -> SUBSET Uploads]
    /\ builtCount \in 0 .. MaxBuilds /\ tickCount \in 0 .. MaxTicks /\ eventCount \in 0 .. MaxEvents

(* An installer's cache directory is never removed under it, by a worker   *)
(* reclaiming disk, by the GC's sweep or by a delete, from listings that   *)
(* may be older than the install; and a build that finds its version       *)
(* published runs the file the first build resolved, for the entrypoint    *)
(* that one was given.                                                     *)
BuildSafe ==
    /\ \A w \in BuildWorkers : job[w].pc \in {"install", "tsc"} => cache[job[w].fn].there
    /\ \A w \in BuildWorkers : At(w, "finish") =>
          \E v \in published[job[w].fn] :
              v.hash = job[w].hash /\ (v.entry = job[w].entry => v.run = job[w].run)

(* Every job ends and gives its function's lock back, even when a registry *)
(* stops answering in the middle of an install.                            *)
BuildEnds == \A w \in BuildWorkers : job[w].pc # "idle" ~> job[w].pc = "idle"

(* "a rebuildable cache must never be the reason a deploy fails for want   *)
(* of space" (builder.go:293): a deploy is refused only when no idle cache *)
(* is left that is not in use by another build.                            *)
CacheNeverRefusesDeploy == refused = {}

=============================================================================
