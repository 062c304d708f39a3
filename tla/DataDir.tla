------------------------------ MODULE DataDir ------------------------------
(***************************************************************************)
(* The data directory: orva.db, .master.key and functions/<id>/, over      *)
(* restarts, upgrades, backups and restores.                               *)
(*                                                                         *)
(* serve.go boots in a fixed order: migrate the database (one transaction  *)
(* rewrites every prefix-typed function id to a UUID and records the       *)
(* renames that functions/ still needs), apply the recorded renames, fold  *)
(* the old flat code/ directories into versions/<hash>/, serve.  A backup  *)
(* takes a database snapshot, walks functions/ and then streams what it    *)
(* listed, while builds, deletes and the version GC go on.  A restore      *)
(* stages and verifies an archive, swaps database, key and trees one       *)
(* rename at a time under the running server, and exits the process.       *)
(*                                                                         *)
(* A function's ids are <<f, 0>> (a prefix-typed id of an old build) and   *)
(* <<f, g>> (its g-th UUID).  A database is what its tables say; a tree is *)
(* the state of its version directories.  The steps of one build, and the  *)
(* pruning of old versions, are the subject of Deploy: here a build is     *)
(* its scratch directory and its publication, and no tree holds more       *)
(* versions than versions_to_keep.                                         *)
(***************************************************************************)
EXTENDS Naturals, FiniteSets, FiniteSetsExt

CONSTANTS Fns, Codes,      \* functions, code hashes
          MaxGen,          \* UUID generations: migrations that find old ids
          MaxFaults,       \* faults and failed renames
          MaxWork          \* builds, deletes and restores

ASSUME DirAssumption == {MaxGen, MaxFaults, MaxWork} \subseteq Nat

None == "none"
Ids == Fns \X (0 .. MaxGen)
IsUUID(id) == id[2] > 0

(* The database: the function rows and the hash each serves, the id        *)
(* migration's marker and its recorded renames, the columns that hold a    *)
(* function id without a foreign key, and the key its secrets are sealed   *)
(* with.                                                                   *)
Database == [fns : UNION {[S -> Codes \cup {None}] : S \in SUBSET Ids},
             done : BOOLEAN, pending : SUBSET (Ids \X Ids),
             soft : SUBSET Ids, sealed : {"old", "new"}]
EmptyDB == [fns |-> [id \in {} |-> None], done |-> FALSE, pending |-> {},
            soft |-> {}, sealed |-> "old"]
NoFile == [none |-> TRUE]

(* The files of version directories, and an archive of them.               *)
VersionFiles == Ids \X Codes \X {"scratch", "bare", "ready"}
Archives == [db : Database, key : {"old", "new"}, plan : SUBSET VersionFiles, held : SUBSET VersionFiles]

(* A function's tree: the flat code/ directory of an old build, the        *)
(* version directories (a build's scratch, published without or with the   *)
(* ready marker), the `current` link, and whether it was written within    *)
(* buildCacheGrace.                                                        *)
Versions == [Codes -> {"absent", "scratch", "bare", "ready"}]
Trees == [dir : BOOLEAN, flat : BOOLEAN, ver : Versions, cur : Codes \cup {None}, young : BOOLEAN]
NoVersions == [c \in Codes |-> "absent"]
NoTree == [dir |-> FALSE, flat |-> FALSE, ver |-> NoVersions, cur |-> None, young |-> FALSE]
Tree(v, c) == [dir |-> TRUE, flat |-> FALSE, ver |-> v, cur |-> c, young |-> FALSE]

VARIABLES live,     \* what opening orva.db reads: its file and its -wal
          main,     \* what the file alone holds: the last checkpoint
          handle,   \* what the running process reads and writes
          link,     \* where the handle's commits go: "wal", "unlinked", "aside"
          proc,     \* the process: down, booting, up, exiting
          todo,     \* the boot's remaining renames or trees
          trees, key,
          dl,       \* the backup being downloaded
          archive,  \* the last archive a download delivered
          rs,       \* the restore
          builds, deleting, \* requests in progress: <<id, hash>>, ids
          collector,\* the function ids the GC tick listed
          lost,     \* functions whose missing code was announced: deleted through
                    \* a moved database, not in the archive, or a failed restore
          faults, work

dirVars == <<live, main, handle, link, proc, todo, trees, key, dl, archive, rs,
             builds, deleting, collector, lost, faults, work>>
disk == <<live, main, trees, key>>
bootVars == <<proc, todo>>
copyVars == <<dl, archive, rs>>
reqVars == <<builds, deleting>>
auxVars == <<collector, lost, faults, work>>
dbVars == <<live, main, handle, link>>

Serving == proc \in {"up", "exiting"}
Idle == [pc |-> "idle"]
Downloads == {Idle} \cup [pc : {"walk", "stream"}, db : Database, left : SUBSET Ids,
                          plan : SUBSET VersionFiles, held : SUBSET VersionFiles]
Restores == {Idle, [pc |-> "swap"]} \cup [pc : {"install", "keys"}, aside : Database \cup {NoFile}]
              \cup [pc : {"trees"}, aside : Database \cup {NoFile}, left : SUBSET Ids]

(* Commits reach orva.db only while the handle's -wal is the live one.     *)
Commit(d) == /\ handle' = d
             /\ live' = IF link = "wal" THEN d ELSE live

Fault == faults < MaxFaults /\ faults' = faults + 1

-----------------------------------------------------------------------------
(* Boot.                                                                   *)

Open == /\ proc = "down"
        /\ LET d == IF live = NoFile THEN EmptyDB ELSE live IN
           handle' = d /\ live' = d
        /\ link' = "wal"
        /\ proc' = "migrate"
        /\ UNCHANGED <<main, todo, trees, key, copyVars, reqVars, auxVars>>

(* One transaction: every function id that is no UUID is replaced, in its  *)
(* row and in the columns that copy it, and the pairs are recorded.        *)
FreshGens == {g \in 1 .. MaxGen : \A id \in Ids : id[2] = g => id \notin DOMAIN live.fns /\ ~trees[id].dir}
Minted == Min(FreshGens)
RewriteOne == {<<id, <<id[1], Minted>>>> : id \in {x \in DOMAIN handle.fns : ~IsUUID(x)}}
Rewritten(pairs, id) == IF \E p \in pairs : p[1] = id
                          THEN (CHOOSE p \in pairs : p[1] = id)[2] ELSE id
LeaveSoftRefs(pairs) == handle.soft                 \* mutant: a column is forgotten
RewriteSoftRefs(pairs) == {Rewritten(pairs, id) : id \in handle.soft}
SoftRefsRewritten(soft) == \A id \in soft : IsUUID(id)
WritePendingFnRenames(pairs) == IF pairs = {} THEN handle.pending ELSE pairs
Migrated(pairs) ==
    [handle EXCEPT
       !.fns = [n \in {Rewritten(pairs, id) : id \in DOMAIN handle.fns} |->
                  handle.fns[CHOOSE id \in DOMAIN handle.fns : Rewritten(pairs, id) = n]],
       !.soft = RewriteSoftRefs(pairs),
       !.pending = WritePendingFnRenames(pairs),
       !.done = TRUE]

MigrateToUUIDv7 ==
    /\ proc = "migrate"
    /\ \/ handle.done /\ UNCHANGED dbVars
       \/ ~handle.done /\ FreshGens # {} /\ LET d == Migrated(RewriteOne) IN
             SoftRefsRewritten(d.soft) /\ Commit(d) /\ UNCHANGED <<main, link>>
    /\ proc' = "reconcile"
    /\ todo' = handle'.pending
    /\ UNCHANGED <<trees, key, copyVars, reqVars, auxVars>>

(* A legacy id left in a soft reference rolls the transaction back, and    *)
(* Migrate's error ends the process: the supervisor's restart meets it     *)
(* again.                                                                  *)
MigrateRefused ==
    /\ proc = "migrate" /\ ~handle.done /\ FreshGens # {}
    /\ ~SoftRefsRewritten(Migrated(RewriteOne).soft)
    /\ proc' = "down"
    /\ UNCHANGED <<dbVars, todo, trees, key, copyVars, reqVars, auxVars>>

(* A pair is done when its target exists or its source does not.           *)
RenameDue(p) == ~trees[p[2]].dir /\ trees[p[1]].dir
ReconcileFunctionDirs(p) ==
    /\ proc = "reconcile" /\ p \in todo
    /\ trees' = IF RenameDue(p)
                  THEN [trees EXCEPT ![p[2]] = trees[p[1]], ![p[1]] = NoTree]
                  ELSE trees
    /\ todo' = todo \ {p}
    /\ UNCHANGED <<dbVars, proc, key, copyVars, reqVars, auxVars>>

(* A rename that fails keeps the record and ends the process.              *)
RenameFails(p) ==
    /\ proc = "reconcile" /\ p \in todo /\ RenameDue(p)
    /\ Fault
    /\ proc' = "down" /\ todo' = {}
    /\ UNCHANGED <<dbVars, trees, key, copyVars, reqVars, collector, lost, work>>

ClearPendingFnRenames ==
    /\ proc = "reconcile" /\ todo = {}
    /\ Commit([handle EXCEPT !.pending = {}])
    /\ proc' = "fold"
    /\ todo' = {id \in DOMAIN handle.fns : trees[id].flat}
    /\ UNCHANGED <<main, link, trees, key, copyVars, reqVars, auxVars>>

(* code/ becomes versions/<hash>/, unless the row names no hash or the     *)
(* version is there already; the marker and the link follow in their own   *)
(* steps (LegacyActivate), which a crash can cut off.                      *)
MigrateLegacyCodeDirs(id) ==
    /\ proc = "fold" /\ id \in todo /\ trees[id].flat
    /\ LET h == handle.fns[id]
           moves == h # None /\ trees[id].ver[h] = "absent"
       IN /\ trees' = [trees EXCEPT ![id].flat = FALSE,
                         ![id].ver = IF moves THEN [@ EXCEPT ![h] = "bare"] ELSE @]
          /\ todo' = IF moves THEN todo ELSE todo \ {id}
    /\ UNCHANGED <<dbVars, proc, key, copyVars, reqVars, auxVars>>

LegacyActivate(id) ==
    /\ proc = "fold" /\ id \in todo /\ ~trees[id].flat
    /\ trees' = [trees EXCEPT ![id].ver[handle.fns[id]] = "ready", ![id].cur = handle.fns[id]]
    /\ todo' = todo \ {id}
    /\ UNCHANGED <<dbVars, proc, key, copyVars, reqVars, auxVars>>

(* SweepBuildScratch and the rest of runServe: the server is up.           *)
ServeUp ==
    /\ proc = "fold" /\ todo = {}
    /\ proc' = "up"
    /\ UNCHANGED <<dbVars, todo, trees, key, copyVars, reqVars, auxVars>>

(* A crash, or the exit that follows a restore.                            *)
Stopped == /\ proc' = "down" /\ todo' = {}
           /\ dl' = Idle /\ rs' = Idle /\ builds' = {} /\ deleting' = {} /\ collector' = {}
           /\ UNCHANGED <<disk, handle, link, archive, work>>
Activating == rs.pc \notin {"idle", "swap"}
DirCrash == /\ proc # "down"
            /\ Fault
            /\ lost' = IF Activating THEN Fns ELSE lost
            /\ Stopped
ExitRestart == proc = "exiting" /\ Stopped /\ UNCHANGED <<lost, faults>>

-----------------------------------------------------------------------------
(* The running server: builds, deletes, checkpoints, the GC tick.          *)

Working == Serving /\ work < MaxWork /\ work' = work + 1

BuildScratch(id, c) ==
    /\ Working
    /\ id \in DOMAIN handle.fns /\ trees[id].ver[c] \in {"absent", "scratch"}
    /\ <<id, c>> \notin builds
    /\ builds' = builds \cup {<<id, c>>}
    /\ trees' = [trees EXCEPT ![id].dir = TRUE, ![id].ver[c] = "scratch", ![id].young = TRUE]
    /\ UNCHANGED <<dbVars, bootVars, key, copyVars, deleting, collector, lost, faults>>

(* The scratch directory is renamed into place, the row names it and       *)
(* ActivateVersion turns the link.                                         *)
Publish(id, c) ==
    /\ Serving
    /\ <<id, c>> \in builds /\ id \in DOMAIN handle.fns
    /\ builds' = builds \ {<<id, c>>}
    /\ trees' = [trees EXCEPT ![id].ver[c] = "ready", ![id].cur = c, ![id].young = TRUE]
    /\ Commit([handle EXCEPT !.fns[id] = c])
    /\ UNCHANGED <<main, link, bootVars, key, copyVars, deleting, auxVars>>

(* DELETE of a function: the row, then PurgeFunctionFiles.                 *)
DeleteRow(id) ==
    /\ Working
    /\ id \in DOMAIN handle.fns
    /\ Commit([handle EXCEPT !.fns = Restrict(@, DOMAIN @ \ {id})])
    /\ deleting' = deleting \cup {id}
    /\ UNCHANGED <<main, link, bootVars, trees, key, copyVars, builds, collector, lost, faults>>

(* A tree that is replaced or removed takes the scratch of a build with it.*)
WithoutBuilds(id) == {b \in builds : b[1] # id}
PurgeFunctionFiles(id) ==
    /\ Serving /\ id \in deleting
    /\ deleting' = deleting \ {id}
    /\ builds' = WithoutBuilds(id)
    /\ trees' = [trees EXCEPT ![id] = NoTree]
    /\ lost' = IF link = "wal" THEN lost ELSE lost \cup {id[1]}
    /\ UNCHANGED <<dbVars, bootVars, key, copyVars, collector, faults, work>>

(* SQLite's own checkpoint, and the one Vacuum asks for.                   *)
Checkpoint ==
    /\ Serving /\ link # "aside" /\ main # handle
    /\ main' = handle /\ live' = handle
    /\ UNCHANGED <<handle, link, bootVars, trees, key, copyVars, reqVars, auxVars>>

(* The GC's orphan sweep: the tick lists the functions, and sweeps nothing *)
(* on an empty listing or while renames are outstanding.                   *)
HasPendingFunctionDirRenames == handle.pending # {}
GcList ==
    /\ proc = "up" /\ collector = {}
    /\ DOMAIN handle.fns # {} /\ ~HasPendingFunctionDirRenames
    /\ collector' = DOMAIN handle.fns
    /\ UNCHANGED <<dbVars, bootVars, trees, key, copyVars, reqVars, lost, faults, work>>

NeverRecent(id) == FALSE          \* mutant: no grace for fresh trees
RecentlyWritten(id) == trees[id].young
SweepOrphanFunctionDirs ==
    /\ Serving /\ collector # {}
    /\ trees' = [id \in Ids |-> IF trees[id].dir /\ id \notin collector /\ ~RecentlyWritten(id)
                                  THEN NoTree ELSE trees[id]]
    /\ collector' = {}
    /\ UNCHANGED <<dbVars, bootVars, key, copyVars, reqVars, lost, faults, work>>

(* Fifteen minutes without a write.  An activation takes seconds and the   *)
(* exit one second, so no tree ages during them.                           *)
Aged == /\ proc = "up" /\ rs.pc = "idle" /\ collector = {}
        /\ \E id \in Ids : trees[id].young
        /\ trees' = [id \in Ids |-> [trees[id] EXCEPT !.young = FALSE]]
        /\ UNCHANGED <<dbVars, bootVars, key, copyVars, reqVars, auxVars>>

-----------------------------------------------------------------------------
(* Download: snapshot, walk one function at a time, stream what was listed.*)

SnapshotDB ==
    /\ proc = "up" /\ dl.pc = "idle" /\ archive = NoFile
    /\ dl' = [pc |-> "walk", db |-> handle, left |-> DOMAIN handle.fns, plan |-> {}, held |-> {}]
    /\ UNCHANGED <<dbVars, bootVars, trees, key, archive, rs, reqVars, auxVars>>

(* The files of a tree: every version directory, a build's scratch too.    *)
Files(id) == {<<id, c, trees[id].ver[c]>> : c \in {x \in Codes : trees[id].ver[x] # "absent"}}

PlanArchive(id) ==
    /\ Serving /\ dl.pc = "walk" /\ id \in dl.left
    /\ dl' = [dl EXCEPT !.left = @ \ {id}, !.plan = @ \cup Files(id),
                        !.pc = IF dl.left = {id} THEN "stream" ELSE @]
    /\ UNCHANGED <<dbVars, bootVars, trees, key, archive, rs, reqVars, auxVars>>

(* The second read of a listed file; one that is gone ends the stream.     *)
AddFileToTar(f) ==
    /\ Serving /\ dl.pc = "stream" /\ f \in dl.plan \ dl.held
    /\ f \in Files(f[1])
    /\ dl' = [dl EXCEPT !.held = @ \cup {f}]
    /\ UNCHANGED <<dbVars, bootVars, trees, key, archive, rs, reqVars, auxVars>>

(* Download hands the client whatever was written: the deferred Close      *)
(* calls end the tar and the gzip stream in either case.                   *)
ArchiveTo ==
    /\ Serving /\ dl.pc = "stream"
    /\ dl.plan = dl.held \/ \E f \in dl.plan \ dl.held : f \notin Files(f[1])
    /\ archive' = [db |-> dl.db, key |-> key, plan |-> dl.plan, held |-> dl.held]
    /\ dl' = Idle
    /\ UNCHANGED <<dbVars, bootVars, trees, key, rs, reqVars, auxVars>>

-----------------------------------------------------------------------------
(* Restore.                                                                *)

(* extractTarGz, readAndVerifyManifest, validateStagedDB: an archive that  *)
(* holds less than its manifest lists is refused before anything moves.    *)
AnyArchive == TRUE                \* mutant: the manifest is not compared
Verified == archive.plan \subseteq archive.held
StagedVersions(id) == [c \in Codes |->
    IF \E s \in {"bare", "ready"} : <<id, c, s>> \in archive.held THEN "ready"   \* healReadyMarkers
    ELSE IF <<id, c, "scratch">> \in archive.held THEN "scratch" ELSE "absent"]
StagedIds == {f[1] : f \in archive.held}

RestoreVerify ==
    /\ Working /\ proc = "up" /\ rs.pc = "idle" /\ archive # NoFile
    /\ Verified
    /\ rs' = [pc |-> "swap"]
    /\ UNCHANGED <<dbVars, bootVars, trees, key, dl, archive, reqVars, collector, lost, faults>>

(* The live database moves aside and its -wal is removed.                  *)
MoveLiveAside ==
    /\ Serving /\ rs.pc = "swap"
    /\ rs' = [pc |-> "install", aside |-> main]
    /\ live' = NoFile /\ main' = NoFile /\ link' = "aside"
    /\ UNCHANGED <<handle, bootVars, trees, key, dl, archive, reqVars, auxVars>>

InstallDB ==
    /\ rs.pc = "install"
    /\ rs' = [rs EXCEPT !.pc = "keys"]
    /\ live' = archive.db /\ main' = archive.db
    /\ UNCHANGED <<handle, link, bootVars, trees, key, dl, archive, reqVars, auxVars>>

InstallKeys ==
    /\ rs.pc = "keys"
    /\ rs' = [pc |-> "trees", aside |-> rs.aside, left |-> StagedIds]
    /\ key' = archive.key
    /\ UNCHANGED <<dbVars, bootVars, trees, dl, archive, reqVars, auxVars>>

(* RemoveAll and rename, one function at a time.                           *)
InstallTree(id) ==
    /\ rs.pc = "trees" /\ id \in rs.left
    /\ trees' = [trees EXCEPT ![id] = [Tree(StagedVersions(id), None) EXCEPT !.young = TRUE]]
    /\ rs' = [rs EXCEPT !.left = @ \ {id}]
    /\ builds' = WithoutBuilds(id)
    /\ UNCHANGED <<dbVars, bootVars, key, dl, archive, deleting, auxVars>>

(* Every row that names a hash gets its link.                              *)
Relinked(id) == IF id \in DOMAIN live.fns /\ live.fns[id] # None
                  THEN [trees[id] EXCEPT !.dir = TRUE, !.cur = live.fns[id],
                                         !.young = TRUE]
                  ELSE trees[id]
Unshipped == {id[1] : id \in {x \in DOMAIN live.fns :
                 live.fns[x] # None /\ \A s \in {"bare", "ready"} : <<x, live.fns[x], s>> \notin archive.plan}}
RebuildCurrentSymlinks ==
    /\ rs.pc = "trees" /\ rs.left = {}
    /\ trees' = [id \in Ids |-> Relinked(id)]
    /\ rs' = Idle
    /\ proc' = "exiting"
    /\ lost' = lost \cup Unshipped
    /\ UNCHANGED <<dbVars, todo, key, dl, archive, reqVars, collector, faults, work>>

(* rollback puts the database file back, and nothing else: the -wal is     *)
(* gone, keys and trees that moved stay moved.                             *)
Rollback == /\ live' = rs.aside /\ main' = rs.aside /\ link' = "unlinked"
            /\ rs' = Idle
RestoreFails ==
    /\ Serving /\ Activating /\ Fault
    /\ lost' = Fns
    /\ \/ /\ rs.pc \in {"install", "keys"}
          /\ Rollback /\ UNCHANGED <<trees, builds>>
       \/ /\ rs.pc = "trees"
          /\ Rollback
          /\ \E id \in rs.left : trees' = [trees EXCEPT ![id] = NoTree] /\ builds' = WithoutBuilds(id)
       \/ /\ rs.pc = "trees" /\ rs.left = {}    \* the links: nothing is rolled back
          /\ rs' = Idle
          /\ UNCHANGED <<live, main, link, trees, builds>>
    /\ UNCHANGED <<handle, bootVars, key, dl, archive, deleting, collector, work>>

-----------------------------------------------------------------------------
(* Starts: a database, its trees, perhaps an archive of an earlier day.    *)
DirStart(d, t, a, n, w) ==
    /\ live = d /\ main = d /\ handle = d /\ link = "wal"
    /\ proc = "down" /\ todo = {} /\ key = d.sealed
    /\ trees = [id \in Ids |-> IF id \in DOMAIN t THEN t[id] ELSE NoTree]
    /\ archive = a
    /\ dl = Idle /\ rs = Idle /\ builds = {} /\ deleting = {} /\ collector = {} /\ lost = {}
    /\ faults = n /\ work = w

(* Any directory of an old or a new release whose code is on disk, with    *)
(* any archive of a running server beside it.                              *)
CodeOnDisk(d, t) == \A id \in DOMAIN d.fns : d.fns[id] # None =>
                        t[id].flat \/ t[id].ver[d.fns[id]] \in {"bare", "ready"}
Wellformed(t) == /\ t.flat => t.dir
                 /\ \A c \in Codes : /\ t.ver[c] \in {"bare", "ready"} => t.dir
                                     /\ t.flat => t.ver[c] # "scratch"
DirInit == \E d \in Database, t \in [Ids -> Trees], a \in Archives \cup {NoFile} :
              /\ d.pending = {} /\ CodeOnDisk(d, t) /\ \A id \in Ids : Wellformed(t[id])
              /\ a # NoFile => a.db.pending = {}
              /\ DirStart(d, t, a, 0, 0)

BootNext == \/ Open \/ MigrateToUUIDv7 \/ MigrateRefused \/ ClearPendingFnRenames \/ ServeUp
            \/ \E p \in todo : ReconcileFunctionDirs(p) \/ RenameFails(p)
            \/ \E id \in todo : MigrateLegacyCodeDirs(id) \/ LegacyActivate(id)
BackupNext == \/ SnapshotDB \/ ArchiveTo
              \/ \E id \in Ids : PlanArchive(id)
              \/ dl.pc = "stream" /\ \E f \in dl.plan : AddFileToTar(f)
RestoreNext == \/ RestoreVerify \/ MoveLiveAside \/ InstallDB \/ InstallKeys
               \/ \E id \in Ids : InstallTree(id)
               \/ RebuildCurrentSymlinks \/ RestoreFails
ServerNext == \/ \E id \in Ids, c \in Codes : BuildScratch(id, c) \/ Publish(id, c)
              \/ \E id \in Ids : DeleteRow(id) \/ PurgeFunctionFiles(id)
              \/ Checkpoint \/ GcList \/ SweepOrphanFunctionDirs \/ Aged
DirNext == BootNext \/ BackupNext \/ RestoreNext \/ ServerNext \/ DirCrash \/ ExitRestart

DirSpec == DirInit /\ [][DirNext]_dirVars

(* A boot is never abandoned half-way, and the supervisor starts the       *)
(* process again whenever it ends: serve.go runs straight through, the     *)
(* restore exits with a failure status for that very purpose.              *)
BootProgress == \/ Open \/ MigrateToUUIDv7 \/ MigrateRefused \/ ClearPendingFnRenames \/ ServeUp
                \/ \E p \in todo : ReconcileFunctionDirs(p)
                \/ \E id \in todo : MigrateLegacyCodeDirs(id) \/ LegacyActivate(id)
                \/ ExitRestart

-----------------------------------------------------------------------------
(* Properties.                                                             *)

DirTypeOK ==
    /\ live \in Database \cup {NoFile} /\ main \in Database \cup {NoFile} /\ handle \in Database
    /\ link \in {"wal", "unlinked", "aside"}
    /\ proc \in {"down", "migrate", "reconcile", "fold", "up", "exiting"}
    /\ todo \subseteq IF proc = "reconcile" THEN handle.pending ELSE IF proc = "fold" THEN DOMAIN handle.fns ELSE {}
    /\ trees \in [Ids -> Trees]
    /\ key \in {"old", "new"} /\ lost \in SUBSET Fns
    /\ archive \in Archives \cup {NoFile}
    /\ dl \in Downloads /\ rs \in Restores
    /\ rs.pc # "idle" => archive # NoFile /\ proc = "up"
    /\ rs.pc \in {"keys", "trees"} => live # NoFile
    /\ builds \in SUBSET (Ids \X Codes) /\ deleting \in SUBSET Ids /\ collector \in SUBSET Ids
    /\ faults \in 0 .. MaxFaults /\ work \in 0 .. MaxWork

(* The code a row names is on disk, under the row's id or under the id a   *)
(* recorded rename will move it from: through the id migration and its     *)
(* interrupted renames, the folding of flat directories, every sweep of    *)
(* orphaned trees (of the server that is about to exit after a restore     *)
(* too), and the restore of an archive whose stream was cut short.  What   *)
(* is excepted is in `lost`.                                               *)
HasCode(id, h) == trees[id].flat \/ trees[id].ver[h] \in {"bare", "ready"}
CodeSurvives ==
    live # NoFile /\ ~Activating =>
        \A id \in DOMAIN live.fns :
            live.fns[id] # None /\ id[1] \notin lost =>
                \/ HasCode(id, live.fns[id])
                \/ \E p \in live.pending : p[2] = id /\ HasCode(p[1], live.fns[id])

(* Every boot comes up, whatever crash or failed rename interrupted the    *)
(* one before, provided no soft reference names a function that is gone.   *)
Migratable == live = NoFile \/ \A id \in live.soft : IsUUID(id) \/ id \in DOMAIN live.fns
BootConverges == (proc = "down" /\ Migratable) ~> proc = "up"

(* "functions/<id>/current: symlink - rebuilt on restore from each         *)
(* function row's code_hash so DB and disk can never disagree"             *)
(* (backup.go:19): a booted server finds every link at the version its row *)
(* names.                                                                  *)
LinkMatchesRow ==
    proc = "up" /\ link = "wal" /\ lost = {} =>
        \A id \in DOMAIN handle.fns :
            handle.fns[id] # None /\ trees[id].ver[handle.fns[id]] = "ready" =>
                trees[id].cur = handle.fns[id]

=============================================================================
