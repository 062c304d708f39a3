------------------------------ MODULE Upgrade ------------------------------
(***************************************************************************)
(* `orva upgrade`: the command that replaces the binary it runs from by    *)
(* the latest release.  Publishing a release and install.sh are external:  *)
(* the workflow uploads the assets of a tag and its checksums.txt one by   *)
(* one, cuts a tag again on the same day, or withdraws it; install.sh      *)
(* writes the binary, the runtimes it finds tarballs for, the unit and, in *)
(* newer versions, a record of the data directory.                         *)
(*                                                                         *)
(* A tag is a number and 0 is a version that does not parse, as of a dev   *)
(* build.  A build is a number too, with the kind of binary and the tag it *)
(* was made for; it stands for the content and for its SHA-256.  Every     *)
(* request to GitHub is a step of its own.                                 *)
(***************************************************************************)
EXTENDS Integers, FiniteSets

CONSTANTS
  MaxTag,   \* bound on the tags
  MaxCuts,  \* bound on the builds published
  MaxRuns   \* bound on the upgrades and installs

ASSUME UpgradeAssumption == MaxTag \in Nat \ {0} /\ MaxCuts \in Nat /\ MaxRuns \in Nat

Tags == 1..MaxTag
BinaryKinds == {"server", "cli"}
Runtimes == {"node", "python"}
Dirs == {"default", "custom"}

Builds == [n : -1..MaxCuts, kind : BinaryKinds, tag : 0..MaxTag]
NoBuild == [n |-> 0, kind |-> "cli", tag |-> 0]
Truncated == [NoBuild EXCEPT !.n = -1]
NoDir == "none"

VARIABLES
  releases, \* the assets and the checksums of each tag
  latest,   \* tag of the latest release, 0 for none
  built,    \* number of builds so far
  exe,      \* the build installed
  stamps,   \* .orva-rootfs-version of each runtime, in each directory; 0 for none
  home,     \* data directory of the service, its record and its unit file
  up,       \* the upgrade command
  vouched,  \* builds some published checksums.txt has listed
  applied,  \* the last replacement of the binary, with what was true then
  ran       \* number of commands run

upgradeVars == <<releases, latest, built, exe, stamps, home, up, vouched, applied, ran>>

NoUp == [at |-> "idle", force |-> FALSE, check |-> FALSE, dir |-> NoDir, tag |-> 0,
         rebuilt |-> FALSE, data |-> NoBuild]
NoApply == [build |-> NoBuild, was |-> "cli", tag |-> 0, force |-> FALSE, matched |-> TRUE]
NoFiles == [asset |-> [k \in BinaryKinds |-> NoBuild], sums |-> [k \in BinaryKinds |-> NoBuild]]

----------------------------------------------------------------------------
(* External: releases and install.sh.                                      *)

\* A release appears for a tag, without files.
CutRelease(t) ==
  /\ latest < t /\ latest' = t
  /\ UNCHANGED <<releases, built, exe, stamps, home, up, vouched, applied, ran>>

\* A build is uploaded, perhaps over an earlier one of the tag.
UploadAsset(t, k) ==
  /\ t <= latest /\ built < MaxCuts /\ built' = built + 1
  /\ releases' = [releases EXCEPT ![t].asset[k] = [n |-> built + 1, kind |-> k, tag |-> t]]
  /\ UNCHANGED <<latest, exe, stamps, home, up, vouched, applied, ran>>

\* checksums.txt of the builds there are, made after them.
UploadChecksums(t) ==
  /\ releases[t].sums # releases[t].asset
  /\ releases' = [releases EXCEPT ![t].sums = releases[t].asset]
  /\ vouched' = (vouched \cup {releases[t].asset[k] : k \in BinaryKinds}) \ {NoBuild}
  /\ UNCHANGED <<latest, built, exe, stamps, home, up, applied, ran>>

\* The latest release is withdrawn.
Withdraw ==
  /\ latest > 1 /\ latest' = latest - 1
  /\ UNCHANGED <<releases, built, exe, stamps, home, up, vouched, applied, ran>>

\* install.sh --server: a runtime without a tarball keeps the tree it has.
InstallScript(dir, found, record) ==
  /\ up.at = "idle" /\ ran < MaxRuns /\ latest > 0
  /\ releases[latest].asset["server"] # NoBuild
  /\ ran' = ran + 1
  /\ exe' = releases[latest].asset["server"]
  /\ stamps' = [stamps EXCEPT ![dir] = [r \in Runtimes |-> IF r \in found THEN latest ELSE @[r]]]
  /\ home' = [dir |-> dir, record |-> IF record THEN dir ELSE NoDir, unit |-> dir]
  /\ UNCHANGED <<releases, latest, built, up, vouched, applied>>

----------------------------------------------------------------------------
(* The command.                                                            *)

\* It starts; the caller may name the data directory, with the flag or with
\* ORVA_DATA_DIR.  detectLatest finds the release and this kind's asset in it.
DetectLatest(force, check, dir) ==
  /\ up.at = "idle" /\ ran < MaxRuns /\ ran' = ran + 1
  /\ dir \in {NoDir, home.dir}
  /\ up' = IF latest = 0 \/ releases[latest].asset[exe.kind] = NoBuild THEN NoUp
           ELSE [NoUp EXCEPT !.at = "compare", !.force = force, !.check = check, !.dir = dir, !.tag = latest]
  /\ UNCHANGED <<releases, latest, built, exe, stamps, home, vouched, applied>>

\* lessOrEqual, negated: a version that does not parse is older than any.
VersionNewer == exe.tag = 0 \/ up.tag > exe.tag

\* remoteBuildDiffers: the checksum of the asset is known and another.
RemoteBuildDiffers(known) ==
  known /\ releases[up.tag].sums[exe.kind] # NoBuild /\ releases[up.tag].sums[exe.kind] # exe

\* Mutant of ResolveDataDir: an install without a record is at the default.
ResolveWithoutUnit ==
  IF up.dir # NoDir THEN up.dir ELSE IF home.record # NoDir THEN home.record ELSE "default"

\* The flag or the environment, the record, the unit file, the default.
ResolveDataDir ==
  IF up.dir # NoDir THEN up.dir ELSE IF home.record # NoDir THEN home.record
  ELSE IF home.unit # NoDir THEN home.unit ELSE "default"

\* staleRootfs: stamped runtimes of another release.
StaleRootfs(dir) == {r \in Runtimes : stamps[dir][r] \notin {0, up.tag}}

\* The checksum is asked for when the tag is not newer, and the answer may be
\* lost.  --check ends here.
CompareBuild(known) ==
  LET rebuilt == ~VersionNewer /\ RemoteBuildDiffers(known)
      go == up.force \/ VersionNewer \/ rebuilt
  IN /\ up.at = "compare"
     /\ up' = IF up.check \/ ~go THEN NoUp ELSE [up EXCEPT !.at = "guard", !.rebuilt = rebuilt]
     /\ UNCHANGED <<releases, latest, built, exe, stamps, home, vouched, applied, ran>>

\* checkRootfsVersion, for a server and without --force, and assertWritable.
GuardRootfs(writable) ==
  /\ up.at = "guard"
  /\ up' = IF (exe.kind = "server" /\ ~up.force /\ StaleRootfs(ResolveDataDir) # {}) \/ ~writable
           THEN NoUp ELSE [up EXCEPT !.at = "fetch"]
  /\ UNCHANGED <<releases, latest, built, exe, stamps, home, vouched, applied, ran>>

\* fetchAsset from the address of the tag: what is there now, a part of it, or
\* an error.
FetchAsset(data) ==
  /\ up.at = "fetch"
  /\ data \in {releases[up.tag].asset[exe.kind], Truncated, NoBuild}
  /\ up' = IF data = NoBuild THEN NoUp ELSE [up EXCEPT !.at = "verify", !.data = data]
  /\ UNCHANGED <<releases, latest, built, exe, stamps, home, vouched, applied, ran>>

\* Mutant of Verified: the sum is not compared.
VerifiedAny(sum) == sum # NoBuild

\* A sum is published for the asset and it is that of the data.
Verified(sum) == sum # NoBuild /\ sum = up.data

\* The checksums are fetched after the data, compared, and only then is the
\* binary replaced.
VerifyApply(answered) ==
  /\ up.at = "verify"
  /\ IF answered /\ Verified(releases[up.tag].sums[exe.kind])
     THEN /\ exe' = up.data
          /\ applied' = [build |-> up.data, was |-> exe.kind, tag |-> up.tag, force |-> up.force,
                         matched |-> \A r \in Runtimes : stamps[home.dir][r] \in {0, up.data.tag}]
     ELSE UNCHANGED <<exe, applied>>
  /\ up' = NoUp
  /\ UNCHANGED <<releases, latest, built, stamps, home, vouched, ran>>

\* The command is killed; nothing is on disk before the replacement.
UpgradeKilled ==
  /\ up.at # "idle" /\ up' = NoUp
  /\ UNCHANGED <<releases, latest, built, exe, stamps, home, vouched, applied, ran>>

----------------------------------------------------------------------------
(* The specification.                                                      *)

\* A host with this build, these stamps and this installation.
UpgradeStart(b, s, h) ==
  /\ releases = [t \in Tags |-> NoFiles] /\ latest = 0 /\ built = 0
  /\ exe = b /\ stamps = s /\ home = h
  /\ up = NoUp /\ vouched = {} /\ applied = NoApply /\ ran = 0

\* Where the data directory is known from: a record and a unit file name it,
\* and without a unit it is the default one.
Homes == {h \in [dir : Dirs, record : Dirs \cup {NoDir}, unit : Dirs \cup {NoDir}] :
            /\ h.record \in {NoDir, h.dir}
            /\ h.unit = h.dir \/ (h.unit = NoDir /\ h.dir = "default")}

UpgradeInit ==
  \E b \in Builds, s \in [Dirs -> [Runtimes -> 0..MaxTag]], h \in Homes : UpgradeStart(b, s, h)

UpgradeNext ==
  \/ \E t \in Tags : CutRelease(t) \/ UploadChecksums(t) \/ \E k \in BinaryKinds : UploadAsset(t, k)
  \/ Withdraw
  \/ \E d \in Dirs, S \in SUBSET Runtimes, record \in BOOLEAN : InstallScript(d, S, record)
  \/ \E force, check \in BOOLEAN, d \in Dirs \cup {NoDir} : DetectLatest(force, check, d)
  \/ \E b \in BOOLEAN : CompareBuild(b) \/ GuardRootfs(b) \/ VerifyApply(b)
  \/ \E data \in {releases[t].asset[k] : t \in Tags, k \in BinaryKinds} \cup {Truncated, NoBuild} : FetchAsset(data)
  \/ UpgradeKilled

UpgradeSpec == UpgradeInit /\ [][UpgradeNext]_upgradeVars

----------------------------------------------------------------------------
(* Properties.                                                             *)

\* Every variable holds a value of its type.
UpgradeTypeOK ==
  /\ releases \in [Tags -> [asset : [BinaryKinds -> Builds], sums : [BinaryKinds -> Builds]]]
  /\ latest \in 0..MaxTag /\ built \in 0..MaxCuts /\ ran \in 0..MaxRuns
  /\ exe \in Builds /\ vouched \subseteq Builds
  /\ stamps \in [Dirs -> [Runtimes -> 0..MaxTag]]
  /\ home \in [dir : Dirs, record : Dirs \cup {NoDir}, unit : Dirs \cup {NoDir}]
  /\ up \in [at : {"idle", "compare", "guard", "fetch", "verify"}, force : BOOLEAN, check : BOOLEAN,
             dir : Dirs \cup {NoDir}, tag : 0..MaxTag, rebuilt : BOOLEAN, data : Builds]
  /\ applied \in [build : Builds, was : BinaryKinds, tag : 0..MaxTag, force : BOOLEAN, matched : BOOLEAN]

\* Whatever the publisher does between the requests of one upgrade, the binary
\* is only ever replaced by a whole build of its own kind, made for the tag the
\* command announced and listed in a checksums.txt that was published; and
\* without --force the runtimes of a server's data directory, wherever that
\* is, are those of the new binary.
UpgradeSafe ==
  applied # NoApply =>
    /\ applied.build \in vouched
    /\ applied.build.kind = applied.was /\ applied.build.tag = applied.tag
    /\ applied.was = "server" /\ ~applied.force => applied.matched

\* An upgrade without --force does not go back to an older version.
NoUnforcedDowngrade ==
  [][applied' # applied /\ ~applied'.force => exe'.tag >= exe.tag]_upgradeVars
=============================================================================
