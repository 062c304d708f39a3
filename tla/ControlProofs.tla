--------------------------- MODULE ControlProofs ---------------------------
(***************************************************************************)
(* Proofs about the control plane: the upgrade of the command, agent       *)
(* channels, sessions and API keys, the OAuth server, and the deletion of  *)
(* the execution history.  Each section has the inductive invariant of one *)
(* component, what a step of it keeps, and the theorem for every value of  *)
(* the constants.                                                          *)
(***************************************************************************)
EXTENDS Upgrade, Channels, Access, OAuth, Traces, FiniteSetTheorems, SequenceTheorems, TLAPS

-----------------------------------------------------------------------------
(* The upgrade command.                                                    *)

\* A build published for tag t and kind k, or none.
Made(b, t, k) == b = NoBuild \/ (b.n > 0 /\ b.kind = k /\ b.tag = t)

\* What a tag offers was made for it, and its checksums list vouched builds.
ReleaseKnown(t, k) ==
  /\ Made(releases[t].asset[k], t, k) /\ Made(releases[t].sums[k], t, k)
  /\ releases[t].sums[k] \in vouched \cup {NoBuild}

\* What the command has found out, and what its guard has made sure of.
CommandKnows ==
  /\ up.at # "idle" => up.tag \in Tags /\ up.dir \in {NoDir, home.dir}
  /\ up.at \in {"fetch", "verify"} /\ exe.kind = "server" /\ ~up.force =>
       \A r \in Runtimes : stamps[home.dir][r] \in {0, up.tag}

UpgradeInv ==
  /\ UpgradeTypeOK /\ home \in Homes /\ NoBuild \notin vouched
  /\ \A t \in Tags, k \in BinaryKinds : ReleaseKnown(t, k)
  /\ CommandKnows /\ UpgradeSafe

Commands == [at : {"idle", "compare", "guard", "fetch", "verify"}, force : BOOLEAN, check : BOOLEAN,
             dir : Dirs \cup {NoDir}, tag : 0..MaxTag, rebuilt : BOOLEAN, data : Builds]
Files == [asset : [BinaryKinds -> Builds], sums : [BinaryKinds -> Builds]]

\* The records of the module are of their types.
LEMMA UpgradeConstants ==
  /\ NoBuild \in Builds /\ Truncated \in Builds
  /\ NoUp \in Commands /\ NoUp.at = "idle"
  /\ NoFiles \in Files
  /\ NoApply \in [build : Builds, was : BinaryKinds, tag : 0..MaxTag, force : BOOLEAN, matched : BOOLEAN]
<1>1. 0 \in -1..MaxCuts /\ -1 \in -1..MaxCuts /\ 0 \in 0..MaxTag
  BY UpgradeAssumption
<1>2. NoBuild \in Builds
  BY <1>1 DEF NoBuild, Builds, BinaryKinds
<1>3. Truncated = [n |-> -1, kind |-> "cli", tag |-> 0]
  BY DEF Truncated, NoBuild
<1>4. Truncated \in Builds
  BY <1>1, <1>3 DEF Builds, BinaryKinds
<1>5. NoUp \in Commands /\ NoUp.at = "idle"
  BY <1>1, <1>2 DEF NoUp, Commands
<1>6. NoFiles \in Files
  BY <1>2 DEF NoFiles, Files
<1> QED
  BY <1>1, <1>2, <1>4, <1>5, <1>6 DEF NoApply, BinaryKinds

\* The data directory that the command finds is the service's.
LEMMA DirResolved ==
  ASSUME home \in Homes, up.dir \in {NoDir, home.dir}
  PROVE  ResolveDataDir = home.dir
BY DEF Homes, ResolveDataDir, NoDir, Dirs

\* A step that leaves the releases, the host and the replacement alone.
LEMMA CommandMoves ==
  ASSUME UpgradeInv, UNCHANGED <<releases, exe, stamps, home, vouched, applied>>,
         up' \in Commands, latest' \in 0..MaxTag, built' \in 0..MaxCuts, ran' \in 0..MaxRuns,
         CommandKnows'
  PROVE  UpgradeInv'
<1>1. UpgradeTypeOK'
  BY DEF UpgradeInv, UpgradeTypeOK, Commands
<1>2. \A t \in Tags, k \in BinaryKinds : ReleaseKnown(t, k)'
  BY DEF UpgradeInv, ReleaseKnown, Made
<1>3. UpgradeSafe' /\ (home \in Homes)' /\ NoBuild \notin vouched'
  BY DEF UpgradeInv, UpgradeSafe
<1> QED
  BY <1>1, <1>2, <1>3 DEF UpgradeInv

\* The publisher's steps, which leave the host and the command alone.
LEMMA ReleasesMove ==
  ASSUME UpgradeInv, UNCHANGED <<exe, stamps, home, up, applied, ran>>,
         releases' \in [Tags -> Files], latest' \in 0..MaxTag, built' \in 0..MaxCuts,
         vouched' \subseteq Builds, vouched \subseteq vouched', NoBuild \notin vouched',
         \A t \in Tags, k \in BinaryKinds : ReleaseKnown(t, k)'
  PROVE  UpgradeInv'
<1>1. UpgradeTypeOK'
  BY DEF UpgradeInv, UpgradeTypeOK, Files
<1>2. UpgradeSafe' /\ (home \in Homes)' /\ CommandKnows'
  BY DEF UpgradeInv, UpgradeSafe, CommandKnows
<1> QED
  BY <1>1, <1>2 DEF UpgradeInv

LEMMA UpgradeStep == UpgradeInv /\ [UpgradeNext]_upgradeVars => UpgradeInv'
<1> SUFFICES ASSUME UpgradeInv, [UpgradeNext]_upgradeVars PROVE UpgradeInv'
  OBVIOUS
<1>0. /\ releases \in [Tags -> Files] /\ latest \in 0..MaxTag /\ built \in 0..MaxCuts
      /\ ran \in 0..MaxRuns /\ exe \in Builds /\ vouched \subseteq Builds
      /\ stamps \in [Dirs -> [Runtimes -> 0..MaxTag]]
      /\ up \in Commands /\ home \in Homes
      /\ applied \in [build : Builds, was : BinaryKinds, tag : 0..MaxTag, force : BOOLEAN, matched : BOOLEAN]
      /\ \A t \in Tags, k \in BinaryKinds : ReleaseKnown(t, k)
      /\ CommandKnows /\ UpgradeSafe /\ NoBuild \notin vouched
  BY DEF UpgradeInv, UpgradeTypeOK, Files, Commands
<1>1. CASE \E t \in Tags : CutRelease(t)
  <2>1. PICK t \in Tags : CutRelease(t)
    BY <1>1
  <2>2. latest' \in 0..MaxTag
    BY <2>1, UpgradeAssumption DEF CutRelease, Tags
  <2>3. UNCHANGED <<releases, exe, stamps, home, up, vouched, applied, built, ran>>
    BY <2>1 DEF CutRelease
  <2>4. CommandKnows'
    BY <1>0, <2>3 DEF CommandKnows
  <2> QED BY <1>0, <2>2, <2>3, <2>4, CommandMoves
<1>2. CASE Withdraw
  <2>1. latest' \in 0..MaxTag
    BY <1>0, <1>2, UpgradeAssumption DEF Withdraw
  <2>2. UNCHANGED <<releases, exe, stamps, home, up, vouched, applied, built, ran>>
    BY <1>2 DEF Withdraw
  <2>3. CommandKnows'
    BY <1>0, <2>2 DEF CommandKnows
  <2> QED BY <1>0, <2>1, <2>2, <2>3, CommandMoves
<1>3. CASE \E t \in Tags, k \in BinaryKinds : UploadAsset(t, k)
  <2>1. PICK t \in Tags, k \in BinaryKinds : UploadAsset(t, k)
    BY <1>3
  <2> DEFINE b == [n |-> built + 1, kind |-> k, tag |-> t]
  <2>2. built' \in 0..MaxCuts /\ built + 1 \in 1..MaxCuts
    BY <1>0, <2>1, UpgradeAssumption DEF UploadAsset
  <2>3. b \in Builds /\ Made(b, t, k)
    BY <2>2, UpgradeAssumption DEF Builds, Tags, Made
  <2>4. releases' = [releases EXCEPT ![t].asset[k] = b]
    BY <2>1 DEF UploadAsset
  <2> HIDE DEF b
  <2>5. /\ DOMAIN releases' = Tags /\ releases' = [u \in DOMAIN releases' |-> releases'[u]]
        /\ \A u \in Tags : u # t => releases'[u] = releases[u]
        /\ releases'[t] = [releases[t] EXCEPT !.asset = [releases[t].asset EXCEPT ![k] = b]]
    BY <1>0, <2>4
  <2>6. releases[t] \in Files
    BY <1>0
  <2>7. releases'[t] = [asset |-> [releases[t].asset EXCEPT ![k] = b], sums |-> releases[t].sums]
    BY <2>5, <2>6 DEF Files
  <2>8. releases'[t] \in Files
    BY <2>3, <2>6, <2>7 DEF Files
  <2>9. releases' \in [Tags -> Files]
    BY <1>0, <2>5, <2>8
  <2>10. UNCHANGED <<latest, exe, stamps, home, up, vouched, applied, ran>>
    BY <2>1 DEF UploadAsset
  <2>11. ASSUME NEW u \in Tags, NEW j \in BinaryKinds PROVE ReleaseKnown(u, j)'
    <3>1. ReleaseKnown(u, j)
      BY <1>0
    <3>2. CASE u # t
      BY <2>5, <2>10, <3>1, <3>2 DEF ReleaseKnown
    <3>3. CASE u = t
      <4>1. releases'[u].sums = releases[u].sums
            /\ releases'[u].asset[j] = IF j = k THEN b ELSE releases[u].asset[j]
        BY <2>6, <2>7, <3>3 DEF Files
      <4> QED BY <2>3, <2>10, <3>1, <3>3, <4>1 DEF ReleaseKnown
    <3> QED BY <3>2, <3>3
  <2> QED BY <1>0, <2>2, <2>9, <2>10, <2>11, ReleasesMove
<1>4. CASE \E t \in Tags : UploadChecksums(t)
  <2>1. PICK t \in Tags : UploadChecksums(t)
    BY <1>4
  <2>2. UNCHANGED <<latest, built, exe, stamps, home, up, applied, ran>>
    BY <2>1 DEF UploadChecksums
  <2>3. releases[t] \in Files
    BY <1>0
  <2>4. /\ DOMAIN releases' = Tags /\ releases' = [u \in DOMAIN releases' |-> releases'[u]]
        /\ \A u \in Tags : u # t => releases'[u] = releases[u]
        /\ releases'[t] = [releases[t] EXCEPT !.sums = releases[t].asset]
    BY <1>0, <2>1 DEF UploadChecksums
  <2>5. releases'[t] = [asset |-> releases[t].asset, sums |-> releases[t].asset]
    BY <2>3, <2>4 DEF Files
  <2>6. releases'[t] \in Files
    BY <2>3, <2>5 DEF Files
  <2>7. releases' \in [Tags -> Files]
    BY <1>0, <2>4, <2>6
  <2>8. vouched' = (vouched \cup {releases[t].asset[k] : k \in BinaryKinds}) \ {NoBuild}
    BY <2>1 DEF UploadChecksums
  <2>9. \A k \in BinaryKinds : releases[t].asset[k] \in Builds
    BY <2>3 DEF Files
  <2>10. vouched' \subseteq Builds /\ vouched \subseteq vouched' /\ NoBuild \notin vouched'
    BY <1>0, <2>8, <2>9
  <2>11. ASSUME NEW u \in Tags, NEW j \in BinaryKinds PROVE ReleaseKnown(u, j)'
    <3>1. ReleaseKnown(u, j)
      BY <1>0
    <3>2. CASE u # t
      BY <2>4, <2>10, <3>1, <3>2 DEF ReleaseKnown
    <3>3. CASE u = t
      <4>1. releases'[u].asset[j] = releases[u].asset[j] /\ releases'[u].sums[j] = releases[u].asset[j]
        BY <2>5, <3>3
      <4>2. releases[u].asset[j] \in vouched' \cup {NoBuild}
        BY <2>8, <3>3
      <4> QED BY <3>1, <4>1, <4>2 DEF ReleaseKnown
    <3> QED BY <3>2, <3>3
  <2> QED BY <1>0, <2>2, <2>7, <2>10, <2>11, ReleasesMove
<1>5. CASE \E d \in Dirs, S \in SUBSET Runtimes, record \in BOOLEAN : InstallScript(d, S, record)
  <2>1. PICK d \in Dirs, S \in SUBSET Runtimes, record \in BOOLEAN : InstallScript(d, S, record)
    BY <1>5
  <2>2. /\ up.at = "idle" /\ ran' \in 0..MaxRuns /\ latest \in Tags
        /\ UNCHANGED <<releases, latest, built, up, vouched, applied>>
    BY <1>0, <2>1, UpgradeAssumption DEF InstallScript, Tags
  <2>3. exe' \in Builds
    <3>1. exe' = releases[latest].asset["server"] /\ releases[latest] \in Files
      BY <1>0, <2>1, <2>2 DEF InstallScript
    <3> QED BY <3>1 DEF Files, BinaryKinds
  <2>4. home' = [dir |-> d, record |-> IF record THEN d ELSE NoDir, unit |-> d]
    BY <2>1 DEF InstallScript
  <2>5. home' \in Homes
    BY <2>4 DEF Homes
  <2>6. stamps' \in [Dirs -> [Runtimes -> 0..MaxTag]]
    <3>1. stamps[d] \in [Runtimes -> 0..MaxTag]
      BY <1>0
    <3>2. [r \in Runtimes |-> IF r \in S THEN latest ELSE stamps[d][r]] \in [Runtimes -> 0..MaxTag]
      BY <1>0, <3>1
    <3>3. stamps' = [stamps EXCEPT ![d] = [r \in Runtimes |-> IF r \in S THEN latest ELSE stamps[d][r]]]
      BY <1>0, <2>1 DEF InstallScript
    <3> QED BY <1>0, <3>2, <3>3
  <2>7. UpgradeTypeOK'
    BY <1>0, <2>2, <2>3, <2>5, <2>6 DEF UpgradeTypeOK, Files, Commands, Homes
  <2>8. \A t \in Tags, k \in BinaryKinds : ReleaseKnown(t, k)'
    BY <1>0, <2>2 DEF ReleaseKnown
  <2>9. CommandKnows' /\ UpgradeSafe' /\ NoBuild \notin vouched'
    BY <1>0, <2>2 DEF CommandKnows, UpgradeSafe
  <2> QED BY <2>5, <2>7, <2>8, <2>9 DEF UpgradeInv
\* The command's own steps but the last.
<1>6. ASSUME UNCHANGED <<releases, exe, stamps, home, vouched, applied, latest, built>>,
             ran' \in 0..MaxRuns, up' = NoUp
      PROVE  UpgradeInv'
  <2>1. up' \in Commands /\ up'.at = "idle"
    BY <1>6, UpgradeConstants
  <2>2. CommandKnows'
    BY <2>1 DEF CommandKnows
  <2> QED BY <1>0, <1>6, <2>1, <2>2, CommandMoves
<1>7. CASE \E force, check \in BOOLEAN, d \in Dirs \cup {NoDir} : DetectLatest(force, check, d)
  <2>1. PICK force \in BOOLEAN, check \in BOOLEAN, d \in Dirs \cup {NoDir} : DetectLatest(force, check, d)
    BY <1>7
  <2>2. /\ ran' \in 0..MaxRuns /\ d \in {NoDir, home.dir}
        /\ UNCHANGED <<releases, exe, stamps, home, vouched, applied, latest, built>>
    BY <1>0, <2>1, UpgradeAssumption DEF DetectLatest
  <2>3. CASE up' = NoUp
    BY <1>6, <2>2, <2>3
  <2>4. CASE up' # NoUp
    <3>1. /\ latest \in Tags
          /\ up' = [NoUp EXCEPT !.at = "compare", !.force = force, !.check = check, !.dir = d, !.tag = latest]
      BY <1>0, <2>1, <2>4, UpgradeAssumption DEF DetectLatest, Tags
    <3>2. up' = [at |-> "compare", force |-> force, check |-> check, dir |-> d, tag |-> latest,
                 rebuilt |-> FALSE, data |-> NoBuild]
      BY <3>1 DEF NoUp
    <3>3. up' \in Commands
      BY <1>0, <3>2, UpgradeConstants DEF Commands
    <3>4. CommandKnows'
      BY <2>2, <3>1, <3>2 DEF CommandKnows
    <3> QED BY <1>0, <2>2, <3>3, <3>4, CommandMoves
  <2> QED BY <2>3, <2>4
<1>8. CASE \E b \in BOOLEAN : CompareBuild(b)
  <2>1. PICK b \in BOOLEAN : CompareBuild(b)
    BY <1>8
  <2>2. UNCHANGED <<releases, exe, stamps, home, vouched, applied, latest, built, ran>> /\ up.at = "compare"
    BY <2>1 DEF CompareBuild
  <2>3. CASE up' = NoUp
    BY <1>0, <1>6, <2>2, <2>3
  <2>4. CASE up' # NoUp
    <3>1. PICK c : c = (~VersionNewer /\ RemoteBuildDiffers(b))
      OBVIOUS
    <3>2. up' = [up EXCEPT !.at = "guard", !.rebuilt = c] /\ c \in BOOLEAN
      BY <2>1, <2>4, <3>1 DEF CompareBuild
    <3>3. up' = [at |-> "guard", force |-> up.force, check |-> up.check, dir |-> up.dir, tag |-> up.tag,
                 rebuilt |-> c, data |-> up.data]
      BY <1>0, <3>2 DEF Commands
    <3>4. up' \in Commands
      BY <1>0, <3>2, <3>3 DEF Commands
    <3>5. CommandKnows'
      BY <1>0, <2>2, <3>3 DEF CommandKnows
    <3> QED BY <1>0, <2>2, <3>4, <3>5, CommandMoves
  <2> QED BY <2>3, <2>4
<1>9. CASE \E b \in BOOLEAN : GuardRootfs(b)
  <2>1. PICK b \in BOOLEAN : GuardRootfs(b)
    BY <1>9
  <2>2. UNCHANGED <<releases, exe, stamps, home, vouched, applied, latest, built, ran>> /\ up.at = "guard"
    BY <2>1 DEF GuardRootfs
  <2>3. CASE up' = NoUp
    BY <1>0, <1>6, <2>2, <2>3
  <2>4. CASE up' # NoUp
    <3>1. /\ up' = [up EXCEPT !.at = "fetch"]
          /\ exe.kind = "server" /\ ~up.force => StaleRootfs(ResolveDataDir) = {}
      BY <2>1, <2>4 DEF GuardRootfs
    <3>2. up' \in Commands /\ up'.at = "fetch" /\ up'.force = up.force /\ up'.tag = up.tag /\ up'.dir = up.dir
      BY <1>0, <3>1 DEF Commands
    <3>3. up.tag \in Tags /\ up.dir \in {NoDir, home.dir} /\ ResolveDataDir = home.dir
      BY <1>0, <2>2, DirResolved DEF CommandKnows
    <3>4. exe.kind = "server" /\ ~up.force => \A r \in Runtimes : stamps[home.dir][r] \in {0, up.tag}
      BY <3>1, <3>3 DEF StaleRootfs
    <3>5. CommandKnows'
      BY <2>2, <3>2, <3>3, <3>4 DEF CommandKnows
    <3> QED BY <1>0, <2>2, <3>2, <3>5, CommandMoves
  <2> QED BY <2>3, <2>4
<1>10. CASE \E data \in {releases[t].asset[k] : t \in Tags, k \in BinaryKinds} \cup {Truncated, NoBuild} :
              FetchAsset(data)
  <2>1. PICK data : FetchAsset(data)
    BY <1>10
  <2>2. UNCHANGED <<releases, exe, stamps, home, vouched, applied, latest, built, ran>> /\ up.at = "fetch"
    BY <2>1 DEF FetchAsset
  <2>3. CASE up' = NoUp
    BY <1>0, <1>6, <2>2, <2>3
  <2>4. CASE up' # NoUp
    <3>1. up' = [up EXCEPT !.at = "verify", !.data = data]
      BY <2>1, <2>4 DEF FetchAsset
    <3>2. data \in Builds
      <4>1. releases[up.tag] \in Files /\ exe.kind \in BinaryKinds
        BY <1>0, <2>2 DEF CommandKnows, Builds
      <4>2. releases[up.tag].asset[exe.kind] \in Builds
        BY <4>1 DEF Files
      <4> QED BY <2>1, <4>2, UpgradeConstants DEF FetchAsset
    <3>3. up' = [at |-> "verify", force |-> up.force, check |-> up.check, dir |-> up.dir, tag |-> up.tag,
                 rebuilt |-> up.rebuilt, data |-> data]
      <4>1. up \in Commands
        BY <1>0
      <4> QED BY <3>1, <4>1 DEF Commands
    <3>4. up' \in Commands
      BY <1>0, <3>2, <3>3 DEF Commands
    <3>5. CommandKnows'
      BY <1>0, <2>2, <3>3 DEF CommandKnows
    <3> QED BY <1>0, <2>2, <3>4, <3>5, CommandMoves
  <2> QED BY <2>3, <2>4
<1>11. CASE \E b \in BOOLEAN : VerifyApply(b)
  <2>1. PICK b \in BOOLEAN : VerifyApply(b)
    BY <1>11
  <2>2. UNCHANGED <<releases, stamps, home, vouched, latest, built, ran>> /\ up.at = "verify" /\ up' = NoUp
    BY <2>1 DEF VerifyApply
  <2>3. CASE UNCHANGED <<exe, applied>>
    BY <1>0, <1>6, <2>2, <2>3
  <2>4. CASE ~UNCHANGED <<exe, applied>>
    <3> DEFINE m == \A r \in Runtimes : stamps[home.dir][r] \in {0, up.data.tag}
    <3>1. /\ exe' = up.data /\ Verified(releases[up.tag].sums[exe.kind])
          /\ applied' = [build |-> up.data, was |-> exe.kind, tag |-> up.tag, force |-> up.force, matched |-> m]
      BY <2>1, <2>4 DEF VerifyApply
    <3>2. up.tag \in Tags /\ exe.kind \in BinaryKinds
      BY <1>0, <2>2 DEF CommandKnows, Builds
    <3>3. up.data # NoBuild /\ up.data = releases[up.tag].sums[exe.kind] /\ ReleaseKnown(up.tag, exe.kind)
      BY <1>0, <3>1, <3>2 DEF Verified
    <3>4. up.data.kind = exe.kind /\ up.data.tag = up.tag /\ up.data \in vouched
      BY <3>3 DEF ReleaseKnown, Made
    <3>5. exe.kind = "server" /\ ~up.force => m
      BY <1>0, <2>2, <3>4 DEF CommandKnows
    <3>6. m \in BOOLEAN
      OBVIOUS
    <3> HIDE DEF m
    <3>7. UpgradeSafe'
      BY <2>2, <3>1, <3>4, <3>5 DEF UpgradeSafe
    <3>8. up' \in Commands /\ up'.at = "idle" /\ up.data \in Builds /\ up.force \in BOOLEAN /\ up.tag \in 0..MaxTag
      BY <1>0, <2>2, UpgradeConstants DEF Commands
    <3>9. applied' \in [build : Builds, was : BinaryKinds, tag : 0..MaxTag, force : BOOLEAN, matched : BOOLEAN]
      BY <3>1, <3>2, <3>6, <3>8
    <3>10. UpgradeTypeOK'
      BY <1>0, <2>2, <3>1, <3>8, <3>9 DEF UpgradeTypeOK, Files, Commands, Homes
    <3>11. CommandKnows'
      BY <3>8 DEF CommandKnows
    <3>12. \A t \in Tags, k \in BinaryKinds : ReleaseKnown(t, k)'
      BY <1>0, <2>2 DEF ReleaseKnown
    <3> QED BY <1>0, <2>2, <3>7, <3>10, <3>11, <3>12 DEF UpgradeInv
  <2> QED BY <2>3, <2>4
<1>12. CASE UpgradeKilled
  <2>1. UNCHANGED <<releases, exe, stamps, home, vouched, applied, latest, built, ran>> /\ up' = NoUp
    BY <1>12 DEF UpgradeKilled
  <2> QED BY <1>0, <1>6, <2>1
<1>13. CASE UNCHANGED upgradeVars
  <2>1. UNCHANGED <<releases, exe, stamps, home, up, vouched, applied, latest, built, ran>>
    BY <1>13 DEF upgradeVars
  <2>2. CommandKnows'
    BY <1>0, <2>1 DEF CommandKnows
  <2> QED BY <1>0, <2>1, <2>2, CommandMoves
<1> QED
  BY <1>1, <1>2, <1>3, <1>4, <1>5, <1>7, <1>8, <1>9, <1>10, <1>11, <1>12, <1>13 DEF UpgradeNext

LEMMA UpgradeInvHolds == UpgradeSpec => []UpgradeInv
<1>1. UpgradeInit => UpgradeInv
  <2> SUFFICES ASSUME UpgradeInit PROVE UpgradeInv
    OBVIOUS
  <2>1. PICK b \in Builds, s \in [Dirs -> [Runtimes -> 0..MaxTag]], h \in Homes : UpgradeStart(b, s, h)
    BY DEF UpgradeInit
  <2>2. /\ releases = [t \in Tags |-> NoFiles] /\ latest = 0 /\ built = 0
        /\ exe \in Builds /\ stamps \in [Dirs -> [Runtimes -> 0..MaxTag]] /\ home \in Homes
        /\ up = NoUp /\ vouched = {} /\ applied = NoApply /\ ran = 0
    BY <2>1 DEF UpgradeStart
  <2>3. 0 \in 0..MaxTag /\ 0 \in 0..MaxCuts /\ 0 \in 0..MaxRuns
    BY UpgradeAssumption
  <2>4. UpgradeTypeOK
    BY <2>2, <2>3, UpgradeConstants DEF UpgradeTypeOK, Files, Commands, Homes
  <2>5. \A t \in Tags, k \in BinaryKinds : ReleaseKnown(t, k)
    BY <2>2 DEF ReleaseKnown, Made, NoFiles
  <2>6. CommandKnows /\ UpgradeSafe
    BY <2>2, UpgradeConstants DEF CommandKnows, UpgradeSafe
  <2> QED BY <2>2, <2>4, <2>5, <2>6 DEF UpgradeInv
<1> QED
  BY <1>1, UpgradeStep, PTL DEF UpgradeSpec

\* Whatever is published, republished or withdrawn between the requests of
\* `orva upgrade`, the binary is only replaced by a whole build of its own
\* kind for the tag it announced, listed in a published checksums.txt, and
\* without --force only beside runtimes of that release (VerifyApply after
\* GuardRootfs on the directory that ResolveDataDir finds).
THEOREM UpgradesAreVouched == UpgradeSpec => []UpgradeSafe
<1>1. UpgradeInv => UpgradeSafe
  BY DEF UpgradeInv
<1> QED BY <1>1, UpgradeInvHolds, PTL


-----------------------------------------------------------------------------
(* Agent channels.                                                         *)

Agents == [at : {"idle", "row", "ids", "tools"}, token : 0..MaxIssued, since : 0..MaxIssued,
           id : 0..MaxIssued, expires : 1..NoExpiry, offered : SUBSET Bundled,
           todo : SUBSET Bundled, tools : SUBSET [name : {"pay_out"}, fn : Bundled]]

\* The tables: ids and tokens were issued, and without a channel nothing is bound.
TableInv ==
  /\ fnName \in [Bundled -> FnNames \cup {NoFn}] /\ channel \in ChannelRows
  /\ issued \in 0..MaxIssued /\ bound \subseteq Bundled /\ refusals \subseteq 1..issued
  /\ channel.id =< issued /\ channel.token =< issued
  /\ channel.id = 0 => channel = NoChannel
  /\ channel = NoChannel => bound = {}
  /\ channel.id \notin refusals
  /\ channel # NoChannel => channel.fns = bound \cap Deployed

\* A create past its insert knows the id it inserted; only a create undoes.
CallKnows(q) ==
  /\ chCall[q].id =< issued
  /\ chCall[q].at = "undo" => chCall[q].op = "create"
  /\ chCall[q].op = "create" /\ chCall[q].at \in {"bind", "undo"} => chCall[q].id # 0

CallInv == chCall \in [ChannelCalls -> CallTypes] /\ \A q \in ChannelCalls : CallKnows(q)

\* Tokens only grow while a channel lasts, and an agent meets what was bound.
AgentInv ==
  /\ agent \in Agents /\ agent.since =< issued
  /\ agent.at # "idle" /\ channel # NoChannel => channel.token >= agent.since
  /\ agent.at \in {"ids", "tools"} => agent.token >= agent.since
  /\ agent.at \in {"row", "ids"} => agent.tools = {}
  /\ agent.at = "tools" =>
       /\ agent.todo \subseteq agent.offered /\ {t.fn : t \in agent.tools} \subseteq agent.offered
       /\ \A t, u \in agent.tools : t.name = u.name => t = u

ChannelInv == TableInv /\ CallInv /\ AgentInv /\ day \in 0..MaxDay /\ changes \in 0..MaxChanges

LEMMA ChannelConstants ==
  /\ NoExpiry \in 1..NoExpiry /\ 1 \in 1..NoExpiry
  /\ NoChannel \in ChannelRows /\ NoChannel.id = 0 /\ NoChannel.token = 0 /\ NoChannel.fns = {}
  /\ NoCall \in CallTypes /\ NoCall.id = 0 /\ NoCall.at = "idle" /\ NoCall.op = "none"
  /\ NoAgent \in Agents /\ NoAgent.at = "idle" /\ NoAgent.since = 0
<1>1. NoExpiry \in 1..NoExpiry /\ 1 \in 1..NoExpiry /\ 0 \in 0..MaxIssued
  BY ChannelsAssumption DEF NoExpiry
<1> HIDE DEF NoExpiry
<1>2. NoChannel \in ChannelRows /\ NoChannel.id = 0 /\ NoChannel.token = 0 /\ NoChannel.fns = {}
  BY <1>1 DEF NoChannel, ChannelRows
<1>3. NoCall \in CallTypes /\ NoCall.id = 0 /\ NoCall.at = "idle" /\ NoCall.op = "none"
  BY <1>1 DEF NoCall, CallTypes
<1>4. NoAgent \in Agents /\ NoAgent.at = "idle" /\ NoAgent.since = 0
  BY <1>1 DEF NoAgent, Agents
<1> QED BY <1>1, <1>2, <1>3, <1>4

\* One call moves; ids that were issued stay issued.
LEMMA CallMoves ==
  ASSUME CallInv, NEW q \in ChannelCalls, issued \in Nat, issued' \in Nat, issued =< issued',
         DOMAIN chCall' = ChannelCalls, chCall' = [r \in DOMAIN chCall' |-> chCall'[r]],
         \A r \in ChannelCalls : r # q => chCall'[r] = chCall[r],
         chCall'[q] \in CallTypes, CallKnows(q)'
  PROVE  CallInv'
<1>1. \A r \in ChannelCalls : chCall'[r] \in CallTypes
  BY DEF CallInv
<1>2. chCall' \in [ChannelCalls -> CallTypes]
  BY <1>1
<1>3. ASSUME NEW r \in ChannelCalls PROVE CallKnows(r)'
  <2>1. CASE r = q
    BY <2>1
  <2>2. CASE r # q
    <3>1. chCall'[r] = chCall[r] /\ chCall[r].id \in 0..MaxIssued /\ CallKnows(r)
      BY <2>2 DEF CallInv, CallTypes
    <3> QED BY <3>1, ChannelsAssumption DEF CallKnows
  <2> QED BY <2>1, <2>2
<1> QED BY <1>2, <1>3 DEF CallInv

\* What an assignment to chCall[q] leaves alone.
LEMMA CallSet ==
  ASSUME CallInv, NEW q \in ChannelCalls, NEW c, chCall' = [chCall EXCEPT ![q] = c]
  PROVE  /\ DOMAIN chCall' = ChannelCalls /\ chCall' = [r \in DOMAIN chCall' |-> chCall'[r]]
         /\ \A r \in ChannelCalls : r # q => chCall'[r] = chCall[r]
         /\ chCall'[q] = c
BY DEF CallInv

LEMMA AnswerMoves ==
  ASSUME CallInv, NEW q \in ChannelCalls, issued \in Nat, issued' \in Nat, issued =< issued', Answer(q)
  PROVE  CallInv'
<1>1. /\ DOMAIN chCall' = ChannelCalls /\ chCall' = [r \in DOMAIN chCall' |-> chCall'[r]]
      /\ \A r \in ChannelCalls : r # q => chCall'[r] = chCall[r]
      /\ chCall'[q] = NoCall
  BY DEF CallInv, Answer
<1>2. CallKnows(q)' /\ chCall'[q] \in CallTypes
  BY <1>1, ChannelConstants DEF CallKnows
<1> QED BY <1>1, <1>2, CallMoves

LEMMA ReachMoves ==
  ASSUME CallInv, NEW q \in ChannelCalls, issued \in Nat, issued' = issued,
         NEW l \in {"names", "insert", "bind", "undo"}, Reach(q, l),
         l = "undo" => chCall[q].op = "create",
         l \in {"bind", "undo"} /\ chCall[q].op = "create" => chCall[q].id # 0
  PROVE  CallInv'
<1>1. chCall[q] \in CallTypes /\ CallKnows(q)
  BY DEF CallInv
<1>2. /\ DOMAIN chCall' = ChannelCalls /\ chCall' = [r \in DOMAIN chCall' |-> chCall'[r]]
      /\ \A r \in ChannelCalls : r # q => chCall'[r] = chCall[r]
      /\ chCall'[q] = [chCall[q] EXCEPT !.at = l]
  BY DEF CallInv, Reach
<1>3. /\ chCall'[q] \in CallTypes /\ chCall'[q].id = chCall[q].id
      /\ chCall'[q].op = chCall[q].op /\ chCall'[q].at = l
  BY <1>1, <1>2 DEF CallTypes
<1>4. CallKnows(q)'
  BY <1>1, <1>3 DEF CallKnows
<1> QED BY <1>2, <1>3, <1>4, CallMoves

\* Neither the tables nor the agent move.
LEMMA TablesStay ==
  ASSUME TableInv, UNCHANGED <<fnName, channel, issued, bound, refusals>>
  PROVE  TableInv'
BY DEF TableInv, Deployed

LEMMA AgentStays ==
  ASSUME AgentInv, UNCHANGED agent, issued \in Nat, issued' \in Nat, issued =< issued',
         channel' # NoChannel => \/ channel # NoChannel /\ channel'.token = channel.token
                                 \/ channel'.token \in Nat /\ channel'.token >= issued
  PROVE  AgentInv'
<1>1. agent.since \in Nat
  BY ChannelsAssumption DEF AgentInv, Agents
<1>2. agent.at # "idle" /\ channel' # NoChannel => channel'.token >= agent.since
  BY <1>1 DEF AgentInv
<1>3. agent.since =< issued'
  BY <1>1 DEF AgentInv
<1> QED BY <1>2, <1>3 DEF AgentInv

LEMMA ChannelStep == ChannelInv /\ [ChannelNext]_channelVars => ChannelInv'
<1> SUFFICES ASSUME ChannelInv, [ChannelNext]_channelVars PROVE ChannelInv'
  OBVIOUS
<1>0. /\ TableInv /\ CallInv /\ AgentInv /\ day \in 0..MaxDay /\ changes \in 0..MaxChanges
      /\ issued \in Nat /\ agent \in Agents /\ channel \in ChannelRows
      /\ issued \in 0..MaxIssued
  BY ChannelsAssumption DEF ChannelInv, TableInv, AgentInv
\* A call that changes no table.
<1>1. ASSUME CallInv', UNCHANGED <<fnName, channel, agent, issued, bound, refusals, day>>,
             changes' \in 0..MaxChanges
      PROVE  ChannelInv'
  <2>1. TableInv'
    BY <1>0, <1>1, TablesStay
  <2>2. AgentInv'
    BY <1>0, <1>1, AgentStays
  <2> QED BY <1>0, <1>1, <2>1, <2>2 DEF ChannelInv
<1>2. CASE \E q \in ChannelCalls, name \in {"create", "set", "update", "rotate", "delete"} : ChannelRequest(q, name)
  <2>1. PICK q \in ChannelCalls, name \in {"create", "set", "update", "rotate", "delete"} : ChannelRequest(q, name)
    BY <1>2
  <2>2. UNCHANGED <<fnName, channel, agent, issued, bound, refusals, day>> /\ changes' = changes + 1 /\ changes < MaxChanges
    BY <2>1 DEF ChannelRequest
  <2>20. changes' \in 0..MaxChanges
    BY <1>0, <2>2, ChannelsAssumption
  <2>3. channel.id \in 0..MaxIssued /\ channel.id =< issued /\ channel.expires \in 1..NoExpiry
    BY <1>0 DEF TableInv, ChannelRows
  <2>4. PICK l \in {"functions", "write"}, i \in {0, channel.id}, w \in SUBSET Bundled,
             e \in {NoExpiry, channel.expires, 1} :
          /\ DOMAIN chCall' = ChannelCalls /\ chCall' = [r \in DOMAIN chCall' |-> chCall'[r]]
          /\ \A r \in ChannelCalls : r # q => chCall'[r] = chCall[r]
          /\ chCall'[q] = [op |-> name, at |-> l, id |-> i, want |-> w, expires |-> e]
    <3>1. CASE name = "create"
      <4>1. PICK w \in SUBSET Bundled :
              chCall' = [chCall EXCEPT ![q] = [NoCall EXCEPT !.op = name, !.at = "functions", !.want = w]]
        BY <2>1, <3>1 DEF ChannelRequest
      <4>2. PICK c : c = [NoCall EXCEPT !.op = name, !.at = "functions", !.want = w]
        OBVIOUS
      <4>3. c = [op |-> name, at |-> "functions", id |-> 0, want |-> w, expires |-> NoExpiry]
        BY <4>2 DEF NoCall
      <4>4. chCall' = [chCall EXCEPT ![q] = c]
        BY <4>1, <4>2
      <4>5. /\ DOMAIN chCall' = ChannelCalls /\ chCall' = [r \in DOMAIN chCall' |-> chCall'[r]]
            /\ \A r \in ChannelCalls : r # q => chCall'[r] = chCall[r]
            /\ chCall'[q] = c
        BY <1>0, <4>4, CallSet
      <4> QED BY <4>3, <4>5
    <3>2. CASE name = "set"
      <4>1. PICK w \in SUBSET Bundled :
              chCall' = [chCall EXCEPT ![q] = [NoCall EXCEPT !.op = name, !.at = "functions", !.id = channel.id, !.want = w]]
        BY <2>1, <3>2 DEF ChannelRequest
      <4>2. PICK c : c = [NoCall EXCEPT !.op = name, !.at = "functions", !.id = channel.id, !.want = w]
        OBVIOUS
      <4>3. c = [op |-> name, at |-> "functions", id |-> channel.id, want |-> w, expires |-> NoExpiry]
        BY <4>2 DEF NoCall
      <4>4. chCall' = [chCall EXCEPT ![q] = c]
        BY <4>1, <4>2
      <4>5. /\ DOMAIN chCall' = ChannelCalls /\ chCall' = [r \in DOMAIN chCall' |-> chCall'[r]]
            /\ \A r \in ChannelCalls : r # q => chCall'[r] = chCall[r]
            /\ chCall'[q] = c
        BY <1>0, <4>4, CallSet
      <4> QED BY <4>3, <4>5
    <3>3. CASE name = "update"
      <4>1. PICK e \in {channel.expires, 1} :
              chCall' = [chCall EXCEPT ![q] = [NoCall EXCEPT !.op = name, !.at = "write", !.id = channel.id, !.expires = e]]
        BY <2>1, <3>3 DEF ChannelRequest
      <4>2. PICK c : c = [NoCall EXCEPT !.op = name, !.at = "write", !.id = channel.id, !.expires = e]
        OBVIOUS
      <4>3. c = [op |-> name, at |-> "write", id |-> channel.id, want |-> {}, expires |-> e]
        BY <4>2 DEF NoCall
      <4>4. chCall' = [chCall EXCEPT ![q] = c]
        BY <4>1, <4>2
      <4>5. /\ DOMAIN chCall' = ChannelCalls /\ chCall' = [r \in DOMAIN chCall' |-> chCall'[r]]
            /\ \A r \in ChannelCalls : r # q => chCall'[r] = chCall[r]
            /\ chCall'[q] = c
        BY <1>0, <4>4, CallSet
      <4> QED BY <4>3, <4>5
    <3>4. CASE name \in {"rotate", "delete"}
      <4>1. PICK c :
              /\ c = [NoCall EXCEPT !.op = name, !.at = "write", !.id = channel.id]
              /\ chCall' = [chCall EXCEPT ![q] = c]
        BY <2>1, <3>4 DEF ChannelRequest
      <4>2. c = [op |-> name, at |-> "write", id |-> channel.id, want |-> {}, expires |-> NoExpiry]
        BY <4>1 DEF NoCall
      <4> QED BY <1>0, <4>1, <4>2, CallSet
    <3> QED BY <3>1, <3>2, <3>3, <3>4
  <2>5. i \in 0..MaxIssued /\ i =< issued /\ e \in 1..NoExpiry
    BY <1>0, <2>3, ChannelConstants, ChannelsAssumption
  <2>6. chCall'[q] \in CallTypes
    BY <2>4, <2>5 DEF CallTypes
  <2>7. CallKnows(q)'
    BY <2>2, <2>4, <2>5 DEF CallKnows
  <2>8. CallInv'
    BY <1>0, <2>2, <2>4, <2>6, <2>7, CallMoves
  <2> QED BY <1>1, <2>2, <2>20, <2>8
<1>3. CASE \E q \in ChannelCalls : ValidateFunctions(q)
  <2>1. PICK q \in ChannelCalls : ValidateFunctions(q)
    BY <1>3
  <2>2. UNCHANGED <<fnName, channel, agent, issued, bound, refusals, day, changes>>
        /\ (Reach(q, "names") \/ Answer(q))
    BY <2>1 DEF ValidateFunctions
  <2>3. CallInv'
    BY <1>0, <2>2, AnswerMoves, ReachMoves
  <2> QED BY <1>0, <1>1, <2>2, <2>3
<1>4. CASE \E q \in ChannelCalls : RejectCollision(q)
  <2>1. PICK q \in ChannelCalls : RejectCollision(q)
    BY <1>4
  <2>2. /\ UNCHANGED <<fnName, channel, agent, issued, bound, refusals, day, changes>>
        /\ \/ Answer(q) \/ (chCall[q].op = "create" /\ Reach(q, "insert"))
           \/ (chCall[q].op # "create" /\ Reach(q, "bind"))
    BY <2>1 DEF RejectCollision
  <2>3. CallInv'
    BY <1>0, <2>2, AnswerMoves, ReachMoves
  <2> QED BY <1>0, <1>1, <2>2, <2>3
<1>5. CASE \E q \in ChannelCalls : BindRefused(q)
  <2>1. PICK q \in ChannelCalls : BindRefused(q)
    BY <1>5
  <2>2. /\ UNCHANGED <<fnName, channel, agent, issued, bound, refusals, day, changes>> /\ chCall[q].at = "bind"
        /\ Answer(q) \/ (chCall[q].op = "create" /\ Reach(q, "undo"))
    BY <2>1 DEF BindRefused
  <2>3. CallKnows(q)
    BY <1>0 DEF CallInv
  <2>4. CallInv'
    BY <1>0, <2>2, <2>3, AnswerMoves, ReachMoves DEF CallKnows
  <2> QED BY <1>0, <1>1, <2>2, <2>4
\* A call that changes a table and is answered, or is a create past its insert.
<1>6. ASSUME TableInv', CallInv', AgentInv', UNCHANGED <<day, changes>>
      PROVE  ChannelInv'
  BY <1>0, <1>6 DEF ChannelInv
<1>7. CASE \E q \in ChannelCalls : InsertChannel(q)
  <2>1. PICK q \in ChannelCalls : InsertChannel(q)
    BY <1>7
  <2>2. UNCHANGED <<fnName, agent, bound, refusals, day, changes>> /\ issued < MaxIssued
    BY <2>1 DEF InsertChannel
  <2>3. CASE Answer(q) /\ UNCHANGED <<channel, issued>>
    <3>1. CallInv'
      BY <1>0, <2>3, AnswerMoves
    <3> QED BY <1>0, <1>1, <2>2, <2>3, <3>1
  <2>4. CASE ~(Answer(q) /\ UNCHANGED <<channel, issued>>)
    <3>1. PICK e \in {1, NoExpiry} :
            /\ channel = NoChannel /\ issued' = issued + 1
            /\ channel' = [id |-> issued + 1, token |-> issued + 1, expires |-> e, fns |-> {}]
            /\ chCall' = [chCall EXCEPT ![q].at = "bind", ![q].id = issued + 1]
      BY <2>1, <2>4 DEF InsertChannel
    <3>2. issued' \in 1..MaxIssued
      BY <1>0, <2>2, <3>1, ChannelsAssumption
    <3>3. channel' \in ChannelRows /\ channel'.id = issued' /\ channel'.token = issued' /\ channel'.fns = {}
      BY <3>1, <3>2, ChannelConstants, ChannelsAssumption DEF ChannelRows
    <3>4. channel' # NoChannel
      BY <3>2, <3>3, ChannelConstants, ChannelsAssumption
    <3>5. refusals \subseteq 1..issued' /\ issued' \notin refusals
      BY <1>0, <3>1, ChannelsAssumption DEF TableInv
    <3>6. TableInv'
      BY <1>0, <2>2, <3>1, <3>2, <3>3, <3>4, <3>5, ChannelsAssumption DEF TableInv, Deployed
    <3>7. AgentInv'
      BY <1>0, <2>2, <3>1, <3>2, <3>3, AgentStays, ChannelsAssumption
    <3>8. chCall[q] \in CallTypes
      BY <1>0 DEF CallInv
    <3>9. /\ DOMAIN chCall' = ChannelCalls /\ chCall' = [r \in DOMAIN chCall' |-> chCall'[r]]
          /\ \A r \in ChannelCalls : r # q => chCall'[r] = chCall[r]
          /\ chCall'[q] = [chCall[q] EXCEPT !.at = "bind", !.id = issued + 1]
      BY <1>0, <3>1 DEF CallInv
    <3>10. chCall'[q] = [op |-> chCall[q].op, at |-> "bind", id |-> issued', want |-> chCall[q].want,
                         expires |-> chCall[q].expires]
      BY <3>1, <3>8, <3>9 DEF CallTypes
    <3>11. chCall'[q] \in CallTypes
      BY <3>2, <3>8, <3>10, ChannelsAssumption DEF CallTypes
    <3>12. CallKnows(q)'
      BY <3>2, <3>10, ChannelsAssumption DEF CallKnows
    <3>13. CallInv'
      <4>1. issued' \in Nat /\ issued =< issued'
        BY <1>0, <3>1
      <4> QED BY <1>0, <3>9, <3>11, <3>12, <4>1, CallMoves
    <3> QED BY <1>6, <2>2, <3>6, <3>7, <3>13
  <2> QED BY <2>3, <2>4
<1>8. CASE \E q \in ChannelCalls : BindFunctions(q)
  <2>1. PICK q \in ChannelCalls : BindFunctions(q)
    BY <1>8
  <2>2. UNCHANGED <<fnName, agent, issued, refusals, day, changes>> /\ Answer(q)
    BY <2>1 DEF BindFunctions
  <2>3. CallInv'
    BY <1>0, <2>2, AnswerMoves
  <2>4. CASE UNCHANGED <<channel, bound>>
    BY <1>0, <1>1, <2>2, <2>3, <2>4
  <2>5. CASE ~UNCHANGED <<channel, bound>>
    <3>1. /\ channel' = [channel EXCEPT !.fns = chCall[q].want] /\ bound' = chCall[q].want
          /\ chCall[q].want \subseteq Deployed /\ channel.id # 0
      BY <2>1, <2>5 DEF BindFunctions, Bindable, Exists
    <3>2. chCall[q].want \subseteq Bundled
      BY <1>0 DEF CallInv, CallTypes
    <3>3. channel' = [id |-> channel.id, token |-> channel.token, expires |-> channel.expires,
                      fns |-> chCall[q].want]
      BY <1>0, <3>1 DEF ChannelRows
    <3>4. channel' \in ChannelRows
      BY <1>0, <3>2, <3>3 DEF ChannelRows
    <3>5. channel' # NoChannel /\ channel # NoChannel
      BY <3>1, <3>3, ChannelConstants
    <3>6. Deployed' = Deployed
      BY <2>2 DEF Deployed
    <3>7. TableInv'
      BY <1>0, <2>2, <3>1, <3>2, <3>3, <3>4, <3>5, <3>6 DEF TableInv
    <3>8. AgentInv'
      BY <1>0, <2>2, <3>3, <3>5, AgentStays
    <3> QED BY <1>6, <2>2, <2>3, <3>7, <3>8
  <2> QED BY <2>4, <2>5
<1>9. ASSUME NEW i, Drop(i), UNCHANGED <<fnName, agent, issued>>, refusals \subseteq refusals',
             refusals' \subseteq refusals \cup {i}, refusals' \subseteq 1..issued
      PROVE  TableInv' /\ AgentInv'
  <2>1. Deployed' = Deployed
    BY <1>9 DEF Deployed
  <2>2. CASE channel.id = i /\ i # 0
    <3>1. channel' = NoChannel /\ bound' = {}
      BY <1>9, <2>2 DEF Drop, Exists
    <3>2. 0 \notin refusals'
      BY <1>0, <1>9
    <3>3. TableInv'
      BY <1>0, <1>9, <3>1, <3>2, ChannelConstants DEF TableInv
    <3> QED BY <1>0, <1>9, <3>1, <3>3, AgentStays
  <2>3. CASE ~(channel.id = i /\ i # 0)
    <3>1. channel' = channel /\ bound' = bound
      BY <1>9, <2>3 DEF Drop, Exists
    <3>2. channel.id \notin refusals'
      <4>1. channel.id \notin refusals /\ 0 \notin refusals'
        BY <1>0, <1>9 DEF TableInv
      <4> QED BY <1>9, <2>3, <4>1
    <3>3. TableInv'
      BY <1>0, <1>9, <2>1, <3>1, <3>2 DEF TableInv
    <3> QED BY <1>0, <1>9, <3>1, <3>3, AgentStays
  <2> QED BY <2>2, <2>3
<1>10. CASE \E q \in ChannelCalls : UndoCreate(q) \/ DeleteChannel(q)
  <2>1. PICK q \in ChannelCalls : UndoCreate(q) \/ DeleteChannel(q)
    BY <1>10
  <2>2. /\ UNCHANGED <<fnName, agent, issued, day, changes>> /\ Answer(q) /\ Drop(chCall[q].id)
        /\ \/ chCall[q].at = "undo" /\ refusals' = refusals \cup {chCall[q].id}
           \/ refusals' = refusals
    BY <2>1 DEF UndoCreate, DeleteChannel
  <2>3. CallInv'
    BY <1>0, <2>2, AnswerMoves
  <2>4. CallKnows(q) /\ chCall[q].id \in 0..MaxIssued /\ refusals \subseteq 1..issued
    BY <1>0 DEF CallInv, CallTypes, TableInv
  <2>5. chCall[q].at = "undo" => chCall[q].id \in 1..issued
    BY <1>0, <2>4, ChannelsAssumption DEF CallKnows
  <2>6. refusals' \subseteq 1..issued
    BY <2>2, <2>4, <2>5
  <2>7. TableInv' /\ AgentInv'
    BY <1>9, <2>2, <2>6
  <2> QED BY <1>6, <2>2, <2>3, <2>7
<1>11. CASE \E q \in ChannelCalls : UpdateChannel(q)
  <2>1. PICK q \in ChannelCalls : UpdateChannel(q)
    BY <1>11
  <2>2. UNCHANGED <<fnName, agent, issued, bound, refusals, day, changes>> /\ Answer(q)
    BY <2>1 DEF UpdateChannel
  <2>3. CallInv'
    BY <1>0, <2>2, AnswerMoves
  <2>4. CASE channel' = channel
    BY <1>0, <1>1, <2>2, <2>3, <2>4
  <2>5. CASE channel' # channel
    <3>1. channel' = [channel EXCEPT !.expires = chCall[q].expires] /\ channel.id # 0
      BY <2>1, <2>5 DEF UpdateChannel, Exists
    <3>2. chCall[q].expires \in 1..NoExpiry
      BY <1>0 DEF CallInv, CallTypes
    <3>3. channel' = [id |-> channel.id, token |-> channel.token, expires |-> chCall[q].expires,
                      fns |-> channel.fns]
      BY <1>0, <3>1 DEF ChannelRows
    <3>4. channel' \in ChannelRows
      BY <1>0, <3>2, <3>3 DEF ChannelRows
    <3>5. channel' # NoChannel /\ channel # NoChannel
      BY <3>1, <3>3, ChannelConstants
    <3>6. Deployed' = Deployed
      BY <2>2 DEF Deployed
    <3>7. TableInv'
      BY <1>0, <2>2, <3>1, <3>3, <3>4, <3>5, <3>6 DEF TableInv
    <3>8. AgentInv'
      BY <1>0, <2>2, <3>3, <3>5, AgentStays
    <3> QED BY <1>6, <2>2, <2>3, <3>7, <3>8
  <2> QED BY <2>4, <2>5
<1>12. CASE \E q \in ChannelCalls : RotateChannel(q)
  <2>1. PICK q \in ChannelCalls : RotateChannel(q)
    BY <1>12
  <2>2. UNCHANGED <<fnName, agent, bound, refusals, day, changes>> /\ Answer(q)
    BY <2>1 DEF RotateChannel
  <2>3. CASE UNCHANGED <<issued, channel>>
    <3>1. CallInv'
      BY <1>0, <2>2, <2>3, AnswerMoves
    <3> QED BY <1>0, <1>1, <2>2, <2>3, <3>1
  <2>4. CASE ~UNCHANGED <<issued, channel>>
    <3>1. /\ issued < MaxIssued /\ issued' = issued + 1
          /\ channel' = [channel EXCEPT !.token = issued'] /\ channel.id # 0
      BY <2>1, <2>4 DEF RotateChannel, Exists
    <3>2. issued' \in 1..MaxIssued
      BY <1>0, <3>1, ChannelsAssumption
    <3>3. channel' = [id |-> channel.id, token |-> issued', expires |-> channel.expires, fns |-> channel.fns]
      BY <1>0, <3>1 DEF ChannelRows
    <3>4. channel' \in ChannelRows
      BY <1>0, <3>2, <3>3, ChannelsAssumption DEF ChannelRows
    <3>5. channel' # NoChannel /\ channel # NoChannel
      BY <3>1, <3>3, ChannelConstants
    <3>6. Deployed' = Deployed
      BY <2>2 DEF Deployed
    <3>7. channel.id \in 0..MaxIssued /\ refusals \subseteq 1..issued'
      BY <1>0, <3>1 DEF TableInv, ChannelRows
    <3>8. TableInv'
      BY <1>0, <2>2, <3>1, <3>2, <3>3, <3>4, <3>5, <3>6, <3>7, ChannelsAssumption DEF TableInv
    <3>9. AgentInv'
      BY <1>0, <2>2, <3>1, <3>2, <3>3, AgentStays, ChannelsAssumption
    <3>10. CallInv'
      BY <1>0, <2>2, <3>1, <3>2, AnswerMoves, ChannelsAssumption
    <3> QED BY <1>6, <2>2, <3>8, <3>9, <3>10
  <2> QED BY <2>3, <2>4
\* Functions, the clock, a crash.
<1>13. ASSUME UNCHANGED <<chCall, issued>> PROVE CallInv'
  BY <1>0, <1>13 DEF CallInv, CallKnows
<1>14. CASE \E f \in Bundled, n \in FnNames : RenameFunction(f, n)
  <2>1. PICK f \in Bundled, n \in FnNames : RenameFunction(f, n)
    BY <1>14
  <2>2. /\ UNCHANGED <<channel, chCall, agent, issued, bound, refusals, day>> /\ f \in Deployed
        /\ changes < MaxChanges /\ changes' = changes + 1 /\ fnName' = [fnName EXCEPT ![f] = n]
    BY <2>1 DEF RenameFunction
  <2>3. changes' \in 0..MaxChanges
    BY <1>0, <2>2, ChannelsAssumption
  <2>4. fnName' \in [Bundled -> FnNames \cup {NoFn}] /\ Deployed' = Deployed
    <3>1. fnName \in [Bundled -> FnNames \cup {NoFn}] /\ n # NoFn
      BY <1>0 DEF TableInv, FnNames, NoFn
    <3>2. fnName' \in [Bundled -> FnNames \cup {NoFn}]
      BY <2>2, <3>1
    <3>3. \A g \in Bundled : fnName'[g] = IF g = f THEN n ELSE fnName[g]
      BY <2>2, <3>1
    <3> QED BY <2>2, <3>1, <3>2, <3>3 DEF Deployed
  <2>5. TableInv'
    BY <1>0, <2>2, <2>4 DEF TableInv
  <2>6. AgentInv'
    BY <1>0, <2>2, AgentStays
  <2> QED BY <1>0, <1>13, <2>2, <2>3, <2>5, <2>6 DEF ChannelInv
<1>15. CASE \E f \in Bundled : DeleteFunction(f)
  <2>1. PICK f \in Bundled : DeleteFunction(f)
    BY <1>15
  <2>2. /\ UNCHANGED <<chCall, agent, issued, bound, refusals, day>>
        /\ changes < MaxChanges /\ changes' = changes + 1 /\ fnName' = [fnName EXCEPT ![f] = NoFn]
        /\ channel' = [channel EXCEPT !.fns = @ \ {f}]
    BY <2>1 DEF DeleteFunction
  <2>3. changes' \in 0..MaxChanges
    BY <1>0, <2>2, ChannelsAssumption
  <2>4. fnName' \in [Bundled -> FnNames \cup {NoFn}] /\ Deployed' = Deployed \ {f}
    <3>1. fnName \in [Bundled -> FnNames \cup {NoFn}]
      BY <1>0 DEF TableInv
    <3>2. fnName' \in [Bundled -> FnNames \cup {NoFn}]
      BY <2>2, <3>1
    <3>3. \A g \in Bundled : fnName'[g] = IF g = f THEN NoFn ELSE fnName[g]
      BY <2>2, <3>1
    <3> QED BY <3>2, <3>3 DEF Deployed
  <2>5. channel' = [id |-> channel.id, token |-> channel.token, expires |-> channel.expires,
                    fns |-> channel.fns \ {f}]
    BY <1>0, <2>2 DEF ChannelRows
  <2>6. channel' \in ChannelRows
    BY <1>0, <2>5 DEF ChannelRows
  <2>7. channel = NoChannel => channel' = NoChannel
    BY <2>5 DEF NoChannel
  <2>8. channel' = NoChannel => channel = NoChannel
    BY <1>0, <2>5, ChannelConstants DEF TableInv
  <2>9. TableInv'
    BY <1>0, <2>2, <2>4, <2>5, <2>6, <2>7, <2>8 DEF TableInv
  <2>10. AgentInv'
    BY <1>0, <2>2, <2>5, <2>7, AgentStays
  <2> QED BY <1>0, <1>13, <2>2, <2>3, <2>9, <2>10 DEF ChannelInv
<1>16. CASE NextDay
  <2>1. UNCHANGED <<fnName, channel, chCall, agent, issued, bound, refusals, changes>> /\ day' \in 0..MaxDay
    BY <1>0, <1>16, ChannelsAssumption DEF NextDay
  <2>2. TableInv' /\ AgentInv'
    BY <1>0, <2>1, TablesStay, AgentStays
  <2> QED BY <1>0, <1>13, <2>1, <2>2 DEF ChannelInv
\* The agent alone moves.
<1>17. ASSUME UNCHANGED <<fnName, channel, chCall, issued, bound, refusals, day, changes>>, AgentInv'
       PROVE  ChannelInv'
  BY <1>0, <1>13, <1>17, TablesStay DEF ChannelInv
<1>18. ASSUME agent' = NoAgent, issued' = issued PROVE AgentInv'
  BY <1>0, <1>18, ChannelConstants DEF AgentInv
<1>19. CASE CrashCalls
  <2>1. /\ UNCHANGED <<fnName, channel, issued, bound, refusals, day>> /\ agent' = NoAgent
        /\ changes < MaxChanges /\ changes' = changes + 1 /\ chCall' = [q \in ChannelCalls |-> NoCall]
    BY <1>19 DEF CrashCalls
  <2>2. changes' \in 0..MaxChanges
    BY <1>0, <2>1, ChannelsAssumption
  <2>3. CallInv'
    BY <1>0, <2>1, ChannelConstants DEF CallInv, CallKnows
  <2> QED BY <1>0, <1>18, <2>1, <2>2, <2>3, TablesStay DEF ChannelInv
<1>20. CASE \E t \in 1..MaxIssued : Present(t)
  <2>1. PICK t \in 1..MaxIssued : Present(t)
    BY <1>20
  <2>2. /\ UNCHANGED <<fnName, channel, chCall, issued, bound, refusals, day, changes>>
        /\ agent' = [NoAgent EXCEPT !.at = "row", !.token = t, !.since = channel.token]
    BY <2>1 DEF Present
  <2>3. agent' = [at |-> "row", token |-> t, since |-> channel.token, id |-> 0, expires |-> NoExpiry,
                  offered |-> {}, todo |-> {}, tools |-> {}]
    BY <2>2 DEF NoAgent
  <2>4. channel.token \in 0..MaxIssued /\ channel.token =< issued /\ t \in 0..MaxIssued /\ 0 \in 0..MaxIssued
    BY <1>0, ChannelsAssumption DEF TableInv, ChannelRows
  <2>5. agent' \in Agents
    BY <2>3, <2>4, ChannelConstants DEF Agents
  <2>60. agent'.at = "row" /\ agent'.tools = {} /\ agent'.since = channel.token
    BY <2>3
  <2>6. agent'.at = "row" /\ agent'.tools = {} /\ agent'.since = channel'.token /\ agent'.since =< issued'
    BY <2>2, <2>4, <2>60
  <2>7. channel'.token >= agent'.since
    BY <2>2, <2>4, <2>6, ChannelsAssumption
  <2>8. AgentInv'
    BY <2>5, <2>6, <2>7 DEF AgentInv
  <2> QED BY <1>17, <2>2, <2>8
<1>21. CASE TokenRow
  <2>1. UNCHANGED <<fnName, channel, chCall, issued, bound, refusals, day, changes>> /\ agent.at = "row"
    BY <1>21 DEF TokenRow
  <2>2. CASE agent' = NoAgent
    BY <1>17, <1>18, <2>1, <2>2
  <2>3. CASE agent' # NoAgent
    <3>1. /\ channel # NoChannel /\ channel.token = agent.token
          /\ agent' = [agent EXCEPT !.at = "ids", !.id = channel.id, !.expires = channel.expires]
      BY <1>21, <2>3 DEF TokenRow
    <3>2. agent' = [at |-> "ids", token |-> agent.token, since |-> agent.since, id |-> channel.id,
                    expires |-> channel.expires, offered |-> agent.offered, todo |-> agent.todo,
                    tools |-> agent.tools]
      BY <1>0, <3>1 DEF Agents
    <3>3. agent' \in Agents
      BY <1>0, <3>2 DEF Agents, ChannelRows
    <3>4. AgentInv'
      BY <1>0, <2>1, <3>1, <3>2, <3>3 DEF AgentInv
    <3> QED BY <1>17, <2>1, <3>4
  <2> QED BY <2>2, <2>3
<1>22. CASE ChannelFunctions
  <2>1. UNCHANGED <<fnName, channel, chCall, issued, bound, refusals, day, changes>> /\ agent.at = "ids"
    BY <1>22 DEF ChannelFunctions
  <2>2. CASE agent' = NoAgent
    BY <1>17, <1>18, <2>1, <2>2
  <2>3. CASE agent' # NoAgent
    <3>1. PICK o, f : /\ o = IF Exists(agent.id) THEN bound ELSE {}
                      /\ f = IF Exists(agent.id) THEN channel.fns ELSE {}
      OBVIOUS
    <3>2. agent' = [agent EXCEPT !.at = "tools", !.offered = o, !.todo = f]
      BY <1>22, <2>3, <3>1 DEF ChannelFunctions
    <3>3. agent' = [at |-> "tools", token |-> agent.token, since |-> agent.since, id |-> agent.id,
                    expires |-> agent.expires, offered |-> o, todo |-> f, tools |-> agent.tools]
      BY <1>0, <3>2 DEF Agents
    <3>4. o \subseteq Bundled /\ f \subseteq Bundled /\ f \subseteq o
      BY <1>0, <3>1, ChannelConstants DEF TableInv, ChannelRows, Exists
    <3>5. agent' \in Agents
      BY <1>0, <3>3, <3>4 DEF Agents
    <3>6. agent.tools = {} /\ agent.token >= agent.since /\ agent.since =< issued
          /\ (channel # NoChannel => channel.token >= agent.since)
      BY <1>0, <2>1 DEF AgentInv
    <3>7. AgentInv'
      BY <2>1, <3>3, <3>4, <3>5, <3>6 DEF AgentInv
    <3> QED BY <1>17, <2>1, <3>7
  <2> QED BY <2>2, <2>3
<1>23. CASE \E f \in Bundled : RegisterTool(f)
  <2>1. PICK f \in Bundled : RegisterTool(f)
    BY <1>23
  <2> DEFINE tool == IF f \in Deployed THEN SanitisedName[fnName[f]] ELSE NoTool
             taken == {t.name : t \in agent.tools}
             ts == IF tool \in taken \cup {NoTool} THEN agent.tools
                   ELSE agent.tools \cup {[name |-> tool, fn |-> f]}
  <2>2. /\ UNCHANGED <<fnName, channel, chCall, issued, bound, refusals, day, changes>>
        /\ agent.at = "tools" /\ f \in agent.todo
        /\ agent' = [agent EXCEPT !.todo = agent.todo \ {f}, !.tools = ts]
    BY <2>1 DEF RegisterTool
  <2>3. tool \in {"pay_out", NoTool}
    <3>1. f \in Deployed => fnName[f] \in FnNames
      BY <1>0 DEF TableInv, Deployed
    <3>2. f \in Deployed => SanitisedName[fnName[f]] \in {"pay_out", NoTool}
      BY <3>1 DEF SanitisedName
    <3> QED BY <3>2
  <2>4. agent.tools \subseteq [name : {"pay_out"}, fn : Bundled] /\ agent.todo \subseteq Bundled
        /\ agent.todo \subseteq agent.offered
    BY <1>0, <2>2 DEF Agents, AgentInv
  <2> HIDE DEF tool
  <2>5. ts \subseteq [name : {"pay_out"}, fn : Bundled]
    BY <2>3, <2>4
  <2>6. \A t \in ts : t \in agent.tools \/ (t.name = tool /\ t.fn = f /\ t = [name |-> tool, fn |-> f] /\ tool \notin taken)
    OBVIOUS
  <2>7. \A t \in agent.tools : t.name \in taken
    OBVIOUS
  <2> HIDE DEF ts, taken
  <2>8. \A t, u \in ts : t.name = u.name => t = u
    BY <1>0, <2>2, <2>6, <2>7 DEF AgentInv
  <2>9. \A t \in ts : t.fn \in agent.offered
    BY <1>0, <2>2, <2>4, <2>6 DEF AgentInv
  <2>10. agent' = [at |-> agent.at, token |-> agent.token, since |-> agent.since, id |-> agent.id,
                   expires |-> agent.expires, offered |-> agent.offered, todo |-> agent.todo \ {f}, tools |-> ts]
    BY <1>0, <2>2 DEF Agents
  <2>11. agent' \in Agents
    BY <1>0, <2>5, <2>10 DEF Agents
  <2>12. {t.fn : t \in agent'.tools} \subseteq agent'.offered
    BY <2>9, <2>10
  <2>13. \A t, u \in agent'.tools : t.name = u.name => t = u
    BY <2>8, <2>10
  <2>14. /\ agent'.at = "tools" /\ agent'.todo \subseteq agent'.offered /\ agent'.token = agent.token
         /\ agent'.since = agent.since
    BY <2>2, <2>4, <2>10
  <2>15. AgentInv'
    BY <1>0, <2>2, <2>11, <2>12, <2>13, <2>14 DEF AgentInv
  <2> QED BY <1>17, <2>2, <2>15
<1>24. CASE ServeAgent
  BY <1>17, <1>18, <1>24 DEF ServeAgent
<1>25. CASE UNCHANGED channelVars
  <2>1. UNCHANGED <<fnName, channel, chCall, agent, issued, bound, refusals, day, changes>>
    BY <1>25 DEF channelVars
  <2>2. AgentInv'
    BY <1>0, <2>1, AgentStays
  <2> QED BY <1>17, <2>1, <2>2
<1> QED
  BY <1>2, <1>3, <1>4, <1>5, <1>7, <1>8, <1>10, <1>11, <1>12, <1>14, <1>15, <1>16, <1>19, <1>20, <1>21,
     <1>22, <1>23, <1>24, <1>25 DEF ChannelNext

LEMMA ChannelInvHolds == ChannelSpec => []ChannelInv
<1>1. ChannelInit => ChannelInv
  <2> SUFFICES ASSUME ChannelInit PROVE ChannelInv
    OBVIOUS
  <2>1. PICK names \in [Bundled -> FnNames] : ChannelStart(names, {}, 0, 0)
    BY DEF ChannelInit
  <2>2. /\ fnName = names /\ bound = {} /\ channel = NoChannel /\ issued = 0
        /\ chCall = [q \in ChannelCalls |-> NoCall] /\ agent = NoAgent
        /\ refusals = {} /\ day = 0 /\ changes = 0
    BY <2>1 DEF ChannelStart
  <2>3. 0 \in 0..MaxIssued /\ 0 \in 0..MaxDay /\ 0 \in 0..MaxChanges
    BY ChannelsAssumption
  <2>4. TableInv
    BY <2>2, <2>3, ChannelConstants DEF TableInv
  <2>5. CallInv
    BY <2>2, ChannelConstants DEF CallInv, CallKnows
  <2>6. AgentInv
    BY <2>2, ChannelConstants DEF AgentInv
  <2> QED BY <2>2, <2>3, <2>4, <2>5, <2>6 DEF ChannelInv
<1> QED
  BY <1>1, ChannelStep, PTL DEF ChannelSpec

\* However creates, edits, rotations, deletes, renames and crashes interleave
\* with an agent's request: a create that failed leaves no channel, a channel
\* bundles what was last acknowledged and still exists, and an agent gets
\* distinct tools for acknowledged functions with a token that was current
\* when it called (SetChannelFunctions, GetChannelByTokenHash,
\* registerChannelTools).
THEOREM ChannelsAreSafe == ChannelSpec => []ChannelSafe
<1>1. ChannelInv => ChannelSafe
  BY DEF ChannelInv, TableInv, AgentInv, ChannelSafe
<1> QED BY <1>1, ChannelInvHolds, PTL


-----------------------------------------------------------------------------
(* Sessions and API keys.                                                  *)

CredRows == [st : {"none", "off", "live", "gone"}, exp : 0 .. Never, gen : 0 .. MaxGen, raced : BOOLEAN]
Gates == [pc : {"idle", "missed", "found", "in", "done"}, cred : Creds \cup {"none"},
          now : 0 .. MaxTime, sure : BOOLEAN]
Auths == [pc : {"idle", "login", "refresh", "delete", "done"}, old : Sessions \cup {"none"},
          gen : 0 .. MaxGen]
EndTypes == [at : 0 .. MaxTime, memo : BOOLEAN]
Passwords == [gen : 0 .. MaxGen, keep : Sessions \cup {"none"}, warned : BOOLEAN]

AccessTypes ==
  /\ rows \in [Creds -> CredRows] /\ memo \in [Creds -> 0 .. MaxTime + MemoTTL]
  /\ gate \in [GateReqs -> Gates] /\ auth \in [AuthReqs -> Auths]
  /\ evicting \subseteq Creds /\ password \in Passwords
  /\ clock \in 0 .. MaxTime /\ ended \in [Creds -> EndTypes]

\* The credential is or was there.
Begun(c) == rows[c].st \in {"live", "gone"}

\* What the gate knows of the credential of a request: that it began, and
\* while a lookup has found it, that it had not ended when the request came.
GateKnows(q) ==
  LET c == gate[q].cred
      came == gate[q].now
  IN  /\ gate[q].pc \in {"missed", "found", "in"} =>
           c \in Creds /\ Begun(c) /\ came =< clock /\ (gate[q].sure => ended[c].memo)
      /\ gate[q].pc = "found" =>
           /\ ~ended[c].memo
           /\ rows[c].st = "gone" => came =< ended[c].at
           /\ c \in Sessions => came < rows[c].exp
      /\ gate[q].pc = "in" =>
           /\ ~gate[q].sure
           /\ rows[c].st = "gone" => came < ended[c].at + MemoTTL
           /\ c \in Keys => came =< rows[c].exp
           /\ c \in Sessions => came < rows[c].exp + MemoTTL

\* A memo is of a credential that began, and outlives it by a TTL at most.
MemoKnows(c) ==
  /\ ended[c].memo => rows[c].st = "gone" /\ memo[c] = 0
  /\ memo[c] # 0 => Begun(c) /\ memo[c] =< clock + MemoTTL
  /\ memo[c] # 0 /\ rows[c].st = "gone" => memo[c] =< ended[c].at + MemoTTL
  /\ memo[c] # 0 /\ c \in Sessions => memo[c] < rows[c].exp + MemoTTL

AuthKnows(q) == auth[q].pc \in {"refresh", "delete"} => auth[q].old \in Sessions /\ Begun(auth[q].old)

\* Between the new hash and the DELETE, the session that asked has the new
\* password's generation.
PasswordKnows ==
  password.keep # "none" =>
    Begun(password.keep) /\ rows[password.keep].gen = password.gen

RowsKnow ==
  /\ \A c \in evicting : rows[c].st = "gone"
  /\ \A q \in AuthReqs : AuthKnows(q)
  /\ PasswordKnows /\ SessionsFollowPassword

AccessInv ==
  /\ AccessTypes /\ RowsKnow
  /\ \A q \in GateReqs : GateKnows(q)
  /\ \A c \in Creds : MemoKnows(c)

\* Rows begin, end now and keep their expiry; time does not go back.
RowsMove ==
  /\ clock' \in 0 .. MaxTime /\ clock =< clock'
  /\ \A c \in Creds :
       /\ ended'[c].memo = ended[c].memo
       /\ Begun(c) => Begun(c)' /\ rows'[c].exp = rows[c].exp
       /\ rows[c].st = "gone" => rows'[c].st = "gone" /\ ended'[c].at = ended[c].at
       /\ rows'[c].st = "gone" => rows[c].st = "gone" \/ (rows[c].st = "live" /\ ended'[c].at = clock)

LEMMA AccessFacts ==
  ASSUME AccessTypes
  PROVE  /\ \A c \in Creds : rows[c] \in CredRows /\ memo[c] \in Nat /\ ended[c] \in EndTypes
         /\ \A c \in Creds : rows[c].exp \in Nat /\ ended[c].at \in Nat
         /\ \A q \in GateReqs : gate[q] \in Gates /\ gate[q].now \in Nat
         /\ \A q \in AuthReqs : auth[q] \in Auths
         /\ clock \in Nat /\ MemoTTL \in Nat /\ MemoTTL > 0 /\ Never \in Nat
<1>1. MaxTime \in Nat /\ MemoTTL \in Nat /\ MemoTTL > 0 /\ Never \in Nat
  BY AccessAssumption DEF Never
<1>2. \A c \in Creds : rows[c] \in CredRows /\ memo[c] \in 0 .. MaxTime + MemoTTL /\ ended[c] \in EndTypes
  BY DEF AccessTypes
<1>3. \A c \in Creds : rows[c].exp \in Nat /\ ended[c].at \in Nat
  BY <1>1, <1>2 DEF CredRows, EndTypes
<1>4. \A q \in GateReqs : gate[q] \in Gates
  BY DEF AccessTypes
<1>5. \A q \in GateReqs : gate[q].now \in Nat
  BY <1>1, <1>4 DEF Gates
<1>6. \A q \in AuthReqs : auth[q] \in Auths
  BY DEF AccessTypes
<1>7. clock \in Nat
  BY <1>1 DEF AccessTypes
<1> QED BY <1>1, <1>2, <1>3, <1>4, <1>5, <1>6, <1>7

LEMMA GateKept ==
  ASSUME AccessTypes, RowsMove, NEW q \in GateReqs, GateKnows(q), gate'[q] = gate[q]
  PROVE  GateKnows(q)'
<1>1. gate[q].now \in Nat /\ clock \in Nat /\ clock' \in Nat /\ MemoTTL \in Nat /\ MemoTTL > 0
  BY AccessFacts, AccessAssumption DEF RowsMove
<1>0. PICK c : c = gate[q].cred /\ c = gate'[q].cred
  OBVIOUS
<1>2. CASE gate[q].pc \notin {"missed", "found", "in"}
  BY <1>2 DEF GateKnows
<1>3. CASE gate[q].pc \in {"missed", "found", "in"}
  <2>1. c \in Creds /\ Begun(c) /\ gate[q].now =< clock
    BY <1>0, <1>3 DEF GateKnows
  <2>2. /\ ended'[c].memo = ended[c].memo /\ Begun(c)' /\ rows'[c].exp = rows[c].exp
        /\ rows[c].st = "gone" => rows'[c].st = "gone" /\ ended'[c].at = ended[c].at
        /\ rows'[c].st = "gone" => rows[c].st = "gone" \/ ended'[c].at = clock
        /\ clock =< clock'
    BY <2>1 DEF RowsMove
  <2>3. gate[q].now =< clock' /\ gate[q].now < clock + MemoTTL
    BY <1>1, <2>1, <2>2
  <2> QED BY <1>0, <2>1, <2>2, <2>3 DEF GateKnows
<1> QED BY <1>2, <1>3

LEMMA MemoKept ==
  ASSUME AccessTypes, RowsMove, NEW c \in Creds, MemoKnows(c), memo'[c] = memo[c]
  PROVE  MemoKnows(c)'
<1>1. memo[c] \in Nat /\ clock \in Nat /\ clock' \in Nat /\ MemoTTL \in Nat
  BY AccessFacts, AccessAssumption DEF RowsMove
<1>2. /\ ended'[c].memo = ended[c].memo /\ (Begun(c) => Begun(c)' /\ rows'[c].exp = rows[c].exp)
      /\ rows[c].st = "gone" => rows'[c].st = "gone" /\ ended'[c].at = ended[c].at
      /\ rows'[c].st = "gone" => rows[c].st = "gone" \/ ended'[c].at = clock
      /\ clock =< clock'
  BY DEF RowsMove
<1>3. memo[c] # 0 => memo[c] =< clock' + MemoTTL
  BY <1>1, <1>2 DEF MemoKnows
<1> QED BY <1>2, <1>3 DEF MemoKnows

\* The rows move, and neither the gate nor the memos do.
LEMMA RowsMoved ==
  ASSUME AccessInv, AccessTypes', RowsMove, UNCHANGED <<memo, gate>>, RowsKnow'
  PROVE  AccessInv'
<1>1. \A q \in GateReqs : GateKnows(q)'
  BY GateKept DEF AccessInv
<1>2. \A c \in Creds : MemoKnows(c)'
  BY MemoKept DEF AccessInv
<1> QED BY <1>1, <1>2 DEF AccessInv

\* Nothing happens to the rows.
LEMMA RowsStill ==
  ASSUME AccessTypes, UNCHANGED <<rows, ended>>, clock' \in 0 .. MaxTime, clock =< clock'
  PROVE  RowsMove
BY DEF RowsMove, Begun

LEMMA DeletedIs ==
  ASSUME AccessTypes, NEW D \in SUBSET Creds, \A c \in D : Begun(c), Deleted(D), clock' = clock
  PROVE  /\ rows' \in [Creds -> CredRows] /\ ended' \in [Creds -> EndTypes] /\ RowsMove
         /\ \A c \in Creds : /\ rows'[c].st = (IF c \in D THEN "gone" ELSE rows[c].st)
                             /\ rows'[c].gen = rows[c].gen /\ rows'[c].raced = rows[c].raced
         /\ evicting' = evicting \cup D
<1>1. /\ rows' = [c \in Creds |-> IF c \in D THEN [rows[c] EXCEPT !.st = "gone"] ELSE rows[c]]
      /\ ended' = [c \in Creds |-> IF c \in D /\ LiveRow(c) THEN [ended[c] EXCEPT !.at = clock] ELSE ended[c]]
      /\ evicting' = evicting \cup D
  BY DEF Deleted
<1>2. ASSUME NEW c \in Creds
      PROVE  /\ rows'[c] \in CredRows /\ rows'[c].st = (IF c \in D THEN "gone" ELSE rows[c].st)
             /\ rows'[c].gen = rows[c].gen /\ rows'[c].raced = rows[c].raced
             /\ rows'[c].exp = rows[c].exp
  <2>1. rows[c] \in CredRows
    BY AccessFacts
  <2>2. CASE c \in D
    <3>1. rows'[c] = [rows[c] EXCEPT !.st = "gone"]
      BY <1>1, <2>2
    <3> QED BY <2>1, <2>2, <3>1 DEF CredRows
  <2>3. CASE c \notin D
    BY <1>1, <2>1, <2>3
  <2> QED BY <2>2, <2>3
<1>3. ASSUME NEW c \in Creds
      PROVE  /\ ended'[c] \in EndTypes /\ ended'[c].memo = ended[c].memo
             /\ ended'[c].at = IF c \in D /\ LiveRow(c) THEN clock ELSE ended[c].at
  <2>1. ended[c] \in EndTypes /\ clock \in 0 .. MaxTime
    BY AccessFacts DEF AccessTypes
  <2>2. CASE c \in D /\ LiveRow(c)
    <3>1. ended'[c] = [ended[c] EXCEPT !.at = clock]
      BY <1>1, <2>2
    <3> QED BY <2>1, <2>2, <3>1 DEF EndTypes
  <2>3. CASE ~(c \in D /\ LiveRow(c))
    BY <1>1, <2>1, <2>3
  <2> QED BY <2>2, <2>3
<1>4. rows' \in [Creds -> CredRows]
  <2>1. DOMAIN rows' = Creds /\ rows' = [c \in DOMAIN rows' |-> rows'[c]]
    BY <1>1
  <2> QED BY <1>2, <2>1
<1>5. ended' \in [Creds -> EndTypes]
  <2>1. DOMAIN ended' = Creds /\ ended' = [c \in DOMAIN ended' |-> ended'[c]]
    BY <1>1
  <2> QED BY <1>3, <2>1
<1>6. RowsMove
  <2>1. clock' \in 0 .. MaxTime /\ clock =< clock'
    BY AccessFacts, AccessAssumption DEF AccessTypes
  <2>2. ASSUME NEW c \in Creds
        PROVE  /\ ended'[c].memo = ended[c].memo
               /\ Begun(c) => Begun(c)' /\ rows'[c].exp = rows[c].exp
               /\ rows[c].st = "gone" => rows'[c].st = "gone" /\ ended'[c].at = ended[c].at
               /\ rows'[c].st = "gone" => rows[c].st = "gone" \/ (rows[c].st = "live" /\ ended'[c].at = clock)
    BY <1>2, <1>3 DEF Begun, LiveRow
  <2> QED BY <2>1, <2>2 DEF RowsMove
<1> QED BY <1>1, <1>2, <1>4, <1>5, <1>6

LEMMA InsertIs ==
  ASSUME AccessTypes, NEW c \in Creds, NEW r \in CredRows, r.st = "live", Insert(c, r),
         UNCHANGED <<clock, ended>>
  PROVE  /\ rows' \in [Creds -> CredRows] /\ RowsMove /\ rows[c].st = "none" /\ rows'[c] = r
         /\ \A d \in Creds : d # c => rows'[d] = rows[d]
<1>1. rows' = [rows EXCEPT ![c] = r] /\ rows[c].st = "none" /\ rows \in [Creds -> CredRows]
  BY DEF Insert, AccessTypes
<1>2. rows' \in [Creds -> CredRows] /\ rows'[c] = r /\ \A d \in Creds : d # c => rows'[d] = rows[d]
  BY <1>1
<1>3. clock' \in 0 .. MaxTime /\ clock =< clock'
  BY AccessFacts DEF AccessTypes
<1>4. ASSUME NEW d \in Creds
      PROVE  /\ ended'[d].memo = ended[d].memo
             /\ Begun(d) => Begun(d)' /\ rows'[d].exp = rows[d].exp
             /\ rows[d].st = "gone" => rows'[d].st = "gone" /\ ended'[d].at = ended[d].at
             /\ rows'[d].st = "gone" => rows[d].st = "gone"
  BY <1>1, <1>2 DEF Begun
<1> QED BY <1>1, <1>2, <1>3, <1>4 DEF RowsMove

\* A request at the gate moves, and memos are dropped or known.
LEMMA GateMoved ==
  ASSUME AccessInv, NEW q \in GateReqs, gate' \in [GateReqs -> Gates],
         \A p \in GateReqs : p # q => gate'[p] = gate[p],
         memo' \in [Creds -> 0 .. MaxTime + MemoTTL],
         \A c \in Creds : memo'[c] = memo[c] \/ memo'[c] = 0 \/ MemoKnows(c)',
         GateKnows(q)', UNCHANGED <<rows, auth, evicting, password, clock, ended>>
  PROVE  AccessInv'
<1>1. AccessTypes'
  BY DEF AccessInv, AccessTypes
<1>2. RowsKnow'
  BY DEF AccessInv, RowsKnow, AuthKnows, PasswordKnows, SessionsFollowPassword, Begun, LiveRow
<1>3. RowsMove
  BY RowsStill, AccessFacts DEF AccessInv, AccessTypes
<1>4. ASSUME NEW p \in GateReqs PROVE GateKnows(p)'
  BY <1>3, GateKept DEF AccessInv
<1>5. ASSUME NEW c \in Creds PROVE MemoKnows(c)'
  <2>1. CASE memo'[c] = 0
    BY <2>1 DEF AccessInv, MemoKnows
  <2>2. CASE memo'[c] = memo[c]
    BY <1>3, <2>2, MemoKept DEF AccessInv
  <2> QED BY <2>1, <2>2
<1> QED BY <1>1, <1>2, <1>4, <1>5 DEF AccessInv

LEMMA GateConstants ==
  NoGate \in Gates /\ NoGate.pc = "idle" /\ NoGate.sure = FALSE
<1>1. 0 \in 0 .. MaxTime
  BY AccessAssumption
<1> QED BY <1>1 DEF NoGate, Gates

LEMMA GateSteps ==
  ASSUME AccessInv, NEW q \in GateReqs,
         (\E c \in Creds : GateBegin(q, c)) \/ GateLookup(q) \/ GateStore(q) \/ GateDone(q)
  PROVE  AccessInv'
<1>0. /\ AccessTypes /\ gate \in [GateReqs -> Gates] /\ memo \in [Creds -> 0 .. MaxTime + MemoTTL]
      /\ GateKnows(q) /\ gate[q] \in Gates /\ clock \in 0 .. MaxTime
      /\ UNCHANGED <<rows, auth, evicting, password, clock, ended>>
      /\ 0 \in 0 .. MaxTime + MemoTTL
  <2>1. UNCHANGED <<rows, auth, evicting, password, clock, ended>>
    BY DEF GateBegin, GateLookup, GateStore, GateDone, outsideGate
  <2>2. 0 \in 0 .. MaxTime + MemoTTL
    BY AccessAssumption
  <2> QED BY <2>1, <2>2 DEF AccessInv, AccessTypes
<1>1. /\ clock \in Nat /\ MemoTTL \in Nat /\ MemoTTL > 0 /\ gate[q].now \in Nat
      /\ \A c \in Creds : memo[c] \in Nat /\ rows[c].exp \in Nat /\ ended[c].at \in Nat /\ ended[c] \in EndTypes
  BY <1>0, AccessFacts
\* What remains to show is about this request.
<1>2. ASSUME NEW g \in Gates, gate' = [gate EXCEPT ![q] = g], gate'[q] = g => GateKnows(q)',
             memo' \in [Creds -> 0 .. MaxTime + MemoTTL],
             \A c \in Creds : memo'[c] = memo[c] \/ memo'[c] = 0 \/ MemoKnows(c)'
      PROVE  AccessInv'
  <2>1. gate' \in [GateReqs -> Gates] /\ gate'[q] = g /\ \A p \in GateReqs : p # q => gate'[p] = gate[p]
    BY <1>0, <1>2
  <2> QED BY <1>0, <1>2, <2>1, GateMoved
<1>3. ASSUME Refused(q), memo' \in [Creds -> 0 .. MaxTime + MemoTTL],
             \A c \in Creds : memo'[c] = memo[c] \/ memo'[c] = 0
      PROVE  AccessInv'
  <2>1. gate' = [gate EXCEPT ![q] = NoGate]
    BY <1>3 DEF Refused
  <2>2. gate'[q] = NoGate => GateKnows(q)'
    BY GateConstants DEF GateKnows
  <2> QED BY <1>2, <1>3, <2>1, <2>2, GateConstants
<1>4. ASSUME NEW c \in Creds, memo' = [memo EXCEPT ![c] = 0]
      PROVE  /\ memo' \in [Creds -> 0 .. MaxTime + MemoTTL]
             /\ \A d \in Creds : memo'[d] = memo[d] \/ memo'[d] = 0
  BY <1>0, <1>4
<1>5. CASE \E c \in Creds : GateBegin(q, c)
  <2>1. PICK c \in Creds : GateBegin(q, c)
    BY <1>5
  <2>2. PICK r : r = [pc |-> "in", cred |-> c, now |-> clock, sure |-> ended[c].memo]
    OBVIOUS
  <2>3. ended[c].memo \in BOOLEAN
    BY <1>1 DEF EndTypes
  <2>4. r \in Gates
    BY <1>0, <2>2, <2>3 DEF Gates
  <2>5. Begun(c) /\ MemoKnows(c) /\ Begun(c)'
    BY <1>0, <2>1 DEF GateBegin, Begun, AccessInv
  <2>6. CASE clock < memo[c] /\ c \in Keys /\ KeyExpired(c)
    <3>1. memo' = [memo EXCEPT ![c] = 0] /\ gate' = gate
      BY <2>1, <2>6 DEF GateBegin
    <3>2. GateKnows(q)'
      <4>1. RowsMove
        BY <1>0, <1>1, RowsStill
      <4> QED BY <1>0, <3>1, <4>1, GateKept
    <3> QED BY <1>0, <1>4, <3>1, <3>2, GateMoved
  <2>7. CASE clock < memo[c] /\ ~(c \in Keys /\ KeyExpired(c))
    <3>1. gate' = [gate EXCEPT ![q] = r] /\ memo' = memo
      BY <2>1, <2>2, <2>7 DEF GateBegin
    <3>2. memo[c] # 0 /\ ~ended[c].memo
      BY <1>1, <2>5, <2>7 DEF MemoKnows
    <3>3. /\ rows[c].st = "gone" => clock < ended[c].at + MemoTTL
          /\ c \in Keys => clock =< rows[c].exp
          /\ c \in Sessions => clock < rows[c].exp + MemoTTL
      BY <1>1, <2>5, <2>7, <3>2 DEF MemoKnows, KeyExpired
    <3>4. gate'[q] = r => GateKnows(q)'
      BY <1>0, <1>1, <2>2, <2>5, <3>2, <3>3 DEF GateKnows
    <3> QED BY <1>0, <1>2, <2>4, <3>1, <3>4
  <2>8. CASE ~(clock < memo[c])
    <3>1. memo' = [memo EXCEPT ![c] = 0] /\ gate' = [gate EXCEPT ![q] = [r EXCEPT !.pc = "missed"]]
      BY <2>1, <2>2, <2>8 DEF GateBegin
    <3>2. PICK g : g = [r EXCEPT !.pc = "missed"]
      OBVIOUS
    <3>3. g = [pc |-> "missed", cred |-> c, now |-> clock, sure |-> ended[c].memo]
      BY <2>2, <3>2
    <3>4. g \in Gates
      BY <1>0, <2>3, <3>3 DEF Gates
    <3>5. gate'[q] = g => GateKnows(q)'
      BY <1>0, <1>1, <2>5, <3>3 DEF GateKnows
    <3>6. gate' = [gate EXCEPT ![q] = g]
      BY <3>1, <3>2
    <3> QED BY <1>2, <1>4, <3>1, <3>4, <3>5, <3>6
  <2> QED BY <2>6, <2>7, <2>8
<1>6. CASE GateLookup(q)
  <2>1. gate[q].pc = "missed" /\ memo' = memo
    BY <1>6 DEF GateLookup
  <2>2. PICK c : c = gate[q].cred
    OBVIOUS
  <2>3. c \in Creds /\ Begun(c) /\ gate[q].now =< clock /\ MemoKnows(c) /\ (gate[q].sure => ended[c].memo)
    BY <1>0, <2>1, <2>2 DEF GateKnows, AccessInv
  <2>4. CASE Refused(q)
    BY <1>0, <1>3, <2>1, <2>4
  <2>5. CASE ~Refused(q)
    <3>1. gate' = [gate EXCEPT ![q].pc = "found"] /\ IF c \in Keys THEN LiveRow(c) ELSE GetSessionUser(c)
      BY <1>6, <2>2, <2>5 DEF GateLookup
    <3>2. PICK g : g = [gate[q] EXCEPT !.pc = "found"]
      OBVIOUS
    <3>3. g \in Gates /\ g.pc = "found" /\ g.cred = c /\ g.now = gate[q].now /\ g.sure = gate[q].sure
      BY <1>0, <2>2, <3>2 DEF Gates
    <3>4. gate' = [gate EXCEPT ![q] = g]
      BY <1>0, <3>1, <3>2
    <3>5. rows[c].st = "live" /\ ~ended[c].memo
      BY <2>3, <3>1 DEF LiveRow, GetSessionUser, MemoKnows
    <3>6. c \in Sessions => clock < rows[c].exp
      BY <3>1, AccessAssumption DEF GetSessionUser
    <3>7. c \in Sessions => gate[q].now < rows[c].exp
      BY <1>1, <2>3, <3>6
    <3>8. gate'[q] = g => GateKnows(q)'
      BY <1>0, <2>3, <3>3, <3>5, <3>7 DEF GateKnows, Begun
    <3> QED BY <1>0, <1>2, <2>1, <3>3, <3>4, <3>8
  <2> QED BY <2>4, <2>5
<1>7. CASE GateStore(q)
  <2>1. gate[q].pc = "found"
    BY <1>7 DEF GateStore
  <2>2. PICK c : c = gate[q].cred
    OBVIOUS
  <2>3. /\ c \in Creds /\ Begun(c) /\ gate[q].now =< clock /\ MemoKnows(c) /\ (gate[q].sure => ended[c].memo)
        /\ ~ended[c].memo /\ (rows[c].st = "gone" => gate[q].now =< ended[c].at)
        /\ (c \in Sessions => gate[q].now < rows[c].exp)
    BY <1>0, <2>1, <2>2 DEF GateKnows, AccessInv
  <2>4. CASE c \in Keys /\ KeyExpired(c)
    <3>1. memo' = [memo EXCEPT ![c] = 0] /\ Refused(q)
      BY <1>7, <2>2, <2>4 DEF GateStore
    <3> QED BY <1>3, <1>4, <2>3, <3>1
  <2>5. CASE ~(c \in Keys /\ KeyExpired(c))
    <3>1. memo' = [memo EXCEPT ![c] = gate[q].now + MemoTTL] /\ gate' = [gate EXCEPT ![q].pc = "in"]
      BY <1>7, <2>2, <2>5 DEF GateStore, ValidUntil
    <3>2. PICK g : g = [gate[q] EXCEPT !.pc = "in"]
      OBVIOUS
    <3>3. g \in Gates /\ g.pc = "in" /\ g.cred = c /\ g.now = gate[q].now /\ g.sure = gate[q].sure
      BY <1>0, <2>2, <3>2 DEF Gates
    <3>4. gate' = [gate EXCEPT ![q] = g]
      BY <1>0, <3>1, <3>2
    <3>5. /\ rows[c].st = "gone" => gate[q].now < ended[c].at + MemoTTL
          /\ c \in Keys => gate[q].now =< rows[c].exp
          /\ c \in Sessions => gate[q].now < rows[c].exp + MemoTTL
      BY <1>1, <2>3, <2>5 DEF KeyExpired
    <3>6. gate'[q] = g => GateKnows(q)'
      BY <1>0, <2>3, <3>3, <3>5 DEF GateKnows, Begun
    <3>7. gate[q].now + MemoTTL \in 0 .. MaxTime + MemoTTL
      BY <1>0, <1>1, <2>3, AccessAssumption
    <3>8. memo' \in [Creds -> 0 .. MaxTime + MemoTTL] /\ memo'[c] = gate[q].now + MemoTTL
          /\ \A d \in Creds : d # c => memo'[d] = memo[d]
      BY <1>0, <2>3, <3>1, <3>7
    <3>9. MemoKnows(c)'
      <4>1. /\ gate[q].now + MemoTTL =< clock + MemoTTL
            /\ rows[c].st = "gone" => gate[q].now + MemoTTL =< ended[c].at + MemoTTL
            /\ c \in Sessions => gate[q].now + MemoTTL < rows[c].exp + MemoTTL
        BY <1>1, <2>3
      <4> QED BY <1>0, <2>3, <3>8, <4>1 DEF MemoKnows, Begun
    <3> QED BY <1>2, <3>3, <3>4, <3>6, <3>8, <3>9
  <2> QED BY <2>4, <2>5
<1>8. CASE GateDone(q)
  BY <1>0, <1>3, <1>8 DEF GateDone
<1> QED BY <1>5, <1>6, <1>7, <1>8

\* A credential ends: its row goes, and its memo is to follow.
LEMMA DeleteKeeps ==
  ASSUME AccessInv, NEW D \in SUBSET Creds, \A c \in D : Begun(c), Deleted(D), clock' = clock,
         UNCHANGED <<memo, gate>>, auth' \in [AuthReqs -> Auths], password' \in Passwords,
         \A q \in AuthReqs : auth'[q] = auth[q] \/ auth'[q].pc = "done",
         \/ password' = password
         \/ password'.keep = "none" /\ \A s \in Sessions : s \notin D /\ LiveRow(s) => rows[s].gen = password'.gen
  PROVE  AccessInv'
<1>0. AccessTypes /\ RowsKnow
  BY DEF AccessInv
<1>1. /\ rows' \in [Creds -> CredRows] /\ ended' \in [Creds -> EndTypes] /\ RowsMove
      /\ \A c \in Creds : /\ rows'[c].st = (IF c \in D THEN "gone" ELSE rows[c].st)
                          /\ rows'[c].gen = rows[c].gen /\ rows'[c].raced = rows[c].raced
      /\ evicting' = evicting \cup D
  BY <1>0, DeletedIs
<1>2. AccessTypes'
  BY <1>0, <1>1 DEF AccessTypes
<1>3. \A c \in evicting' : rows'[c].st = "gone"
  BY <1>0, <1>1 DEF RowsKnow, AccessTypes
<1>4. \A c \in Creds : Begun(c) => Begun(c)'
  BY <1>1 DEF Begun
<1>5. \A q \in AuthReqs : AuthKnows(q)'
  <2>1. Sessions \subseteq Creds
    BY DEF Creds
  <2>2. \A q \in AuthReqs : auth'[q] = auth[q] => AuthKnows(q)'
    BY <1>0, <1>4, <2>1 DEF RowsKnow, AuthKnows, Begun
  <2>3. \A q \in AuthReqs : auth'[q].pc = "done" => AuthKnows(q)'
    BY DEF AuthKnows
  <2> QED BY <2>2, <2>3
<1>6. PasswordKnows' /\ SessionsFollowPassword'
  <2>1. \A s \in Sessions : s \in Creds
    BY DEF Creds
  <2>2. \A s \in Sessions : LiveRow(s)' => LiveRow(s) /\ s \notin D
    BY <1>1, <2>1 DEF LiveRow
  <2>3. CASE password' = password
    <3>1. PasswordKnows'
      <4>1. password.keep # "none" => password.keep \in Creds
        BY <1>0, <2>1 DEF AccessTypes, Passwords
      <4> QED BY <1>0, <1>1, <1>4, <2>3, <4>1 DEF RowsKnow, PasswordKnows, Begun
    <3>2. SessionsFollowPassword'
      BY <1>0, <1>1, <2>1, <2>2, <2>3 DEF RowsKnow, SessionsFollowPassword
    <3> QED BY <3>1, <3>2
  <2>4. CASE password'.keep = "none" /\ \A s \in Sessions : s \notin D /\ LiveRow(s) => rows[s].gen = password'.gen
    BY <1>1, <2>1, <2>2, <2>4 DEF PasswordKnows, SessionsFollowPassword
  <2> QED BY <2>3, <2>4
<1> QED BY <1>1, <1>2, <1>3, <1>5, <1>6, RowsMoved DEF RowsKnow

LEMMA EndsKeep ==
  ASSUME AccessInv, NEW c \in Creds, Ends(c)
  PROVE  AccessInv'
<1>1. /\ LiveRow(c) /\ Deleted({c}) /\ UNCHANGED <<memo, gate, auth, password, clock>>
      /\ auth \in [AuthReqs -> Auths] /\ password \in Passwords
  BY DEF Ends, AccessInv, AccessTypes
<1>2. Begun(c)
  BY <1>1 DEF LiveRow, Begun
<1>3. \A d \in {c} : Begun(d)
  BY <1>2
<1>4. {c} \in SUBSET Creds
  OBVIOUS
<1> QED BY <1>1, <1>3, <1>4, DeleteKeeps

\* A credential begins.
LEMMA InsertKeepsAccess ==
  ASSUME AccessInv, NEW c \in Creds, NEW r \in CredRows, r.st = "live", Insert(c, r),
         UNCHANGED <<memo, gate, evicting, password, clock, ended>>,
         auth' \in [AuthReqs -> Auths],
         \A q \in AuthReqs : \/ auth'[q] = auth[q] \/ auth'[q].pc = "done"
                             \/ auth[q].pc = "refresh" /\ auth'[q].old = auth[q].old,
         c \in Sessions /\ password.keep = "none" /\ ~password.warned => r.gen = password.gen \/ r.raced
  PROVE  AccessInv'
<1>0. AccessTypes /\ RowsKnow
  BY DEF AccessInv
<1>1. /\ rows' \in [Creds -> CredRows] /\ RowsMove /\ rows[c].st = "none" /\ rows'[c] = r
      /\ \A d \in Creds : d # c => rows'[d] = rows[d]
  BY <1>0, InsertIs
<1>2. AccessTypes'
  BY <1>0, <1>1 DEF AccessTypes
<1>3. \A d \in Creds : Begun(d) => Begun(d)' /\ rows'[d] = rows[d]
  BY <1>1 DEF Begun
<1>4. \A d \in evicting' : rows'[d].st = "gone"
  BY <1>0, <1>1 DEF RowsKnow, AccessTypes
<1>5. ASSUME NEW q \in AuthReqs PROVE AuthKnows(q)'
  <2>1. Sessions \subseteq Creds /\ AuthKnows(q)
    BY <1>0 DEF Creds, RowsKnow
  <2>2. CASE auth'[q].pc = "done"
    BY <2>2 DEF AuthKnows
  <2>3. CASE auth'[q].pc # "done"
    <3>1. auth'[q].old = auth[q].old
          /\ (auth'[q].pc \in {"refresh", "delete"} => auth[q].pc \in {"refresh", "delete"})
      BY <2>3
    <3> QED BY <1>3, <2>1, <3>1 DEF AuthKnows, Begun
  <2> QED BY <2>2, <2>3
<1>6. PasswordKnows'
  <2>1. password.keep # "none" => password.keep \in Creds
    BY <1>0 DEF AccessTypes, Passwords, Creds
  <2> QED BY <1>0, <1>3, <2>1 DEF RowsKnow, PasswordKnows
<1>7. SessionsFollowPassword'
  <2> SUFFICES ASSUME password.keep = "none", ~password.warned, NEW s \in Sessions, LiveRow(s)'
               PROVE  rows'[s].gen = password.gen \/ rows'[s].raced
    BY DEF SessionsFollowPassword
  <2>1. s \in Creds
    BY DEF Creds
  <2>2. CASE s = c
    BY <1>1, <2>2
  <2>3. CASE s # c
    BY <1>0, <1>1, <2>1, <2>3 DEF RowsKnow, SessionsFollowPassword, LiveRow
  <2> QED BY <2>2, <2>3
<1> QED BY <1>1, <1>2, <1>4, <1>5, <1>6, <1>7, RowsMoved DEF RowsKnow

\* Neither rows nor memos move.
LEMMA OnlyAuth ==
  ASSUME AccessInv, UNCHANGED <<rows, memo, gate, evicting, ended>>,
         clock' \in 0 .. MaxTime, clock =< clock',
         auth' \in [AuthReqs -> Auths], \A q \in AuthReqs : AuthKnows(q)',
         password' \in Passwords, PasswordKnows', SessionsFollowPassword'
  PROVE  AccessInv'
<1>1. RowsMove
  BY RowsStill DEF AccessInv
<1>2. AccessTypes'
  BY DEF AccessInv, AccessTypes
<1>3. RowsKnow'
  BY DEF AccessInv, RowsKnow
<1> QED BY <1>1, <1>2, <1>3, RowsMoved

LEMMA NewSessionIs ==
  ASSUME AccessTypes, NEW g \in 0 .. MaxGen, NEW b \in BOOLEAN
  PROVE  NewSession(g, b) \in CredRows /\ NewSession(g, b).st = "live"
         /\ NewSession(g, b).gen = g /\ NewSession(g, b).raced = b
<1>1. clock + MemoTTL + 1 \in 0 .. Never
  BY AccessAssumption DEF AccessTypes, Never
<1> QED BY <1>1 DEF NewSession, CredRows

\* A login or a refresh: the check, the new session, the end of the old one.
LEMMA AuthConstants ==
  /\ NoAuth \in Auths /\ NoAuth.pc = "idle"
  /\ AuthDone \in Auths /\ AuthDone.pc = "done"
<1>1. 0 \in 0 .. MaxGen
  BY AccessAssumption
<1>2. NoAuth \in Auths /\ NoAuth.pc = "idle"
  BY <1>1 DEF NoAuth, Auths
<1>3. AuthDone = [pc |-> "done", old |-> "none", gen |-> 0]
  BY DEF AuthDone, NoAuth
<1> QED BY <1>1, <1>2, <1>3 DEF Auths

LEMMA AuthChecksKeep ==
  ASSUME AccessInv, NEW q \in AuthReqs, LoginCheck(q) \/ \E s \in Sessions : RefreshCheck(q, s)
  PROVE  AccessInv'
<1>0. /\ AccessTypes /\ RowsKnow /\ clock' \in 0 .. MaxTime /\ clock =< clock' /\ password' \in Passwords
      /\ auth \in [AuthReqs -> Auths] /\ UNCHANGED <<rows, memo, gate, evicting, password, clock, ended>>
      /\ password.gen \in 0 .. MaxGen /\ \A s \in Sessions : s \in Creds
  <2>1. UNCHANGED <<rows, memo, gate, evicting, password, clock, ended>>
    BY DEF LoginCheck, RefreshCheck
  <2>2. AccessTypes /\ RowsKnow
    BY DEF AccessInv
  <2>3. clock \in Nat
    BY <2>2, AccessFacts
  <2> QED BY <2>1, <2>2, <2>3 DEF AccessTypes, Passwords, Creds
<1>1. PICK a : /\ a \in Auths /\ auth' = [auth EXCEPT ![q] = a]
               /\ a.pc \in {"refresh", "delete"} => a.old \in Sessions /\ Begun(a.old)
  <2>1. CASE LoginCheck(q)
    <3>1. PICK a : a = [NoAuth EXCEPT !.pc = "login", !.gen = password.gen]
      OBVIOUS
    <3>2. a = [pc |-> "login", old |-> "none", gen |-> password.gen]
      BY <3>1 DEF NoAuth
    <3>3. a \in Auths
      BY <1>0, <3>2 DEF Auths
    <3>4. auth' = [auth EXCEPT ![q] = a]
      BY <2>1, <3>1 DEF LoginCheck
    <3>5. a.pc = "login"
      BY <3>2
    <3> QED BY <3>3, <3>4, <3>5
  <2>2. CASE \E s \in Sessions : RefreshCheck(q, s)
    <3>1. PICK s \in Sessions : RefreshCheck(q, s)
      BY <2>2
    <3>2. PICK a : a = [pc |-> "refresh", old |-> s, gen |-> rows[s].gen]
      OBVIOUS
    <3>3. rows[s] \in CredRows /\ s \in Creds
      BY <1>0, AccessFacts
    <3>4. rows[s].gen \in 0 .. MaxGen
      BY <3>3 DEF CredRows
    <3>5. a \in Auths
      BY <3>2, <3>4 DEF Auths
    <3>6. Begun(s)
      BY <3>1 DEF RefreshCheck, GetSessionUser, LiveRow, Begun
    <3>7. auth' = [auth EXCEPT ![q] = a]
      BY <3>1, <3>2 DEF RefreshCheck
    <3>8. a.old = s
      BY <3>2
    <3> QED BY <3>5, <3>6, <3>7, <3>8
  <2> QED BY <2>1, <2>2
<1>2. auth' \in [AuthReqs -> Auths] /\ auth'[q] = a /\ \A p \in AuthReqs : p # q => auth'[p] = auth[p]
  BY <1>0, <1>1
<1>3. ASSUME NEW p \in AuthReqs PROVE AuthKnows(p)'
  <2>1. CASE p = q
    BY <1>0, <1>1, <1>2, <2>1 DEF AuthKnows, Begun
  <2>2. CASE p # q
    BY <1>0, <1>2, <2>2 DEF AuthKnows, Begun, RowsKnow
  <2> QED BY <2>1, <2>2
<1>4. PasswordKnows' /\ SessionsFollowPassword'
  BY <1>0 DEF RowsKnow, PasswordKnows, SessionsFollowPassword, Begun, LiveRow
<1> QED BY <1>0, <1>2, <1>3, <1>4, OnlyAuth

LEMMA NewSessionsKeep ==
  ASSUME AccessInv, NEW q \in AuthReqs, NEW s \in Sessions, LoginSession(q, s) \/ RefreshCreate(q, s)
  PROVE  AccessInv'
<1>0. /\ AccessTypes /\ RowsKnow /\ auth \in [AuthReqs -> Auths] /\ auth[q] \in Auths /\ s \in Creds
      /\ auth[q].gen \in 0 .. MaxGen
  BY DEF AccessInv, AccessTypes, Creds, Auths
<1>1. UNCHANGED <<memo, gate, evicting, password, clock, ended>>
  BY DEF LoginSession, RefreshCreate
<1>2. CASE LoginSession(q, s)
  <2>1. PICK b \in BOOLEAN : b = (auth[q].gen # password.gen)
    OBVIOUS
  <2>2. PICK r : r = NewSession(auth[q].gen, b)
    OBVIOUS
  <2>3. r \in CredRows /\ r.st = "live" /\ r.gen = auth[q].gen /\ r.raced = b
    BY <1>0, <2>2, NewSessionIs
  <2>4. Insert(s, r) /\ auth' = [auth EXCEPT ![q] = AuthDone]
    BY <1>2, <2>1, <2>2 DEF LoginSession
  <2>5. auth' \in [AuthReqs -> Auths] /\ \A p \in AuthReqs : auth'[p] = auth[p] \/ auth'[p].pc = "done"
    BY <1>0, <2>4, AuthConstants
  <2>6. r.gen = password.gen \/ r.raced
    BY <2>1, <2>3
  <2> QED BY <1>0, <1>1, <2>3, <2>4, <2>5, <2>6, InsertKeepsAccess
<1>3. CASE RefreshCreate(q, s)
  <2>0. PICK o : o = auth[q].old
    OBVIOUS
  <2>1. auth[q].pc = "refresh" /\ AuthKnows(q) /\ o \in Sessions /\ o \in Creds
    BY <1>0, <1>3, <2>0 DEF RefreshCreate, RowsKnow, AuthKnows, Creds
  <2>2. rows[o] \in CredRows
    BY <1>0, <2>1, AccessFacts
  <2>3. rows[o].gen \in 0 .. MaxGen /\ rows[o].raced \in BOOLEAN
    BY <2>2 DEF CredRows
  <2>4. PICK b \in BOOLEAN : b = (rows[o].raced \/ ~LiveRow(o))
    OBVIOUS
  <2>5. PICK r : r = NewSession(rows[o].gen, b)
    OBVIOUS
  <2>6. r \in CredRows /\ r.st = "live" /\ r.gen = rows[o].gen /\ r.raced = b
    BY <1>0, <2>3, <2>5, NewSessionIs
  <2>7. Insert(s, r) /\ auth' = [auth EXCEPT ![q].pc = "delete"]
    BY <1>3, <2>0, <2>4, <2>5 DEF RefreshCreate
  <2>8. PICK a : a = [auth[q] EXCEPT !.pc = "delete"]
    OBVIOUS
  <2>9. a \in Auths /\ a.old = auth[q].old
    BY <1>0, <2>8 DEF Auths
  <2>10. auth' = [auth EXCEPT ![q] = a]
    BY <1>0, <2>7, <2>8
  <2>11. auth' \in [AuthReqs -> Auths] /\ auth'[q] = a /\ \A p \in AuthReqs : p # q => auth'[p] = auth[p]
    BY <1>0, <2>9, <2>10
  <2>12. \A p \in AuthReqs : auth'[p] = auth[p] \/ (auth[p].pc = "refresh" /\ auth'[p].old = auth[p].old)
    BY <2>1, <2>9, <2>11
  <2>13. password.keep = "none" /\ ~password.warned => r.gen = password.gen \/ r.raced
    BY <1>0, <2>1, <2>4, <2>6 DEF RowsKnow, SessionsFollowPassword
  <2> QED BY <1>0, <1>1, <2>6, <2>7, <2>11, <2>12, <2>13, InsertKeepsAccess
<1> QED BY <1>2, <1>3

LEMMA RefreshDeleteKeeps ==
  ASSUME AccessInv, NEW q \in AuthReqs, RefreshDelete(q)
  PROVE  AccessInv'
<1>1. /\ auth[q].pc = "delete" /\ Deleted({auth[q].old}) /\ auth' = [auth EXCEPT ![q] = AuthDone]
      /\ UNCHANGED <<memo, gate, password, clock>> /\ auth \in [AuthReqs -> Auths]
      /\ password \in Passwords /\ AuthKnows(q)
  BY DEF RefreshDelete, AccessInv, AccessTypes, RowsKnow
<1>2. PICK o : o = auth[q].old
  OBVIOUS
<1>3. o \in Creds /\ Begun(o) /\ Deleted({o})
  BY <1>1, <1>2 DEF AuthKnows, Creds
<1>4. auth' \in [AuthReqs -> Auths] /\ \A p \in AuthReqs : auth'[p] = auth[p] \/ auth'[p].pc = "done"
  BY <1>1, AuthConstants
<1>5. {o} \in SUBSET Creds /\ \A c \in {o} : Begun(c)
  BY <1>3
<1> QED BY <1>1, <1>3, <1>4, <1>5, DeleteKeeps

LEMMA NewKeysKeep ==
  ASSUME AccessInv, NEW k \in Keys, NEW exp \in {Never, 1, 0}, CreateKey(k, exp) \/ create_api_key(k, exp)
  PROVE  AccessInv'
<1>0. /\ AccessTypes /\ auth \in [AuthReqs -> Auths] /\ k \in Creds /\ k \notin Sessions
  BY AccessAssumption DEF AccessInv, AccessTypes, Creds
<1>1. exp \in 0 .. Never /\ 0 \in 0 .. MaxGen
  BY AccessAssumption DEF Never
<1>2. PICK r : r = [NoRow EXCEPT !.st = "live", !.exp = exp]
  OBVIOUS
<1>3. r = [st |-> "live", exp |-> exp, gen |-> 0, raced |-> FALSE]
  BY <1>2 DEF NoRow
<1>4. r \in CredRows /\ r.st = "live"
  BY <1>1, <1>3 DEF CredRows
<1>5. Insert(k, r) /\ UNCHANGED <<memo, gate, auth, evicting, password, clock, ended>>
  BY <1>2 DEF CreateKey, create_api_key, InsertAPIKey
<1> QED BY <1>0, <1>4, <1>5, InsertKeepsAccess

LEMMA PasswordStepsKeep ==
  ASSUME AccessInv, (\E s \in Sessions : ChangePassword(s)) \/ DeleteUserSessionsExcept \/ PasswordWarning
  PROVE  AccessInv'
<1>0. /\ AccessTypes /\ RowsKnow /\ auth \in [AuthReqs -> Auths] /\ password \in Passwords
      /\ rows \in [Creds -> CredRows] /\ clock \in 0 .. MaxTime /\ clock \in Nat
      /\ \A s \in Sessions : s \in Creds /\ s # "none"
  <2>1. AccessTypes /\ RowsKnow
    BY DEF AccessInv
  <2> QED BY <2>1, AccessFacts, AccessAssumption DEF AccessTypes, Creds
<1>1. CASE \E s \in Sessions : ChangePassword(s)
  <2>1. PICK s \in Sessions : ChangePassword(s)
    BY <1>1
  <2>2. /\ LiveRow(s) /\ password.gen < MaxGen /\ password.keep = "none"
        /\ password' = [password EXCEPT !.gen = password.gen + 1, !.keep = s]
        /\ rows' = [rows EXCEPT ![s].gen = password.gen + 1]
        /\ UNCHANGED <<memo, gate, auth, evicting, clock, ended>>
    BY <2>1 DEF ChangePassword, GetSessionUser
  <2>3. password.gen \in 0 .. MaxGen /\ password.warned \in BOOLEAN
    BY <1>0 DEF Passwords
  <2>4. password.gen + 1 \in 0 .. MaxGen
    BY <2>2, <2>3, AccessAssumption
  <2>5. password' = [gen |-> password.gen + 1, keep |-> s, warned |-> password.warned]
    BY <1>0, <2>2 DEF Passwords
  <2>6. password' \in Passwords /\ password'.keep = s /\ password'.gen = password.gen + 1
    BY <2>3, <2>4, <2>5 DEF Passwords
  <2>7. PICK r : r = [rows[s] EXCEPT !.gen = password.gen + 1]
    OBVIOUS
  <2>8. rows[s] \in CredRows
    BY <1>0
  <2>9. /\ r \in CredRows /\ r.st = rows[s].st /\ r.exp = rows[s].exp /\ r.gen = password.gen + 1
    BY <2>4, <2>7, <2>8 DEF CredRows
  <2>10. rows' = [rows EXCEPT ![s] = r]
    BY <1>0, <2>2, <2>7
  <2>11. /\ rows' \in [Creds -> CredRows] /\ rows'[s] = r
         /\ \A c \in Creds : rows'[c].st = rows[c].st /\ rows'[c].exp = rows[c].exp
    BY <1>0, <2>9, <2>10
  <2>12. RowsMove
    BY <1>0, <2>2, <2>11 DEF RowsMove, Begun
  <2>13. AccessTypes'
    BY <1>0, <2>2, <2>6, <2>11 DEF AccessTypes
  <2>14. PasswordKnows' /\ SessionsFollowPassword'
    <3>1. Begun(s)'
      BY <1>0, <2>2, <2>11 DEF Begun, LiveRow
    <3> QED BY <1>0, <2>6, <2>9, <2>11, <3>1 DEF PasswordKnows, SessionsFollowPassword, Begun
  <2>15. \A c \in evicting' : rows'[c].st = "gone"
    BY <1>0, <2>2, <2>11 DEF RowsKnow, AccessTypes
  <2>16. \A q \in AuthReqs : AuthKnows(q)'
    BY <1>0, <2>2, <2>11 DEF RowsKnow, AuthKnows, Begun
  <2> QED BY <2>2, <2>12, <2>13, <2>14, <2>15, <2>16, RowsMoved DEF RowsKnow
<1>2. CASE DeleteUserSessionsExcept
  <2>1. PICK D : D = OtherSessions(password.keep)
    OBVIOUS
  <2>2. /\ password.keep # "none" /\ password' = [password EXCEPT !.keep = "none"] /\ Deleted(D)
        /\ UNCHANGED <<memo, gate, auth, clock>>
    BY <1>2, <2>1 DEF DeleteUserSessionsExcept
  <2>3. D \in SUBSET Creds /\ \A c \in D : Begun(c)
    BY <1>0, <2>1 DEF OtherSessions, LiveRow, Begun
  <2>4. password' \in Passwords /\ password'.keep = "none" /\ password'.gen = password.gen
    BY <1>0, <2>2 DEF Passwords
  <2>5. \A s \in Sessions : s \notin D /\ LiveRow(s) => s = password.keep
    BY <2>1 DEF OtherSessions
  <2>6. rows[password.keep].gen = password.gen
    BY <1>0, <2>2 DEF RowsKnow, PasswordKnows
  <2>7. \A s \in Sessions : s \notin D /\ LiveRow(s) => rows[s].gen = password'.gen
    BY <2>4, <2>5, <2>6
  <2>8. auth' \in [AuthReqs -> Auths] /\ \A q \in AuthReqs : auth'[q] = auth[q] \/ auth'[q].pc = "done"
    BY <1>0, <2>2
  <2> QED BY <2>2, <2>3, <2>4, <2>7, <2>8, DeleteKeeps
<1>3. CASE PasswordWarning
  <2>1. /\ password' = [password EXCEPT !.keep = "none", !.warned = TRUE]
        /\ UNCHANGED <<rows, memo, gate, auth, evicting, clock, ended>>
    BY <1>3 DEF PasswordWarning
  <2>2. password.gen \in 0 .. MaxGen
    BY <1>0 DEF Passwords
  <2>3. password' = [gen |-> password.gen, keep |-> "none", warned |-> TRUE]
    BY <1>0, <2>1 DEF Passwords
  <2>4. password' \in Passwords /\ password'.keep = "none" /\ password'.warned
    BY <2>2, <2>3 DEF Passwords
  <2>5. PasswordKnows' /\ SessionsFollowPassword'
    BY <2>4 DEF PasswordKnows, SessionsFollowPassword
  <2>6. \A q \in AuthReqs : AuthKnows(q)'
    BY <1>0, <2>1 DEF RowsKnow, AuthKnows, Begun
  <2>7. clock' \in 0 .. MaxTime /\ clock =< clock'
    BY <1>0, <2>1
  <2> QED BY <1>0, <2>1, <2>4, <2>5, <2>6, <2>7, OnlyAuth
<1> QED BY <1>1, <1>2, <1>3

LEMMA TimePassesKeeps ==
  ASSUME AccessInv, TimePasses
  PROVE  AccessInv'
<1>1. /\ AccessTypes /\ RowsKnow /\ auth' \in [AuthReqs -> Auths] /\ password' \in Passwords
      /\ clock < MaxTime /\ clock' = clock + 1
      /\ UNCHANGED <<rows, memo, gate, auth, evicting, password, ended>>
  BY DEF TimePasses, AccessInv, AccessTypes
<1>2. clock' \in 0 .. MaxTime /\ clock =< clock'
  BY <1>1, AccessFacts, AccessAssumption
<1>3. \A q \in AuthReqs : AuthKnows(q)'
  BY <1>1 DEF RowsKnow, AuthKnows, Begun
<1>4. PasswordKnows' /\ SessionsFollowPassword'
  BY <1>1 DEF RowsKnow, PasswordKnows, SessionsFollowPassword, Begun, LiveRow
<1> QED BY <1>1, <1>2, <1>3, <1>4, OnlyAuth

\* The memo goes: no later answer of the memo is of this credential, unless a
\* lookup that found the row is still on its way.
LEMMA EvictKeeps ==
  ASSUME AccessInv, NEW c \in Creds, Evict(c)
  PROVE  AccessInv'
<1>0. /\ AccessTypes /\ RowsKnow /\ memo \in [Creds -> 0 .. MaxTime + MemoTTL] /\ ended \in [Creds -> EndTypes]
      /\ ended[c] \in EndTypes /\ rows[c].st = "gone" /\ 0 \in 0 .. MaxTime + MemoTTL
  BY AccessAssumption DEF AccessInv, AccessTypes, RowsKnow, Evict
<1>1. PICK b \in BOOLEAN : b = (\A q \in GateReqs : ~(gate[q].pc = "found" /\ gate[q].cred = c))
  OBVIOUS
<1>2. PICK e : e = [ended[c] EXCEPT !.memo = b]
  OBVIOUS
<1>3. e \in EndTypes /\ e.memo = b /\ e.at = ended[c].at
  BY <1>0, <1>2 DEF EndTypes
<1>4. /\ evicting' = evicting \ {c} /\ memo' = [memo EXCEPT ![c] = 0]
      /\ ended' = [ended EXCEPT ![c].memo = b] /\ UNCHANGED <<rows, gate, auth, password, clock>>
  BY <1>1 DEF Evict
<1>5. ended' = [ended EXCEPT ![c] = e]
  BY <1>0, <1>2, <1>4
<1>6. /\ ended' \in [Creds -> EndTypes] /\ ended'[c] = e /\ \A d \in Creds : d # c => ended'[d] = ended[d]
      /\ memo' \in [Creds -> 0 .. MaxTime + MemoTTL] /\ memo'[c] = 0
      /\ \A d \in Creds : d # c => memo'[d] = memo[d]
  BY <1>0, <1>3, <1>4, <1>5
<1>7. AccessTypes'
  BY <1>0, <1>4, <1>6 DEF AccessTypes
<1>8. RowsKnow'
  BY <1>0, <1>4 DEF RowsKnow, AuthKnows, PasswordKnows, SessionsFollowPassword, Begun, LiveRow
<1>9. \A d \in Creds : ended'[d].at = ended[d].at
  BY <1>3, <1>6
\* Had the memo surely gone before, no lookup has found the row since.
<1>10. ended[c].memo => b
  BY <1>0, <1>1 DEF AccessInv, GateKnows
<1>11. ASSUME NEW q \in GateReqs PROVE GateKnows(q)'
  <2>1. GateKnows(q)
    BY DEF AccessInv
  <2>2. gate[q].pc = "found" /\ gate[q].cred = c => ~b
    BY <1>1
  <2>3. \A d \in Creds : ended[d].memo => ended'[d].memo
    BY <1>3, <1>6, <1>10
  <2>4. gate[q].pc = "found" /\ gate[q].cred \in Creds /\ ~ended[gate[q].cred].memo => ~ended'[gate[q].cred].memo
    BY <1>3, <1>6, <2>2
  <2> QED BY <1>4, <1>9, <2>1, <2>3, <2>4 DEF GateKnows, Begun
<1>12. ASSUME NEW d \in Creds PROVE MemoKnows(d)'
  BY <1>0, <1>4, <1>6, <1>9 DEF AccessInv, MemoKnows, Begun
<1> QED BY <1>7, <1>8, <1>11, <1>12 DEF AccessInv

LEMMA RestartKeepsAccess ==
  ASSUME AccessInv, AccessRestart
  PROVE  AccessInv'
<1>0. /\ AccessTypes /\ RowsKnow /\ password \in Passwords /\ gate \in [GateReqs -> Gates]
      /\ 0 \in 0 .. MaxTime + MemoTTL /\ UNCHANGED <<rows, clock>>
  BY AccessAssumption DEF AccessInv, AccessTypes, AccessRestart
<1>1. memo' \in [Creds -> 0 .. MaxTime + MemoTTL] /\ \A c \in Creds : memo'[c] = 0
  BY <1>0 DEF AccessRestart
<1>2. gate' \in [GateReqs -> Gates] /\ \A q \in GateReqs : gate'[q].pc \in {"idle", "done"}
  BY <1>0, GateConstants DEF AccessRestart
<1>3. auth' \in [AuthReqs -> Auths] /\ \A q \in AuthReqs : auth'[q].pc \in {"idle", "done"}
  BY <1>0, AuthConstants DEF AccessRestart
<1>4. /\ password' \in Passwords /\ password'.keep = "none" /\ password'.gen = password.gen
      /\ ~password'.warned => password.keep = "none" /\ ~password.warned
  <2>1. password.gen \in 0 .. MaxGen /\ password.warned \in BOOLEAN
    BY <1>0 DEF Passwords
  <2>2. PICK w \in BOOLEAN : w = (password.warned \/ password.keep # "none")
    OBVIOUS
  <2>3. password' = [password EXCEPT !.warned = w, !.keep = "none"]
    BY <2>2 DEF AccessRestart
  <2>4. password' = [gen |-> password.gen, keep |-> "none", warned |-> w]
    BY <1>0, <2>3 DEF Passwords
  <2> QED BY <2>1, <2>2, <2>4 DEF Passwords
<1>5. ended' \in [Creds -> EndTypes] /\ \A c \in Creds : ended'[c].memo = (rows[c].st = "gone")
  <2>1. ASSUME NEW c \in Creds
        PROVE  ended'[c] \in EndTypes /\ ended'[c].memo = (rows[c].st = "gone")
    <3>1. PICK b \in BOOLEAN : b = (rows[c].st = "gone")
      OBVIOUS
    <3>2. ended[c] \in EndTypes
      BY <1>0, AccessFacts
    <3>3. ended'[c] = [ended[c] EXCEPT !.memo = b]
      BY <3>1 DEF AccessRestart
    <3> QED BY <3>1, <3>2, <3>3 DEF EndTypes
  <2>2. DOMAIN ended' = Creds /\ ended' = [c \in DOMAIN ended' |-> ended'[c]]
    BY DEF AccessRestart
  <2> QED BY <2>1, <2>2
<1>6. evicting' = {}
  BY DEF AccessRestart
<1>7. AccessTypes'
  BY <1>0, <1>1, <1>2, <1>3, <1>4, <1>5, <1>6 DEF AccessTypes
<1>8. PasswordKnows' /\ SessionsFollowPassword'
  BY <1>0, <1>4 DEF PasswordKnows, RowsKnow, SessionsFollowPassword, LiveRow
<1>9. RowsKnow'
  BY <1>3, <1>6, <1>8 DEF RowsKnow, AuthKnows
<1>10. \A q \in GateReqs : GateKnows(q)'
  BY <1>2 DEF GateKnows
<1>11. \A c \in Creds : MemoKnows(c)'
  BY <1>0, <1>1, <1>5 DEF MemoKnows
<1> QED BY <1>7, <1>9, <1>10, <1>11 DEF AccessInv

LEMMA AccessBegins == AccessInit => AccessInv
<1> SUFFICES ASSUME AccessInit PROVE AccessInv
  OBVIOUS
<1>0. /\ 0 \in 0 .. Never /\ 0 \in 0 .. MaxGen /\ 0 \in 0 .. MaxTime /\ 0 \in 0 .. MaxTime + MemoTTL
  BY AccessAssumption DEF Never
<1>1. /\ rows = [c \in Creds |-> NoRow] /\ memo = [c \in Creds |-> 0]
      /\ gate = [q \in GateReqs |-> NoGate] /\ auth = [q \in AuthReqs |-> NoAuth]
      /\ evicting = {} /\ password = [gen |-> 0, keep |-> "none", warned |-> FALSE]
      /\ clock = 0 /\ ended = [c \in Creds |-> [at |-> 0, memo |-> FALSE]]
  BY DEF AccessInit, AccessStart
<1>2. NoRow \in CredRows /\ NoRow.st = "none"
  BY <1>0 DEF NoRow, CredRows
<1>3. rows \in [Creds -> CredRows] /\ \A c \in Creds : rows[c].st = "none"
  BY <1>1, <1>2
<1>4. gate \in [GateReqs -> Gates] /\ \A q \in GateReqs : gate[q].pc = "idle"
  BY <1>1, GateConstants
<1>5. auth \in [AuthReqs -> Auths] /\ \A q \in AuthReqs : auth[q].pc = "idle"
  BY <1>1, AuthConstants
<1>6. password \in Passwords /\ password.keep = "none"
  BY <1>0, <1>1 DEF Passwords
<1>7. ended \in [Creds -> EndTypes] /\ \A c \in Creds : ~ended[c].memo
  BY <1>0, <1>1 DEF EndTypes
<1>8. AccessTypes
  BY <1>0, <1>1, <1>3, <1>4, <1>5, <1>6, <1>7 DEF AccessTypes
<1>9. SessionsFollowPassword
  BY <1>3 DEF SessionsFollowPassword, LiveRow, Creds
<1>10. RowsKnow
  BY <1>1, <1>5, <1>6, <1>9 DEF RowsKnow, AuthKnows, PasswordKnows
<1>11. \A q \in GateReqs : GateKnows(q)
  BY <1>4 DEF GateKnows
<1>12. \A c \in Creds : MemoKnows(c)
  BY <1>1, <1>7 DEF MemoKnows
<1> QED BY <1>8, <1>10, <1>11, <1>12 DEF AccessInv

LEMMA AccessStepsKeep ==
  ASSUME AccessInv, [AccessNext]_accessVars
  PROVE  AccessInv'
<1>1. ASSUME NEW c \in Creds, CredSteps(c) PROVE AccessInv'
  <2>1. CASE Evict(c)
    BY <2>1, EvictKeeps
  <2>2. CASE Logout(c) \/ DeleteKey(c) \/ delete_api_key(c) \/ \E me \in Sessions : RevokeSession(me, c)
    <3>1. Ends(c)
      BY <2>2 DEF Logout, DeleteKey, delete_api_key, RevokeSession
    <3> QED BY <3>1, EndsKeep
  <2>3. CASE \E q \in GateReqs : GateBegin(q, c)
    BY <2>3, GateSteps
  <2> QED BY <1>1, <2>1, <2>2, <2>3 DEF CredSteps
<1>2. ASSUME NEW q \in GateReqs, GateLookup(q) \/ GateStore(q) \/ GateDone(q) PROVE AccessInv'
  BY <1>2, GateSteps
<1>3. ASSUME NEW q \in AuthReqs, AuthSteps(q) PROVE AccessInv'
  <2>1. CASE LoginCheck(q) \/ \E s \in Sessions : RefreshCheck(q, s)
    BY <2>1, AuthChecksKeep
  <2>2. CASE \E s \in Sessions : LoginSession(q, s) \/ RefreshCreate(q, s)
    BY <2>2, NewSessionsKeep
  <2>3. CASE RefreshDelete(q)
    BY <2>3, RefreshDeleteKeeps
  <2> QED BY <1>3, <2>1, <2>2, <2>3 DEF AuthSteps
<1>4. ASSUME NEW k \in Keys, NEW exp \in {Never, 1, 0}, CreateKey(k, exp) \/ create_api_key(k, exp)
      PROVE  AccessInv'
  BY <1>4, NewKeysKeep
<1>5. ASSUME (\E s \in Sessions : ChangePassword(s)) \/ DeleteUserSessionsExcept \/ PasswordWarning
      PROVE  AccessInv'
  BY <1>5, PasswordStepsKeep
<1>6. ASSUME UNCHANGED accessVars PROVE AccessInv'
  BY <1>6 DEF accessVars, AccessInv, AccessTypes, RowsKnow, AuthKnows, PasswordKnows, SessionsFollowPassword,
              GateKnows, MemoKnows, Begun, LiveRow
<1> QED BY <1>1, <1>2, <1>3, <1>4, <1>5, <1>6, TimePassesKeeps, RestartKeepsAccess DEF AccessNext

\* The gate and its memos (middleware_auth.go): no request gets in on a
\* credential that had ended, row and memo, before it arrived; one that got
\* in on a memo put back meanwhile arrived within a TTL of the end; and after
\* a password change no session of the old password is left but the raced.
THEOREM AccessIsCurrent == AccessSpec => []AccessSafe
<1>1. AccessInv => AccessSafe
  BY DEF AccessInv, RowsKnow, AccessSafe, AdmittedIsCurrent, GateKnows
<1> QED BY <1>1, AccessBegins, AccessStepsKeep, PTL DEF AccessSpec

-----------------------------------------------------------------------------
(* The OAuth server.                                                       *)

AppRows == [st : AppStates, scope : SUBSET Scopes]
CodeRows == [app : Apps, scope : SUBSET Scopes, asked : SUBSET Scopes,
             st : {"unused", "used", "gone"}, age : 0 .. 2]
TokenRows == [app : Apps, scope : SUBSET Scopes, grant : Nat, refresh : BOOLEAN,
              st : {"live", "revoked", "gone"}, age : 0 .. 3]
TokenCalls == [pc : {"idle", "consent", "client", "mint", "rotate"}, app : Apps \cup {"none"},
               row : Nat, scope : SUBSET Scopes, grant : Nat]

OAuthTypes ==
  /\ apps \in [Apps -> AppRows] /\ codes \in Seq(CodeRows) /\ tokens \in Seq(TokenRows)
  /\ treqs \in [TokenReqs -> TokenCalls] /\ withdrawn \subseteq DOMAIN codes

CodeKnows(c) == codes[c].scope \subseteq codes[c].asked

\* A token descends from a code that was redeemed, and a row that is not
\* revoked has its refresh token still.
TokenKnows(t) ==
  LET g == tokens[t].grant
  IN  /\ g \in DOMAIN codes /\ codes[g].st # "unused"
      /\ tokens[t].app = codes[g].app /\ tokens[t].scope \subseteq codes[g].scope
      /\ tokens[t].st = "live" => tokens[t].refresh

\* Of the rows of a grant only the last may have its refresh token.
Superseded ==
  \A t, u \in DOMAIN tokens : t < u /\ tokens[t].grant = tokens[u].grant => ~tokens[t].refresh

\* What a request under way has read.
RequestKnows(q) ==
  LET r == treqs[q]
  IN  /\ r.pc = "consent" => r.app \in Apps /\ apps[r.app].st # "none" /\ r.scope \subseteq apps[r.app].scope
      /\ r.pc = "mint" => /\ r.grant \in DOMAIN codes /\ codes[r.grant].st # "unused"
                          /\ r.app = codes[r.grant].app /\ r.scope \subseteq codes[r.grant].scope
      /\ r.pc = "rotate" => /\ r.row \in DOMAIN tokens /\ r.grant = tokens[r.row].grant
                            /\ r.app = tokens[r.row].app /\ r.scope = tokens[r.row].scope

\* A code that was redeemed and is yet to be minted for has no token, and
\* one request has it.
Pending ==
  \A q \in TokenReqs : treqs[q].pc = "mint" =>
    /\ \A t \in DOMAIN tokens : tokens[t].grant # treqs[q].grant
    /\ \A p \in TokenReqs : treqs[p].pc = "mint" /\ treqs[p].grant = treqs[q].grant => p = q

\* The grant has had its token, and no row or request can bring it back.
Settled(g) ==
  /\ \A t \in DOMAIN tokens : tokens[t].grant = g => tokens[t].st # "live"
  /\ ~Refreshing(g)
  /\ \E t \in DOMAIN tokens : tokens[t].grant = g

Over(g) == apps[codes[g].app].st = "revoked" \/ Settled(g)

GrantInv ==
  /\ OAuthTypes /\ Superseded /\ Pending
  /\ \A c \in DOMAIN codes : CodeKnows(c)
  /\ \A t \in DOMAIN tokens : TokenKnows(t)
  /\ \A q \in TokenReqs : RequestKnows(q)
  /\ \A g \in withdrawn : Over(g)

LimiterInv ==
  /\ halfHour \in Nat /\ credit \in 0 .. DcrCap /\ bucket.left \in 0 .. DcrCap
  /\ bucket.touched \in Nat /\ bucket.touched =< halfHour
  /\ LimiterKeepsCount

OAuthInv == GrantInv /\ LimiterInv

\* What every step does to the tables: no application is forgotten, no code
\* becomes unused, no row becomes live.
AppsKept ==
  \A a \in Apps : /\ apps[a].st # "none" => apps'[a].st # "none" /\ apps'[a].scope = apps[a].scope
                  /\ apps[a].st = "revoked" => apps'[a].st = "revoked"

CodesKept ==
  \A c \in DOMAIN codes :
    /\ c \in DOMAIN codes' /\ codes'[c].app = codes[c].app
    /\ codes'[c].scope = codes[c].scope /\ codes'[c].asked = codes[c].asked
    /\ codes[c].st # "unused" => codes'[c].st # "unused"

TokensKept ==
  \A t \in DOMAIN tokens :
    /\ t \in DOMAIN tokens' /\ tokens'[t].app = tokens[t].app
    /\ tokens'[t].scope = tokens[t].scope /\ tokens'[t].grant = tokens[t].grant
    /\ tokens'[t].refresh => tokens[t].refresh
    /\ tokens'[t].st = "live" => tokens[t].st = "live" /\ tokens'[t].refresh = tokens[t].refresh

TablesKept == AppsKept /\ CodesKept /\ TokensKept

LEMMA OAuthFacts ==
  ASSUME OAuthTypes
  PROVE  /\ \A a \in Apps : apps[a] \in AppRows
         /\ \A c \in DOMAIN codes : codes[c] \in CodeRows /\ c \in Nat
         /\ \A t \in DOMAIN tokens : tokens[t] \in TokenRows /\ t \in Nat
         /\ \A q \in TokenReqs : treqs[q] \in TokenCalls
         /\ DOMAIN codes = 1 .. Len(codes) /\ Len(codes) \in Nat
         /\ DOMAIN tokens = 1 .. Len(tokens) /\ Len(tokens) \in Nat
BY DEF OAuthTypes

LEMMA SameLengthSeq ==
  ASSUME NEW S, NEW s \in Seq(S), NEW f, DOMAIN f = DOMAIN s, f = [i \in DOMAIN f |-> f[i]],
         \A i \in DOMAIN s : f[i] \in S
  PROVE  f \in Seq(S)
<1>1. Len(s) \in Nat /\ DOMAIN s = 1 .. Len(s)
  OBVIOUS
<1>2. f \in [1 .. Len(s) -> S]
  BY <1>1
<1> QED BY <1>1, <1>2, SeqDef

\* The tables keep what they know when rows only fade; what is new is shown
\* by each step.
LEMMA GrantMoves ==
  ASSUME GrantInv, OAuthTypes', TablesKept, Superseded', Pending',
         \A c \in DOMAIN codes' : c \notin DOMAIN codes => CodeKnows(c)',
         \A t \in DOMAIN tokens' : t \notin DOMAIN tokens => TokenKnows(t)',
         \A q \in TokenReqs : treqs'[q] = treqs[q] \/ treqs'[q].pc = "idle" \/ RequestKnows(q)',
         \A g \in withdrawn' : Over(g)'
  PROVE  GrantInv'
<1>1. \A c \in DOMAIN codes' : CodeKnows(c)'
  BY DEF GrantInv, TablesKept, CodesKept, CodeKnows
<1>2. ASSUME NEW t \in DOMAIN tokens', t \in DOMAIN tokens PROVE TokenKnows(t)'
  BY <1>2 DEF GrantInv, TablesKept, CodesKept, TokensKept, TokenKnows
<1>3. ASSUME NEW q \in TokenReqs PROVE RequestKnows(q)'
  <2>1. CASE treqs'[q] = treqs[q]
    BY <2>1 DEF GrantInv, TablesKept, AppsKept, CodesKept, TokensKept, RequestKnows
  <2>2. CASE treqs'[q].pc = "idle"
    BY <2>2 DEF RequestKnows
  <2> QED BY <2>1, <2>2
<1> QED BY <1>1, <1>2, <1>3 DEF GrantInv

LEMMA SupersededKept ==
  ASSUME GrantInv, TablesKept, DOMAIN tokens' = DOMAIN tokens
  PROVE  Superseded'
BY DEF GrantInv, Superseded, TablesKept, TokensKept

LEMMA PendingKept ==
  ASSUME GrantInv, TablesKept, DOMAIN tokens' = DOMAIN tokens,
         \A q \in TokenReqs : treqs'[q] = treqs[q] \/ treqs'[q].pc # "mint"
  PROVE  Pending'
BY DEF GrantInv, Pending, TablesKept, TokensKept

LEMMA OverKept ==
  ASSUME GrantInv, TablesKept, NEW g \in DOMAIN codes, Over(g),
         \A t \in DOMAIN tokens' : t \notin DOMAIN tokens => tokens'[t].grant # g \/ ~Settled(g),
         \A q \in TokenReqs : \/ treqs'[q] = treqs[q] \/ treqs'[q].pc # "rotate"
                              \/ treqs'[q].grant # g \/ ~Settled(g)
  PROVE  Over(g)'
<1>1. CASE apps[codes[g].app].st = "revoked"
  <2>1. codes'[g].app = codes[g].app
    BY DEF TablesKept, CodesKept
  <2>2. codes[g].app \in Apps
    BY OAuthFacts DEF GrantInv, CodeRows
  <2> QED BY <1>1, <2>1, <2>2 DEF Over, TablesKept, AppsKept
<1>2. CASE Settled(g)
  <2>1. \A t \in DOMAIN tokens' : tokens'[t].grant = g => tokens'[t].st # "live"
    BY <1>2 DEF Settled, TablesKept, TokensKept
  <2>2. ~Refreshing(g)'
    BY <1>2 DEF Settled, Refreshing
  <2>3. \E t \in DOMAIN tokens' : tokens'[t].grant = g
    BY <1>2 DEF Settled, TablesKept, TokensKept
  <2> QED BY <2>1, <2>2, <2>3 DEF Over, Settled
<1> QED BY <1>1, <1>2 DEF Over

LEMMA OversKept ==
  ASSUME GrantInv, TablesKept, DOMAIN tokens' = DOMAIN tokens,
         \A q \in TokenReqs : treqs'[q] = treqs[q] \/ treqs'[q].pc # "rotate"
  PROVE  \A g \in withdrawn : Over(g)'
<1>1. \A g \in withdrawn : g \in DOMAIN codes /\ Over(g)
  BY DEF GrantInv, OAuthTypes
<1> QED BY <1>1, OverKept

LEMMA TablesStill ==
  ASSUME GrantInv, UNCHANGED apps \/ AppsKept, UNCHANGED codes \/ CodesKept, UNCHANGED tokens \/ TokensKept
  PROVE  TablesKept
BY DEF TablesKept, AppsKept, CodesKept, TokensKept

\* Rows and applications fade; no request moves.
LEMMA RowsFade ==
  ASSUME GrantInv, OAuthTypes', TablesKept, DOMAIN tokens' = DOMAIN tokens, DOMAIN codes' = DOMAIN codes,
         treqs' = treqs, \A g \in withdrawn' : g \in withdrawn \/ Over(g)'
  PROVE  GrantInv'
<1>1. Superseded' /\ Pending' /\ \A g \in withdrawn : Over(g)'
  BY SupersededKept, PendingKept, OversKept
<1> QED BY <1>1, GrantMoves

\* A request moves, and no table does; it does not get to mint.
LEMMA RequestMoves ==
  ASSUME GrantInv, NEW q \in TokenReqs, NEW r \in TokenCalls, treqs' = [treqs EXCEPT ![q] = r],
         r.pc # "mint", r.pc = "rotate" => ~Settled(r.grant), treqs'[q] = r => RequestKnows(q)',
         UNCHANGED <<apps, codes, tokens, withdrawn>>
  PROVE  GrantInv'
<1>1. treqs \in [TokenReqs -> TokenCalls]
  BY DEF GrantInv, OAuthTypes
<1>2. treqs' \in [TokenReqs -> TokenCalls] /\ treqs'[q] = r /\ \A p \in TokenReqs : p # q => treqs'[p] = treqs[p]
  BY <1>1
<1>3. OAuthTypes' /\ TablesKept
  BY <1>2, TablesStill DEF GrantInv, OAuthTypes
<1>4. Superseded' /\ Pending'
  BY <1>2, <1>3, SupersededKept, PendingKept
<1>5. ASSUME NEW g \in withdrawn PROVE Over(g)'
  <2>1. g \in DOMAIN codes /\ Over(g)
    BY DEF GrantInv, OAuthTypes
  <2>2. ASSUME NEW p \in TokenReqs
        PROVE  treqs'[p] = treqs[p] \/ treqs'[p].pc # "rotate" \/ treqs'[p].grant # g \/ ~Settled(g)
    BY <1>2
  <2> QED BY <1>3, <2>1, <2>2, OverKept
<1> QED BY <1>2, <1>3, <1>4, <1>5, GrantMoves

LEMMA NoReqIs == NoReq \in TokenCalls /\ NoReq.pc = "idle"
BY DEF NoReq, TokenCalls

\* A request ends, or a table reads for it.
LEMMA ReadsKeep ==
  ASSUME GrantInv, NEW q \in TokenReqs,
         \/ \E a \in Apps : TokenClient(q, a) \/ \E asked \in SUBSET Scopes : AuthorizeRead(q, a, asked)
         \/ \E t \in DOMAIN tokens : RefreshGrantRead(q, t)
         \/ TokenAbandoned(q)
  PROVE  GrantInv'
<1>0. /\ OAuthTypes /\ treqs[q] \in TokenCalls
      /\ UNCHANGED <<apps, codes, tokens, withdrawn>>
  BY DEF GrantInv, OAuthTypes, TokenClient, AuthorizeRead, RefreshGrantRead, TokenAbandoned
<1>1. CASE TokenAbandoned(q)
  <2>1. treqs' = [treqs EXCEPT ![q] = NoReq]
    BY <1>1 DEF TokenAbandoned
  <2>2. treqs'[q] = NoReq => RequestKnows(q)'
    BY NoReqIs DEF RequestKnows
  <2> QED BY <1>0, <2>1, <2>2, NoReqIs, RequestMoves
<1>2. CASE \E a \in Apps : TokenClient(q, a)
  <2>1. PICK a \in Apps : TokenClient(q, a)
    BY <1>2
  <2>2. PICK r : r = [NoReq EXCEPT !.pc = "client", !.app = a]
    OBVIOUS
  <2>3. r = [pc |-> "client", app |-> a, row |-> 0, scope |-> {}, grant |-> 0]
    BY <2>2 DEF NoReq
  <2>4. r \in TokenCalls /\ r.pc = "client"
    BY <2>3 DEF TokenCalls
  <2>5. treqs' = [treqs EXCEPT ![q] = r]
    BY <2>1, <2>2 DEF TokenClient
  <2>6. treqs'[q] = r => RequestKnows(q)'
    BY <2>4 DEF RequestKnows
  <2> QED BY <1>0, <2>4, <2>5, <2>6, RequestMoves
<1>3. CASE \E a \in Apps, asked \in SUBSET Scopes : AuthorizeRead(q, a, asked)
  <2>1. PICK a \in Apps, asked \in SUBSET Scopes : AuthorizeRead(q, a, asked)
    BY <1>3
  <2>2. PICK s : s = Ceiling(asked, apps[a].scope)
    OBVIOUS
  <2>3. apps[a] \in AppRows
    BY <1>0, OAuthFacts
  <2>4. s \subseteq apps[a].scope /\ apps[a].scope \in SUBSET Scopes
    BY <2>2, <2>3 DEF AppRows, Ceiling
  <2>5. PICK r : r = [NoReq EXCEPT !.pc = "consent", !.app = a, !.scope = s]
    OBVIOUS
  <2>6. r = [pc |-> "consent", app |-> a, row |-> 0, scope |-> s, grant |-> 0]
    BY <2>5 DEF NoReq
  <2>7. r \in TokenCalls /\ r.pc = "consent" /\ r.app = a /\ r.scope = s
    BY <2>4, <2>6 DEF TokenCalls
  <2>8. treqs' = [treqs EXCEPT ![q] = r] /\ apps[a].st = "live"
    BY <2>1, <2>2, <2>5 DEF AuthorizeRead, Live
  <2>9. treqs'[q] = r => RequestKnows(q)'
    BY <1>0, <2>4, <2>7, <2>8 DEF RequestKnows
  <2> QED BY <1>0, <2>7, <2>8, <2>9, RequestMoves
<1>4. CASE \E t \in DOMAIN tokens : RefreshGrantRead(q, t)
  <2>1. PICK t \in DOMAIN tokens : RefreshGrantRead(q, t)
    BY <1>4
  <2>2. PICK r : r = [treqs[q] EXCEPT !.pc = "rotate", !.row = t, !.scope = tokens[t].scope, !.grant = tokens[t].grant]
    OBVIOUS
  <2>3. r = [pc |-> "rotate", app |-> treqs[q].app, row |-> t, scope |-> tokens[t].scope,
             grant |-> tokens[t].grant]
    BY <1>0, <2>2 DEF TokenCalls
  <2>4. tokens[t] \in TokenRows /\ t \in Nat
    BY <1>0, OAuthFacts
  <2>5. tokens[t].scope \in SUBSET Scopes /\ tokens[t].grant \in Nat /\ treqs[q].app \in Apps \cup {"none"}
    BY <1>0, <2>4 DEF TokenRows, TokenCalls
  <2>6. r \in TokenCalls
    BY <2>3, <2>4, <2>5 DEF TokenCalls
  <2>7. /\ r.pc = "rotate" /\ r.row = t /\ r.grant = tokens[t].grant /\ r.app = treqs[q].app
        /\ r.scope = tokens[t].scope
    BY <2>3
  <2>8. treqs' = [treqs EXCEPT ![q] = r] /\ tokens[t].app = treqs[q].app /\ tokens[t].st = "live"
    BY <2>1, <2>2 DEF RefreshGrantRead
  <2>9. treqs'[q] = r => RequestKnows(q)'
    BY <1>0, <2>7, <2>8 DEF RequestKnows
  <2>10. ~Settled(r.grant)
    BY <2>7, <2>8 DEF Settled
  <2> QED BY <1>0, <2>6, <2>7, <2>8, <2>9, <2>10, RequestMoves
<1> QED BY <1>1, <1>2, <1>3, <1>4

\* Consent writes the code, with what the application registered.
LEMMA AuthorizeInsertKeeps ==
  ASSUME GrantInv, NEW q \in TokenReqs, AuthorizeInsert(q)
  PROVE  GrantInv'
<1>0. /\ OAuthTypes /\ treqs[q] \in TokenCalls /\ treqs \in [TokenReqs -> TokenCalls] /\ codes \in Seq(CodeRows)
      /\ treqs[q].pc = "consent" /\ treqs' = [treqs EXCEPT ![q] = NoReq]
      /\ UNCHANGED <<apps, tokens, withdrawn>> /\ withdrawn \subseteq DOMAIN codes /\ RequestKnows(q)
  BY DEF GrantInv, OAuthTypes, AuthorizeInsert
<1>1. PICK a : a = treqs[q].app
  OBVIOUS
<1>2. a \in Apps /\ treqs[q].scope \subseteq apps[a].scope /\ apps[a] \in AppRows
  BY <1>0, <1>1, OAuthFacts DEF RequestKnows
<1>3. apps[a].scope \in SUBSET Scopes /\ treqs[q].scope \in SUBSET Scopes
  BY <1>0, <1>2 DEF AppRows, TokenCalls
<1>4. PICK c : c = [app |-> a, scope |-> treqs[q].scope, asked |-> apps[a].scope, st |-> "unused", age |-> 0]
  OBVIOUS
<1>5. c \in CodeRows /\ c.scope \subseteq c.asked
  BY <1>2, <1>3, <1>4 DEF CodeRows
<1>6. codes' = Append(codes, c)
  BY <1>1, <1>4 DEF AuthorizeInsert
<1>7. /\ codes' \in Seq(CodeRows) /\ DOMAIN codes' = 1 .. Len(codes) + 1 /\ DOMAIN codes = 1 .. Len(codes)
      /\ \A i \in DOMAIN codes : codes'[i] = codes[i]
      /\ codes'[Len(codes) + 1] = c /\ Len(codes) \in Nat
  BY <1>0, <1>5, <1>6
<1>8. DOMAIN codes \subseteq DOMAIN codes' /\ \A i \in DOMAIN codes' : i \notin DOMAIN codes => codes'[i] = c
  BY <1>7
<1>9. treqs' \in [TokenReqs -> TokenCalls] /\ treqs'[q] = NoReq /\ \A p \in TokenReqs : p # q => treqs'[p] = treqs[p]
  BY <1>0, NoReqIs
<1>10. OAuthTypes'
  BY <1>0, <1>7, <1>8, <1>9 DEF OAuthTypes
<1>11. TablesKept
  <2>1. CodesKept
    BY <1>7, <1>8 DEF CodesKept
  <2> QED BY <1>0, <2>1, TablesStill
<1>12. \A p \in TokenReqs : treqs'[p] = treqs[p] \/ treqs'[p].pc = "idle"
  BY <1>9, NoReqIs
<1>13. Superseded' /\ Pending' /\ \A g \in withdrawn : Over(g)'
  BY <1>0, <1>11, <1>12, SupersededKept, PendingKept, OversKept
<1>14. \A i \in DOMAIN codes' : i \notin DOMAIN codes => CodeKnows(i)'
  BY <1>5, <1>8 DEF CodeKnows
<1> QED BY <1>0, <1>10, <1>11, <1>12, <1>13, <1>14, GrantMoves

\* The code is burned: no token and no other request has it.
LEMMA RedeemKeeps ==
  ASSUME GrantInv, NEW q \in TokenReqs, NEW c \in DOMAIN codes, NEW m \in BOOLEAN,
         RedeemOAuthAuthorizationCode(q, c, m)
  PROVE  GrantInv'
<1>0. /\ OAuthTypes /\ treqs[q] \in TokenCalls /\ treqs \in [TokenReqs -> TokenCalls] /\ codes \in Seq(CodeRows)
      /\ codes[c].st = "unused" /\ codes' = [codes EXCEPT ![c].st = "used"]
      /\ UNCHANGED <<apps, tokens, withdrawn>> /\ withdrawn \subseteq DOMAIN codes
  BY DEF GrantInv, OAuthTypes, RedeemOAuthAuthorizationCode, Redeemable
<1>1. codes[c] \in CodeRows /\ c \in Nat
  BY <1>0, OAuthFacts
<1>2. PICK d : d = [codes[c] EXCEPT !.st = "used"]
  OBVIOUS
<1>3. d \in CodeRows /\ d.st = "used" /\ d.app = codes[c].app /\ d.scope = codes[c].scope /\ d.asked = codes[c].asked
  BY <1>1, <1>2 DEF CodeRows
<1>4. codes' = [codes EXCEPT ![c] = d]
  BY <1>0, <1>2
<1>5. /\ codes' \in Seq(CodeRows) /\ DOMAIN codes' = DOMAIN codes /\ codes'[c] = d
      /\ \A i \in DOMAIN codes : i # c => codes'[i] = codes[i]
  BY <1>0, <1>3, <1>4
<1>6. TablesKept
  <2>1. CodesKept
    BY <1>3, <1>5 DEF CodesKept
  <2> QED BY <1>0, <2>1, TablesStill
<1>7. PICK r \in TokenCalls :
         /\ treqs' = [treqs EXCEPT ![q] = r]
         /\ \/ r.pc = "idle"
            \/ r.pc = "mint" /\ r.grant = c /\ r.scope = codes[c].scope /\ r.app = codes[c].app
  <2>1. CASE m /\ codes[c].app = treqs[q].app
    <3>1. PICK r : r = [treqs[q] EXCEPT !.pc = "mint", !.scope = codes[c].scope, !.grant = c]
      OBVIOUS
    <3>2. r = [pc |-> "mint", app |-> treqs[q].app, row |-> treqs[q].row, scope |-> codes[c].scope, grant |-> c]
      BY <1>0, <3>1 DEF TokenCalls
    <3>3. codes[c].scope \in SUBSET Scopes /\ treqs[q].app \in Apps \cup {"none"} /\ treqs[q].row \in Nat
      BY <1>0, <1>1 DEF CodeRows, TokenCalls
    <3>4. r \in TokenCalls
      BY <1>1, <3>2, <3>3 DEF TokenCalls
    <3>5. treqs' = [treqs EXCEPT ![q] = r]
      BY <2>1, <3>1 DEF RedeemOAuthAuthorizationCode
    <3>6. r.pc = "mint" /\ r.grant = c /\ r.scope = codes[c].scope /\ r.app = codes[c].app
      BY <2>1, <3>2
    <3> QED BY <3>4, <3>5, <3>6
  <2>2. CASE ~(m /\ codes[c].app = treqs[q].app)
    <3>1. treqs' = [treqs EXCEPT ![q] = NoReq]
      BY <2>2 DEF RedeemOAuthAuthorizationCode
    <3> QED BY <3>1, NoReqIs
  <2> QED BY <2>1, <2>2
<1>8. treqs' \in [TokenReqs -> TokenCalls] /\ treqs'[q] = r /\ \A p \in TokenReqs : p # q => treqs'[p] = treqs[p]
  BY <1>0, <1>7
<1>9. OAuthTypes'
  BY <1>0, <1>5, <1>8 DEF OAuthTypes
<1>10. Superseded'
  BY <1>0, <1>6, SupersededKept
<1>11. \A g \in withdrawn : Over(g)'
  BY <1>0, <1>6, <1>7, <1>8, OversKept
<1>12. RequestKnows(q)'
  BY <1>3, <1>5, <1>7, <1>8 DEF RequestKnows
<1>13. Pending'
  <2>1. \A t \in DOMAIN tokens : tokens[t].grant # c
    BY <1>0 DEF GrantInv, TokenKnows
  <2>2. \A p \in TokenReqs : treqs[p].pc = "mint" => treqs[p].grant # c
    BY <1>0 DEF GrantInv, RequestKnows
  <2>3. Pending
    BY DEF GrantInv
  <2> QED BY <1>0, <1>7, <1>8, <2>1, <2>2, <2>3 DEF Pending
<1>14. \A p \in TokenReqs : treqs'[p] = treqs[p] \/ RequestKnows(p)'
  BY <1>8, <1>12
<1> QED BY <1>0, <1>5, <1>6, <1>9, <1>10, <1>11, <1>13, <1>14, GrantMoves

LEMMA TokenIs ==
  ASSUME OAuthTypes, NEW q \in TokenReqs, treqs[q].app \in Apps
  PROVE  /\ Token(q) \in TokenRows /\ Token(q).grant = treqs[q].grant /\ Token(q).app = treqs[q].app
         /\ Token(q).scope = treqs[q].scope /\ Token(q).refresh /\ Token(q).st = "live" /\ Token(q).age = 0
<1>1. treqs[q] \in TokenCalls
  BY OAuthFacts
<1>2. treqs[q].scope \in SUBSET Scopes /\ treqs[q].grant \in Nat
  BY <1>1 DEF TokenCalls
<1> QED BY <1>2 DEF Token, TokenRows

LEMMA SameInterval ==
  ASSUME NEW a \in Nat, NEW b \in Nat, 1 .. a = 1 .. b
  PROVE  a = b
<1>1. CASE a < b
  <2>1. b \in 1 .. b /\ b \notin 1 .. a
    BY <1>1
  <2> QED BY <2>1
<1>2. CASE b < a
  <2>1. a \in 1 .. a /\ a \notin 1 .. b
    BY <1>2
  <2> QED BY <2>1
<1> QED BY <1>1, <1>2

\* A row is added for a request that knows its grant: the rows of that grant
\* have given up their refresh tokens, and it was not settled.
LEMMA TokenAdded ==
  ASSUME GrantInv, NEW q \in TokenReqs, NEW m \in Seq(TokenRows), NEW k \in TokenRows,
         tokens' = Append(m, k), DOMAIN m = DOMAIN tokens, TokensKept,
         treqs' = [treqs EXCEPT ![q] = NoReq], UNCHANGED <<apps, codes, withdrawn>>,
         k.grant \in DOMAIN codes, codes[k.grant].st # "unused", k.app = codes[k.grant].app,
         k.scope \subseteq codes[k.grant].scope, k.refresh,
         \A t \in DOMAIN m : m[t].grant = k.grant => ~m[t].refresh,
         ~Settled(k.grant),
         \A p \in TokenReqs : p # q /\ treqs[p].pc = "mint" => treqs[p].grant # k.grant
  PROVE  GrantInv'
<1>0. /\ OAuthTypes /\ treqs \in [TokenReqs -> TokenCalls] /\ tokens \in Seq(TokenRows)
      /\ withdrawn \subseteq DOMAIN codes
  BY DEF GrantInv, OAuthTypes
<1>1. PICK n : n = Len(tokens) + 1
  OBVIOUS
<1>2. Len(m) = Len(tokens) /\ DOMAIN tokens = 1 .. Len(tokens) /\ Len(tokens) \in Nat
  <2>1. DOMAIN m = 1 .. Len(m) /\ DOMAIN tokens = 1 .. Len(tokens) /\ Len(m) \in Nat /\ Len(tokens) \in Nat
    BY <1>0
  <2> QED BY <2>1, SameInterval
<1>3. /\ tokens' \in Seq(TokenRows) /\ DOMAIN tokens' = 1 .. Len(tokens) + 1
      /\ \A t \in DOMAIN tokens : tokens'[t] = m[t]
      /\ tokens'[n] = k
  BY <1>1, <1>2
<1>4. /\ \A t \in DOMAIN tokens' : t = n \/ t \in DOMAIN tokens
      /\ \A t \in DOMAIN tokens : t \in Nat /\ t < n
  BY <1>1, <1>2, <1>3
<1>5. treqs' \in [TokenReqs -> TokenCalls] /\ treqs'[q] = NoReq /\ \A p \in TokenReqs : p # q => treqs'[p] = treqs[p]
  BY <1>0, NoReqIs
<1>6. OAuthTypes' /\ TablesKept
  <2>1. OAuthTypes'
    BY <1>0, <1>3, <1>5 DEF OAuthTypes
  <2> QED BY <2>1, TablesStill
<1>7. Superseded'
  <2> SUFFICES ASSUME NEW t \in DOMAIN tokens', NEW u \in DOMAIN tokens', t < u,
                      tokens'[t].grant = tokens'[u].grant
               PROVE  ~tokens'[t].refresh
    BY DEF Superseded
  <2>1. t # n
    BY <1>1, <1>2, <1>3, <1>4
  <2>2. t \in DOMAIN tokens /\ tokens'[t] = m[t]
    BY <1>3, <1>4, <2>1
  <2>3. CASE u = n
    BY <1>3, <2>2, <2>3
  <2>4. CASE u # n
    <3>1. u \in DOMAIN tokens
      BY <1>4, <2>4
    <3>2. tokens[t].grant = tokens[u].grant /\ (tokens'[t].refresh => tokens[t].refresh)
      BY <2>2, <3>1 DEF TokensKept
    <3> QED BY <2>2, <3>1, <3>2 DEF GrantInv, Superseded
  <2> QED BY <2>3, <2>4
<1>8. Pending'
  <2> SUFFICES ASSUME NEW p \in TokenReqs, treqs'[p].pc = "mint"
               PROVE  /\ \A t \in DOMAIN tokens' : tokens'[t].grant # treqs'[p].grant
                      /\ \A o \in TokenReqs : treqs'[o].pc = "mint" /\ treqs'[o].grant = treqs'[p].grant => o = p
    BY DEF Pending
  <2>1. p # q /\ treqs'[p] = treqs[p]
    BY <1>5, NoReqIs
  <2>2. \A o \in TokenReqs : treqs'[o].pc = "mint" => treqs'[o] = treqs[o]
    BY <1>5, NoReqIs
  <2>3. treqs[p].grant # k.grant
    BY <2>1
  <2>4. \A t \in DOMAIN tokens : tokens'[t].grant = tokens[t].grant
    BY DEF TokensKept
  <2>5. \A t \in DOMAIN tokens' : tokens'[t].grant # treqs'[p].grant
    BY <1>3, <1>4, <2>1, <2>3, <2>4 DEF GrantInv, Pending
  <2> QED BY <2>1, <2>2, <2>5 DEF GrantInv, Pending
<1>9. ASSUME NEW g \in withdrawn PROVE Over(g)'
  <2>1. g \in DOMAIN codes /\ Over(g)
    BY <1>0 DEF GrantInv
  <2>2. \A t \in DOMAIN tokens' : t \notin DOMAIN tokens => tokens'[t].grant # g \/ ~Settled(g)
    BY <1>3, <1>4
  <2>3. \A p \in TokenReqs : treqs'[p] = treqs[p] \/ treqs'[p].pc # "rotate"
    BY <1>5, NoReqIs
  <2> QED BY <1>6, <2>1, <2>2, <2>3, OverKept
<1>10. ASSUME NEW t \in DOMAIN tokens', t \notin DOMAIN tokens PROVE TokenKnows(t)'
  <2>1. tokens'[t] = k
    BY <1>3, <1>4, <1>10
  <2> QED BY <2>1 DEF TokenKnows
<1>11. \A p \in TokenReqs : treqs'[p] = treqs[p] \/ treqs'[p].pc = "idle"
  BY <1>5, NoReqIs
<1> QED BY <1>6, <1>7, <1>8, <1>9, <1>10, <1>11, GrantMoves

LEMMA MintKeeps ==
  ASSUME GrantInv, NEW q \in TokenReqs, MintTokenPair(q)
  PROVE  GrantInv'
<1>0. /\ OAuthTypes /\ tokens \in Seq(TokenRows) /\ treqs[q].pc = "mint" /\ tokens' = Append(tokens, Token(q))
      /\ treqs' = [treqs EXCEPT ![q] = NoReq] /\ UNCHANGED <<apps, codes, withdrawn>>
      /\ RequestKnows(q) /\ Pending
  BY DEF GrantInv, OAuthTypes, MintTokenPair
<1>1. PICK g : g = treqs[q].grant
  OBVIOUS
<1>2. /\ g \in DOMAIN codes /\ codes[g].st # "unused" /\ treqs[q].app = codes[g].app
      /\ treqs[q].scope \subseteq codes[g].scope
  BY <1>0, <1>1 DEF RequestKnows
<1>3. treqs[q].app \in Apps
  <2>1. codes[g] \in CodeRows
    BY <1>0, <1>2, OAuthFacts
  <2> QED BY <1>2, <2>1 DEF CodeRows
<1>4. PICK k : k = Token(q)
  OBVIOUS
<1>5. k \in TokenRows /\ k.grant = g /\ k.app = treqs[q].app /\ k.scope = treqs[q].scope /\ k.refresh
  BY <1>0, <1>1, <1>3, <1>4, TokenIs
<1>6. \A t \in DOMAIN tokens : tokens[t].grant # g
  BY <1>0, <1>1 DEF Pending
<1>7. TokensKept
  <2>1. /\ DOMAIN tokens' = 1 .. Len(tokens) + 1 /\ DOMAIN tokens = 1 .. Len(tokens) /\ Len(tokens) \in Nat
        /\ \A t \in DOMAIN tokens : tokens'[t] = tokens[t]
    BY <1>0, <1>4, <1>5
  <2>2. DOMAIN tokens \subseteq DOMAIN tokens'
    BY <2>1
  <2> QED BY <2>1, <2>2 DEF TokensKept
<1>8. ~Settled(g)
  BY <1>6 DEF Settled
<1>9. \A p \in TokenReqs : p # q /\ treqs[p].pc = "mint" => treqs[p].grant # g
  BY <1>0, <1>1 DEF Pending
<1>10. /\ k.grant \in DOMAIN codes /\ codes[k.grant].st # "unused" /\ k.app = codes[k.grant].app
       /\ k.scope \subseteq codes[k.grant].scope /\ k.refresh /\ ~Settled(k.grant)
       /\ \A t \in DOMAIN tokens : tokens[t].grant = k.grant => ~tokens[t].refresh
       /\ \A p \in TokenReqs : p # q /\ treqs[p].pc = "mint" => treqs[p].grant # k.grant
  BY <1>2, <1>5, <1>6, <1>8, <1>9
<1>11. tokens' = Append(tokens, k)
  BY <1>0, <1>4
<1> QED BY <1>0, <1>5, <1>7, <1>10, <1>11, TokenAdded

\* One transaction of the rotation: what it does to the row that had the
\* refresh token.
LEMMA RotatedRow ==
  ASSUME OAuthTypes, NEW t \in DOMAIN tokens, NEW m,
         m = [tokens EXCEPT ![t].refresh = FALSE, ![t].st = "revoked"]
  PROVE  /\ m \in Seq(TokenRows) /\ DOMAIN m = DOMAIN tokens
         /\ \A u \in DOMAIN tokens : u # t => m[u] = tokens[u]
         /\ ~m[t].refresh /\ m[t].st = "revoked" /\ m[t].grant = tokens[t].grant
         /\ m[t].app = tokens[t].app /\ m[t].scope = tokens[t].scope
<1>1. tokens \in Seq(TokenRows) /\ tokens[t] \in TokenRows
  BY OAuthFacts DEF OAuthTypes
<1>2. PICK r : r = [tokens[t] EXCEPT !.refresh = FALSE, !.st = "revoked"]
  OBVIOUS
<1>3. r = [app |-> tokens[t].app, scope |-> tokens[t].scope, grant |-> tokens[t].grant, refresh |-> FALSE,
           st |-> "revoked", age |-> tokens[t].age]
  BY <1>1, <1>2 DEF TokenRows
<1>4. r \in TokenRows
  <2>1. /\ tokens[t].app \in Apps /\ tokens[t].scope \in SUBSET Scopes /\ tokens[t].grant \in Nat
        /\ tokens[t].age \in 0 .. 3
    BY <1>1 DEF TokenRows
  <2> QED BY <1>3, <2>1 DEF TokenRows
<1>5. m = [tokens EXCEPT ![t] = r]
  BY <1>1, <1>2
<1>6. DOMAIN m = DOMAIN tokens /\ m[t] = r /\ \A u \in DOMAIN tokens : u # t => m[u] = tokens[u]
  BY <1>5
<1>7. \A u \in DOMAIN tokens : m[u] \in TokenRows
  BY <1>4, <1>6, OAuthFacts
<1>8. m = [u \in DOMAIN m |-> m[u]]
  BY <1>5
<1>9. m \in Seq(TokenRows)
  BY <1>1, <1>6, <1>7, <1>8, SameLengthSeq, ZenonT(60)
<1> QED BY <1>3, <1>6, <1>9, ZenonT(60)

LEMMA RotateKeeps ==
  ASSUME GrantInv, NEW q \in TokenReqs, RotateOAuthRefreshToken(q)
  PROVE  GrantInv'
<1>0. /\ OAuthTypes /\ tokens \in Seq(TokenRows) /\ treqs[q].pc = "rotate"
      /\ treqs' = [treqs EXCEPT ![q] = NoReq] /\ UNCHANGED <<apps, codes, withdrawn>>
      /\ RequestKnows(q) /\ Pending
  BY DEF GrantInv, OAuthTypes, RotateOAuthRefreshToken
<1>1. PICK t : t = treqs[q].row
  OBVIOUS
<1>2. PICK g : g = treqs[q].grant
  OBVIOUS
<1>3. /\ t \in DOMAIN tokens /\ g = tokens[t].grant /\ treqs[q].app = tokens[t].app
      /\ treqs[q].scope = tokens[t].scope
  BY <1>0, <1>1, <1>2 DEF RequestKnows
<1>4. CASE ~(tokens[t].refresh /\ tokens[t].st # "gone")
  <2>1. tokens' = tokens
    BY <1>1, <1>4 DEF RotateOAuthRefreshToken
  <2>2. treqs'[q] = NoReq => RequestKnows(q)'
    BY NoReqIs DEF RequestKnows
  <2> QED BY <1>0, <2>1, <2>2, NoReqIs, RequestMoves
<1>5. CASE tokens[t].refresh /\ tokens[t].st # "gone"
  <2>1. PICK m : m = [tokens EXCEPT ![t].refresh = FALSE, ![t].st = "revoked"]
    OBVIOUS
  <2>2. PICK k : k = Token(q)
    OBVIOUS
  <2>3. tokens' = Append(m, k)
    BY <1>1, <1>5, <2>1, <2>2 DEF RotateOAuthRefreshToken
  <2>4. /\ m \in Seq(TokenRows) /\ DOMAIN m = DOMAIN tokens
        /\ \A u \in DOMAIN tokens : u # t => m[u] = tokens[u]
        /\ ~m[t].refresh /\ m[t].st = "revoked" /\ m[t].grant = tokens[t].grant
        /\ m[t].app = tokens[t].app /\ m[t].scope = tokens[t].scope
    BY <1>0, <1>3, <2>1, RotatedRow
  <2>5. /\ g \in DOMAIN codes /\ codes[g].st # "unused" /\ tokens[t].app = codes[g].app
        /\ tokens[t].scope \subseteq codes[g].scope /\ tokens[t] \in TokenRows
    BY <1>0, <1>3, OAuthFacts DEF GrantInv, TokenKnows
  <2>6. treqs[q].app \in Apps
    BY <1>3, <2>5 DEF TokenRows
  <2>7. k \in TokenRows /\ k.grant = g /\ k.app = treqs[q].app /\ k.scope = treqs[q].scope /\ k.refresh
    BY <1>0, <1>2, <2>2, <2>6, TokenIs
  \* The row with the refresh token is the last of its grant.
  <2>8. \A u \in DOMAIN m : m[u].grant = g => ~m[u].refresh
    <3> SUFFICES ASSUME NEW u \in DOMAIN tokens, m[u].grant = g PROVE ~m[u].refresh
      BY <2>4
    <3>1. CASE u = t
      BY <2>4, <3>1
    <3>2. CASE u # t
      <4>1. m[u] = tokens[u] /\ tokens[u].grant = tokens[t].grant
        BY <1>3, <2>4, <3>2
      <4>2. u \in Nat /\ t \in Nat
        BY <1>0, <1>3, OAuthFacts
      <4>3. ~(t < u)
        BY <1>3, <1>5, <4>1 DEF GrantInv, Superseded
      <4>4. u < t
        BY <3>2, <4>2, <4>3
      <4> QED BY <1>3, <4>1, <4>4 DEF GrantInv, Superseded
    <3> QED BY <3>1, <3>2
  <2>9. TokensKept
    <3>1. /\ DOMAIN tokens' = 1 .. Len(m) + 1 /\ DOMAIN m = 1 .. Len(m) /\ Len(m) \in Nat
          /\ \A u \in DOMAIN m : tokens'[u] = m[u]
      BY <2>3, <2>4, <2>7
    <3>2. DOMAIN tokens \subseteq DOMAIN tokens'
      BY <2>4, <3>1
    <3> QED BY <2>4, <3>1, <3>2 DEF TokensKept
  <2>10. ~Settled(g)
    BY <1>0, <1>2 DEF Settled, Refreshing
  <2>11. \A p \in TokenReqs : p # q /\ treqs[p].pc = "mint" => treqs[p].grant # g
    BY <1>0, <1>3 DEF Pending
  <2>12. /\ k.grant \in DOMAIN codes /\ codes[k.grant].st # "unused" /\ k.app = codes[k.grant].app
         /\ k.scope \subseteq codes[k.grant].scope /\ k.refresh /\ ~Settled(k.grant)
         /\ \A u \in DOMAIN m : m[u].grant = k.grant => ~m[u].refresh
         /\ \A p \in TokenReqs : p # q /\ treqs[p].pc = "mint" => treqs[p].grant # k.grant
    BY <1>3, <2>5, <2>7, <2>8, <2>10, <2>11
  <2>13. m \in Seq(TokenRows) /\ DOMAIN m = DOMAIN tokens
    BY <2>4
  <2> QED BY <1>0, <2>3, <2>7, <2>9, <2>12, <2>13, TokenAdded
<1> QED BY <1>4, <1>5

LEMMA OneTokenRow ==
  ASSUME OAuthTypes, NEW t \in DOMAIN tokens, NEW r \in TokenRows, tokens' = [tokens EXCEPT ![t] = r],
         r.app = tokens[t].app, r.scope = tokens[t].scope, r.grant = tokens[t].grant,
         r.refresh = tokens[t].refresh, r.st = "live" => tokens[t].st = "live"
  PROVE  /\ TokensKept /\ tokens' \in Seq(TokenRows) /\ DOMAIN tokens' = DOMAIN tokens
         /\ tokens'[t] = r /\ \A u \in DOMAIN tokens : u # t => tokens'[u] = tokens[u]
<1>1. DOMAIN tokens' = DOMAIN tokens /\ tokens'[t] = r /\ \A u \in DOMAIN tokens : u # t => tokens'[u] = tokens[u]
  OBVIOUS
<1>2. tokens \in Seq(TokenRows) /\ tokens' = [u \in DOMAIN tokens' |-> tokens'[u]]
  BY DEF OAuthTypes
<1>3. \A u \in DOMAIN tokens : tokens'[u] \in TokenRows
  BY <1>1, OAuthFacts
<1>4. tokens' \in Seq(TokenRows)
  BY <1>1, <1>2, <1>3, SameLengthSeq
<1>5. TokensKept
  BY <1>1 DEF TokensKept
<1> QED BY <1>1, <1>4, <1>5

\* A row is revoked; with no refresh under way its grant is settled, for the
\* row that was live was the last.
LEMMA RevokedKeeps ==
  ASSUME GrantInv, NEW t \in DOMAIN tokens, tokens[t].st = "live", tokens' = RevokedRow(t),
         Withdraws(tokens[t].grant), UNCHANGED <<apps, codes, treqs>>
  PROVE  GrantInv'
<1>0. OAuthTypes /\ tokens[t] \in TokenRows /\ TokenKnows(t) /\ withdrawn \subseteq DOMAIN codes /\ t \in Nat
  BY OAuthFacts DEF GrantInv, OAuthTypes
<1>1. PICK r : r = [tokens[t] EXCEPT !.st = "revoked"]
  OBVIOUS
<1>2. /\ r \in TokenRows /\ r.st = "revoked" /\ r.app = tokens[t].app /\ r.scope = tokens[t].scope
      /\ r.grant = tokens[t].grant /\ r.refresh = tokens[t].refresh
  BY <1>0, <1>1 DEF TokenRows
<1>3. tokens' = [tokens EXCEPT ![t] = r]
  BY <1>1 DEF RevokedRow
<1>4. /\ TokensKept /\ tokens' \in Seq(TokenRows) /\ DOMAIN tokens' = DOMAIN tokens
      /\ tokens'[t] = r /\ \A u \in DOMAIN tokens : u # t => tokens'[u] = tokens[u]
  BY <1>0, <1>2, <1>3, OneTokenRow
<1>5. PICK g : g = tokens[t].grant
  OBVIOUS
<1>6. g \in DOMAIN codes /\ withdrawn' = IF Refreshing(g) THEN withdrawn ELSE withdrawn \cup {g}
  BY <1>0, <1>5 DEF TokenKnows, Withdraws
<1>7. OAuthTypes' /\ TablesKept
  <2>1. OAuthTypes'
    BY <1>0, <1>4, <1>6 DEF OAuthTypes
  <2> QED BY <1>4, <2>1, TablesStill
<1>8. ~Refreshing(g) => Settled(g)'
  <2> SUFFICES ASSUME ~Refreshing(g) PROVE Settled(g)'
    OBVIOUS
  <2>1. ~Refreshing(g)'
    BY DEF Refreshing
  <2>2. ASSUME NEW u \in DOMAIN tokens', tokens'[u].grant = g PROVE tokens'[u].st # "live"
    <3>1. CASE u = t
      BY <1>2, <1>4, <3>1
    <3>2. CASE u # t
      <4>1. u \in DOMAIN tokens /\ tokens'[u] = tokens[u] /\ u \in Nat
        BY <1>0, <1>4, <3>2, OAuthFacts
      <4>2. tokens[t].refresh /\ tokens[u].grant = tokens[t].grant
        BY <1>0, <1>5, <2>2, <4>1 DEF TokenKnows
      <4>3. ~(t < u)
        BY <4>1, <4>2 DEF GrantInv, Superseded
      <4>4. u < t
        BY <1>0, <3>2, <4>1, <4>3
      <4>5. ~tokens[u].refresh
        BY <4>1, <4>2, <4>4 DEF GrantInv, Superseded
      <4> QED BY <4>1, <4>5 DEF GrantInv, TokenKnows
    <3> QED BY <3>1, <3>2
  <2>3. \E u \in DOMAIN tokens' : tokens'[u].grant = g
    BY <1>2, <1>4, <1>5
  <2> QED BY <2>1, <2>2, <2>3 DEF Settled
<1>9. \A h \in withdrawn' : h \in withdrawn \/ Over(h)'
  BY <1>6, <1>8 DEF Over
<1> QED BY <1>4, <1>7, <1>9, RowsFade

LEMMA TokenAgesKeeps ==
  ASSUME GrantInv, NEW t \in DOMAIN tokens, TokenAges(t)
  PROVE  GrantInv'
<1>0. /\ OAuthTypes /\ tokens[t] \in TokenRows /\ tokens[t].age < 3
      /\ tokens' = [tokens EXCEPT ![t].age = tokens[t].age + 1]
      /\ UNCHANGED <<apps, codes, treqs, withdrawn>>
  BY OAuthFacts DEF GrantInv, TokenAges
<1>1. PICK r : r = [tokens[t] EXCEPT !.age = tokens[t].age + 1]
  OBVIOUS
<1>2. tokens[t].age + 1 \in 0 .. 3
  <2>1. tokens[t].age \in 0 .. 3
    BY <1>0 DEF TokenRows
  <2> QED BY <1>0, <2>1
<1>3. /\ r \in TokenRows /\ r.st = tokens[t].st /\ r.app = tokens[t].app /\ r.scope = tokens[t].scope
      /\ r.grant = tokens[t].grant /\ r.refresh = tokens[t].refresh
  BY <1>0, <1>1, <1>2 DEF TokenRows
<1>4. tokens' = [tokens EXCEPT ![t] = r]
  BY <1>0, <1>1
<1>5. TokensKept /\ tokens' \in Seq(TokenRows) /\ DOMAIN tokens' = DOMAIN tokens
  BY <1>0, <1>3, <1>4, OneTokenRow
<1>6. OAuthTypes' /\ TablesKept
  BY <1>0, <1>5, TablesStill DEF OAuthTypes
<1> QED BY <1>0, <1>5, <1>6, RowsFade

LEMMA TokenSweepKeeps ==
  ASSUME GrantInv, SweepExpiredOAuthTokens
  PROVE  GrantInv'
<1>0. /\ OAuthTypes /\ tokens \in Seq(TokenRows) /\ UNCHANGED <<apps, codes, treqs, withdrawn>>
      /\ tokens' = [t \in DOMAIN tokens |-> IF Sweepable(t) THEN [tokens[t] EXCEPT !.st = "gone"] ELSE tokens[t]]
  BY DEF GrantInv, OAuthTypes, SweepExpiredOAuthTokens
<1>1. ASSUME NEW t \in DOMAIN tokens
      PROVE  /\ tokens'[t] \in TokenRows /\ tokens'[t].app = tokens[t].app
             /\ tokens'[t].scope = tokens[t].scope /\ tokens'[t].grant = tokens[t].grant
             /\ tokens'[t].refresh = tokens[t].refresh /\ (tokens'[t].st = "live" => tokens[t].st = "live")
  <2>1. tokens[t] \in TokenRows
    BY <1>0, OAuthFacts
  <2>2. CASE Sweepable(t)
    <3>1. tokens'[t] = [tokens[t] EXCEPT !.st = "gone"]
      BY <1>0, <2>2
    <3> QED BY <2>1, <3>1 DEF TokenRows
  <2>3. CASE ~Sweepable(t)
    BY <1>0, <2>1, <2>3
  <2> QED BY <2>2, <2>3
<1>2. DOMAIN tokens' = DOMAIN tokens /\ tokens' = [t \in DOMAIN tokens' |-> tokens'[t]]
  BY <1>0
<1>3. tokens' \in Seq(TokenRows)
  BY <1>0, <1>1, <1>2, SameLengthSeq
<1>4. TokensKept
  BY <1>1, <1>2 DEF TokensKept
<1>5. OAuthTypes' /\ TablesKept
  BY <1>0, <1>3, <1>4, TablesStill DEF OAuthTypes
<1> QED BY <1>0, <1>2, <1>5, RowsFade

LEMMA CodeStepsKeep ==
  ASSUME GrantInv, (\E c \in DOMAIN codes : CodeAges(c)) \/ SweepExpiredOAuthCodes
  PROVE  GrantInv'
<1>0. /\ OAuthTypes /\ codes \in Seq(CodeRows) /\ UNCHANGED <<apps, tokens, treqs, withdrawn>>
  BY DEF GrantInv, OAuthTypes, CodeAges, SweepExpiredOAuthCodes
<1>1. /\ DOMAIN codes' = DOMAIN codes /\ codes' = [c \in DOMAIN codes' |-> codes'[c]]
      /\ \A d \in DOMAIN codes :
            /\ codes'[d] \in CodeRows /\ codes'[d].app = codes[d].app /\ codes'[d].scope = codes[d].scope
            /\ codes'[d].asked = codes[d].asked /\ (codes[d].st # "unused" => codes'[d].st # "unused")
  <2>1. CASE \E c \in DOMAIN codes : CodeAges(c)
    <3>1. PICK c \in DOMAIN codes : CodeAges(c)
      BY <2>1
    <3>2. codes[c].age < 2 /\ codes' = [codes EXCEPT ![c].age = codes[c].age + 1] /\ codes[c] \in CodeRows
      BY <1>0, <3>1, OAuthFacts DEF CodeAges
    <3>3. PICK r : r = [codes[c] EXCEPT !.age = codes[c].age + 1]
      OBVIOUS
    <3>4. codes[c].age + 1 \in 0 .. 2
      <4>1. codes[c].age \in 0 .. 2
        BY <3>2 DEF CodeRows
      <4> QED BY <3>2, <4>1
    <3>5. /\ r \in CodeRows /\ r.st = codes[c].st /\ r.app = codes[c].app /\ r.scope = codes[c].scope
          /\ r.asked = codes[c].asked
      BY <3>2, <3>3, <3>4 DEF CodeRows
    <3>6. codes' = [codes EXCEPT ![c] = r]
      BY <3>2, <3>3
    <3>7. DOMAIN codes' = DOMAIN codes /\ codes'[c] = r /\ \A d \in DOMAIN codes : d # c => codes'[d] = codes[d]
      BY <3>6
    <3>8. codes' = [d \in DOMAIN codes' |-> codes'[d]]
      BY <3>6
    <3>9. \A d \in DOMAIN codes : codes[d] \in CodeRows
      BY <1>0, OAuthFacts
    <3> QED BY <3>5, <3>7, <3>8, <3>9
  <2>2. CASE SweepExpiredOAuthCodes
    <3>1. codes' = [c \in DOMAIN codes |-> IF codes[c].age = 2 THEN [codes[c] EXCEPT !.st = "gone"] ELSE codes[c]]
      BY <2>2 DEF SweepExpiredOAuthCodes
    <3>2. ASSUME NEW d \in DOMAIN codes
          PROVE  /\ codes'[d] \in CodeRows /\ codes'[d].app = codes[d].app /\ codes'[d].scope = codes[d].scope
                 /\ codes'[d].asked = codes[d].asked /\ (codes[d].st # "unused" => codes'[d].st # "unused")
      <4>1. codes[d] \in CodeRows
        BY <1>0, OAuthFacts
      <4>2. CASE codes[d].age = 2
        <5>1. codes'[d] = [codes[d] EXCEPT !.st = "gone"]
          BY <3>1, <4>2
        <5> QED BY <4>1, <5>1 DEF CodeRows
      <4>3. CASE codes[d].age # 2
        BY <3>1, <4>1, <4>3
      <4> QED BY <4>2, <4>3
    <3> QED BY <3>1, <3>2
  <2> QED BY <2>1, <2>2
<1>2. codes' \in Seq(CodeRows)
  BY <1>0, <1>1, SameLengthSeq
<1>3. CodesKept
  BY <1>1 DEF CodesKept
<1>4. OAuthTypes' /\ TablesKept
  BY <1>0, <1>1, <1>2, <1>3, TablesStill DEF OAuthTypes
<1> QED BY <1>0, <1>1, <1>4, RowsFade

LEMMA RemoveKeeps ==
  ASSUME GrantInv, NEW a \in Apps, RemoveApplication(a)
  PROVE  GrantInv'
<1>0. /\ OAuthTypes /\ codes \in Seq(CodeRows) /\ tokens \in Seq(TokenRows) /\ apps \in [Apps -> AppRows]
      /\ withdrawn \subseteq DOMAIN codes /\ treqs' = treqs /\ apps[a].st # "none"
      /\ withdrawn' = withdrawn \cup {c \in DOMAIN codes : codes[c].app = a}
      /\ apps' = [apps EXCEPT ![a].st = "revoked"]
      /\ tokens' = [t \in DOMAIN tokens |->
                      IF tokens[t].app = a /\ tokens[t].st = "live"
                      THEN [tokens[t] EXCEPT !.st = "revoked", !.refresh = FALSE] ELSE tokens[t]]
      /\ codes' = [c \in DOMAIN codes |->
                     IF codes[c].app = a /\ codes[c].st = "unused" THEN [codes[c] EXCEPT !.st = "gone"] ELSE codes[c]]
  BY DEF GrantInv, OAuthTypes, RemoveApplication, RevokeOAuthClient
<1>1. apps' \in [Apps -> AppRows] /\ AppsKept /\ apps'[a].st = "revoked"
  <2>1. PICK r : r = [apps[a] EXCEPT !.st = "revoked"]
    OBVIOUS
  <2>2. apps[a] \in AppRows
    BY <1>0
  <2>3. r \in AppRows /\ r.st = "revoked" /\ r.scope = apps[a].scope
    BY <2>1, <2>2 DEF AppRows, AppStates
  <2>4. apps' = [apps EXCEPT ![a] = r]
    BY <1>0, <2>1
  <2>5. apps' \in [Apps -> AppRows] /\ apps'[a] = r /\ \A b \in Apps : b # a => apps'[b] = apps[b]
    BY <1>0, <2>3, <2>4
  <2>6. AppsKept
    BY <2>3, <2>5 DEF AppsKept
  <2> QED BY <2>3, <2>5, <2>6
<1>2. ASSUME NEW t \in DOMAIN tokens
      PROVE  /\ tokens'[t] \in TokenRows /\ tokens'[t].app = tokens[t].app
             /\ tokens'[t].scope = tokens[t].scope /\ tokens'[t].grant = tokens[t].grant
             /\ tokens'[t].refresh => tokens[t].refresh
             /\ tokens'[t].st = "live" => tokens[t].st = "live" /\ tokens'[t].refresh = tokens[t].refresh
  <2>1. tokens[t] \in TokenRows
    BY <1>0, OAuthFacts
  <2>2. CASE tokens[t].app = a /\ tokens[t].st = "live"
    <3>1. tokens'[t] = [tokens[t] EXCEPT !.st = "revoked", !.refresh = FALSE]
      BY <1>0, <2>2
    <3>2. tokens'[t] = [app |-> tokens[t].app, scope |-> tokens[t].scope, grant |-> tokens[t].grant,
                        refresh |-> FALSE, st |-> "revoked", age |-> tokens[t].age]
      BY <2>1, <3>1 DEF TokenRows
    <3>3. /\ tokens[t].app \in Apps /\ tokens[t].scope \in SUBSET Scopes /\ tokens[t].grant \in Nat
          /\ tokens[t].age \in 0 .. 3
      BY <2>1 DEF TokenRows
    <3>4. tokens'[t] \in TokenRows
      BY <3>2, <3>3 DEF TokenRows
    <3> QED BY <3>2, <3>4
  <2>3. CASE ~(tokens[t].app = a /\ tokens[t].st = "live")
    BY <1>0, <2>1, <2>3
  <2> QED BY <2>2, <2>3
<1>3. ASSUME NEW d \in DOMAIN codes
      PROVE  /\ codes'[d] \in CodeRows /\ codes'[d].app = codes[d].app /\ codes'[d].scope = codes[d].scope
             /\ codes'[d].asked = codes[d].asked /\ (codes[d].st # "unused" => codes'[d].st # "unused")
  <2>1. codes[d] \in CodeRows
    BY <1>0, OAuthFacts
  <2>2. CASE codes[d].app = a /\ codes[d].st = "unused"
    <3>1. codes'[d] = [codes[d] EXCEPT !.st = "gone"]
      BY <1>0, <2>2
    <3> QED BY <2>1, <3>1 DEF CodeRows
  <2>3. CASE ~(codes[d].app = a /\ codes[d].st = "unused")
    BY <1>0, <2>1, <2>3
  <2> QED BY <2>2, <2>3
<1>4. /\ DOMAIN tokens' = DOMAIN tokens /\ tokens' = [t \in DOMAIN tokens' |-> tokens'[t]]
      /\ DOMAIN codes' = DOMAIN codes /\ codes' = [c \in DOMAIN codes' |-> codes'[c]]
  BY <1>0
<1>5. tokens' \in Seq(TokenRows)
  BY <1>0, <1>2, <1>4, SameLengthSeq, ZenonT(60)
<1>6. codes' \in Seq(CodeRows)
  BY <1>0, <1>3, <1>4, SameLengthSeq
<1>7. TablesKept
  BY <1>1, <1>2, <1>3, <1>4 DEF TablesKept, CodesKept, TokensKept
<1>8. withdrawn' \subseteq DOMAIN codes'
  BY <1>0, <1>4
<1>9. OAuthTypes'
  BY <1>0, <1>1, <1>5, <1>6, <1>8 DEF OAuthTypes
<1>10. \A g \in withdrawn' : g \in withdrawn \/ Over(g)'
  BY <1>0, <1>1, <1>3 DEF Over
<1> QED BY <1>0, <1>4, <1>7, <1>9, <1>10, RowsFade

LEMMA RegisterKeeps ==
  ASSUME GrantInv, NEW a \in Apps, NEW scope, Register(a, scope)
  PROVE  GrantInv' /\ AppsKept /\ \A b \in Apps : apps[b].st # "none" => apps'[b] = apps[b]
<1>0. /\ OAuthTypes /\ apps \in [Apps -> AppRows] /\ apps[a].st = "none"
      /\ UNCHANGED <<codes, tokens, treqs, withdrawn>>
  BY DEF GrantInv, OAuthTypes, Register
<1>1. apps' = apps \/ (scope \subseteq Scopes /\ apps' = [apps EXCEPT ![a] = [st |-> "live", scope |-> scope]])
  BY DEF Register
<1>2. apps' \in [Apps -> AppRows] /\ \A b \in Apps : b # a => apps'[b] = apps[b]
  <2>1. scope \subseteq Scopes => [st |-> "live", scope |-> scope] \in AppRows
    BY DEF AppRows, AppStates
  <2> QED BY <1>0, <1>1, <2>1
<1>3. AppsKept
  BY <1>0, <1>2 DEF AppsKept
<1>4. OAuthTypes' /\ TablesKept
  BY <1>0, <1>2, <1>3, TablesStill DEF OAuthTypes
<1>5. GrantInv'
  BY <1>0, <1>4, RowsFade
<1> QED BY <1>0, <1>2, <1>3, <1>5

\* Refilled at some time.
RefilledAt(b, h) ==
  IF b.st = "none" \/ h - b.touched > 4 THEN DcrCap
  ELSE AtMostCap(b.left + (h - b.touched) * (DcrCap \div 2))

LEMMA RefilledNow ==
  Refilled(bucket) = RefilledAt(bucket, halfHour) /\ Refilled(bucket)' = RefilledAt(bucket', halfHour')
BY DEF Refilled, Swept, RefilledAt

\* What an idle bucket gains, half hour by half hour: it is full after two,
\* long before it is dropped.
LEMMA RefilledIs ==
  ASSUME NEW h \in Nat, NEW b, b.left \in 0 .. DcrCap, b.touched \in Nat, b.touched =< h
  PROVE  /\ DcrCap \div 2 \in Nat /\ DcrCap = 2 * (DcrCap \div 2) /\ DcrCap \in Nat
         /\ b.st = "none" => RefilledAt(b, h) = DcrCap
         /\ b.st # "none" /\ h - b.touched = 0 => RefilledAt(b, h) = b.left
         /\ b.st # "none" /\ h - b.touched = 1 => RefilledAt(b, h) = AtMostCap(b.left + DcrCap \div 2)
         /\ b.st # "none" /\ h - b.touched >= 2 => RefilledAt(b, h) = DcrCap
<1>1. PICK K : K = DcrCap \div 2
  OBVIOUS
<1>2. K \in Nat /\ DcrCap = 2 * K /\ DcrCap \in Nat
  BY <1>1, OAuthAssumption
<1>3. PICK d : d = h - b.touched
  OBVIOUS
<1>4. d \in Nat
  BY <1>3
<1>5. b.left \in Nat /\ b.left =< DcrCap
  BY <1>2
<1>6. RefilledAt(b, h) = IF b.st = "none" \/ d > 4 THEN DcrCap ELSE AtMostCap(b.left + d * K)
  BY <1>1, <1>3 DEF RefilledAt
<1>7. d = 0 => d * K = 0
  BY <1>2
<1>8. d = 1 => d * K = K
  BY <1>2
<1>9. d \in {2, 3, 4} => AtMostCap(b.left + d * K) = DcrCap
  <2>1. CASE d = 2
    BY <1>2, <1>5, <2>1 DEF AtMostCap
  <2>2. CASE d = 3
    BY <1>2, <1>5, <2>2 DEF AtMostCap
  <2>3. CASE d = 4
    BY <1>2, <1>5, <2>3 DEF AtMostCap
  <2> QED BY <2>1, <2>2, <2>3
<1>10. d = 0 => AtMostCap(b.left + d * K) = b.left
  BY <1>2, <1>5, <1>7 DEF AtMostCap
<1>11. d >= 2 => d > 4 \/ d \in {2, 3, 4}
  BY <1>4
<1>12. b.st # "none" /\ d = 0 => RefilledAt(b, h) = b.left
  BY <1>6, <1>10
<1>13. b.st # "none" /\ d = 1 => RefilledAt(b, h) = AtMostCap(b.left + K)
  BY <1>6, <1>8
<1>14. b.st # "none" /\ d >= 2 => RefilledAt(b, h) = DcrCap
  BY <1>6, <1>9, <1>11
<1> QED BY <1>1, <1>2, <1>3, <1>6, <1>12, <1>13, <1>14

LEMMA AllowKeepsCount ==
  ASSUME LimiterInv, NEW ok \in BOOLEAN, Allow(ok), halfHour' = halfHour
  PROVE  LimiterInv'
<1>1. PICK n : n = Refilled(bucket)
  OBVIOUS
<1>2. n = credit /\ n \in 0 .. DcrCap /\ DcrCap \in Nat /\ halfHour \in Nat
  BY <1>1, OAuthAssumption DEF LimiterInv, LimiterKeepsCount
<1>3. /\ ok = (n >= 1) /\ credit' = (IF ok THEN n - 1 ELSE n)
      /\ bucket' = [st |-> "held", touched |-> halfHour, left |-> IF ok THEN n - 1 ELSE n]
  BY <1>1, <1>2 DEF Allow
<1>4. credit' \in 0 .. DcrCap
  <2>1. CASE ok
    <3>1. n >= 1 /\ credit' = n - 1
      BY <1>3, <2>1
    <3> QED BY <1>2, <3>1
  <2>2. CASE ~ok
    BY <1>2, <1>3, <2>2
  <2> QED BY <2>1, <2>2
<1>5. bucket'.left = credit' /\ bucket'.touched = halfHour /\ bucket'.st = "held"
  BY <1>3
<1>6. Refilled(bucket)' = credit'
  <2>1. PICK b : b = bucket'
    OBVIOUS
  <2>2. b.left \in 0 .. DcrCap /\ b.touched \in Nat /\ b.touched =< halfHour /\ b.st # "none" /\ halfHour - b.touched = 0
    BY <1>2, <1>4, <1>5, <2>1
  <2>3. RefilledAt(b, halfHour) = b.left
    BY <1>2, <2>2, RefilledIs
  <2>4. Refilled(bucket)' = RefilledAt(b, halfHour)
    BY <2>1, RefilledNow
  <2> QED BY <1>5, <2>1, <2>3, <2>4
<1> QED BY <1>2, <1>4, <1>5, <1>6 DEF LimiterInv, LimiterKeepsCount

LEMMA HalfHourKeepsCount ==
  ASSUME LimiterInv, HalfHourPasses
  PROVE  LimiterInv'
<1>1. /\ halfHour' = halfHour + 1 /\ bucket' = bucket /\ credit' = AtMostCap(credit + DcrCap \div 2)
      /\ halfHour \in Nat /\ credit \in 0 .. DcrCap /\ bucket.left \in 0 .. DcrCap
      /\ bucket.touched \in Nat /\ bucket.touched =< halfHour /\ Refilled(bucket) = credit
  BY DEF HalfHourPasses, LimiterInv, LimiterKeepsCount
<1>2. PICK K : K = DcrCap \div 2
  OBVIOUS
<1>3. /\ K \in Nat /\ DcrCap = 2 * K /\ DcrCap \in Nat
      /\ bucket.st = "none" => credit = DcrCap
      /\ bucket.st # "none" /\ halfHour - bucket.touched = 0 => credit = bucket.left
      /\ bucket.st # "none" /\ halfHour - bucket.touched = 1 => credit = AtMostCap(bucket.left + K)
      /\ bucket.st # "none" /\ halfHour - bucket.touched >= 2 => credit = DcrCap
  BY <1>1, <1>2, RefilledNow, RefilledIs
<1>4. halfHour' \in Nat /\ bucket'.touched =< halfHour'
  BY <1>1
<1>5. /\ bucket'.st = "none" => Refilled(bucket)' = DcrCap
      /\ bucket'.st # "none" /\ halfHour' - bucket'.touched = 0 => Refilled(bucket)' = bucket'.left
      /\ bucket'.st # "none" /\ halfHour' - bucket'.touched = 1 => Refilled(bucket)' = AtMostCap(bucket'.left + K)
      /\ bucket'.st # "none" /\ halfHour' - bucket'.touched >= 2 => Refilled(bucket)' = DcrCap
  BY <1>1, <1>2, <1>4, RefilledNow, RefilledIs
<1>6. credit' = AtMostCap(credit + K) /\ credit' \in 0 .. DcrCap
  BY <1>1, <1>2, <1>3 DEF AtMostCap
<1>7. Refilled(bucket)' = credit'
  <2>1. credit = DcrCap => credit' = DcrCap
    BY <1>3, <1>6 DEF AtMostCap
  <2>2. CASE bucket.st = "none"
    BY <1>1, <1>3, <1>5, <2>1, <2>2
  <2>3. CASE bucket.st # "none" /\ halfHour - bucket.touched = 0
    <3>1. halfHour' - bucket'.touched = 1
      BY <1>1, <2>3
    <3> QED BY <1>1, <1>3, <1>5, <1>6, <2>3, <3>1
  <2>4. CASE bucket.st # "none" /\ halfHour - bucket.touched = 1
    <3>1. halfHour' - bucket'.touched >= 2
      BY <1>1, <2>4
    <3>2. credit' = DcrCap
      BY <1>1, <1>3, <1>6, <2>4 DEF AtMostCap
    <3> QED BY <1>1, <1>5, <2>4, <3>1, <3>2
  <2>5. CASE bucket.st # "none" /\ halfHour - bucket.touched >= 2
    <3>1. halfHour' - bucket'.touched >= 2
      BY <1>1, <2>5
    <3> QED BY <1>1, <1>3, <1>5, <2>1, <2>5, <3>1
  <2> QED BY <1>1, <2>2, <2>3, <2>4, <2>5
<1> QED BY <1>1, <1>4, <1>6, <1>7 DEF LimiterInv, LimiterKeepsCount

LEMMA OAuthBegins == OAuthInit => OAuthInv
<1> SUFFICES ASSUME OAuthInit PROVE OAuthInv
  OBVIOUS
<1>1. /\ apps = [a \in Apps |-> NoApp] /\ codes = <<>> /\ tokens = <<>> /\ treqs = [q \in TokenReqs |-> NoReq]
      /\ bucket = NoBucket /\ halfHour = 0 /\ credit = DcrCap /\ withdrawn = {}
  BY DEF OAuthInit, OAuthStart
<1>2. apps \in [Apps -> AppRows]
  <2>1. NoApp \in AppRows
    BY DEF NoApp, AppRows, AppStates
  <2> QED BY <1>1, <2>1
<1>3. treqs \in [TokenReqs -> TokenCalls] /\ \A q \in TokenReqs : treqs[q].pc = "idle"
  BY <1>1, NoReqIs
<1>4. codes \in Seq(CodeRows) /\ tokens \in Seq(TokenRows) /\ DOMAIN codes = {} /\ DOMAIN tokens = {}
  BY <1>1
<1>5. OAuthTypes
  BY <1>1, <1>2, <1>3, <1>4 DEF OAuthTypes
<1>6. GrantInv
  BY <1>1, <1>3, <1>4, <1>5 DEF GrantInv, Superseded, Pending, RequestKnows
<1>7. LimiterInv
  <2>1. bucket.left = 0 /\ bucket.touched = 0 /\ bucket.st = "none"
    BY <1>1 DEF NoBucket
  <2>2. DcrCap \in Nat /\ Refilled(bucket) = DcrCap
    BY <2>1, OAuthAssumption DEF Refilled
  <2> QED BY <1>1, <2>1, <2>2 DEF LimiterInv, LimiterKeepsCount
<1> QED BY <1>6, <1>7 DEF OAuthInv

LEMMA RequestStepsKeep ==
  ASSUME GrantInv, NEW q \in TokenReqs, RequestSteps(q)
  PROVE  GrantInv' /\ UNCHANGED limiter
<1>1. UNCHANGED limiter
  BY DEF RequestSteps, TokenClient, AuthorizeRead, RedeemOAuthAuthorizationCode, RefreshGrantRead,
         AuthorizeInsert, MintTokenPair, RotateOAuthRefreshToken, TokenAbandoned
<1>2. {{}, {"read"}, {"read", "admin"}} \subseteq SUBSET Scopes
  BY DEF Scopes
<1>3. CASE \/ \E a \in Apps : TokenClient(q, a) \/ \E asked \in SUBSET Scopes : AuthorizeRead(q, a, asked)
           \/ \E t \in DOMAIN tokens : RefreshGrantRead(q, t)
           \/ TokenAbandoned(q)
  BY <1>1, <1>3, ReadsKeep
<1>4. CASE \E c \in DOMAIN codes, m \in BOOLEAN : RedeemOAuthAuthorizationCode(q, c, m)
  BY <1>1, <1>4, RedeemKeeps
<1>5. CASE AuthorizeInsert(q)
  BY <1>1, <1>5, AuthorizeInsertKeeps
<1>6. CASE MintTokenPair(q)
  BY <1>1, <1>6, MintKeeps
<1>7. CASE RotateOAuthRefreshToken(q)
  BY <1>1, <1>7, RotateKeeps
<1> QED BY <1>2, <1>3, <1>4, <1>5, <1>6, <1>7 DEF RequestSteps

LEMMA RowStepsKeep ==
  ASSUME GrantInv, RowSteps
  PROVE  GrantInv' /\ UNCHANGED limiter
<1>1. UNCHANGED limiter
  BY DEF RowSteps, CodeAges, TokenAges, RevokeOAuthAccessToken, RevokeOAuthAccessTokenByID,
         SweepExpiredOAuthCodes, SweepExpiredOAuthTokens
<1>2. CASE (\E c \in DOMAIN codes : CodeAges(c)) \/ SweepExpiredOAuthCodes
  BY <1>1, <1>2, CodeStepsKeep
<1>3. CASE \E t \in DOMAIN tokens : TokenAges(t)
  BY <1>1, <1>3, TokenAgesKeeps
<1>4. CASE SweepExpiredOAuthTokens
  BY <1>1, <1>4, TokenSweepKeeps
<1>5. ASSUME NEW t \in DOMAIN tokens, RevokeOAuthAccessToken(t) \/ RevokeOAuthAccessTokenByID(t)
      PROVE  GrantInv'
  <2>1. UNCHANGED <<apps, codes, treqs>>
    BY <1>5 DEF RevokeOAuthAccessToken, RevokeOAuthAccessTokenByID
  <2>2. CASE tokens[t].st = "live"
    <3>1. tokens' = RevokedRow(t) /\ Withdraws(tokens[t].grant)
      BY <1>5, <2>2 DEF RevokeOAuthAccessToken, RevokeOAuthAccessTokenByID
    <3> QED BY <2>1, <2>2, <3>1, RevokedKeeps
  <2>3. CASE tokens[t].st # "live"
    <3>1. UNCHANGED <<tokens, withdrawn>>
      BY <1>5, <2>3 DEF RevokeOAuthAccessToken, RevokeOAuthAccessTokenByID
    <3>2. OAuthTypes' /\ TablesKept
      BY <2>1, <3>1, TablesStill DEF GrantInv, OAuthTypes
    <3> QED BY <2>1, <3>1, <3>2, RowsFade
  <2> QED BY <2>2, <2>3
<1> QED BY <1>1, <1>2, <1>3, <1>4, <1>5 DEF RowSteps

LEMMA OAuthStepsKeep ==
  ASSUME OAuthInv, [OAuthNext]_oauthVars
  PROVE  OAuthInv'
<1>0. GrantInv /\ LimiterInv
  BY DEF OAuthInv
<1>1. ASSUME UNCHANGED limiter PROVE LimiterInv'
  BY <1>0, <1>1 DEF limiter, LimiterInv, LimiterKeepsCount, Refilled, Swept
<1>2. ASSUME NEW a \in Apps, RemoveApplication(a) PROVE OAuthInv'
  <2>1. UNCHANGED limiter
    BY <1>2 DEF RemoveApplication
  <2> QED BY <1>0, <1>1, <1>2, <2>1, RemoveKeeps DEF OAuthInv
<1>3. ASSUME NEW a \in Apps, NEW scope, Register(a, scope) PROVE OAuthInv'
  <2>1. PICK ok \in BOOLEAN : Allow(ok)
    BY <1>3 DEF Register
  <2>2. halfHour' = halfHour
    BY <1>3 DEF Register
  <2> QED BY <1>0, <1>3, <2>1, <2>2, RegisterKeeps, AllowKeepsCount DEF OAuthInv
<1>4. ASSUME NEW q \in TokenReqs, RequestSteps(q) PROVE OAuthInv'
  BY <1>0, <1>1, <1>4, RequestStepsKeep DEF OAuthInv
<1>5. CASE RowSteps
  BY <1>0, <1>1, <1>5, RowStepsKeep DEF OAuthInv
<1>6. ASSUME UNCHANGED <<apps, codes, tokens, treqs, withdrawn>> PROVE GrantInv'
  <2>1. OAuthTypes' /\ TablesKept
    BY <1>0, <1>6, TablesStill DEF GrantInv, OAuthTypes
  <2> QED BY <1>0, <1>6, <2>1, RowsFade
<1>7. CASE HalfHourPasses
  <2>1. UNCHANGED <<apps, codes, tokens, treqs, withdrawn>>
    BY <1>7 DEF HalfHourPasses
  <2> QED BY <1>0, <1>6, <1>7, <2>1, HalfHourKeepsCount DEF OAuthInv
<1>8. CASE UNCHANGED oauthVars
  <2>1. UNCHANGED <<apps, codes, tokens, treqs, withdrawn>> /\ UNCHANGED limiter
    BY <1>8 DEF oauthVars, limiter
  <2> QED BY <1>1, <1>6, <2>1 DEF OAuthInv
<1> QED BY <1>2, <1>3, <1>4, <1>5, <1>7, <1>8 DEF OAuthNext

LEMMA OAuthInvSafe == OAuthInv => OAuthSafe
<1> SUFFICES ASSUME OAuthInv PROVE OAuthSafe
  OBVIOUS
<1>0. /\ OAuthTypes /\ Superseded /\ \A t \in DOMAIN tokens : TokenKnows(t)
      /\ \A c \in DOMAIN codes : CodeKnows(c)
      /\ \A g \in withdrawn : Over(g)
      /\ \A t \in DOMAIN tokens : tokens[t] \in TokenRows /\ t \in Nat
  BY OAuthFacts DEF OAuthInv, GrantInv
<1>1. OneRowPerGrant
  <2> SUFFICES ASSUME NEW t \in DOMAIN tokens, NEW u \in DOMAIN tokens, tokens[t].st = "live",
                      tokens[u].st = "live", tokens[t].grant = tokens[u].grant
               PROVE  t = u
    BY DEF OneRowPerGrant
  <2>1. tokens[t].refresh /\ tokens[u].refresh /\ t \in Nat /\ u \in Nat
    BY <1>0 DEF TokenKnows
  <2>2. ~(t < u) /\ ~(u < t)
    BY <1>0, <2>1 DEF Superseded
  <2> QED BY <2>1, <2>2
<1>2. ScopeWithinConsent
  BY <1>0 DEF ScopeWithinConsent, TokenKnows, CodeKnows
<1>3. WithdrawnStaysWithdrawn
  BY <1>0 DEF WithdrawnStaysWithdrawn, TokenKnows, Over, Settled, Authenticates, CanRefresh, Live
<1>4. ListedWorks
  <2> SUFFICES ASSUME NEW t \in DOMAIN tokens, Listed(t), Live(tokens[t].app) PROVE CanRefresh(t)
    BY DEF ListedWorks
  <2>1. tokens[t].age < 2 /\ tokens[t].st = "live"
    BY DEF Listed
  <2> QED BY <1>0, <2>1 DEF TokenKnows, CanRefresh
<1>5. LimiterKeepsCount
  BY DEF OAuthInv, LimiterInv
<1> QED BY <1>1, <1>2, <1>3, <1>4, <1>5 DEF OAuthSafe

\* The OAuth server (oauth/handlers.go, oauth/ratelimit.go,
\* database/oauth.go): however the requests of a code or a refresh token
\* overlap a grant has one live row, within the consent; what was withdrawn
\* stays so; and the limiter's sweep gives no registrations away.
THEOREM GrantsAreSafe == OAuthSpec => []OAuthSafe
BY OAuthBegins, OAuthStepsKeep, OAuthInvSafe, PTL DEF OAuthSpec

\* One step of GrantSurvives, for one grant that works.
Survives(g) ==
  \/ \E t \in DOMAIN tokens' : tokens'[t].grant = g /\ CanRefresh(t)'
  \/ \E t \in DOMAIN tokens : tokens[t].grant = g /\ tokens[t].age = 1 /\ tokens'[t].age = 2
  \/ \E t \in DOMAIN tokens : /\ tokens[t].grant = g
                              /\ \/ tokens'[t].st = "revoked" /\ tokens'[t].refresh
                                 \/ apps'[tokens[t].app].st = "revoked"

\* The row is still what it was, and so is its application.
LEMMA RowSurvives ==
  ASSUME NEW t \in DOMAIN tokens, CanRefresh(t), t \in DOMAIN tokens', tokens'[t] = tokens[t],
         apps'[tokens[t].app] = apps[tokens[t].app]
  PROVE  Survives(tokens[t].grant)
<1>1. CanRefresh(t)' /\ tokens'[t].grant = tokens[t].grant
  BY DEF CanRefresh, Live
<1> QED BY <1>1 DEF Survives

LEMMA RequestsSpare ==
  ASSUME GrantInv, NEW q \in TokenReqs, RequestSteps(q), NEW t \in DOMAIN tokens, CanRefresh(t)
  PROVE  Survives(tokens[t].grant)
<1>0. /\ OAuthTypes /\ tokens \in Seq(TokenRows) /\ apps' = apps /\ RequestKnows(q)
      /\ DOMAIN tokens = 1 .. Len(tokens) /\ Len(tokens) \in Nat
  <2>1. apps' = apps
    BY DEF RequestSteps, TokenClient, AuthorizeRead, RedeemOAuthAuthorizationCode, RefreshGrantRead,
           AuthorizeInsert, MintTokenPair, RotateOAuthRefreshToken, TokenAbandoned
  <2> QED BY <2>1, OAuthFacts DEF GrantInv, OAuthTypes
<1>1. CASE tokens' = tokens
  BY <1>0, <1>1, RowSurvives
<1>2. CASE MintTokenPair(q)
  <2>1. tokens' = Append(tokens, Token(q))
    BY <1>2 DEF MintTokenPair
  <2>2. t \in DOMAIN tokens' /\ tokens'[t] = tokens[t]
    <3>1. PICK k : k = Token(q)
      OBVIOUS
    <3>2. tokens' = Append(tokens, k)
      BY <2>1, <3>1
    <3>3. treqs[q].app \in Apps
      <4>1. codes[treqs[q].grant] \in CodeRows /\ treqs[q].app = codes[treqs[q].grant].app
        BY <1>0, <1>2, OAuthFacts DEF MintTokenPair, RequestKnows
      <4> QED BY <4>1 DEF CodeRows
    <3>4. k \in TokenRows
      BY <1>0, <3>1, <3>3, TokenIs
    <3> QED BY <1>0, <3>2, <3>4
  <2> QED BY <1>0, <2>2, RowSurvives
<1>3. CASE RotateOAuthRefreshToken(q) /\ tokens' # tokens
  <2>1. PICK r : r = treqs[q].row
    OBVIOUS
  <2>2. r \in DOMAIN tokens /\ treqs[q].grant = tokens[r].grant /\ treqs[q].app = tokens[r].app
    BY <1>0, <1>3, <2>1 DEF RequestKnows, RotateOAuthRefreshToken
  <2>3. PICK m : m = [tokens EXCEPT ![r].refresh = FALSE, ![r].st = "revoked"]
    OBVIOUS
  <2>4. PICK k : k = Token(q)
    OBVIOUS
  <2>5. tokens' = Append(m, k)
    BY <1>3, <2>1, <2>3, <2>4 DEF RotateOAuthRefreshToken
  <2>6. m \in Seq(TokenRows) /\ DOMAIN m = DOMAIN tokens /\ \A u \in DOMAIN tokens : u # r => m[u] = tokens[u]
    BY <1>0, <2>2, <2>3, RotatedRow
  <2>7. treqs[q].app \in Apps
    <3>1. tokens[r] \in TokenRows
      BY <1>0, <2>2, OAuthFacts
    <3> QED BY <2>2, <3>1 DEF TokenRows
  <2>8. k \in TokenRows /\ k.grant = treqs[q].grant /\ k.app = treqs[q].app /\ k.refresh /\ k.st = "live" /\ k.age = 0
    BY <1>0, <2>4, <2>7, TokenIs
  <2>9. /\ DOMAIN tokens' = 1 .. Len(m) + 1 /\ DOMAIN m = 1 .. Len(m) /\ Len(m) \in Nat
        /\ \A u \in DOMAIN m : tokens'[u] = m[u]
        /\ tokens'[Len(m) + 1] = k
    BY <2>5, <2>6, <2>8
  <2>10. CASE t # r
    <3>1. t \in DOMAIN tokens' /\ tokens'[t] = tokens[t]
      BY <2>6, <2>9, <2>10
    <3> QED BY <1>0, <3>1, RowSurvives
  \* The row that is rotated away leaves its grant to the new one.
  <2>11. CASE t = r
    <3>1. PICK n \in DOMAIN tokens' : tokens'[n] = k
      BY <2>9
    <3>2. tokens'[n].grant = tokens[t].grant
      BY <2>2, <2>8, <2>11, <3>1
    <3>3. CanRefresh(n)'
      <4>1. apps[tokens[t].app].st = "live"
        BY DEF CanRefresh, Live
      <4>2. apps'[tokens'[n].app].st = "live"
        BY <1>0, <2>2, <2>8, <2>11, <3>1, <4>1
      <4> QED BY <2>8, <3>1, <4>2 DEF CanRefresh, Live
    <3> QED BY <3>2, <3>3 DEF Survives
  <2> QED BY <2>10, <2>11
<1>4. tokens' = tokens \/ MintTokenPair(q) \/ RotateOAuthRefreshToken(q)
  BY DEF RequestSteps, TokenClient, AuthorizeRead, RedeemOAuthAuthorizationCode, RefreshGrantRead,
         AuthorizeInsert, TokenAbandoned
<1> QED BY <1>1, <1>2, <1>3, <1>4

LEMMA RowStepsSpare ==
  ASSUME GrantInv, RowSteps, NEW t \in DOMAIN tokens, CanRefresh(t)
  PROVE  Survives(tokens[t].grant)
<1>0. /\ OAuthTypes /\ apps' = apps /\ tokens[t] \in TokenRows
      /\ tokens[t].st = "live" /\ tokens[t].refresh /\ tokens[t].age \in {0, 1}
  <2>1. apps' = apps
    BY DEF RowSteps, CodeAges, TokenAges, RevokeOAuthAccessToken, RevokeOAuthAccessTokenByID,
           SweepExpiredOAuthCodes, SweepExpiredOAuthTokens
  <2>2. OAuthTypes /\ tokens[t] \in TokenRows
    BY OAuthFacts DEF GrantInv
  <2>3. tokens[t].age \in 0 .. 3
    BY <2>2 DEF TokenRows
  <2> QED BY <2>1, <2>2, <2>3 DEF CanRefresh
<1>1. ASSUME t \in DOMAIN tokens', tokens'[t] = tokens[t] PROVE Survives(tokens[t].grant)
  BY <1>0, <1>1, RowSurvives
<1>2. CASE tokens' = tokens
  BY <1>1, <1>2
<1>3. CASE SweepExpiredOAuthTokens
  <2>1. ~Sweepable(t)
    BY <1>0 DEF Sweepable
  <2>2. t \in DOMAIN tokens' /\ tokens'[t] = tokens[t]
    BY <1>3, <2>1 DEF SweepExpiredOAuthTokens
  <2> QED BY <1>1, <2>2
<1>4. CASE \E u \in DOMAIN tokens : TokenAges(u)
  <2>1. PICK u \in DOMAIN tokens : tokens' = [tokens EXCEPT ![u].age = tokens[u].age + 1]
    BY <1>4 DEF TokenAges
  <2>2. CASE u # t
    <3>1. t \in DOMAIN tokens' /\ tokens'[t] = tokens[t]
      BY <2>1, <2>2
    <3> QED BY <1>1, <3>1
  <2>3. CASE u = t
    <3>1. PICK r : r = [tokens[t] EXCEPT !.age = tokens[t].age + 1]
      OBVIOUS
    <3>2. t \in DOMAIN tokens' /\ tokens'[t] = r
      BY <2>1, <2>3, <3>1
    <3>3. /\ r.st = tokens[t].st /\ r.app = tokens[t].app /\ r.grant = tokens[t].grant
          /\ r.refresh = tokens[t].refresh /\ r.age = tokens[t].age + 1
      BY <1>0, <3>1 DEF TokenRows
    <3>4. CASE tokens[t].age = 0
      <4>1. r.age < 2
        BY <3>3, <3>4
      <4>2. CanRefresh(t)'
        BY <1>0, <3>2, <3>3, <4>1 DEF CanRefresh, Live
      <4>3. tokens'[t].grant = tokens[t].grant
        BY <3>2, <3>3
      <4> QED BY <3>2, <4>2, <4>3 DEF Survives
    <3>5. CASE tokens[t].age = 1
      <4>1. tokens'[t].age = 2
        BY <3>2, <3>3, <3>5
      <4> QED BY <3>5, <4>1 DEF Survives
    <3> QED BY <1>0, <3>4, <3>5
  <2> QED BY <2>2, <2>3
<1>5. CASE \E u \in DOMAIN tokens : tokens' = RevokedRow(u)
  <2>1. PICK u \in DOMAIN tokens : tokens' = [tokens EXCEPT ![u].st = "revoked"]
    BY <1>5 DEF RevokedRow
  <2>2. CASE u # t
    <3>1. t \in DOMAIN tokens' /\ tokens'[t] = tokens[t]
      BY <2>1, <2>2
    <3> QED BY <1>1, <3>1
  <2>3. CASE u = t
    <3>1. PICK r : r = [tokens[t] EXCEPT !.st = "revoked"]
      OBVIOUS
    <3>2. tokens'[t] = r
      BY <2>1, <2>3, <3>1
    <3>3. r.st = "revoked" /\ r.refresh
      BY <1>0, <3>1 DEF TokenRows
    <3> QED BY <3>2, <3>3 DEF Survives
  <2> QED BY <2>2, <2>3
<1>6. \/ tokens' = tokens \/ SweepExpiredOAuthTokens \/ \E u \in DOMAIN tokens : TokenAges(u)
      \/ \E u \in DOMAIN tokens : tokens' = RevokedRow(u)
  BY DEF RowSteps, CodeAges, RevokeOAuthAccessToken, RevokeOAuthAccessTokenByID, SweepExpiredOAuthCodes
<1> QED BY <1>2, <1>3, <1>4, <1>5, <1>6

LEMMA StepsSpare ==
  ASSUME OAuthInv, OAuthNext, NEW t \in DOMAIN tokens, CanRefresh(t)
  PROVE  Survives(tokens[t].grant)
<1>0. GrantInv /\ tokens[t] \in TokenRows
  BY OAuthFacts DEF OAuthInv, GrantInv
<1>1. tokens[t].app \in Apps /\ apps[tokens[t].app].st = "live"
  BY <1>0 DEF TokenRows, CanRefresh, Live
<1>2. ASSUME NEW a \in Apps, RemoveApplication(a) PROVE Survives(tokens[t].grant)
  <2>1. /\ apps' = [apps EXCEPT ![a].st = "revoked"] /\ apps \in [Apps -> AppRows]
        /\ tokens' = [u \in DOMAIN tokens |->
                        IF tokens[u].app = a /\ tokens[u].st = "live"
                        THEN [tokens[u] EXCEPT !.st = "revoked", !.refresh = FALSE] ELSE tokens[u]]
    BY <1>0, <1>2 DEF RemoveApplication, RevokeOAuthClient, GrantInv, OAuthTypes
  <2>2. CASE tokens[t].app = a
    <3>1. apps[a] \in AppRows
      BY <2>1
    <3>2. apps'[a].st = "revoked"
      BY <2>1, <3>1 DEF AppRows
    <3> QED BY <2>2, <3>2 DEF Survives
  <2>3. CASE tokens[t].app # a
    <3>1. apps'[tokens[t].app] = apps[tokens[t].app]
      BY <1>1, <2>1, <2>3
    <3>2. t \in DOMAIN tokens' /\ tokens'[t] = tokens[t]
      BY <2>1, <2>3
    <3> QED BY <3>1, <3>2, RowSurvives
  <2> QED BY <2>2, <2>3
<1>3. ASSUME NEW a \in Apps, NEW scope, Register(a, scope) PROVE Survives(tokens[t].grant)
  <2>1. tokens' = tokens /\ apps'[tokens[t].app] = apps[tokens[t].app]
    BY <1>0, <1>1, <1>3, RegisterKeeps DEF Register
  <2> QED BY <2>1, RowSurvives
<1>4. CASE HalfHourPasses
  BY <1>4, RowSurvives DEF HalfHourPasses
<1> QED BY <1>0, <1>2, <1>3, <1>4, RequestsSpare, RowStepsSpare DEF OAuthNext

\* A grant that can be refreshed stays so under every step but a revocation,
\* the removal of its application and the age of its refresh token: no
\* rotation, sweep or refused request of another loses it.
THEOREM GrantsSurvive == OAuthSpec => GrantSurvives
<1>1. ASSUME OAuthInv, [OAuthNext]_oauthVars
      PROVE  [\A g \in DOMAIN codes :
                (\E t \in DOMAIN tokens : tokens[t].grant = g /\ CanRefresh(t)) =>
                   \/ \E t \in DOMAIN tokens' : tokens'[t].grant = g /\ CanRefresh(t)'
                   \/ \E t \in DOMAIN tokens : tokens[t].grant = g /\ tokens[t].age = 1 /\ tokens'[t].age = 2
                   \/ \E t \in DOMAIN tokens : /\ tokens[t].grant = g
                                              /\ \/ tokens'[t].st = "revoked" /\ tokens'[t].refresh
                                                 \/ apps'[tokens[t].app].st = "revoked"]_oauthVars
  BY <1>1, StepsSpare DEF Survives
<1> QED BY <1>1, OAuthBegins, OAuthStepsKeep, PTL DEF OAuthSpec, GrantSurvives

-----------------------------------------------------------------------------
(* The execution history: what deletion leaves behind.                     *)

TableCount == Len(ChildTables)
PurgeRows == [next : 0 .. TableCount + 1, cutoff : Int]
DeleteRows == [x : Execs \cup {0}, next : 0 .. TableCount + 1, todo : SUBSET Execs]
SweepRows == [st : {"serving", "sweeping"}, pass : 1 .. TableCount + 1, batch : Nat, clean : BOOLEAN, marker : BOOLEAN]

HistoryTyped ==
  /\ ex \in [Execs -> ExecRows] /\ \A x \in Execs : End(ex[x]) <= now
  /\ children \in SUBSET (Execs \X Tables) /\ inflight \in SUBSET (Execs \X Tables) /\ late \in SUBSET (Execs \X Tables)
  /\ now \in 0 .. MaxNow /\ retention \in PurgeRows /\ deleter \in DeleteRows /\ reclaim \in SweepRows

\* What is still on its way to the database is young, and of a function there is.
OnItsWay(x) == x \in Unfinished \/ \E k \in inflight : k[1] = x
YoungKnown == \A x \in Execs : OnItsWay(x) => now - ex[x].start < Retention
BornKnown == (\A x \in Unfinished : ex[x].fn \in FnTable) /\ \A k \in inflight : ex[k[1]].st # "none"

\* The rows a purge is after have no children in the tables it has been to, and
\* none can come: what is on its way is younger than the cutoff.
PurgeKnown ==
  retention.next > 0 =>
    /\ retention.cutoff <= now - Retention
    /\ \A x \in Expired : \A i \in 1 .. retention.next - 1 : <<x, ChildTables[i]>> \notin children

\* A row being deleted has in those tables only what was stored late.
DeleteKnown ==
  deleter.next > 0 =>
    /\ deleter.x \in Execs
    /\ \A x \in {deleter.x} \cup deleter.todo : ex[x].st \in {"stored", "gone"}
    /\ ex[deleter.x].st = "stored" =>
         \A i \in 1 .. deleter.next - 1 : <<deleter.x, ChildTables[i]>> \in children => <<deleter.x, ChildTables[i]>> \in late

\* During the sweep nothing else goes on, and the tables it is through with,
\* none cut short, have no orphans.
SweepKnown ==
  reclaim.st = "sweeping" =>
    /\ ~reclaim.marker /\ Unfinished = {} /\ inflight = {} /\ retention.next = 0 /\ deleter.next = 0
    /\ reclaim.clean =>
         /\ reclaim.pass > 1 => OrphanExecs = {}
         /\ \A i \in 1 .. reclaim.pass - 2 : OrphanChildren(i) = {}

HistoryInv ==
  HistoryTyped /\ YoungKnown /\ BornKnown /\ PurgeKnown /\ DeleteKnown /\ SweepKnown /\ NothingStranded

\* The tables, by number and by name.
LEMMA TableFacts ==
  /\ TableCount \in Nat /\ TableCount >= 1 /\ \A i \in 1 .. TableCount : ChildTables[i] \in Tables
  /\ \A k \in Tables : \E i \in 1 .. TableCount : ChildTables[i] = k
  /\ IsFiniteSet(Execs \X Tables) /\ IsFiniteSet(Execs)
  <1>1. ChildTables \in Seq(STRING) /\ Tables = {ChildTables[i] : i \in 1 .. TableCount} /\ TableCount \in Nat
    BY TracesAssumption DEF Tables, ToSet, TableCount
  <1>2. TableCount >= 1
    BY <1>1, TracesAssumption DEF Tables
  <1>3. IsFiniteSet(Execs)
    BY TracesAssumption
  <1>4. IsFiniteSet(Tables)
    <2>1. ChildTables \in Seq(Tables) /\ \A k \in Tables : \E i \in 1 .. Len(ChildTables) : ChildTables[i] = k
      BY <1>1 DEF TableCount
    <2> QED
      BY <2>1 DEF IsFiniteSet
  <1>5. IsFiniteSet(Execs \X Tables)
    BY <1>3, <1>4, FS_Product
  <1> QED
    BY <1>1, <1>2, <1>3, <1>5

LEMMA NumbersOfHistory ==
  /\ MaxNow \in Nat /\ Retention \in Nat /\ Retention > 0 /\ BatchRows \in Nat /\ BatchRows > 0
  /\ MaxBatches \in Nat /\ Execs \subseteq Nat \ {0}
  BY TracesAssumption

\* What a row and its children mean to the invariant is its status, its function
\* and its start: a step that keeps these for every row, the children, and
\* who is on its way keeps the invariant.
LEMMA RowOf ==
  ASSUME HistoryTyped, NEW x \in Execs
  PROVE  /\ ex[x] \in ExecRows /\ ex[x].start \in Nat /\ ex[x].dur \in Nat /\ ex[x].start <= now /\ now \in Nat
         /\ ex[x].start \in 0 .. MaxNow /\ now \in 0 .. MaxNow /\ MaxNow \in Nat
         /\ ex[x].st \in {"none", "running", "queued", "stored", "gone"}
  <1>1. ex[x] \in ExecRows /\ End(ex[x]) <= now /\ now \in 0 .. MaxNow /\ MaxNow \in Nat
    BY NumbersOfHistory DEF HistoryTyped
  <1>2. PICK r \in ExecRows : r = ex[x]
    BY <1>1
  <1>3. r.start \in 0 .. MaxNow /\ r.dur \in 0 .. MaxNow /\ r.st \in {"none", "running", "queued", "stored", "gone"}
    BY DEF ExecRows
  <1>4. r.start + r.dur <= now
    BY <1>1, <1>2 DEF End
  <1> QED
    BY <1>1, <1>2, <1>3, <1>4

\* A row that becomes young or stays as it was, for the parts that speak of rows.
LEMMA RowChanges ==
  ASSUME HistoryInv, NEW x \in Execs, NEW r \in ExecRows, ex' = [ex EXCEPT ![x] = r], End(r) <= now,
         UNCHANGED <<children, inflight, late, now, retention, deleter, reclaim>>,
         \/ r.st = ex[x].st /\ r.fn = ex[x].fn /\ r.start = ex[x].start
         \/ /\ \/ ex[x].st = "none" /\ r.st = "running" /\ r.fn \in FnTable /\ r.start = now /\ reclaim.st = "serving"
               \/ ex[x].st = "running" /\ r.st = "queued" /\ r.fn = ex[x].fn /\ r.start = ex[x].start
               \/ ex[x].st = "queued" /\ r.st = "stored" /\ r.fn = ex[x].fn /\ r.start = ex[x].start
  PROVE  HistoryInv'
  <1>1. HistoryTyped
    BY DEF HistoryInv
  <1>2. /\ ex'[x] = r /\ \A y \in Execs : y # x => ex'[y] = ex[y]
        /\ ex' \in [Execs -> ExecRows]
    BY <1>1 DEF HistoryTyped
  <1>3. HistoryTyped'
    BY <1>1, <1>2 DEF HistoryTyped
  <1>4. /\ r.start \in Nat /\ ex[x].start \in Nat /\ now \in Nat /\ Retention \in Nat /\ Retention > 0
    BY <1>1, RowOf, NumbersOfHistory DEF ExecRows
  <1>5. \A y \in Execs : ex'[y].st \in {"running", "queued"} =>
           ex'[y].fn \in FnTable /\ now - ex'[y].start < Retention
    <2>1. \A y \in Execs : ex[y].st \in {"running", "queued"} => ex[y].fn \in FnTable /\ now - ex[y].start < Retention
      BY DEF HistoryInv, YoungKnown, BornKnown, OnItsWay, Unfinished
    <2> QED
      BY <1>2, <1>4, <2>1
  <1>6. YoungKnown' /\ BornKnown'
    <2>1. \A y \in Execs : (\E k \in inflight : k[1] = y) => now - ex[y].start < Retention
      BY DEF HistoryInv, YoungKnown, OnItsWay
    <2>2. \A y \in Execs : (\E k \in inflight : k[1] = y) => now - ex'[y].start < Retention
      BY <1>2, <1>4, <2>1
    <2>3. \A k \in inflight : k[1] \in Execs /\ ex[k[1]].st # "none"
      BY <1>1 DEF HistoryTyped, HistoryInv, BornKnown
    <2>4. \A k \in inflight : ex'[k[1]].st # "none"
      BY <1>2, <2>3
    <2> QED
      BY <1>5, <2>2, <2>4 DEF YoungKnown, BornKnown, OnItsWay, Unfinished
  <1>7. PurgeKnown'
    <2> SUFFICES ASSUME retention.next > 0
                 PROVE  /\ retention.cutoff <= now - Retention
                        /\ \A y \in Expired' : \A i \in 1 .. retention.next - 1 : <<y, ChildTables[i]>> \notin children
      BY DEF PurgeKnown
    <2>1. /\ retention.cutoff <= now - Retention /\ retention.cutoff \in Int
          /\ \A y \in Expired : \A i \in 1 .. retention.next - 1 : <<y, ChildTables[i]>> \notin children
      BY <1>1 DEF HistoryInv, PurgeKnown, HistoryTyped, PurgeRows
    <2>2. Expired' \subseteq Expired
      <3> SUFFICES ASSUME NEW y \in Execs, ex'[y].st = "stored", ex'[y].start < retention.cutoff
                   PROVE  ex[y].st = "stored" /\ ex[y].start < retention.cutoff
        BY DEF Expired, Stored
      <3>1. CASE y # x
        BY <1>2, <3>1
      <3>2. CASE y = x
        <4>1. r.start < now - Retention
          BY <1>2, <1>4, <2>1, <3>2
        <4>2. ~(now - r.start < Retention)
          BY <1>4, <4>1
        <4>3. ex[x].st \notin {"running", "queued"} \/ r.start # ex[x].start
          BY <4>2 DEF HistoryInv, YoungKnown, OnItsWay, Unfinished
        <4> QED
          BY <1>2, <3>2, <4>3
      <3> QED
        BY <3>1, <3>2
    <2> QED
      BY <2>1, <2>2
  <1>8. DeleteKnown'
    <2>1. \A y \in Execs : ex[y].st \in {"stored", "gone"} => ex'[y].st = ex[y].st
      BY <1>2
    <2>2. deleter \in DeleteRows
      BY <1>1 DEF HistoryTyped
    <2> QED
      BY <2>1, <2>2 DEF HistoryInv, DeleteKnown, DeleteRows
  <1>9. SweepKnown'
    <2> SUFFICES ASSUME reclaim.st = "sweeping" PROVE SweepKnown'
      BY DEF SweepKnown
    <2>1. \A y \in Execs : ex'[y].st = ex[y].st /\ ex'[y].fn = ex[y].fn
      BY <1>2 DEF HistoryInv, SweepKnown, Unfinished
    <2>2. Unfinished' = Unfinished /\ OrphanExecs' = OrphanExecs
      BY <2>1 DEF Unfinished, OrphanExecs, Stored
    <2>3. \A i : OrphanChildren(i)' = OrphanChildren(i)
      <3>1. \A k \in children : ex'[k[1]].st = ex[k[1]].st
        BY <1>1, <2>1 DEF HistoryTyped
      <3> QED
        BY <3>1 DEF OrphanChildren
    <2> QED
      BY <2>2, <2>3 DEF HistoryInv, SweepKnown
  <1>10. NothingStranded'
    <2> SUFFICES ASSUME reclaim.marker
                 PROVE  OrphanExecs' = {} /\ \A k \in children : k[1] \in Stored' \cup Unfinished' \/ k \in late
      BY DEF NothingStranded
    <2>1. OrphanExecs = {} /\ \A k \in children : k[1] \in Stored \cup Unfinished \/ k \in late
      BY DEF HistoryInv, NothingStranded
    <2>2. Stored \cup Unfinished \subseteq Stored' \cup Unfinished'
      BY <1>2 DEF Stored, Unfinished
    <2>3. \A y \in Execs : ex'[y].st = "stored" => ex'[y].fn \in FnTable
      BY <1>2, <2>1 DEF HistoryInv, BornKnown, Unfinished, OrphanExecs, Stored
    <2> QED
      BY <2>1, <2>2, <2>3 DEF OrphanExecs, Stored
  <1> QED
    BY <1>3, <1>6, <1>7, <1>8, <1>9, <1>10 DEF HistoryInv

\* Steps that touch no row and no child row.
LEMMA ScansChange ==
  ASSUME HistoryInv, UNCHANGED <<ex, children, inflight, late>>, HistoryTyped', YoungKnown', PurgeKnown', DeleteKnown',
         reclaim' = reclaim, reclaim.st = "sweeping" => retention'.next = 0 /\ deleter'.next = 0
  PROVE  HistoryInv'
  <1>1. Unfinished' = Unfinished /\ Stored' = Stored /\ OrphanExecs' = OrphanExecs /\ \A i : OrphanChildren(i)' = OrphanChildren(i)
    BY DEF Unfinished, Stored, OrphanExecs, OrphanChildren
  <1>2. BornKnown'
    BY <1>1 DEF HistoryInv, BornKnown
  <1>3. SweepKnown'
    BY <1>1 DEF HistoryInv, SweepKnown
  <1>4. NothingStranded'
    BY <1>1 DEF HistoryInv, NothingStranded
  <1> QED
    BY <1>2, <1>3, <1>4 DEF HistoryInv

\* Steps the invariant does not see.
LEMMA HistoryUnseen ==
  ASSUME HistoryInv, UNCHANGED <<ex, children, inflight, late, now, retention, deleter, reclaim>>
  PROVE  HistoryInv'
  <1>1. HistoryTyped'
    BY DEF HistoryInv, HistoryTyped
  <1>2. YoungKnown' /\ PurgeKnown' /\ DeleteKnown'
    BY DEF HistoryInv, YoungKnown, OnItsWay, Unfinished, PurgeKnown, DeleteKnown, Expired, Stored
  <1> QED
    BY <1>1, <1>2, ScansChange DEF HistoryInv, SweepKnown

LEMMA KeepsBeginExecution ==
  ASSUME HistoryInv, NEW x \in Execs, NEW fn \in FnTable, NEW t \in TraceIds, NEW p \in Execs \cup {NoParent, External},
         BeginExecution(x, fn, t, p)
  PROVE  HistoryInv'
  <1> DEFINE r == [NoExec EXCEPT !.st = "running", !.fn = fn, !.trace = t, !.parent = p, !.start = now]
  <1>1. now \in 0 .. MaxNow /\ MaxNow \in Nat
    BY NumbersOfHistory DEF HistoryInv, HistoryTyped
  <1>2. NoExec \in ExecRows /\ NoExec.dur = 0
    BY <1>1 DEF NoExec, ExecRows, FnIds, FnTable
  <1>3. r \in ExecRows /\ r.st = "running" /\ r.fn = fn /\ r.start = now /\ End(r) <= now
    <2>1. fn \in FnIds /\ t \in TraceIds \cup {0}
      BY DEF FnIds
    <2>2. r \in ExecRows /\ r.st = "running" /\ r.fn = fn /\ r.start = now /\ r.dur = 0
      BY <1>1, <1>2, <2>1 DEF ExecRows
    <2> HIDE DEF r
    <2> QED
      BY <1>1, <2>2 DEF End
  <1>4. /\ ex[x].st = "none" /\ reclaim.st = "serving" /\ ex' = [ex EXCEPT ![x] = r]
        /\ UNCHANGED <<children, inflight, late, now, retention, deleter, reclaim>>
    BY DEF BeginExecution
  <1> HIDE DEF r
  <1> QED
    BY <1>3, <1>4, RowChanges

LEMMA KeepsFinishExecution ==
  ASSUME HistoryInv, NEW x \in Execs, NEW failed \in BOOLEAN, NEW cold \in BOOLEAN, NEW direct \in BOOLEAN,
         FinishExecution(x, failed, cold, direct)
  PROVE  HistoryInv'
  <1> DEFINE d == now - ex[x].start
             o == direct /\ Classify(Observe(ring, failed, cold, d), d)
             r == [ex[x] EXCEPT !.st = "queued", !.dur = d, !.failed = failed, !.cold = cold, !.outlier = o]
  <1>1. /\ HistoryTyped /\ ex \in [Execs -> ExecRows] /\ ex[x] \in ExecRows
    BY DEF HistoryInv, HistoryTyped
  <1>2. d \in 0 .. MaxNow /\ ex[x].start + d <= now
    BY <1>1, RowOf
  <1>3. o \in BOOLEAN
    BY DEF Classify
  <1>4. ex[x].st = "running" /\ UNCHANGED <<children, inflight, late, now, retention, deleter, reclaim>>
    BY DEF FinishExecution
  <1>5. ex' = [ex EXCEPT ![x].st = "queued", ![x].dur = d, ![x].failed = failed, ![x].cold = cold, ![x].outlier = o]
    BY DEF FinishExecution
  <1>6. ex' = [ex EXCEPT ![x] = r]
    BY <1>1, <1>5
  <1> HIDE DEF o, d
  <1>7. r \in ExecRows /\ r.st = "queued" /\ r.fn = ex[x].fn /\ r.start = ex[x].start /\ r.dur = d
    BY <1>1, <1>2, <1>3 DEF ExecRows
  <1>8. End(r) <= now
    BY <1>2, <1>7 DEF End
  <1> HIDE DEF r
  <1> QED
    BY <1>4, <1>6, <1>7, <1>8, RowChanges

LEMMA KeepsStoreExecution ==
  ASSUME HistoryInv, NEW x \in Execs, StoreExecution(x)
  PROVE  HistoryInv'
  <1> DEFINE r == [ex[x] EXCEPT !.st = "stored"]
  <1>1. HistoryTyped /\ ex \in [Execs -> ExecRows] /\ ex[x] \in ExecRows /\ End(ex[x]) <= now
    BY DEF HistoryInv, HistoryTyped
  <1>2. ex[x].st = "queued" /\ ex' = [ex EXCEPT ![x] = r] /\ UNCHANGED <<children, inflight, late, now, retention, deleter, reclaim>>
    BY <1>1 DEF StoreExecution
  <1>3. r \in ExecRows /\ r.st = "stored" /\ r.fn = ex[x].fn /\ r.start = ex[x].start /\ r.dur = ex[x].dur
    BY <1>1 DEF ExecRows
  <1>4. End(r) <= now
    BY <1>1, <1>3 DEF End
  <1> HIDE DEF r
  <1> QED
    BY <1>2, <1>3, <1>4, RowChanges

LEMMA KeepsUpdateOutlier ==
  ASSUME HistoryInv, NEW x \in Execs, UpdateOutlier(x)
  PROVE  HistoryInv'
  <1> DEFINE o == verdict[x] = "outlier"
             r == [ex[x] EXCEPT !.outlier = o]
  <1>1. HistoryTyped /\ ex \in [Execs -> ExecRows] /\ ex[x] \in ExecRows /\ End(ex[x]) <= now
    BY DEF HistoryInv, HistoryTyped
  <1>2. UNCHANGED <<children, inflight, late, now, retention, deleter, reclaim>> /\ (UNCHANGED ex \/ ex' = [ex EXCEPT ![x].outlier = o])
    BY DEF UpdateOutlier
  <1>3. CASE UNCHANGED ex
    BY <1>2, <1>3, HistoryUnseen
  <1>4. CASE ex' = [ex EXCEPT ![x].outlier = o]
    <2>1. o \in BOOLEAN
      OBVIOUS
    <2>2. ex' = [ex EXCEPT ![x] = r]
      BY <1>1, <1>4
    <2> HIDE DEF o
    <2>3. r \in ExecRows /\ r.st = ex[x].st /\ r.fn = ex[x].fn /\ r.start = ex[x].start /\ r.dur = ex[x].dur
      BY <1>1, <2>1 DEF ExecRows
    <2>4. End(r) <= now
      BY <1>1, <2>3 DEF End
    <2> HIDE DEF r
    <2> QED
      BY <1>2, <2>2, <2>3, <2>4, RowChanges
  <1> QED
    BY <1>2, <1>3, <1>4

LEMMA KeepsEmitTelemetry ==
  ASSUME HistoryInv, NEW x \in Execs, NEW table \in Tables, NEW s, NEW failed, EmitTelemetry(x, table, s, failed)
  PROVE  HistoryInv'
  <1>1. /\ ex[x].st = "running" /\ inflight' = inflight \cup {<<x, table>>}
        /\ UNCHANGED <<ex, children, now, retention, deleter, reclaim, late>>
    BY DEF EmitTelemetry
  <1>2. HistoryTyped'
    BY <1>1 DEF HistoryInv, HistoryTyped
  <1>3. x \in Unfinished
    BY <1>1 DEF Unfinished
  <1>4. YoungKnown'
    <2>1. Unfinished' = Unfinished
      BY <1>1 DEF Unfinished
    <2>2. \A y \in Execs : OnItsWay(y)' => OnItsWay(y)
      BY <1>1, <1>3, <2>1 DEF OnItsWay
    <2> QED
      BY <1>1, <2>2 DEF HistoryInv, YoungKnown
  <1>5. BornKnown' /\ PurgeKnown' /\ DeleteKnown' /\ NothingStranded'
    <2>1. \A k \in inflight' : k \in inflight \/ k[1] = x
      BY <1>1
    <2>2. \A k \in inflight' : ex'[k[1]].st # "none"
      BY <1>1, <2>1 DEF HistoryInv, BornKnown
    <2>3. BornKnown'
      BY <1>1, <2>2 DEF HistoryInv, BornKnown, Unfinished
    <2>4. PurgeKnown' /\ DeleteKnown' /\ NothingStranded'
      BY <1>1 DEF HistoryInv, PurgeKnown, DeleteKnown, NothingStranded, Unfinished, Expired, Stored, OrphanExecs
    <2> QED
      BY <2>3, <2>4
  <1>6. SweepKnown'
    BY <1>1, <1>3 DEF HistoryInv, SweepKnown
  <1> QED
    BY <1>2, <1>4, <1>5, <1>6 DEF HistoryInv

LEMMA KeepsStoreTelemetry ==
  ASSUME HistoryInv, NEW x \in Execs, NEW table \in Tables, NEW drop \in BOOLEAN, StoreTelemetry(x, table, drop)
  PROVE  HistoryInv'
  <1> DEFINE k == <<x, table>>
  <1>1. /\ k \in inflight /\ inflight' \subseteq inflight /\ UNCHANGED <<ex, now, retention, deleter, reclaim>>
        /\ \/ UNCHANGED <<children, late>>
           \/ children' = children \cup {k} /\ late' = IF TableSwept(x, table) THEN late \cup {k} ELSE late
    BY DEF StoreTelemetry
  <1>2. HistoryTyped /\ k \in Execs \X Tables
    BY DEF HistoryInv
  <1>3. HistoryTyped'
    BY <1>1, <1>2 DEF HistoryTyped
  <1>4. Unfinished' = Unfinished /\ Stored' = Stored /\ Expired' = Expired /\ OrphanExecs' = OrphanExecs
    BY <1>1 DEF Unfinished, Stored, Expired, OrphanExecs
  <1>5. YoungKnown' /\ BornKnown'
    BY <1>1, <1>4 DEF HistoryInv, YoungKnown, BornKnown, OnItsWay
  <1>6. /\ children \subseteq children' /\ late \subseteq late' /\ children' \subseteq children \cup {k}
        /\ k \in children' /\ k \notin children /\ TableSwept(x, table) => k \in late'
    BY <1>1
  <1>7. ex[x].start \in Nat /\ now \in Nat /\ Retention \in Nat /\ now - ex[x].start < Retention
    <2>1. k[1] = x
      OBVIOUS
    <2> QED
      BY <1>1, <1>2, <2>1, RowOf, NumbersOfHistory DEF HistoryInv, YoungKnown, OnItsWay
  <1>8. PurgeKnown'
    <2> SUFFICES ASSUME retention.next > 0
                 PROVE  /\ retention.cutoff <= now - Retention
                        /\ \A y \in Expired : \A i \in 1 .. retention.next - 1 : <<y, ChildTables[i]>> \notin children'
      BY <1>1, <1>4 DEF PurgeKnown
    <2>1. /\ retention.cutoff <= now - Retention /\ retention.cutoff \in Int
          /\ \A y \in Expired : \A i \in 1 .. retention.next - 1 : <<y, ChildTables[i]>> \notin children
      BY <1>2 DEF HistoryInv, PurgeKnown, HistoryTyped, PurgeRows
    <2>2. ~(ex[x].start < retention.cutoff)
      BY <1>7, <2>1
    <2>3. x \notin Expired
      BY <2>2 DEF Expired
    <2>4. \A y \in Expired : \A i : <<y, ChildTables[i]>> # k
      BY <2>3
    <2> QED
      BY <1>6, <2>1, <2>4
  <1>9. DeleteKnown'
    <2> SUFFICES ASSUME deleter.next > 0, ex[deleter.x].st = "stored", NEW i \in 1 .. deleter.next - 1,
                        <<deleter.x, ChildTables[i]>> \in children'
                 PROVE  <<deleter.x, ChildTables[i]>> \in late'
      BY <1>1 DEF HistoryInv, DeleteKnown
    <2>1. CASE <<deleter.x, ChildTables[i]>> \in children
      BY <1>6, <2>1 DEF HistoryInv, DeleteKnown
    <2>2. CASE <<deleter.x, ChildTables[i]>> \notin children
      <3>1. <<deleter.x, ChildTables[i]>> = k
        BY <1>6, <2>2
      <3>2. deleter.x = x /\ ChildTables[i] = table
        BY <3>1
      <3>3. TableSwept(x, table)
        BY <3>2 DEF TableSwept
      <3> QED
        BY <1>6, <2>2, <3>1, <3>3
    <2> QED
      BY <2>1, <2>2
  <1>10. SweepKnown'
    BY <1>1 DEF HistoryInv, SweepKnown
  <1>11. NothingStranded'
    <2> SUFFICES ASSUME reclaim.marker, NEW q \in children'
                 PROVE  q[1] \in Stored \cup Unfinished \/ q \in late'
      BY <1>1, <1>4 DEF HistoryInv, NothingStranded
    <2>1. CASE q \in children
      BY <1>6, <2>1 DEF HistoryInv, NothingStranded
    <2>2. CASE q \notin children
      <3>1. q = k /\ q[1] = x
        BY <1>6, <2>2
      <3>2. x \in Unfinished \cup Stored \/ ex[x].st \in {"none", "gone"}
        BY <1>2, RowOf DEF Unfinished, Stored
      <3>3. ex[x].st # "none"
        BY <1>1 DEF HistoryInv, BornKnown
      <3>4. CASE ex[x].st = "gone"
        BY <1>6, <2>2, <3>1, <3>4 DEF TableSwept
      <3> QED
        BY <3>1, <3>2, <3>3, <3>4
    <2> QED
      BY <2>1, <2>2
  <1> QED
    BY <1>3, <1>5, <1>8, <1>9, <1>10, <1>11 DEF HistoryInv

LEMMA KeepsTraceTick ==
  ASSUME HistoryInv, TraceTick
  PROVE  HistoryInv'
  <1>1. /\ now < MaxNow /\ now' = now + 1 /\ UNCHANGED <<ex, children, inflight, retention, deleter, reclaim, late>>
        /\ \A x \in Execs : x \in Unfinished \/ (\E k \in inflight : k[1] = x) => now' - ex[x].start < Retention
    BY DEF TraceTick
  <1>2. now \in 0 .. MaxNow /\ MaxNow \in Nat /\ Retention \in Nat /\ retention \in PurgeRows
    BY NumbersOfHistory DEF HistoryInv, HistoryTyped
  <1>3. HistoryTyped'
    <2>1. \A x \in Execs : End(ex[x]) <= now + 1
      <3> TAKE x \in Execs
      <3>1. End(ex[x]) <= now /\ ex[x].start \in Nat /\ ex[x].dur \in Nat
        BY RowOf DEF HistoryInv, HistoryTyped
      <3> QED
        BY <1>2, <3>1 DEF End
    <2>2. now' \in 0 .. MaxNow
      BY <1>1, <1>2
    <2> QED
      BY <1>1, <2>1, <2>2 DEF HistoryInv, HistoryTyped
  <1>4. YoungKnown'
    BY <1>1 DEF YoungKnown, OnItsWay, Unfinished
  <1>5. PurgeKnown'
    <2>1. retention.cutoff <= now - Retention => retention.cutoff <= now' - Retention
      BY <1>1, <1>2 DEF PurgeRows
    <2>2. Expired' = Expired
      BY <1>1 DEF Expired, Stored
    <2> QED
      BY <1>1, <2>1, <2>2 DEF HistoryInv, PurgeKnown
  <1>6. DeleteKnown'
    BY <1>1 DEF HistoryInv, DeleteKnown
  <1> QED
    BY <1>1, <1>3, <1>4, <1>5, <1>6, ScansChange DEF HistoryInv, SweepKnown

\* Nothing has been deleted when a purge or a delete begins.
LEMMA KeepsPurgeStart ==
  ASSUME HistoryInv, PurgeStart
  PROVE  HistoryInv'
  <1>1. /\ reclaim.st = "serving" /\ now > Retention /\ retention' = [next |-> 1, cutoff |-> now - Retention]
        /\ UNCHANGED <<ex, children, inflight, now, deleter, reclaim, late>>
    BY DEF PurgeStart
  <1>2. now \in Nat /\ Retention \in Nat /\ TableCount \in Nat /\ TableCount >= 1
    BY NumbersOfHistory, TableFacts DEF HistoryInv, HistoryTyped
  <1>3. retention' \in PurgeRows /\ retention'.next = 1 /\ retention'.cutoff = now - Retention
    BY <1>1, <1>2 DEF PurgeRows
  <1>4. HistoryTyped'
    BY <1>1, <1>3 DEF HistoryInv, HistoryTyped
  <1>5. PurgeKnown'
    BY <1>1, <1>2, <1>3 DEF PurgeKnown
  <1>6. YoungKnown' /\ DeleteKnown'
    BY <1>1 DEF HistoryInv, YoungKnown, OnItsWay, Unfinished, DeleteKnown
  <1> QED
    BY <1>1, <1>4, <1>5, <1>6, ScansChange

LEMMA KeepsDeleteStart ==
  ASSUME HistoryInv, NEW S \in SUBSET Execs, DeleteStart(S)
  PROVE  HistoryInv'
  <1>1. /\ reclaim.st = "serving" /\ S \subseteq Stored /\ \E x \in S : deleter' = [x |-> x, next |-> 1, todo |-> S \ {x}]
        /\ UNCHANGED <<ex, children, inflight, now, retention, reclaim, late>>
    BY DEF DeleteStart
  <1>2. PICK x \in S : deleter' = [x |-> x, next |-> 1, todo |-> S \ {x}]
    BY <1>1
  <1>3. deleter' \in DeleteRows /\ deleter'.x = x /\ deleter'.next = 1 /\ deleter'.todo = S \ {x}
    BY <1>2, TableFacts DEF DeleteRows
  <1>4. HistoryTyped'
    BY <1>1, <1>3 DEF HistoryInv, HistoryTyped
  <1>5. DeleteKnown'
    BY <1>1, <1>3 DEF DeleteKnown, Stored
  <1>6. YoungKnown' /\ PurgeKnown'
    BY <1>1 DEF HistoryInv, YoungKnown, OnItsWay, Unfinished, PurgeKnown, Expired, Stored
  <1> QED
    BY <1>1, <1>4, <1>5, <1>6, ScansChange

\* A statement that drops rows of stored executions out of one table keeps what
\* does not speak of the scans.
LEMMA ChildrenGo ==
  ASSUME HistoryInv, children' \subseteq children, UNCHANGED <<ex, inflight, late, now, reclaim>>
  PROVE  YoungKnown' /\ BornKnown' /\ NothingStranded' /\ Stored' = Stored
  <1>1. Unfinished' = Unfinished /\ Stored' = Stored /\ OrphanExecs' = OrphanExecs
    BY DEF Unfinished, Stored, OrphanExecs
  <1> QED
    BY <1>1 DEF HistoryInv, YoungKnown, OnItsWay, BornKnown, NothingStranded

\* So does the one that drops the executions, if they have only late children.
LEMMA ExecsGo ==
  ASSUME HistoryInv, NEW S \in SUBSET Stored, \A k \in children : k[1] \in S => k \in late \/ ~reclaim.marker,
         ex' = [x \in Execs |-> IF x \in S THEN [ex[x] EXCEPT !.st = "gone"] ELSE ex[x]],
         UNCHANGED <<children, inflight, late, now, reclaim>>
  PROVE  /\ YoungKnown' /\ BornKnown' /\ NothingStranded'
         /\ ex' \in [Execs -> ExecRows] /\ \A x \in Execs : End(ex'[x]) <= now
         /\ \A x \in Execs : ex'[x].st = (IF x \in S THEN "gone" ELSE ex[x].st) /\ ex'[x].fn = ex[x].fn /\ ex'[x].start = ex[x].start
         /\ Stored' = Stored \ S /\ Unfinished' = Unfinished
  <1>1. HistoryTyped /\ S \subseteq Execs
    BY DEF HistoryInv, Stored
  <1>2. \A x \in Execs : /\ ex'[x] \in ExecRows /\ ex'[x].st = (IF x \in S THEN "gone" ELSE ex[x].st)
                         /\ ex'[x].fn = ex[x].fn /\ ex'[x].start = ex[x].start /\ ex'[x].dur = ex[x].dur
    <2> TAKE x \in Execs
    <2>1. ex[x] \in ExecRows /\ ex'[x] = IF x \in S THEN [ex[x] EXCEPT !.st = "gone"] ELSE ex[x]
      BY <1>1 DEF HistoryTyped
    <2> QED
      BY <2>1 DEF ExecRows
  <1>3. ex' \in [Execs -> ExecRows] /\ \A x \in Execs : End(ex'[x]) <= now
    <2>1. \A x \in Execs : End(ex'[x]) = End(ex[x])
      BY <1>2 DEF End
    <2> QED
      BY <1>1, <1>2, <2>1 DEF HistoryTyped
  <1>4. Stored' = Stored \ S /\ Unfinished' = Unfinished
    BY <1>1, <1>2 DEF Stored, Unfinished
  <1>5. YoungKnown'
    BY <1>2, <1>4 DEF HistoryInv, YoungKnown, OnItsWay
  <1>6. BornKnown'
    <2>1. \A k \in inflight : k[1] \in Execs
      BY <1>1 DEF HistoryTyped
    <2>2. Unfinished \subseteq Execs
      BY DEF Unfinished
    <2> QED
      BY <1>2, <1>4, <2>1, <2>2 DEF HistoryInv, BornKnown
  <1>7. NothingStranded'
    <2>1. OrphanExecs' \subseteq OrphanExecs
      BY <1>2, <1>4 DEF OrphanExecs, Stored
    <2> QED
      BY <1>4, <2>1 DEF HistoryInv, NothingStranded
  <1> QED
    BY <1>2, <1>3, <1>4, <1>5, <1>6, <1>7

LEMMA Idle ==
  ASSUME HistoryInv, retention.next > 0 \/ deleter.next > 0
  PROVE  reclaim.st # "sweeping"
  <1>1. reclaim.st = "sweeping" => retention.next = 0 /\ deleter.next = 0
    BY DEF HistoryInv, SweepKnown
  <1> QED
    BY <1>1

LEMMA KeepsPurgeStatement ==
  ASSUME HistoryInv, NEW ok \in BOOLEAN, PurgeStatement(ok)
  PROVE  HistoryInv'
  <1> DEFINE i == retention.next
             done == [next |-> 0, cutoff |-> 0]
  <1>1. /\ i > 0 /\ UNCHANGED <<inflight, now, deleter, reclaim, late>>
        /\ IF ok THEN DeleteStep(Expired, i) ELSE UNCHANGED <<ex, children, walk>>
        /\ retention' = IF ok /\ i <= TableCount THEN [retention EXCEPT !.next = i + 1] ELSE done
    BY DEF PurgeStatement, TableCount
  <1>2. /\ HistoryTyped /\ retention \in PurgeRows /\ i \in 1 .. TableCount + 1 /\ TableCount \in Nat
        /\ children \subseteq Execs \X Tables /\ deleter \in DeleteRows
    BY <1>1, TableFacts DEF HistoryInv, HistoryTyped, PurgeRows
  <1>3. done \in PurgeRows /\ done.next = 0
    BY <1>2 DEF PurgeRows
  <1>4. reclaim.st # "sweeping"
    BY <1>1, Idle
  <1>5. CASE ~ok
    <2>1. UNCHANGED <<ex, children>> /\ retention' = done
      BY <1>1, <1>5
    <2>2. HistoryTyped'
      BY <1>1, <1>3, <2>1 DEF HistoryInv, HistoryTyped
    <2>3. PurgeKnown'
      BY <1>3, <2>1 DEF PurgeKnown
    <2>4. YoungKnown' /\ DeleteKnown'
      BY <1>1, <2>1 DEF HistoryInv, YoungKnown, OnItsWay, Unfinished, DeleteKnown
    <2> QED
      BY <1>1, <1>4, <2>1, <2>2, <2>3, <2>4, ScansChange
  <1>6. CASE ok /\ i <= TableCount
    <2>1. children' = children \ (Expired \X {ChildTables[i]}) /\ ex' = ex
      BY <1>1, <1>6 DEF DeleteStep, TableCount
    <2>2. retention' \in PurgeRows /\ retention'.next = i + 1 /\ retention'.cutoff = retention.cutoff
      BY <1>1, <1>2, <1>6 DEF PurgeRows
    <2>3. HistoryTyped'
      BY <1>1, <1>2, <2>1, <2>2 DEF HistoryTyped
    <2>4. YoungKnown' /\ BornKnown' /\ NothingStranded' /\ Stored' = Stored
      BY <1>1, <2>1, ChildrenGo
    <2>5. PurgeKnown'
      <3>1. Expired' = Expired
        BY <2>1, <2>2, <2>4 DEF Expired
      <3>2. ASSUME NEW x \in Expired, NEW j \in 1 .. i PROVE <<x, ChildTables[j]>> \notin children'
        <4>1. CASE j = i
          BY <2>1, <4>1
        <4>2. CASE j # i
          <5>1. j \in 1 .. i - 1
            BY <1>2, <4>2
          <5> QED
            BY <1>1, <2>1, <5>1 DEF HistoryInv, PurgeKnown
        <4> QED
          BY <4>1, <4>2
      <3>3. retention.cutoff <= now - Retention
        BY <1>1 DEF HistoryInv, PurgeKnown
      <3>4. 1 .. retention'.next - 1 = 1 .. i
        BY <1>2, <2>2
      <3> QED
        BY <1>1, <2>2, <3>1, <3>2, <3>3, <3>4 DEF PurgeKnown
    <2>6. DeleteKnown'
      BY <1>1, <2>1 DEF HistoryInv, DeleteKnown
    <2>7. SweepKnown'
      BY <1>1, <1>4 DEF SweepKnown
    <2> QED
      BY <2>3, <2>4, <2>5, <2>6, <2>7 DEF HistoryInv
  <1>7. CASE ok /\ ~(i <= TableCount)
    <2>1. /\ ex' = [x \in Execs |-> IF x \in Expired THEN [ex[x] EXCEPT !.st = "gone"] ELSE ex[x]]
          /\ children' = children /\ retention' = done
      BY <1>1, <1>7 DEF DeleteStep, TableCount
    <2>2. Expired \subseteq Stored
      BY DEF Expired
    <2>3. \A k \in children : k[1] \notin Expired
      <3> SUFFICES ASSUME NEW k \in children, k[1] \in Expired PROVE FALSE
        OBVIOUS
      <3>1. k = <<k[1], k[2]>> /\ k[2] \in Tables
        BY <1>2
      <3>2. PICK j \in 1 .. TableCount : ChildTables[j] = k[2]
        BY <3>1, TableFacts
      <3>3. j \in 1 .. i - 1
        BY <1>2, <1>7
      <3> QED
        BY <1>1, <3>1, <3>2, <3>3 DEF HistoryInv, PurgeKnown
    <2>4. /\ YoungKnown' /\ BornKnown' /\ NothingStranded'
          /\ ex' \in [Execs -> ExecRows] /\ \A x \in Execs : End(ex'[x]) <= now
          /\ \A x \in Execs : ex'[x].st = (IF x \in Expired THEN "gone" ELSE ex[x].st)
      BY <1>1, <2>1, <2>2, <2>3, ExecsGo
    <2>5. HistoryTyped'
      BY <1>1, <1>2, <1>3, <2>1, <2>4 DEF HistoryTyped
    <2>6. PurgeKnown'
      BY <1>3, <2>1 DEF PurgeKnown
    <2>7. DeleteKnown'
      <3>1. \A x \in Execs : (ex[x].st \in {"stored", "gone"} => ex'[x].st \in {"stored", "gone"}) /\ (ex'[x].st = "stored" => ex[x].st = "stored")
        BY <2>4
      <3> QED
        BY <1>1, <1>2, <2>1, <3>1 DEF HistoryInv, DeleteKnown, DeleteRows
    <2>8. SweepKnown'
      BY <1>1, <1>4 DEF SweepKnown
    <2> QED
      BY <2>4, <2>5, <2>6, <2>7, <2>8 DEF HistoryInv
  <1> QED
    BY <1>5, <1>6, <1>7

\* The deletion of the next row begins, or there is none.
DeleteMovesOn ==
  \/ deleter.todo = {} /\ deleter' = NoDelete
  \/ \E y \in deleter.todo : deleter' = [x |-> y, next |-> 1, todo |-> deleter.todo \ {y}]

LEMMA MovesOnKnown ==
  ASSUME HistoryInv, deleter.next > 0, DeleteMovesOn, \A x \in Execs : ex[x].st \in {"stored", "gone"} => ex'[x].st \in {"stored", "gone"}
  PROVE  deleter' \in DeleteRows /\ DeleteKnown'
  <1>1. deleter \in DeleteRows /\ TableCount \in Nat /\ TableCount >= 1
    BY TableFacts DEF HistoryInv, HistoryTyped
  <1>2. CASE deleter' = NoDelete
    <2>1. deleter' \in DeleteRows /\ deleter'.next = 0
      BY <1>1, <1>2 DEF NoDelete, DeleteRows
    <2> QED
      BY <2>1 DEF DeleteKnown
  <1>3. ASSUME NEW y \in deleter.todo, deleter' = [x |-> y, next |-> 1, todo |-> deleter.todo \ {y}]
        PROVE  deleter' \in DeleteRows /\ DeleteKnown'
    <2>1. y \in Execs /\ deleter.todo \subseteq Execs
      BY <1>1, <1>3 DEF DeleteRows
    <2>2. deleter' \in DeleteRows /\ deleter'.next = 1 /\ deleter'.x = y /\ deleter'.todo = deleter.todo \ {y}
      BY <1>1, <1>3, <2>1 DEF DeleteRows
    <2>3. \A x \in deleter.todo : ex[x].st \in {"stored", "gone"}
      BY DEF HistoryInv, DeleteKnown
    <2> QED
      BY <1>3, <2>1, <2>2, <2>3 DEF DeleteKnown
  <1> QED
    BY <1>2, <1>3 DEF DeleteMovesOn

LEMMA KeepsDeleteStatement ==
  ASSUME HistoryInv, NEW ok \in BOOLEAN, DeleteStatement(ok)
  PROVE  HistoryInv'
  <1> DEFINE i == deleter.next
             S == {deleter.x} \cap Stored
  <1>1. /\ i > 0 /\ UNCHANGED <<inflight, now, retention, reclaim, late>>
        /\ IF ok THEN DeleteStep(S, i) ELSE UNCHANGED <<ex, children, walk>>
        /\ IF ok /\ i <= TableCount THEN deleter' = [deleter EXCEPT !.next = i + 1] ELSE DeleteMovesOn
    BY DEF DeleteStatement, TableCount, DeleteMovesOn
  <1>2. /\ HistoryTyped /\ deleter \in DeleteRows /\ i \in 1 .. TableCount + 1 /\ TableCount \in Nat
        /\ children \subseteq Execs \X Tables /\ deleter.x \in Execs
    BY <1>1, TableFacts DEF HistoryInv, HistoryTyped, DeleteRows, DeleteKnown
  <1>3. reclaim.st # "sweeping"
    BY <1>1, Idle
  <1>4. CASE ~ok
    <2>1. UNCHANGED <<ex, children>> /\ DeleteMovesOn
      BY <1>1, <1>4
    <2>2. deleter' \in DeleteRows /\ DeleteKnown'
      BY <1>1, <2>1, MovesOnKnown
    <2>3. HistoryTyped'
      BY <1>1, <2>1, <2>2 DEF HistoryInv, HistoryTyped
    <2>4. YoungKnown' /\ PurgeKnown'
      BY <1>1, <2>1 DEF HistoryInv, YoungKnown, OnItsWay, Unfinished, PurgeKnown, Expired, Stored
    <2> QED
      BY <1>1, <1>3, <2>1, <2>2, <2>3, <2>4, ScansChange
  <1>5. CASE ok /\ i <= TableCount
    <2>1. children' = children \ (S \X {ChildTables[i]}) /\ ex' = ex
      BY <1>1, <1>5 DEF DeleteStep, TableCount
    <2>2. deleter' \in DeleteRows /\ deleter'.next = i + 1 /\ deleter'.x = deleter.x /\ deleter'.todo = deleter.todo
      BY <1>1, <1>2, <1>5 DEF DeleteRows
    <2>3. HistoryTyped'
      BY <1>1, <1>2, <2>1, <2>2 DEF HistoryTyped
    <2>4. YoungKnown' /\ BornKnown' /\ NothingStranded' /\ Stored' = Stored
      BY <1>1, <2>1, ChildrenGo
    <2>5. PurgeKnown'
      BY <1>1, <2>1, <2>4 DEF HistoryInv, PurgeKnown, Expired
    <2>6. DeleteKnown'
      <3>1. ASSUME ex[deleter.x].st = "stored", NEW j \in 1 .. i, <<deleter.x, ChildTables[j]>> \in children'
            PROVE  <<deleter.x, ChildTables[j]>> \in late
        <4>1. deleter.x \in S
          BY <1>2, <3>1 DEF Stored
        <4>2. j # i
          BY <2>1, <3>1, <4>1
        <4>3. j \in 1 .. i - 1
          BY <1>2, <4>2
        <4> QED
          BY <1>1, <2>1, <3>1, <4>3 DEF HistoryInv, DeleteKnown
      <3>2. 1 .. deleter'.next - 1 = 1 .. i
        BY <1>2, <2>2
      <3>3. \A x \in {deleter.x} \cup deleter.todo : ex[x].st \in {"stored", "gone"}
        BY <1>1 DEF HistoryInv, DeleteKnown
      <3> QED
        BY <1>1, <1>2, <2>1, <2>2, <3>1, <3>2, <3>3 DEF DeleteKnown
    <2>7. SweepKnown'
      BY <1>1, <1>3 DEF SweepKnown
    <2> QED
      BY <2>3, <2>4, <2>5, <2>6, <2>7 DEF HistoryInv
  <1>6. CASE ok /\ ~(i <= TableCount)
    <2>1. /\ ex' = [x \in Execs |-> IF x \in S THEN [ex[x] EXCEPT !.st = "gone"] ELSE ex[x]]
          /\ children' = children /\ DeleteMovesOn
      BY <1>1, <1>6 DEF DeleteStep, TableCount
    <2>2. \A k \in children : k[1] \in S => k \in late
      <3> SUFFICES ASSUME NEW k \in children, k[1] \in S PROVE k \in late
        OBVIOUS
      <3>1. k = <<k[1], k[2]>> /\ k[2] \in Tables /\ k[1] = deleter.x /\ ex[deleter.x].st = "stored"
        BY <1>2 DEF Stored
      <3>2. PICK j \in 1 .. TableCount : ChildTables[j] = k[2]
        BY <3>1, TableFacts
      <3>3. j \in 1 .. i - 1
        BY <1>2, <1>6
      <3> QED
        BY <1>1, <3>1, <3>2, <3>3 DEF HistoryInv, DeleteKnown
    <2>3. S \in SUBSET Stored
      OBVIOUS
    <2> HIDE DEF S
    <2>4. /\ YoungKnown' /\ BornKnown' /\ NothingStranded' /\ Stored' = Stored \ S
          /\ ex' \in [Execs -> ExecRows] /\ \A x \in Execs : End(ex'[x]) <= now
          /\ \A x \in Execs : ex'[x].st = (IF x \in S THEN "gone" ELSE ex[x].st) /\ ex'[x].start = ex[x].start
      BY <1>1, <2>1, <2>2, <2>3, ExecsGo
    <2>5. deleter' \in DeleteRows /\ DeleteKnown'
      BY <1>1, <2>1, <2>4, MovesOnKnown
    <2>6. HistoryTyped'
      BY <1>1, <1>2, <2>1, <2>4, <2>5 DEF HistoryTyped
    <2>7. PurgeKnown'
      <3>1. Expired' \subseteq Expired
        BY <1>1, <2>4 DEF Expired, Stored
      <3> QED
        BY <1>1, <2>1, <3>1 DEF HistoryInv, PurgeKnown
    <2>8. SweepKnown'
      BY <1>1, <1>3 DEF SweepKnown
    <2> QED
      BY <2>4, <2>5, <2>6, <2>7, <2>8 DEF HistoryInv
  <1> QED
    BY <1>4, <1>5, <1>6

\* A batch takes the orphans it finds, all of them when it is a short one.
LEMMA BatchTakes ==
  ASSUME NEW orphans, IsFiniteSet(orphans), NEW S \in kSubset(Min({BatchRows, Cardinality(orphans)}), orphans)
  PROVE  S \subseteq orphans /\ (Min({BatchRows, Cardinality(orphans)}) < BatchRows => S = orphans)
  <1> DEFINE c == Cardinality(orphans)
             n == Min({BatchRows, c})
  <1>1. c \in Nat /\ BatchRows \in Nat
    BY FS_CardinalityType, NumbersOfHistory
  <1>2. S \subseteq orphans /\ Cardinality(S) = n
    BY DEF kSubset
  <1>3. n \in {BatchRows, c} /\ n <= BatchRows /\ n <= c
    <2> HIDE DEF c
    <2>1. \E m \in {BatchRows, c} : \A j \in {BatchRows, c} : m <= j
      BY <1>1
    <2> QED
      BY <2>1 DEF Min
  <1>4. n < BatchRows => n = c
    BY <1>1, <1>3
  <1>5. Cardinality(S) = c => S = orphans
    BY <1>2, FS_Subset
  <1> HIDE DEF n
  <1> QED
    BY <1>2, <1>4, <1>5 DEF n

\* The sweep goes from the executions through the tables; an orphan of a table
\* behind it could only come from an execution deleted later, and those are first.
LEMMA KeepsReclaimBatch ==
  ASSUME HistoryInv, ReclaimBatch
  PROVE  HistoryInv'
  <1> DEFINE i == SweepOrder[reclaim.pass]
             orphans == IF i = 0 THEN OrphanExecs ELSE OrphanChildren(i)
             n == Min({BatchRows, Cardinality(orphans)})
             over == n < BatchRows \/ reclaim.batch = MaxBatches
             clean == reclaim.clean /\ (over => n < BatchRows)
             last == over /\ reclaim.pass = TableCount + 1
  <1>1. /\ reclaim.st = "sweeping" /\ UNCHANGED <<inflight, now, retention, deleter, late>>
        /\ \E S \in kSubset(n, orphans) :
             IF i = 0 THEN /\ ex' = [x \in Execs |-> IF x \in S THEN [ex[x] EXCEPT !.st = "gone"] ELSE ex[x]]
                           /\ UNCHANGED children
             ELSE children' = children \ S /\ UNCHANGED ex
        /\ reclaim' = [st |-> IF last THEN "serving" ELSE "sweeping",
                       pass |-> IF last THEN 1 ELSE IF over THEN reclaim.pass + 1 ELSE reclaim.pass,
                       batch |-> IF over THEN 1 ELSE reclaim.batch + 1,
                       clean |-> last \/ clean, marker |-> last /\ clean]
    BY DEF ReclaimBatch, TableCount
  <1>2. /\ HistoryTyped /\ reclaim \in SweepRows /\ reclaim.pass \in 1 .. TableCount + 1 /\ TableCount \in Nat /\ TableCount >= 1
        /\ reclaim.batch \in Nat /\ reclaim.clean \in BOOLEAN /\ children \in SUBSET (Execs \X Tables)
    BY TableFacts DEF HistoryInv, HistoryTyped, SweepRows
  <1>3. PICK b \in 0 .. TableCount : b = i /\ b = reclaim.pass - 1
    BY <1>2 DEF SweepOrder, TableCount
  <1>4. /\ ~reclaim.marker /\ Unfinished = {} /\ inflight = {} /\ retention.next = 0 /\ deleter.next = 0
        /\ reclaim.clean => /\ reclaim.pass > 1 => OrphanExecs = {}
                            /\ \A j \in 1 .. reclaim.pass - 2 : OrphanChildren(j) = {}
    BY <1>1 DEF HistoryInv, SweepKnown
  <1>5. IsFiniteSet(orphans)
    <2>1. OrphanExecs \subseteq Execs /\ \A j : OrphanChildren(j) \subseteq Execs \X Tables
      BY <1>2 DEF OrphanExecs, OrphanChildren, Stored
    <2> QED
      BY <2>1, TableFacts, FS_Subset
  <1>6. PICK S \in kSubset(n, orphans) :
             IF i = 0 THEN /\ ex' = [x \in Execs |-> IF x \in S THEN [ex[x] EXCEPT !.st = "gone"] ELSE ex[x]]
                           /\ UNCHANGED children
             ELSE children' = children \ S /\ UNCHANGED ex
    BY <1>1
  <1>7. S \subseteq orphans /\ (n < BatchRows => S = orphans)
    BY <1>5, <1>6, BatchTakes
  <1>8. over \in BOOLEAN /\ clean \in BOOLEAN /\ last \in BOOLEAN
    OBVIOUS
  <1> HIDE DEF n, over, clean, last
  <1>9. /\ reclaim' \in SweepRows
        /\ reclaim'.st = (IF last THEN "serving" ELSE "sweeping") /\ reclaim'.clean = (last \/ clean) /\ reclaim'.marker = (last /\ clean)
        /\ reclaim'.pass = IF last THEN 1 ELSE IF over THEN reclaim.pass + 1 ELSE reclaim.pass
    <2>1. (IF last THEN 1 ELSE IF over THEN reclaim.pass + 1 ELSE reclaim.pass) \in 1 .. TableCount + 1
      BY <1>2 DEF last
    <2> QED
      BY <1>1, <1>2, <1>8, <2>1 DEF SweepRows
  \* What is left of the orphans.
  <1>10. /\ ex' \in [Execs -> ExecRows] /\ (\A x \in Execs : End(ex'[x]) <= now) /\ children' \subseteq children
         /\ Unfinished' = {} /\ OrphanExecs' \subseteq OrphanExecs
         /\ b = 0 /\ n < BatchRows => OrphanExecs' = {}
         /\ b # 0 => /\ \A j : OrphanChildren(j)' \subseteq OrphanChildren(j)
                     /\ n < BatchRows => OrphanChildren(b)' = {}
    <2>1. CASE b = 0
      <3>1. S \subseteq OrphanExecs /\ (n < BatchRows => S = OrphanExecs)
        BY <1>3, <1>7, <2>1
      <3>2. S \subseteq Stored /\ Stored \subseteq Execs
        BY <3>1 DEF OrphanExecs, Stored
      <3>3. ex' = [x \in Execs |-> IF x \in S THEN [ex[x] EXCEPT !.st = "gone"] ELSE ex[x]] /\ children' = children
        BY <1>3, <1>6, <2>1
      <3>4. \A x \in Execs : /\ ex'[x] \in ExecRows /\ ex'[x].st = (IF x \in S THEN "gone" ELSE ex[x].st)
                             /\ ex'[x].fn = ex[x].fn /\ End(ex'[x]) = End(ex[x])
        <4> TAKE x \in Execs
        <4>1. ex[x] \in ExecRows /\ ex'[x] = IF x \in S THEN [ex[x] EXCEPT !.st = "gone"] ELSE ex[x]
          BY <1>2, <3>3 DEF HistoryTyped
        <4> QED
          BY <4>1 DEF ExecRows, End
      <3>5. Unfinished' = {}
        BY <1>4, <3>4 DEF Unfinished
      <3>6. OrphanExecs' = OrphanExecs \ S
        BY <3>2, <3>4 DEF OrphanExecs, Stored
      <3>7. ex' \in [Execs -> ExecRows]
        BY <3>3, <3>4
      <3>8. \A x \in Execs : End(ex'[x]) <= now
        BY <1>2, <3>4 DEF HistoryTyped
      <3> QED
        BY <2>1, <3>1, <3>3, <3>5, <3>6, <3>7, <3>8
    <2>2. CASE b # 0
      <3>1. children' = children \ S /\ ex' = ex
        BY <1>3, <1>6, <2>2
      <3>2. S \subseteq OrphanChildren(b) /\ (n < BatchRows => S = OrphanChildren(b))
        BY <1>3, <1>7, <2>2
      <3>3. Unfinished' = {} /\ OrphanExecs' = OrphanExecs
        BY <1>4, <3>1 DEF Unfinished, OrphanExecs, Stored
      <3>4. \A j : OrphanChildren(j)' = OrphanChildren(j) \ S
        BY <3>1 DEF OrphanChildren
      <3>5. ex' \in [Execs -> ExecRows] /\ \A x \in Execs : End(ex'[x]) <= now
        BY <1>2, <3>1 DEF HistoryTyped
      <3> QED
        BY <2>2, <3>1, <3>2, <3>3, <3>4, <3>5
    <2> QED
      BY <2>1, <2>2
  <1>11. HistoryTyped'
    BY <1>1, <1>2, <1>9, <1>10 DEF HistoryTyped
  <1>12. YoungKnown' /\ BornKnown' /\ PurgeKnown' /\ DeleteKnown'
    BY <1>1, <1>4, <1>10 DEF YoungKnown, OnItsWay, BornKnown, PurgeKnown, DeleteKnown
  \* The table at hand is through, without a cut.
  <1>13. over /\ clean => reclaim.clean /\ n < BatchRows
    BY DEF clean
  <1>14. clean => reclaim.clean
    BY DEF clean
  <1>15. SweepKnown'
    <2> SUFFICES ASSUME ~last
                 PROVE  clean => /\ reclaim'.pass > 1 => OrphanExecs' = {}
                                 /\ \A j \in 1 .. reclaim'.pass - 2 : OrphanChildren(j)' = {}
      BY <1>1, <1>4, <1>9, <1>10 DEF SweepKnown
    <2> HAVE clean
    <2>1. CASE ~over
      <3>1. reclaim'.pass = reclaim.pass
        BY <1>9, <2>1
      <3>2. CASE b = 0
        <4>1. reclaim.pass = 1
          BY <1>2, <1>3, <3>2
        <4> QED
          BY <3>1, <4>1
      <3>3. CASE b # 0
        <4>1. reclaim.pass > 1
          BY <1>2, <1>3, <3>3
        <4> QED
          BY <1>4, <1>10, <1>14, <3>1, <3>3, <4>1
      <3> QED
        BY <3>2, <3>3
    <2>2. CASE over
      <3>1. reclaim'.pass = reclaim.pass + 1 /\ n < BatchRows /\ reclaim.clean
        BY <1>9, <1>13, <2>2
      <3>2. CASE b = 0
        <4>1. reclaim'.pass = 2
          BY <1>2, <1>3, <3>1, <3>2
        <4> QED
          BY <1>10, <3>1, <3>2, <4>1
      <3>3. CASE b # 0
        <4>1. reclaim.pass > 1
          BY <1>2, <1>3, <3>3
        <4>2. \A j \in 1 .. reclaim'.pass - 2 : j = b \/ j \in 1 .. reclaim.pass - 2
          BY <1>2, <1>3, <3>1
        <4> QED
          BY <1>4, <1>10, <3>1, <3>3, <4>1, <4>2
      <3> QED
        BY <3>2, <3>3
    <2> QED
      BY <2>1, <2>2
  <1>16. NothingStranded'
    <2> SUFFICES ASSUME last, clean
                 PROVE  OrphanExecs' = {} /\ \A k \in children' : k[1] \in Stored' \cup Unfinished' \/ k \in late'
      BY <1>9 DEF NothingStranded
    <2>1. over /\ reclaim.pass = TableCount + 1 /\ reclaim.clean /\ n < BatchRows
      BY <1>13 DEF last
    <2>2. b = TableCount /\ b # 0 /\ reclaim.pass > 1
      BY <1>2, <1>3, <2>1
    <2>3. \A j \in 1 .. TableCount : j = b \/ j \in 1 .. reclaim.pass - 2
      BY <1>2, <2>1, <2>2
    <2>4. OrphanExecs' = {} /\ \A j \in 1 .. TableCount : OrphanChildren(j)' = {}
      BY <1>4, <1>10, <2>1, <2>2, <2>3
    <2>5. ASSUME NEW k \in children' PROVE k[1] \in Stored'
      <3>1. k[1] \in Execs /\ k[2] \in Tables
        BY <1>2, <1>10, <2>5
      <3>2. PICK j \in 1 .. TableCount : ChildTables[j] = k[2]
        BY <3>1, TableFacts
      <3>3. ex'[k[1]].st = "stored"
        BY <2>4, <2>5, <3>2 DEF OrphanChildren
      <3> QED
        BY <3>1, <3>3 DEF Stored
    <2> QED
      BY <2>4, <2>5
  <1> QED
    BY <1>11, <1>12, <1>15, <1>16 DEF HistoryInv

LEMMA KeepsReclaimFails ==
  ASSUME HistoryInv, ReclaimFails
  PROVE  HistoryInv'
  <1>1. /\ reclaim' = [st |-> "serving", pass |-> 1, batch |-> 1, clean |-> TRUE, marker |-> FALSE]
        /\ UNCHANGED <<ex, children, inflight, now, retention, deleter, late>>
    BY DEF ReclaimFails
  <1>2. reclaim' \in SweepRows /\ reclaim'.st = "serving" /\ reclaim'.marker = FALSE
    BY <1>1, TableFacts DEF SweepRows
  <1>3. HistoryTyped'
    BY <1>1, <1>2 DEF HistoryInv, HistoryTyped
  <1>4. YoungKnown' /\ BornKnown' /\ PurgeKnown' /\ DeleteKnown'
    BY <1>1 DEF HistoryInv, YoungKnown, BornKnown, OnItsWay, Unfinished, PurgeKnown, DeleteKnown, Expired, Stored
  <1>5. SweepKnown' /\ NothingStranded'
    BY <1>2 DEF SweepKnown, NothingStranded
  <1> QED
    BY <1>3, <1>4, <1>5 DEF HistoryInv

\* The server dies: what is left is what is stored, and children without one
\* are those of executions that it died under.
LEMMA KeepsTraceRestart ==
  ASSUME HistoryInv, TraceRestart
  PROVE  HistoryInv'
  <1>1. /\ ex' = [x \in Execs |-> IF x \in Unfinished THEN [ex[x] EXCEPT !.st = "gone"] ELSE ex[x]]
        /\ late' = late \cup {k \in children : k[1] \in Unfinished} /\ inflight' = {}
        /\ retention' = [next |-> 0, cutoff |-> 0] /\ deleter' = NoDelete /\ UNCHANGED <<children, now>>
        /\ reclaim' = [st |-> IF reclaim.marker THEN "serving" ELSE "sweeping", pass |-> 1, batch |-> 1,
                       clean |-> TRUE, marker |-> reclaim.marker]
    BY DEF TraceRestart
  <1>2. HistoryTyped /\ reclaim \in SweepRows /\ reclaim.marker \in BOOLEAN /\ TableCount \in Nat
    BY TableFacts DEF HistoryInv, HistoryTyped, SweepRows
  <1>3. /\ retention' \in PurgeRows /\ retention'.next = 0 /\ deleter' \in DeleteRows /\ deleter'.next = 0
        /\ reclaim' \in SweepRows /\ reclaim'.pass = 1 /\ reclaim'.marker = reclaim.marker
        /\ reclaim'.st = IF reclaim.marker THEN "serving" ELSE "sweeping"
    <2>1. retention' \in PurgeRows /\ retention'.next = 0 /\ deleter' \in DeleteRows /\ deleter'.next = 0
      BY <1>1, <1>2 DEF PurgeRows, DeleteRows, NoDelete
    <2>2. /\ reclaim' \in SweepRows /\ reclaim'.pass = 1 /\ reclaim'.marker = reclaim.marker
          /\ reclaim'.st = IF reclaim.marker THEN "serving" ELSE "sweeping"
      BY <1>1, <1>2 DEF SweepRows
    <2> QED
      BY <2>1, <2>2
  <1>4. \A x \in Execs : /\ ex'[x] \in ExecRows /\ ex'[x].st = (IF x \in Unfinished THEN "gone" ELSE ex[x].st)
                         /\ ex'[x].fn = ex[x].fn /\ End(ex'[x]) = End(ex[x])
    <2> TAKE x \in Execs
    <2>1. ex[x] \in ExecRows /\ ex'[x] = IF x \in Unfinished THEN [ex[x] EXCEPT !.st = "gone"] ELSE ex[x]
      BY <1>1, <1>2 DEF HistoryTyped
    <2> QED
      BY <2>1 DEF ExecRows, End
  <1>5. HistoryTyped'
    <2>1. ex' \in [Execs -> ExecRows]
      BY <1>1, <1>4
    <2> QED
      BY <1>1, <1>2, <1>3, <1>4, <2>1 DEF HistoryTyped
  <1>6. Unfinished' = {} /\ Stored' = Stored
    BY <1>4 DEF Unfinished, Stored
  <1>7. YoungKnown' /\ BornKnown' /\ PurgeKnown' /\ DeleteKnown'
    BY <1>1, <1>3, <1>6 DEF YoungKnown, BornKnown, OnItsWay, PurgeKnown, DeleteKnown
  <1>8. SweepKnown'
    <2> SUFFICES ASSUME reclaim'.st = "sweeping" PROVE ~reclaim.marker /\ ~(reclaim'.pass > 1) /\ 1 .. reclaim'.pass - 2 = {}
      BY <1>1, <1>3, <1>6 DEF SweepKnown
    <2> QED
      BY <1>3
  <1>9. NothingStranded'
    <2>1. OrphanExecs' = OrphanExecs
      BY <1>4, <1>6 DEF OrphanExecs, Stored
    <2> QED
      BY <1>1, <1>3, <1>6, <2>1 DEF HistoryInv, NothingStranded
  <1> QED
    BY <1>5, <1>7, <1>8, <1>9 DEF HistoryInv

LEMMA HistoryStarts == TraceInit => HistoryInv
  <1> SUFFICES ASSUME TraceInit PROVE HistoryInv
    OBVIOUS
  <1>1. PICK found \in [Execs -> ExecRows], kids \in SUBSET (Execs \X Tables), todo \in SUBSET Activities, t \in 0..MaxNow :
          /\ \A x \in Execs :
               /\ End(found[x]) <= t
               /\ found[x].st \in {"running", "queued"} =>
                    "legacy" \notin todo /\ found[x].fn \in FnTable /\ t - found[x].start < Retention
               /\ found[x].st = "stored" /\ found[x].fn \notin FnTable => "legacy" \in todo
          /\ \A k \in kids : found[k[1]].st \in {"running", "queued", "stored"} \/ "legacy" \in todo
          /\ TraceStart(found, kids, todo, t)
    BY DEF TraceInit
  <1>2. /\ ex = found /\ children = kids /\ inflight = {} /\ late = {} /\ now = t
        /\ retention = [next |-> 0, cutoff |-> 0] /\ deleter = NoDelete
        /\ reclaim = [st |-> IF "legacy" \in todo THEN "sweeping" ELSE "serving", pass |-> 1, batch |-> 1,
                      clean |-> TRUE, marker |-> "legacy" \notin todo]
    BY <1>1 DEF TraceStart
  <1>3. /\ retention \in PurgeRows /\ retention.next = 0 /\ deleter \in DeleteRows /\ deleter.next = 0
    BY <1>2, TableFacts DEF PurgeRows, DeleteRows, NoDelete
  <1>4. /\ reclaim \in SweepRows /\ reclaim.pass = 1 /\ reclaim.marker = ("legacy" \notin todo)
        /\ reclaim.st = IF "legacy" \in todo THEN "sweeping" ELSE "serving"
    <2>1. ("legacy" \notin todo) \in BOOLEAN
      OBVIOUS
    <2> QED
      BY <1>2, <2>1, TableFacts DEF SweepRows
  <1>5. HistoryTyped
    BY <1>1, <1>2, <1>3, <1>4 DEF HistoryTyped
  <1>6. YoungKnown /\ BornKnown
    BY <1>1, <1>2 DEF YoungKnown, OnItsWay, Unfinished, BornKnown
  <1>7. PurgeKnown /\ DeleteKnown
    BY <1>3 DEF PurgeKnown, DeleteKnown
  <1>8. SweepKnown
    <2> SUFFICES ASSUME "legacy" \in todo PROVE Unfinished = {} /\ ~(reclaim.pass > 1) /\ 1 .. reclaim.pass - 2 = {}
      BY <1>2, <1>3, <1>4 DEF SweepKnown
    <2> QED
      BY <1>1, <1>2, <1>4 DEF Unfinished
  <1>9. NothingStranded
    <2> SUFFICES ASSUME "legacy" \notin todo
                 PROVE  OrphanExecs = {} /\ \A k \in children : k[1] \in Stored \cup Unfinished
      BY <1>4 DEF NothingStranded
    <2>1. \A k \in children : k[1] \in Execs /\ ex[k[1]].st \in {"running", "queued", "stored"}
      BY <1>1, <1>2
    <2> QED
      BY <1>1, <1>2, <2>1 DEF OrphanExecs, Stored, Unfinished
  <1> QED
    BY <1>5, <1>6, <1>7, <1>8, <1>9 DEF HistoryInv

LEMMA HistorySteps == HistoryInv /\ [TraceNext]_traceVars => HistoryInv'
  <1> SUFFICES ASSUME HistoryInv, [TraceNext]_traceVars PROVE HistoryInv'
    OBVIOUS
  <1>1. CASE UNCHANGED traceVars
    BY <1>1, HistoryUnseen DEF traceVars
  <1>2. CASE \E x \in Execs, fn \in FnTable, t \in TraceIds, p \in Execs \cup {NoParent, External} : BeginExecution(x, fn, t, p)
    BY <1>2, KeepsBeginExecution
  <1>3. CASE \E x \in Execs, k \in Tables, s \in 0..MaxNow, b \in BOOLEAN : EmitTelemetry(x, k, s, b)
    BY <1>3, KeepsEmitTelemetry
  <1>4. CASE \E x \in Execs, failed, cold, direct \in BOOLEAN : FinishExecution(x, failed, cold, direct)
    BY <1>4, KeepsFinishExecution
  <1>5. CASE \E x \in Execs : StoreExecution(x) \/ UpdateOutlier(x)
    BY <1>5, KeepsStoreExecution, KeepsUpdateOutlier
  <1>6. CASE \E x \in Execs, k \in Tables, drop \in BOOLEAN : StoreTelemetry(x, k, drop)
    BY <1>6, KeepsStoreTelemetry
  <1>7. CASE TraceTick \/ PurgeStart
    BY <1>7, KeepsTraceTick, KeepsPurgeStart
  <1>8. CASE \E ok \in BOOLEAN : PurgeStatement(ok) \/ DeleteStatement(ok)
    BY <1>8, KeepsPurgeStatement, KeepsDeleteStatement
  <1>9. CASE \E S \in SUBSET Execs : DeleteStart(S)
    BY <1>9, KeepsDeleteStart
  <1>10. CASE ReclaimBatch \/ ReclaimFails \/ TraceRestart
    BY <1>10, KeepsReclaimBatch, KeepsReclaimFails, KeepsTraceRestart
  <1>11. CASE \E f \in TraceFilters, c \in FirstCursors : WalkStart(f, c)
    <2>1. UNCHANGED <<ex, children, inflight, late, now, retention, deleter, reclaim>>
      BY <1>11 DEF WalkStart
    <2> QED
      BY <2>1, HistoryUnseen
  <1>12. CASE \E n \in 0..MaxPage + 1 : ListTraces(n) \/ McpListTraces(n)
    <2>1. UNCHANGED <<ex, children, inflight, late, now, retention, deleter, reclaim>>
      BY <1>12 DEF ListTraces, McpListTraces, WalkPage
    <2> QED
      BY <2>1, HistoryUnseen
  <1> QED
    BY <1>1, <1>2, <1>3, <1>4, <1>5, <1>6, <1>7, <1>8, <1>9, <1>10, <1>11, <1>12 DEF TraceNext

\* Deleting history strands nothing: whatever a purge, a delete, a crash or a
\* sweep cut short leaves half done, once the marker of the sweep is set every
\* execution has its function and every child row its execution, but for the
\* ones written late (database/executions.go, retention.go, migrations.go).
THEOREM HistoryStrandsNothing == TraceSpec => []NothingStranded
  <1>1. TraceInit => HistoryInv
    BY HistoryStarts
  <1>2. HistoryInv /\ [TraceNext]_traceVars => HistoryInv'
    BY HistorySteps
  <1>3. HistoryInv => NothingStranded
    BY DEF HistoryInv
  <1> QED
    BY <1>1, <1>2, <1>3, PTL DEF TraceSpec
=============================================================================
