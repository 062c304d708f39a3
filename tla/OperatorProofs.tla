--------------------------- MODULE OperatorProofs ---------------------------
(***************************************************************************)
(* Proofs about what an operator's calls set in motion: the egress policy  *)
(* that sandboxes run under, the builds with their caches, the data        *)
(* directory through upgrades, backups and restores, and the chat with its *)
(* turns, its approvals and its stored history.                            *)
(***************************************************************************)
EXTENDS Firewall, Build, DataDir, Chat, FiniteSetTheorems, SequenceTheorems, WellFoundedInduction, TLAPS

-----------------------------------------------------------------------------
(* Egress: the verdict of a rendered policy.                               *)

\* The policies that compile makes: no address of them is unspecified.
KnownPolicies == [dns : SUBSET {"dns", "lan"}, blocks : SUBSET {"private", "dns", "far", "star"}]

LEMMA LeastIndex ==
  ASSUME NEW I, I \subseteq Nat, I # {}
  PROVE  Min(I) \in I /\ \A j \in I : Min(I) <= j
  <1> DEFINE Less == {ss \in Nat \X Nat : ss[1] < ss[2]}
  <1>1. IsWellFoundedOn(Less, Nat)
    BY NatLessThanWellFounded, Zenon DEF OpToRel
  <1>2. PICK x \in I : \A y \in I : ~ (<<y, x>> \in Less)
    <2> HIDE DEF Less
    <2> QED
      BY WFMin, <1>1, Zenon
  <1>3. \A y \in I : ~ (y < x)
    BY <1>2
  <1>4. \A y \in I : x <= y
    BY <1>3
  <1> QED
    BY <1>4 DEF Min

LEMMA Enumerated ==
  ASSUME NEW S, IsFiniteSet(S)
  PROVE  /\ Cardinality(S) \in Nat
         /\ SetToSeq(S) \in [1 .. Cardinality(S) -> S]
         /\ \A x \in S : \E i \in 1 .. Cardinality(S) : SetToSeq(S)[i] = x
  <1> DEFINE n == Cardinality(S)
  <1>1. n \in Nat /\ ExistsBijection(1 .. n, S)
    BY FS_CardinalityType
  <1>2. PICK g \in [1 .. n -> S] : IsInjective(g)
    BY <1>1 DEF ExistsBijection, Bijection, Injection
  <1>3. SetToSeq(S) \in [1 .. n -> S] /\ IsInjective(SetToSeq(S))
    BY <1>2 DEF SetToSeq
  <1>4. IsFiniteSet(1 .. n) /\ Cardinality(1 .. n) = n
    BY <1>1, FS_Interval
  <1>5. SetToSeq(S) \in Injection(1 .. n, S)
    BY <1>3 DEF Injection
  <1>6. SetToSeq(S) \in Surjection(1 .. n, S)
    BY <1>4, <1>5, FS_Injection
  <1> QED
    BY <1>1, <1>3, <1>6 DEF Surjection

AllowTo(d, q) == [act |-> "ALLOW", dst |-> d, port |-> q]
RejectTo(b) == [act |-> "REJECT", dst |-> b, port |-> NoPort]

Allows(p) == {AllowTo("gw", NoPort), AllowTo("cp", "sdk")} \cup {AllowTo(d, "53") : d \in p.dns}
Rejects(p) == {RejectTo(b) : b \in p.blocks}

LEMMA SmallSets == IsFiniteSet({"dns", "lan"}) /\ IsFiniteSet({"private", "dns", "far", "star"})
  <1>1. IsFiniteSet({"dns"} \cup {"lan"})
    BY FS_Singleton, FS_Union
  <1>2. IsFiniteSet({"private"} \cup {"dns"} \cup {"far"} \cup {"star"})
    BY FS_Singleton, FS_Union
  <1>3. {"dns"} \cup {"lan"} = {"dns", "lan"}
    OBVIOUS
  <1>4. {"private"} \cup {"dns"} \cup {"far"} \cup {"star"} = {"private", "dns", "far", "star"}
    OBVIOUS
  <1> QED
    BY <1>1, <1>2, <1>3, <1>4

\* The list has the allowances and then the rejections, and nothing else.
LEMMA Rendered ==
  ASSUME NEW p \in KnownPolicies
  PROVE  \E m, n \in Nat :
           /\ Len(RuleList(p)) = m + n
           /\ \A i \in 1 .. m : RuleList(p)[i] \in Allows(p)
           /\ \A i \in m + 1 .. m + n : RuleList(p)[i] \in Rejects(p)
           /\ \A r \in Allows(p) \cup Rejects(p) : \E i \in 1 .. m + n : RuleList(p)[i] = r
  <1> DEFINE R == Allows(p) \cup Rejects(p)
             d == Cardinality(p.dns)
             b == Cardinality(p.blocks)
             s1 == <<AllowTo("gw", NoPort), AllowTo("cp", "sdk")>>
             s2 == [i \in 1 .. d |-> AllowTo(SetToSeq(p.dns)[i], "53")]
             s3 == [i \in 1 .. b |-> RejectTo(SetToSeq(p.blocks)[i])]
  <1>1. IsFiniteSet(p.dns) /\ IsFiniteSet(p.blocks)
    <2>1. p.dns \subseteq {"dns", "lan"} /\ p.blocks \subseteq {"private", "dns", "far", "star"}
      BY DEF KnownPolicies
    <2> QED
      BY <2>1, SmallSets, FS_Subset
  <1>2. /\ d \in Nat /\ SetToSeq(p.dns) \in [1 .. d -> p.dns]
        /\ \A x \in p.dns : \E i \in 1 .. d : SetToSeq(p.dns)[i] = x
    BY <1>1, Enumerated
  <1>3. /\ b \in Nat /\ SetToSeq(p.blocks) \in [1 .. b -> p.blocks]
        /\ \A x \in p.blocks : \E i \in 1 .. b : SetToSeq(p.blocks)[i] = x
    BY <1>1, Enumerated
  <1>4. /\ s1 \in Seq(R) /\ Len(s1) = 2 /\ s1[1] = AllowTo("gw", NoPort) /\ s1[2] = AllowTo("cp", "sdk")
        /\ s1[1] \in Allows(p) /\ s1[2] \in Allows(p)
    BY DEF Allows
  <1>5. /\ s2 \in Seq(R) /\ Len(s2) = d /\ \A i \in 1 .. d : s2[i] \in Allows(p)
        /\ \A x \in p.dns : \E i \in 1 .. d : s2[i] = AllowTo(x, "53")
    <2>1. \A i \in 1 .. d : AllowTo(SetToSeq(p.dns)[i], "53") \in Allows(p)
      BY <1>2 DEF Allows
    <2>2. s2 \in [1 .. d -> R]
      BY <2>1
    <2>3. s2 \in Seq(R) /\ Len(s2) = d
      BY <1>2, <2>2
    <2> QED
      BY <1>2, <2>1, <2>3
  <1>6. /\ s3 \in Seq(R) /\ Len(s3) = b /\ \A i \in 1 .. b : s3[i] \in Rejects(p)
        /\ \A x \in p.blocks : \E i \in 1 .. b : s3[i] = RejectTo(x)
    <2>1. \A i \in 1 .. b : RejectTo(SetToSeq(p.blocks)[i]) \in Rejects(p)
      BY <1>3 DEF Rejects
    <2>2. s3 \in [1 .. b -> R]
      BY <2>1
    <2>3. s3 \in Seq(R) /\ Len(s3) = b
      BY <1>3, <2>2
    <2> QED
      BY <1>3, <2>1, <2>3
  <1>7. RuleList(p) = (s1 \o s2) \o s3
    BY DEF RuleList, AllowTo, RejectTo
  <1> HIDE DEF s1, s2, s3, R, d, b
  <1>8. /\ s1 \o s2 \in Seq(R) /\ Len(s1 \o s2) = 2 + d
        /\ \A i \in 1 .. 2 + d : (s1 \o s2)[i] = IF i <= 2 THEN s1[i] ELSE s2[i - 2]
    <2>1. s1 \in Seq(R) /\ s2 \in Seq(R)
      BY <1>4, <1>5
    <2>2. /\ s1 \o s2 \in Seq(R) /\ Len(s1 \o s2) = Len(s1) + Len(s2)
          /\ \A i \in 1 .. Len(s1) + Len(s2) : (s1 \o s2)[i] = IF i <= Len(s1) THEN s1[i] ELSE s2[i - Len(s1)]
      BY <2>1, ConcatProperties, Zenon
    <2> QED
      BY <1>4, <1>5, <2>2, Zenon
  <1>9. /\ Len(RuleList(p)) = 2 + d + b
        /\ \A i \in 1 .. 2 + d + b : RuleList(p)[i] = IF i <= 2 + d THEN (s1 \o s2)[i] ELSE s3[i - (2 + d)]
    <2>1. PICK t \in Seq(R) : t = s1 \o s2
      BY <1>8
    <2>2. s3 \in Seq(R)
      BY <1>6
    <2>3. /\ Len(t \o s3) = Len(t) + Len(s3)
          /\ \A i \in 1 .. Len(t) + Len(s3) : (t \o s3)[i] = IF i <= Len(t) THEN t[i] ELSE s3[i - Len(t)]
      BY <2>2, ConcatProperties, Zenon
    <2>4. Len(t) = 2 + d /\ Len(s3) = b /\ RuleList(p) = t \o s3
      BY <1>6, <1>7, <1>8, <2>1, Zenon
    <2> QED
      BY <2>1, <2>3, <2>4, Zenon
  <1>10. \A i \in 1 .. 2 + d : RuleList(p)[i] = IF i <= 2 THEN s1[i] ELSE s2[i - 2]
    <2> TAKE i \in 1 .. 2 + d
    <2>1. i \in 1 .. 2 + d + b /\ i <= 2 + d
      BY <1>2, <1>3
    <2>2. RuleList(p)[i] = (s1 \o s2)[i]
      BY <1>9, <2>1, Zenon
    <2> QED
      BY <1>8, <2>2, Zenon
  <1>11. \A i \in 1 .. b : RuleList(p)[i + (2 + d)] = s3[i]
    <2> TAKE i \in 1 .. b
    <2>1. i + (2 + d) \in 1 .. 2 + d + b /\ ~(i + (2 + d) <= 2 + d) /\ (i + (2 + d)) - (2 + d) = i
      BY <1>2, <1>3
    <2> QED
      BY <1>9, <2>1
  <1>12. \A i \in 1 .. 2 + d : RuleList(p)[i] \in Allows(p)
    <2> TAKE i \in 1 .. 2 + d
    <2>1. CASE i <= 2
      <3>1. i = 1 \/ i = 2
        BY <1>2, <2>1
      <3> QED
        BY <1>4, <1>10, <2>1, <3>1
    <2>2. CASE ~(i <= 2)
      <3>1. i - 2 \in 1 .. d
        BY <1>2, <2>2
      <3> QED
        BY <1>5, <1>10, <2>2, <3>1
    <2> QED
      BY <2>1, <2>2
  <1>13. \A i \in (2 + d) + 1 .. (2 + d) + b : RuleList(p)[i] \in Rejects(p)
    <2> TAKE i \in (2 + d) + 1 .. (2 + d) + b
    <2>1. i - (2 + d) \in 1 .. b /\ i = (i - (2 + d)) + (2 + d)
      BY <1>2, <1>3
    <2> QED
      BY <1>6, <1>11, <2>1
  <1>14. ASSUME NEW r \in Allows(p) \cup Rejects(p)
         PROVE  \E i \in 1 .. (2 + d) + b : RuleList(p)[i] = r
    <2>1. CASE r \in {AllowTo("gw", NoPort), AllowTo("cp", "sdk")}
      <3>1. 1 \in 1 .. 2 + d /\ 2 \in 1 .. 2 + d /\ 1 \in 1 .. (2 + d) + b /\ 2 \in 1 .. (2 + d) + b
        BY <1>2, <1>3
      <3>2. RuleList(p)[1] = s1[1] /\ RuleList(p)[2] = s1[2]
        BY <1>10, <3>1
      <3> QED
        BY <1>4, <2>1, <3>1, <3>2
    <2>2. ASSUME NEW x \in p.dns, r = AllowTo(x, "53")
          PROVE  \E i \in 1 .. (2 + d) + b : RuleList(p)[i] = r
      <3>1. PICK i \in 1 .. d : s2[i] = r
        BY <1>5, <2>2
      <3>2. i + 2 \in 1 .. 2 + d /\ i + 2 \in 1 .. (2 + d) + b /\ ~(i + 2 <= 2) /\ (i + 2) - 2 = i
        BY <1>2, <1>3
      <3>3. RuleList(p)[i + 2] = r
        BY <1>10, <3>1, <3>2
      <3> QED
        BY <3>2, <3>3
    <2>3. ASSUME NEW x \in p.blocks, r = RejectTo(x)
          PROVE  \E i \in 1 .. (2 + d) + b : RuleList(p)[i] = r
      <3>1. PICK i \in 1 .. b : s3[i] = r
        BY <1>6, <2>3
      <3>2. i + (2 + d) \in 1 .. (2 + d) + b
        BY <1>2, <1>3
      <3> QED
        BY <1>11, <3>1, <3>2
    <2> QED
      BY <2>1, <2>2, <2>3 DEF Allows, Rejects
  <1>15. 2 + d \in Nat /\ b \in Nat /\ Len(RuleList(p)) = (2 + d) + b
    BY <1>2, <1>3, <1>9
  <1> QED
    BY <1>12, <1>13, <1>14, <1>15

\* The first rule that matches rejects exactly when no allowance matches and
\* a rejection does.
LEMMA FirstDecides ==
  ASSUME NEW p \in KnownPolicies, NEW I \in SUBSET (1 .. Len(RuleList(p))),
         NEW G, \A i \in 1 .. Len(RuleList(p)) : i \in I <=> RuleList(p)[i] \in G
  PROVE  LET k == IF I # {} THEN Min(I) ELSE 0
         IN  (k # 0 /\ RuleList(p)[k].act = "REJECT")
               <=> Allows(p) \cap G = {} /\ Rejects(p) \cap G # {}
  <1> DEFINE L == RuleList(p)
             k == IF I # {} THEN Min(I) ELSE 0
  <1>1. PICK m \in Nat, n \in Nat :
          /\ Len(L) = m + n
          /\ \A i \in 1 .. m : L[i] \in Allows(p)
          /\ \A i \in m + 1 .. m + n : L[i] \in Rejects(p)
          /\ \A r \in Allows(p) \cup Rejects(p) : \E i \in 1 .. m + n : L[i] = r
    BY Rendered
  <1>2. \A r \in Allows(p) : r.act = "ALLOW"
    BY DEF Allows, AllowTo
  <1>3. \A r \in Rejects(p) : r.act = "REJECT"
    BY DEF Rejects, RejectTo
  <1> HIDE DEF L
  <1>4. CASE I = {}
    <2>1. \A r \in Rejects(p) : r \notin G
      BY <1>1, <1>4 DEF L
    <2> QED
      BY <1>4, <2>1
  <1>5. CASE I # {}
    <2>1. I \subseteq Nat
      BY <1>1 DEF L
    <2>2. k \in I /\ \A j \in I : k <= j
      BY <1>5, <2>1, LeastIndex
    <2> HIDE DEF k
    <2>3. k \in 1 .. m + n /\ L[k] \in G
      BY <1>1, <2>2 DEF L
    <2>4. CASE k <= m
      <3>1. L[k] \in Allows(p)
        BY <1>1, <2>3, <2>4
      <3> QED
        BY <1>2, <2>3, <3>1 DEF k, L
    <2>5. CASE ~(k <= m)
      <3>1. L[k] \in Rejects(p)
        BY <1>1, <2>3, <2>5
      <3>2. ASSUME NEW r \in Allows(p) \cap G PROVE FALSE
        <4>1. PICK i \in 1 .. m + n : L[i] = r
          BY <1>1
        <4>2. i \in I
          BY <1>1, <4>1 DEF L
        <4>3. ~(i <= m)
          BY <1>1, <2>2, <2>3, <2>5, <4>1, <4>2
        <4>4. L[i] \in Rejects(p)
          BY <1>1, <4>1, <4>3
        <4> QED
          BY <1>2, <1>3, <4>1, <4>4
      <3>3. k # 0
        BY <2>3
      <3> QED
        BY <1>3, <2>3, <3>1, <3>2, <3>3 DEF k, L
    <2> QED
      BY <2>3, <2>4, <2>5
  <1> QED
    BY <1>4, <1>5

LEMMA EntryFields ==
  /\ \A d, q : AllowTo(d, q).dst = d /\ AllowTo(d, q).port = q
  /\ \A b : RejectTo(b).dst = b /\ RejectTo(b).port = NoPort
  BY DEF AllowTo, RejectTo

\* What the rules of a known policy that match a packet are.
LEMMA Matching ==
  ASSUME NEW p \in KnownPolicies, NEW a \in Destinations, NEW port \in Ports, NEW G,
         \A r \in Allows(p) \cup Rejects(p) : r \in G <=> a \in Members(r.dst) /\ r.port \in {NoPort, port}
  PROVE  /\ Allows(p) \cap G = {}
              <=> ~(a = "gw" \/ (a = "cp" /\ port = "sdk") \/ (a \in p.dns /\ port = "53"))
         /\ Rejects(p) \cap G # {} <=> \E b \in p.blocks : a \in Members(b)
  <1>1. port # NoPort
    BY DEF Ports, NoPort
  <1>2. \A b \in p.blocks : RejectTo(b) \in G <=> a \in Members(b)
    BY EntryFields DEF Rejects
  <1>3. Members("gw") = {"gw"} /\ Members("cp") = {"cp"} /\ \A d \in p.dns : Members(d) = {d}
    BY DEF Members, KnownPolicies
  <1>4. AllowTo("gw", NoPort) \in G <=> a = "gw"
    <2>1. AllowTo("gw", NoPort) \in Allows(p)
      BY DEF Allows
    <2> QED
      BY <1>3, <2>1, EntryFields
  <1>5. AllowTo("cp", "sdk") \in G <=> a = "cp" /\ port = "sdk"
    <2>1. AllowTo("cp", "sdk") \in Allows(p)
      BY DEF Allows
    <2>2. "sdk" # NoPort
      BY DEF NoPort
    <2> QED
      BY <1>3, <2>1, <2>2, EntryFields
  <1>6. \A d \in p.dns : AllowTo(d, "53") \in G <=> a = d /\ port = "53"
    <2> TAKE d \in p.dns
    <2>1. AllowTo(d, "53") \in Allows(p)
      BY DEF Allows
    <2>2. "53" # NoPort
      BY DEF NoPort
    <2> QED
      BY <1>3, <2>1, <2>2, EntryFields
  <1>7. Allows(p) \cap G = {} <=> ~(a = "gw" \/ (a = "cp" /\ port = "sdk") \/ (a \in p.dns /\ port = "53"))
    BY <1>4, <1>5, <1>6, Zenon DEF Allows
  <1>8. Rejects(p) \cap G # {} <=> \E b \in p.blocks : a \in Members(b)
    BY <1>2, Zenon DEF Rejects
  <1> QED
    BY <1>7, <1>8

LEMMA NoneUnspecified ==
  ASSUME NEW p \in KnownPolicies
  PROVE  \A r \in Allows(p) \cup Rejects(p) : r.dst # "any"
  BY EntryFields DEF Allows, Rejects, KnownPolicies

LEMMA Verdicts ==
  ASSUME NEW p \in KnownPolicies, NEW a \in Destinations, NEW port \in Ports
  PROVE  LET carved == a = "gw" \/ (a = "cp" /\ port = "sdk") \/ (a \in p.dns /\ port = "53")
             blocked == \E b \in p.blocks : a \in Members(b)
         IN  /\ SandboxRejects(p, a, port) <=> blocked /\ ~carved
             /\ Blocks(p, a, port) <=> SandboxRejects(p, a, port)
  <1> DEFINE L == RuleList(p)
             A == Allows(p) \cup Rejects(p)
             G == {r \in A : a \in Members(r.dst) /\ r.port \in {NoPort, port}}
             I == {i \in 1 .. Len(L) : (L[i].dst = "any" \/ a \in Members(L[i].dst)) /\ L[i].port \in {NoPort, port}}
             J == {i \in 1 .. Len(L) : a \in Members(L[i].dst) /\ L[i].port \in {NoPort, port}}
             carved == a = "gw" \/ (a = "cp" /\ port = "sdk") \/ (a \in p.dns /\ port = "53")
             blocked == \E b \in p.blocks : a \in Members(b)
             first(K) == IF K # {} THEN Min(K) ELSE 0
             rejects(K) == first(K) # 0 /\ L[first(K)].act = "REJECT"
  <1>1. \A i \in 1 .. Len(L) : L[i] \in A
    <2>1. PICK m \in Nat, n \in Nat :
            /\ Len(L) = m + n
            /\ \A i \in 1 .. m : L[i] \in Allows(p)
            /\ \A i \in m + 1 .. m + n : L[i] \in Rejects(p)
      BY Rendered
    <2> TAKE i \in 1 .. Len(L)
    <2>2. i \in 1 .. m \/ i \in m + 1 .. m + n
      BY <2>1
    <2> QED
      BY <2>1, <2>2
  <1>2. \A i \in 1 .. Len(L) : (i \in I <=> L[i] \in G) /\ (i \in J <=> L[i] \in G)
    BY <1>1, NoneUnspecified
  <1>3. \A r \in A : r \in G <=> a \in Members(r.dst) /\ r.port \in {NoPort, port}
    OBVIOUS
  <1>4. SandboxRejects(p, a, port) <=> rejects(I)
    BY DEF SandboxRejects, FirstMatch, SelectInSeq
  <1>5. Blocks(p, a, port) <=> ~(a = "cp" /\ port = "sdk") /\ rejects(J)
    BY DEF Blocks, FirstMatch, SelectInSeq
  <1>6. I \in SUBSET (1 .. Len(L)) /\ J \in SUBSET (1 .. Len(L))
    OBVIOUS
  <1> HIDE DEF G, I, J
  <1>7. rejects(I) <=> Allows(p) \cap G = {} /\ Rejects(p) \cap G # {}
    BY <1>2, <1>6, FirstDecides
  <1>8. rejects(J) <=> Allows(p) \cap G = {} /\ Rejects(p) \cap G # {}
    BY <1>2, <1>6, FirstDecides
  <1>9. (Allows(p) \cap G = {} <=> ~carved) /\ (Rejects(p) \cap G # {} <=> blocked)
    BY <1>3, Matching
  <1> HIDE DEF rejects, blocked
  <1> QED
    BY <1>4, <1>5, <1>7, <1>8, <1>9 DEF blocked

-----------------------------------------------------------------------------
(* Egress: what the manager and the workers rely on.                       *)

\* With no unread edit every enabled rule blocks something or is reported, and
\* every block is of an enabled rule.
InForce(reported) ==
  /\ \A i \in EnabledRows(rules) :
        \/ i \in reported
        \/ RowPrefixes(rules[i], [a \in {"far"} |-> "fresh"]) \cap policy.blocks # {}
  /\ \A b \in policy.blocks : \E i \in EnabledRows(rules) :
        b \in RowPrefixes(rules[i], [a \in {"far"} |-> "fresh"])

\* Every policy that is published or loaded is one that compile made, and the
\* published one is on disk.
PoliciesKnown == /\ policy \in KnownPolicies /\ (policy # NoPolicy => policy \in files)
                 /\ \A w \in FwWorkers : /\ sandboxes[w].pol \in KnownPolicies
                                         /\ sandboxes[w].st = "opening" => sandboxes[w].pol \in files

\* The refresh with the lock has the table as it is, unless an edit is unread.
RefreshKnows ==
  /\ unread = "read" => fw.pc = "read"
  /\ unread # "yes" /\ fw.pc = "read" => fw.rows = rules
  /\ unread = "no" => InForce(IF fw.pc = "stored" THEN fw.unenforced ELSE status.unenforced)

\* A worker that is parked or will be.
Staying(w) == sandboxes[w].st = "warm" \/ (sandboxes[w].st = "opening" /\ ~sandboxes[w].retired)

\* A worker that stays runs the published policy, unless a recycle is due; a
\* function without egress has none that stays once its pool was drained.
WorkersKnow ==
  /\ pool # "none"
  /\ ~flip /\ mode = "none" => pool # "egress" /\ \A w \in FwWorkers : ~Staying(w)
  /\ ~(fw.pc = "stored" /\ fw.changed) /\ ~flip /\ ~status.pending =>
        \A w \in FwWorkers : Staying(w) => sandboxes[w].pol = policy

EgressInv == FwTypeOK /\ PoliciesKnown /\ RefreshKnows /\ WorkersKnow

LEMMA FwTypes ==
  ASSUME FwTypeOK
  PROVE  /\ rules \in RuleTables /\ dnsCfg \in DNSConfigs /\ seen \in SeenAnswers
         /\ policy \in PolicySet /\ files \subseteq PolicySet /\ fw \in RefreshRecs
         /\ (fw.pc # "idle" => fw.rows \in RuleTables /\ fw.cfg \in DNSConfigs)
         /\ fwQueue \subseteq Callers /\ fwErrs \subseteq Callers /\ status \in StatusRecs
         /\ hosts \in BOOLEAN /\ within \in BOOLEAN /\ drain \in BOOLEAN
         /\ mode \in {"egress", "none"} /\ flip \in BOOLEAN /\ pool \in {"egress", "none", "no pool"}
         /\ sandboxes \in [FwWorkers -> SandboxRecs]
         /\ edits \in 0 .. MaxEdits /\ fwFaults \in 0 .. MaxFwFaults /\ unread \in {"no", "read", "yes"}
  BY DEF FwTypeOK

LEMMA FwTypesNext ==
  ASSUME rules' \in RuleTables, dnsCfg' \in DNSConfigs, seen' \in SeenAnswers,
         policy' \in PolicySet, files' \subseteq PolicySet, fw' \in RefreshRecs,
         fw'.pc # "idle" => fw'.rows \in RuleTables /\ fw'.cfg \in DNSConfigs,
         fwQueue' \subseteq Callers, fwErrs' \subseteq Callers, status' \in StatusRecs,
         hosts' \in BOOLEAN, within' \in BOOLEAN, drain' \in BOOLEAN,
         mode' \in {"egress", "none"}, flip' \in BOOLEAN, pool' \in {"egress", "none", "no pool"},
         sandboxes' \in [FwWorkers -> SandboxRecs],
         edits' \in 0 .. MaxEdits, fwFaults' \in 0 .. MaxFwFaults, unread' \in {"no", "read", "yes"}
  PROVE  FwTypeOK'
  BY DEF FwTypeOK

LEMMA StatusFields ==
  ASSUME NEW s \in StatusRecs
  PROVE  /\ s.pending \in BOOLEAN /\ s.unenforced \in SUBSET RuleIds
         /\ \A x \in BOOLEAN : /\ [s EXCEPT !.pending = x] \in StatusRecs
                               /\ [s EXCEPT !.pending = x].pending = x
                               /\ [s EXCEPT !.pending = x].unenforced = s.unenforced
         /\ \A x \in BOOLEAN : /\ [s EXCEPT !.err = x] \in StatusRecs
                               /\ [s EXCEPT !.err = x].pending = s.pending
                               /\ [s EXCEPT !.err = x].unenforced = s.unenforced
         /\ \A x, y \in BOOLEAN : /\ [s EXCEPT !.err = x, !.stale = y] \in StatusRecs
                                  /\ [s EXCEPT !.err = x, !.stale = y].pending = s.pending
                                  /\ [s EXCEPT !.err = x, !.stale = y].unenforced = s.unenforced
         /\ \A u \in SUBSET RuleIds :
              /\ [s EXCEPT !.stale = FALSE, !.err = FALSE, !.unenforced = u] \in StatusRecs
              /\ [s EXCEPT !.stale = FALSE, !.err = FALSE, !.unenforced = u].pending = s.pending
              /\ [s EXCEPT !.stale = FALSE, !.err = FALSE, !.unenforced = u].unenforced = u
  BY DEF StatusRecs

LEMMA IdleRefresh == IdleFw \in RefreshRecs /\ IdleFw.pc = "idle"
  BY DEF IdleFw, RefreshRecs, Callers

LEMMA EmptyPolicy ==
  NoPolicy \in KnownPolicies /\ KnownPolicies \subseteq PolicySet /\ NoSandbox \in SandboxRecs
  /\ NoSandbox.st = "none" /\ NoSandbox.pol = NoPolicy
  <1>1. NoPolicy \in KnownPolicies
    BY DEF NoPolicy, KnownPolicies
  <1>2. KnownPolicies \subseteq PolicySet
    BY DEF KnownPolicies, PolicySet, RuleValues
  <1>3. NoSandbox.st = "none" /\ NoSandbox.pol = NoPolicy /\ NoSandbox \in SandboxRecs
    BY <1>1, <1>2 DEF NoSandbox, SandboxRecs
  <1> QED
    BY <1>1, <1>2, <1>3

\* What the refresh and the workers know is about a few of the variables.
LEMMA FrameKeeps ==
  ASSUME EgressInv, FwTypeOK',
         UNCHANGED <<policy, fw, mode, flip, pool, sandboxes>>, files \subseteq files',
         status'.pending = status.pending, status'.unenforced = status.unenforced,
         unread' = "yes" \/ UNCHANGED <<rules, unread>>
  PROVE  EgressInv'
  <1>1. PoliciesKnown'
    BY DEF EgressInv, PoliciesKnown
  <1>2. WorkersKnow'
    BY DEF EgressInv, WorkersKnow, Staying
  <1>3. RefreshKnows'
    BY DEF EgressInv, RefreshKnows, InForce
  <1> QED
    BY <1>1, <1>2, <1>3 DEF EgressInv

\* An edit is unread until a refresh reads it.
LEMMA EditKeeps ==
  ASSUME EgressInv, MayCall("rule") \/ MayCall("dns"), rules' \in RuleTables, dnsCfg' \in DNSConfigs, fwQueue' \subseteq Callers,
         Edited, UNCHANGED unedited
  PROVE  EgressInv'
  <1>1. UNCHANGED <<seen, policy, files, fw, fwErrs, status, hosts, within, drain, mode, flip, pool, sandboxes, fwFaults>>
    BY DEF unedited, inForce, guest
  <1>2. unread' = "yes" /\ edits' \in 0 .. MaxEdits
    <2>1. edits \in 0 .. MaxEdits
      BY FwTypes DEF EgressInv
    <2>2. edits < MaxEdits
      BY DEF MayCall
    <2> QED
      BY <2>1, <2>2, FirewallAssumption DEF Edited
  <1>3. FwTypeOK'
    <2>1. FwTypeOK
      BY DEF EgressInv
    <2> QED
      BY <1>1, <1>2, <2>1, FwTypes, FwTypesNext
  <1> QED
    BY <1>1, <1>2, <1>3, FrameKeeps

LEMMA QueueGrows ==
  ASSUME EgressInv, Refreshes
  PROVE  fwQueue' \subseteq Callers
  BY FwTypes DEF EgressInv, Refreshes, Callers

LEMMA RowStored ==
  ASSUME NEW t \in RuleTables, NEW i \in DOMAIN t, NEW r \in RuleRows
  PROVE  [t EXCEPT ![i] = r] \in RuleTables
  BY DEF RuleTables

LEMMA RowFields ==
  ASSUME NEW r \in RuleRows, NEW on \in BOOLEAN, NEW type \in RuleTypes, NEW v \in RuleValues
  PROVE  /\ [r EXCEPT !.on = on] \in RuleRows /\ [r EXCEPT !.type = type, !.value = v] \in RuleRows
         /\ Rule("custom", type, v, on) \in RuleRows /\ NoRule \in RuleRows
  BY DEF RuleRows, Rule, NoRule, RuleTypes, RuleValues

LEMMA RowTyped ==
  ASSUME NEW t \in RuleTables, NEW i \in DOMAIN t
  PROVE  t[i] \in RuleRows /\ i \in RuleIds
  BY DEF RuleTables

-----------------------------------------------------------------------------
(* Egress: operator calls.                                                 *)

LEMMA InsertKeeps ==
  ASSUME EgressInv, NEW i \in DOMAIN rules, NEW type \in RuleTypes, NEW v \in RuleValues,
         NEW on \in BOOLEAN, InsertCustomBlocklistRule(i, type, v, on)
  PROVE  EgressInv'
  <1>1. rules \in RuleTables /\ dnsCfg \in DNSConfigs
    BY FwTypes DEF EgressInv
  <1>2. PICK r \in RuleRows : r = Rule("custom", type, v, on)
    <2>1. rules[i] \in RuleRows
      BY <1>1, RowTyped
    <2> QED
      BY <2>1, RowFields
  <1>3. rules' = [rules EXCEPT ![i] = r]
    BY <1>2 DEF InsertCustomBlocklistRule
  <1>4. rules' \in RuleTables
    BY <1>1, <1>3, RowStored
  <1>5. fwQueue' \subseteq Callers
    BY QueueGrows DEF InsertCustomBlocklistRule
  <1> QED
    BY <1>1, <1>4, <1>5, EditKeeps DEF InsertCustomBlocklistRule

LEMMA UpdateRuleKeeps ==
  ASSUME EgressInv, NEW i \in DOMAIN rules, NEW on \in BOOLEAN, UpdateRule(i, on)
  PROVE  EgressInv'
  <1>1. rules \in RuleTables /\ dnsCfg \in DNSConfigs /\ rules[i] \in RuleRows
    BY FwTypes, RowTyped DEF EgressInv
  <1>2. PICK r \in RuleRows : r = [rules[i] EXCEPT !.on = on]
    <2>1. "cidr" \in RuleTypes /\ "any" \in RuleValues
      BY DEF RuleTypes, RuleValues
    <2> QED
      BY <1>1, <2>1, RowFields
  <1>3. rules' = [rules EXCEPT ![i] = r]
    BY <1>2 DEF UpdateRule, SetBlocklistRuleEnabled
  <1>4. rules' \in RuleTables
    BY <1>1, <1>3, RowStored
  <1>5. fwQueue' \subseteq Callers
    BY QueueGrows DEF UpdateRule
  <1> QED
    BY <1>1, <1>4, <1>5, EditKeeps DEF UpdateRule

LEMMA EditRuleKeeps ==
  ASSUME EgressInv, NEW i \in DOMAIN rules, NEW on \in BOOLEAN, NEW type \in RuleTypes,
         NEW v \in RuleValues, EditRule(i, on, type, v)
  PROVE  EgressInv'
  <1>1. rules \in RuleTables /\ dnsCfg \in DNSConfigs /\ rules[i] \in RuleRows
    BY FwTypes, RowTyped DEF EgressInv
  <1>2. PICK r \in RuleRows : r = [rules[i] EXCEPT !.on = on]
    BY <1>1, RowFields
  <1>3. PICK q \in RuleRows : q = [r EXCEPT !.type = type, !.value = v]
    BY RowFields
  <1>4. PICK armed \in RuleTables : armed = [rules EXCEPT ![i] = r]
    BY <1>1, RowStored
  <1>5. armed = SetBlocklistRuleEnabled(rules, i, on) /\ DOMAIN armed = DOMAIN rules /\ armed[i] = r
    BY <1>1, <1>2, <1>4 DEF SetBlocklistRuleEnabled
  <1>6. UpdateBlocklistRuleValue(armed, i, type, v) = [armed EXCEPT ![i] = q]
    BY <1>3, <1>5 DEF UpdateBlocklistRuleValue
  <1>7. [armed EXCEPT ![i] = q] \in RuleTables
    BY <1>5, RowStored
  <1>8. rules' \in RuleTables /\ fwQueue' \subseteq Callers
    <2>1. CASE Taken(v, i)
      <3>1. rules' = armed /\ UNCHANGED fwQueue
        BY <1>5, <2>1 DEF EditRule
      <3>2. fwQueue \subseteq Callers
        BY FwTypes DEF EgressInv
      <3> QED
        BY <3>1, <3>2
    <2>2. CASE ~Taken(v, i)
      <3>1. rules' = [armed EXCEPT ![i] = q] /\ Refreshes
        BY <1>5, <1>6, <2>2 DEF EditRule
      <3> QED
        BY <1>7, <3>1, QueueGrows
    <2> QED
      BY <2>1, <2>2
  <1>9. MayCall("rule") /\ Edited /\ UNCHANGED <<dnsCfg, unedited>>
    BY DEF EditRule
  <1> QED
    BY <1>1, <1>8, <1>9, EditKeeps

LEMMA DeleteRuleKeeps ==
  ASSUME EgressInv, NEW i \in DOMAIN rules, DeleteCustomBlocklistRule(i)
  PROVE  EgressInv'
  <1>1. rules \in RuleTables /\ dnsCfg \in DNSConfigs
    BY FwTypes DEF EgressInv
  <1>2. NoRule \in RuleRows
    BY DEF NoRule, RuleRows, RuleTypes, RuleValues
  <1>3. rules' \in RuleTables
    BY <1>1, <1>2, RowStored DEF DeleteCustomBlocklistRule
  <1>4. fwQueue' \subseteq Callers
    BY QueueGrows DEF DeleteCustomBlocklistRule
  <1> QED
    BY <1>1, <1>3, <1>4, EditKeeps DEF DeleteCustomBlocklistRule

LEMMA PutServersKeeps ==
  ASSUME EgressInv, NEW servers \in {{}, {"lan"}, {"any"}}, NEW records \in BOOLEAN,
         NEW ok \in BOOLEAN, PutServers(servers, records, ok)
  PROVE  EgressInv'
  <1>1. rules \in RuleTables /\ dnsCfg \in DNSConfigs /\ fwQueue \subseteq Callers
    BY FwTypes DEF EgressInv
  <1>2. dnsCfg' \in DNSConfigs
    <2>1. PICK x \in BOOLEAN : x = IF ok THEN records ELSE dnsCfg.records
      BY <1>1 DEF DNSConfigs
    <2>2. dnsCfg' = [servers |-> servers, records |-> x]
      BY <2>1 DEF PutServers
    <2> QED
      BY <2>2 DEF DNSConfigs
  <1>3. fwQueue' \subseteq Callers
    <2>1. CASE ok
      BY <2>1, QueueGrows DEF PutServers
    <2>2. CASE ~ok
      BY <1>1, <2>2 DEF PutServers
    <2> QED
      BY <2>1, <2>2
  <1>4. MayCall("dns") /\ Edited /\ UNCHANGED <<rules, unedited>>
    BY DEF PutServers
  <1> QED
    BY <1>1, <1>2, <1>3, <1>4, EditKeeps

LEMMA CallKeeps ==
  ASSUME EgressInv, ResolveNow
  PROVE  EgressInv'
  <1>1. FwTypeOK
    BY DEF EgressInv
  <1>2. UNCHANGED <<rules, dnsCfg, seen, policy, files, fw, fwErrs, status, hosts, within, drain, mode, flip,
                    pool, sandboxes, fwFaults, unread>>
    BY DEF ResolveNow, tables, unedited, inForce, guest
  <1>3. edits' \in 0 .. MaxEdits
    <2>1. edits \in 0 .. MaxEdits
      BY <1>1, FwTypes
    <2> QED
      BY <2>1, FirewallAssumption DEF ResolveNow, MayCall
  <1>4. fwQueue' \subseteq Callers
    BY QueueGrows DEF ResolveNow
  <1>5. FwTypeOK'
    BY <1>1, <1>2, <1>3, <1>4, FwTypes, FwTypesNext
  <1> QED
    BY <1>2, <1>5, FrameKeeps

\* While the pool is still to be drained nothing is claimed of its workers.
LEMMA ModeKeeps ==
  ASSUME EgressInv, UpdateNetworkMode
  PROVE  EgressInv'
  <1>1. FwTypeOK /\ PoliciesKnown /\ RefreshKnows /\ WorkersKnow
    BY DEF EgressInv
  <1>2. UNCHANGED <<rules, dnsCfg, seen, policy, files, fw, fwQueue, fwErrs, status, hosts, within, drain,
                    pool, sandboxes, fwFaults, unread>>
    BY DEF UpdateNetworkMode, tables, inForce
  <1>3. edits' \in 0 .. MaxEdits /\ mode' \in {"egress", "none"} /\ flip' = TRUE
    <2>1. edits \in 0 .. MaxEdits
      BY <1>1, FwTypes
    <2> QED
      BY <2>1, FirewallAssumption DEF UpdateNetworkMode, MayCall
  <1>4. FwTypeOK'
    BY <1>1, <1>2, <1>3, FwTypes, FwTypesNext
  <1>5. PoliciesKnown'
    BY <1>1, <1>2 DEF PoliciesKnown
  <1>6. RefreshKnows'
    BY <1>1, <1>2 DEF RefreshKnows, InForce
  <1>7. WorkersKnow'
    BY <1>1, <1>2, <1>3 DEF WorkersKnow
  <1> QED
    BY <1>4, <1>5, <1>6, <1>7 DEF EgressInv

-----------------------------------------------------------------------------
(* Egress: the workers.                                                    *)

LEMMA SandboxFields ==
  ASSUME NEW b \in SandboxRecs
  PROVE  /\ b.pol \in PolicySet /\ b.st \in {"none", "opening", "warm"} /\ b.retired \in BOOLEAN
         /\ [b EXCEPT !.retired = TRUE] \in SandboxRecs /\ [b EXCEPT !.retired = TRUE].retired
         /\ [b EXCEPT !.retired = TRUE].st = b.st /\ [b EXCEPT !.retired = TRUE].pol = b.pol
         /\ [b EXCEPT !.st = "warm"] \in SandboxRecs /\ [b EXCEPT !.st = "warm"].st = "warm"
         /\ [b EXCEPT !.st = "warm"].pol = b.pol
  BY DEF SandboxRecs

\* No worker of a retired pool stays.
LEMMA RetiredBoxes ==
  ASSUME EgressInv, RetirePool
  PROVE  /\ pool' = "no pool" /\ sandboxes' \in [FwWorkers -> SandboxRecs]
         /\ \A w \in FwWorkers : /\ ~Staying(w)' /\ sandboxes'[w].pol \in KnownPolicies
                                 /\ sandboxes'[w].st = "opening" => sandboxes'[w].pol \in files
  <1>1. sandboxes \in [FwWorkers -> SandboxRecs] /\ PoliciesKnown
    BY FwTypes DEF EgressInv
  <1>2. /\ pool' = "no pool"
        /\ sandboxes' = [w \in FwWorkers |-> IF sandboxes[w].st = "warm" THEN NoSandbox
                                            ELSE [sandboxes[w] EXCEPT !.retired = TRUE]]
    BY DEF RetirePool
  <1>3. ASSUME NEW w \in FwWorkers
        PROVE  /\ sandboxes'[w] \in SandboxRecs /\ ~Staying(w)' /\ sandboxes'[w].pol \in KnownPolicies
               /\ sandboxes'[w].st = "opening" => sandboxes'[w].pol \in files
    <2>1. sandboxes[w] \in SandboxRecs
      BY <1>1
    <2>2. CASE sandboxes[w].st = "warm"
      <3>1. sandboxes'[w] = NoSandbox
        BY <1>2, <2>2
      <3> QED
        BY <3>1, EmptyPolicy DEF Staying
    <2>3. CASE sandboxes[w].st # "warm"
      <3>1. PICK b \in SandboxRecs : /\ b = [sandboxes[w] EXCEPT !.retired = TRUE] /\ b.retired
                                     /\ b.st = sandboxes[w].st /\ b.pol = sandboxes[w].pol
        BY <2>1, SandboxFields
      <3>2. sandboxes'[w] = b
        BY <1>2, <2>3, <3>1
      <3> QED
        BY <1>1, <2>3, <3>1, <3>2 DEF Staying, PoliciesKnown
    <2> QED
      BY <2>2, <2>3
  <1> QED
    BY <1>2, <1>3

LEMMA FlipKeeps ==
  ASSUME EgressInv, FlipDrain
  PROVE  EgressInv'
  <1>1. FwTypeOK /\ PoliciesKnown /\ RefreshKnows /\ WorkersKnow
    BY DEF EgressInv
  <1>2. UNCHANGED <<rules, dnsCfg, seen, policy, files, fw, fwQueue, fwErrs, status, hosts, within, drain,
                    mode, edits, fwFaults, unread>>
    BY DEF FlipDrain, manager, tables, inForce
  <1>3. RetirePool /\ flip' = FALSE
    BY DEF FlipDrain
  <1>4. /\ pool' = "no pool" /\ sandboxes' \in [FwWorkers -> SandboxRecs]
        /\ \A w \in FwWorkers : /\ ~Staying(w)' /\ sandboxes'[w].pol \in KnownPolicies
                                /\ sandboxes'[w].st = "opening" => sandboxes'[w].pol \in files
    BY <1>3, RetiredBoxes
  <1>5. FwTypeOK'
    BY <1>1, <1>2, <1>3, <1>4, FwTypes, FwTypesNext
  <1>6. PoliciesKnown'
    BY <1>1, <1>2, <1>4 DEF PoliciesKnown
  <1>7. RefreshKnows'
    BY <1>1, <1>2 DEF RefreshKnows, InForce
  <1>8. WorkersKnow'
    BY <1>4 DEF WorkersKnow
  <1> QED
    BY <1>5, <1>6, <1>7, <1>8 DEF EgressInv

LEMMA SpawnSandboxKeeps ==
  ASSUME EgressInv, NEW w \in FwWorkers, SpawnSandbox(w)
  PROVE  EgressInv'
  <1>1. FwTypeOK /\ PoliciesKnown /\ RefreshKnows /\ WorkersKnow
    BY DEF EgressInv
  <1>2. UNCHANGED <<rules, dnsCfg, seen, policy, files, fw, fwQueue, fwErrs, status, hosts, within, drain,
                    mode, flip, edits, fwFaults, unread>>
    BY DEF SpawnSandbox, manager, tables, inForce
  <1>3. pool' = "egress" /\ policy # NoPolicy /\ (pool = "egress" \/ mode = "egress")
    BY <1>1, FwTypes DEF SpawnSandbox
  <1>4. PICK b \in SandboxRecs : /\ b = [st |-> "opening", pol |-> policy, retired |-> FALSE]
                                 /\ b.st = "opening" /\ b.pol = policy
    <2>1. policy \in PolicySet
      BY <1>1, FwTypes
    <2>2. [st |-> "opening", pol |-> policy, retired |-> FALSE] \in SandboxRecs
      BY <2>1 DEF SandboxRecs
    <2> QED
      BY <2>2
  <1>5. sandboxes \in [FwWorkers -> SandboxRecs] /\ sandboxes' = [sandboxes EXCEPT ![w] = b]
    BY <1>1, <1>4, FwTypes DEF SpawnSandbox
  <1>6. /\ sandboxes' \in [FwWorkers -> SandboxRecs] /\ sandboxes'[w] = b
        /\ \A u \in FwWorkers \ {w} : sandboxes'[u] = sandboxes[u]
    BY <1>5
  <1>7. FwTypeOK'
    BY <1>1, <1>2, <1>3, <1>6, FwTypes, FwTypesNext
  <1>8. PoliciesKnown'
    BY <1>1, <1>2, <1>3, <1>4, <1>6 DEF PoliciesKnown
  <1>9. RefreshKnows'
    BY <1>1, <1>2 DEF RefreshKnows, InForce
  <1>10. WorkersKnow'
    <2>1. ~(~flip /\ mode = "none")
      BY <1>1, <1>3 DEF WorkersKnow
    <2>2. \A u \in FwWorkers \ {w} : Staying(u)' <=> Staying(u)
      BY <1>6 DEF Staying
    <2> QED
      BY <1>1, <1>2, <1>3, <1>4, <1>6, <2>1, <2>2 DEF WorkersKnow
  <1> QED
    BY <1>7, <1>8, <1>9, <1>10 DEF EgressInv

LEMMA OpenSandboxKeeps ==
  ASSUME EgressInv, NEW w \in FwWorkers, OpenSandbox(w)
  PROVE  EgressInv'
  <1>1. FwTypeOK /\ PoliciesKnown /\ RefreshKnows /\ WorkersKnow
    BY DEF EgressInv
  <1>2. UNCHANGED <<rules, dnsCfg, seen, policy, files, fw, fwQueue, fwErrs, status, hosts, within, drain,
                    mode, flip, pool, edits, fwFaults, unread>>
    BY DEF OpenSandbox, manager, tables, inForce
  <1>3. PICK b \in SandboxRecs : /\ sandboxes' = [sandboxes EXCEPT ![w] = b]
                                 /\ b.st # "opening" /\ b.pol \in KnownPolicies
                                 /\ b.st = "warm" => Staying(w) /\ b.pol = sandboxes[w].pol
    <2>1. sandboxes[w] \in SandboxRecs /\ sandboxes[w].st = "opening"
      BY <1>1, FwTypes DEF OpenSandbox
    <2>2. CASE sandboxes[w].retired
      <3>1. sandboxes' = [sandboxes EXCEPT ![w] = NoSandbox]
        BY <2>2 DEF OpenSandbox
      <3> QED
        BY <3>1, EmptyPolicy
    <2>3. CASE ~sandboxes[w].retired
      <3>1. PICK b \in SandboxRecs : /\ b = [sandboxes[w] EXCEPT !.st = "warm"] /\ b.st = "warm"
                                     /\ b.pol = sandboxes[w].pol
        BY <2>1, SandboxFields
      <3>2. sandboxes' = [sandboxes EXCEPT ![w] = b]
        BY <2>3, <3>1 DEF OpenSandbox
      <3> QED
        BY <1>1, <2>1, <2>3, <3>1, <3>2 DEF Staying, PoliciesKnown
    <2> QED
      BY <2>2, <2>3
  <1>4. sandboxes \in [FwWorkers -> SandboxRecs]
    BY <1>1, FwTypes
  <1>5. /\ sandboxes' \in [FwWorkers -> SandboxRecs] /\ sandboxes'[w] = b
        /\ \A u \in FwWorkers \ {w} : sandboxes'[u] = sandboxes[u]
    BY <1>3, <1>4
  <1>6. FwTypeOK'
    BY <1>1, <1>2, <1>5, FwTypes, FwTypesNext
  <1>7. PoliciesKnown'
    BY <1>1, <1>2, <1>3, <1>5 DEF PoliciesKnown
  <1>8. RefreshKnows'
    BY <1>1, <1>2 DEF RefreshKnows, InForce
  <1>9. WorkersKnow'
    <2>1. \A u \in FwWorkers : Staying(u)' => Staying(u) /\ sandboxes'[u].pol = sandboxes[u].pol
      BY <1>3, <1>5 DEF Staying
    <2> QED
      BY <1>1, <1>2, <2>1 DEF WorkersKnow
  <1> QED
    BY <1>6, <1>7, <1>8, <1>9 DEF EgressInv

-----------------------------------------------------------------------------
(* Egress: the manager.                                                    *)

\* Steps that touch no policy, no worker and no table.
LEMMA ManagerQuietKeeps ==
  ASSUME EgressInv, PollTick \/ IntervalPasses \/ AnswersAge
  PROVE  EgressInv'
  <1>1. FwTypeOK
    BY DEF EgressInv
  <1>2. UNCHANGED <<rules, dnsCfg, policy, files, fw, fwErrs, status, hosts, drain, mode, flip, pool,
                    sandboxes, edits, fwFaults, unread>>
    BY DEF PollTick, IntervalPasses, AnswersAge, tables, inForce, guest
  <1>3. fwQueue' \subseteq Callers
    BY <1>1, FwTypes DEF PollTick, IntervalPasses, AnswersAge, Callers
  <1>4. within' \in BOOLEAN
    BY <1>1, FwTypes DEF PollTick, IntervalPasses, AnswersAge
  <1>5. seen' \in SeenAnswers
    <2>1. seen \in SeenAnswers
      BY <1>1, FwTypes
    <2>2. [a \in DOMAIN seen |-> "old"] \in SeenAnswers
      BY <2>1 DEF SeenAnswers
    <2> QED
      BY <2>1, <2>2 DEF PollTick, IntervalPasses, AnswersAge
  <1>6. FwTypeOK'
    BY <1>1, <1>2, <1>3, <1>4, <1>5, FwTypes, FwTypesNext
  <1> QED
    BY <1>2, <1>6, FrameKeeps

LEMMA CompileErrorKeeps ==
  ASSUME EgressInv, NEW c \in Callers, SetCompileError(c)
  PROVE  EgressInv'
  <1>1. FwTypeOK
    BY DEF EgressInv
  <1>2. UNCHANGED <<rules, dnsCfg, seen, policy, files, fw, fwQueue, hosts, within, mode, flip, pool,
                    sandboxes, edits, fwFaults, unread>>
    BY DEF SetCompileError, tables, inForce, guest
  <1>3. fwErrs' \subseteq Callers /\ drain' \in BOOLEAN
    BY <1>1, FwTypes DEF SetCompileError, EndRefresh
  <1>4. /\ status' \in StatusRecs /\ status'.pending = status.pending
        /\ status'.unenforced = status.unenforced
    <2>1. status \in StatusRecs
      BY <1>1, FwTypes
    <2> QED
      BY <2>1, StatusFields DEF SetCompileError
  <1>5. FwTypeOK'
    BY <1>1, <1>2, <1>3, <1>4, FwTypes, FwTypesNext
  <1> QED
    BY <1>2, <1>4, <1>5, FrameKeeps

\* A refresh that ends without a policy leaves an edit that it read unread.
LEMMA FailedKeeps ==
  ASSUME EgressInv, NEW c \in Callers, FailRefresh(c), fw.pc # "stored",
         fwQueue' \subseteq Callers, seen' \in SeenAnswers, status' \in StatusRecs,
         status'.pending = status.pending, status'.unenforced = status.unenforced,
         UNCHANGED <<rules, dnsCfg, policy, files, hosts, within, drain, mode, flip, pool, sandboxes, edits>>
  PROVE  EgressInv'
  <1>1. FwTypeOK /\ PoliciesKnown /\ RefreshKnows /\ WorkersKnow
    BY DEF EgressInv
  <1>2. fw' \in RefreshRecs /\ fw'.pc = "idle"
    BY IdleRefresh DEF FailRefresh
  <1>3. fwErrs' \subseteq Callers /\ unread' \in {"no", "read", "yes"} /\ unread' # "read"
        /\ (unread' = "no" => unread = "no")
    BY <1>1, FwTypes DEF FailRefresh
  <1>4. fwFaults' \in 0 .. MaxFwFaults
    <2>1. fwFaults \in 0 .. MaxFwFaults
      BY <1>1, FwTypes
    <2> QED
      BY <2>1, FirewallAssumption DEF FailRefresh
  <1>5. FwTypeOK'
    BY <1>1, <1>2, <1>3, <1>4, FwTypes, FwTypesNext
  <1>6. PoliciesKnown'
    BY <1>1 DEF PoliciesKnown
  <1>7. RefreshKnows'
    BY <1>1, <1>2, <1>3 DEF RefreshKnows, InForce
  <1>8. WorkersKnow'
    BY <1>1, <1>2 DEF WorkersKnow, Staying
  <1> QED
    BY <1>5, <1>6, <1>7, <1>8 DEF EgressInv

LEMMA RefreshReadKeeps ==
  ASSUME EgressInv, NEW c \in Callers, RefreshRead(c)
  PROVE  EgressInv'
  <1>1. FwTypeOK /\ PoliciesKnown /\ RefreshKnows /\ WorkersKnow
    BY DEF EgressInv
  <1>2. UNCHANGED <<rules, dnsCfg, seen, policy, files, status, hosts, within, drain, mode, flip, pool,
                    sandboxes, edits>>
    BY DEF RefreshRead, tables, inForce, guest
  <1>3. fw.pc = "idle" /\ fwQueue' \subseteq Callers
    BY <1>1, FwTypes DEF RefreshRead
  <1>4. CASE FailRefresh(c)
    <2>1. seen' \in SeenAnswers /\ status' \in StatusRecs
      BY <1>1, <1>2, FwTypes
    <2> QED
      BY <1>2, <1>3, <1>4, <2>1, FailedKeeps
  <1>5. CASE /\ fw' = [IdleFw EXCEPT !.pc = "read", !.by = c, !.rows = rules, !.cfg = dnsCfg]
             /\ unread' = IF unread = "yes" THEN "read" ELSE unread
             /\ UNCHANGED <<fwFaults, fwErrs>>
    <2>1. rules \in RuleTables /\ dnsCfg \in DNSConfigs
      BY <1>1, FwTypes
    <2>2. fw' = [pc |-> "read", by |-> c, rows |-> rules, cfg |-> dnsCfg, unenforced |-> {}, changed |-> FALSE]
      BY <1>5 DEF IdleFw
    <2>3. /\ fw' \in RefreshRecs /\ fw'.pc = "read" /\ fw'.rows = rules /\ fw'.cfg = dnsCfg
      BY <2>1, <2>2 DEF RefreshRecs
    <2>4. FwTypeOK'
      BY <1>1, <1>2, <1>3, <1>5, <2>1, <2>3, FwTypes, FwTypesNext
    <2>5. PoliciesKnown'
      BY <1>1, <1>2 DEF PoliciesKnown
    <2>6. RefreshKnows'
      <3>1. unread' \in {"read", "no"} /\ (unread' = "no" => unread = "no")
        BY <1>1, <1>3, <1>5, FwTypes DEF RefreshKnows
      <3> QED
        BY <1>1, <1>2, <1>3, <2>3, <3>1 DEF RefreshKnows, InForce
    <2>7. WorkersKnow'
      BY <1>1, <1>2, <1>3, <2>3 DEF WorkersKnow, Staying
    <2> QED
      BY <2>4, <2>5, <2>6, <2>7 DEF EgressInv
  <1> QED
    BY <1>4, <1>5 DEF RefreshRead

\* What compile makes of a row: no unspecified address, and of a name no
\* address but the one it has.
LEMMA RowBlocks ==
  ASSUME NEW r \in RuleRows, NEW kept \in SeenAnswers
  PROVE  /\ RowPrefixes(r, kept) \subseteq {"private", "dns", "far", "star"}
         /\ RowPrefixes(r, kept) \subseteq RowPrefixes(r, [a \in {"far"} |-> "fresh"])
  <1>1. r.type \in RuleTypes /\ r.value \in RuleValues
    BY DEF RuleRows
  <1>2. DOMAIN kept \subseteq {"far", "any"}
    BY DEF SeenAnswers
  <1>3. CASE r.type = "cidr"
    <2>1. RowPrefixes(r, kept) = IF ParseTarget(r.value) THEN {r.value} ELSE {}
      BY <1>3 DEF RowPrefixes
    <2>2. RowPrefixes(r, [a \in {"far"} |-> "fresh"]) = IF ParseTarget(r.value) THEN {r.value} ELSE {}
      BY <1>3 DEF RowPrefixes
    <2>3. ParseTarget(r.value) => r.value \in {"private", "dns"}
      BY DEF ParseTarget, UsableTarget
    <2> QED
      BY <2>1, <2>2, <2>3
  <1>4. CASE r.type = "hostname"
    <2>1. RowPrefixes(r, kept) = {a \in Resolve(r.value, kept) : UsableTarget(a)}
      BY <1>4 DEF RowPrefixes
    <2>2. RowPrefixes(r, [a \in {"far"} |-> "fresh"])
            = {a \in Resolve(r.value, [a \in {"far"} |-> "fresh"]) : UsableTarget(a)}
      BY <1>4 DEF RowPrefixes
    <2>3. \A a \in Resolve(r.value, kept) : UsableTarget(a) =>
            /\ a \in {"private", "dns", "far", "star"}
            /\ a \in Resolve(r.value, [x \in {"far"} |-> "fresh"])
      BY <1>1, <1>2 DEF Resolve, UsableTarget, RuleValues
    <2> QED
      BY <2>1, <2>2, <2>3
  <1>5. CASE r.type = "wildcard"
    BY <1>5 DEF RowPrefixes
  <1> QED
    BY <1>1, <1>3, <1>4, <1>5 DEF RuleTypes

LEMMA CompiledKnown ==
  ASSUME NEW table \in RuleTables, NEW cfg \in DNSConfigs, NEW kept \in SeenAnswers
  PROVE  /\ Compile(table, cfg, kept) \in KnownPolicies
         /\ Compile(table, cfg, kept).blocks = UNION {RowPrefixes(table[i], kept) : i \in EnabledRows(table)}
         /\ Unenforced(table, kept) \in SUBSET RuleIds
  <1>1. \A i \in EnabledRows(table) : table[i] \in RuleRows /\ i \in RuleIds
    BY RowTyped DEF EnabledRows
  <1>2. UNION {RowPrefixes(table[i], kept) : i \in EnabledRows(table)} \in SUBSET {"private", "dns", "far", "star"}
    BY <1>1, RowBlocks
  <1>3. LoadDNSConfig(cfg) \in SUBSET {"dns", "lan"}
    <2>1. cfg.servers \subseteq {"dns", "lan", "any"}
      BY DEF DNSConfigs
    <2>2. {s \in cfg.servers : UsableTarget(s)} \subseteq {"dns", "lan"}
      BY <2>1 DEF UsableTarget
    <2> QED
      BY <2>2 DEF LoadDNSConfig
  <1>4. Unenforced(table, kept) \in SUBSET RuleIds
    BY <1>1 DEF Unenforced
  <1> QED
    BY <1>2, <1>3, <1>4 DEF Compile, KnownPolicies

LEMMA LookedTyped ==
  ASSUME seen \in SeenAnswers, NEW answer \in {{}, {"far"}, {"any"}}
  PROVE  Looked(answer) \in SeenAnswers
  <1>1. DOMAIN seen \subseteq {"far", "any"}
    BY DEF SeenAnswers
  <1>2. answer \cup {b \in DOMAIN seen : seen[b] = "fresh"} \in SUBSET {"far", "any"}
    BY <1>1
  <1> QED
    <2>1. PICK D \in SUBSET {"far", "any"} : D = answer \cup {b \in DOMAIN seen : seen[b] = "fresh"}
      BY <1>2
    <2>2. Looked(answer) \in [D -> {"fresh", "old"}]
      BY <2>1 DEF Looked
    <2> QED
      BY <2>2 DEF SeenAnswers

LEMMA PublishPolicyKeeps ==
  ASSUME EgressInv, RefreshPublish
  PROVE  EgressInv'
  <1>1. FwTypeOK /\ PoliciesKnown /\ RefreshKnows /\ WorkersKnow /\ fw.pc = "read"
    BY DEF EgressInv, RefreshPublish
  <1>2. UNCHANGED <<rules, dnsCfg, fwQueue, hosts, within, drain, mode, flip, pool, sandboxes, edits>>
    BY DEF RefreshPublish, tables, guest
  <1>3. seen' \in SeenAnswers
    <2>1. seen \in SeenAnswers
      BY <1>1, FwTypes
    <2>2. CASE HostnameRow(fw.rows)
      <3>1. PICK answer \in {{}, {"far"}, {"any"}} : seen' = Looked(answer)
        BY <2>2 DEF RefreshPublish
      <3> QED
        BY <2>1, <3>1, LookedTyped
    <2>3. CASE ~HostnameRow(fw.rows)
      BY <2>1, <2>3 DEF RefreshPublish
    <2> QED
      BY <2>2, <2>3
  <1>4. fw.by \in Callers /\ fw \in RefreshRecs /\ fw.rows \in RuleTables /\ fw.cfg \in DNSConfigs
    BY <1>1, FwTypes DEF RefreshRecs
  <1>5. PICK p : p = Compile(fw.rows, fw.cfg, seen')
    OBVIOUS
  <1>6. CASE /\ FailRefresh(fw.by)
             /\ status' = [status EXCEPT !.err = TRUE, !.stale = policy # NoPolicy]
             /\ UNCHANGED inForce
    <2>1. UNCHANGED <<policy, files>> /\ fw.pc # "stored"
      BY <1>1, <1>6 DEF inForce
    <2>2. /\ status' \in StatusRecs /\ status'.pending = status.pending
          /\ status'.unenforced = status.unenforced
      <3>1. status \in StatusRecs
        BY <1>1, FwTypes
      <3>2. PICK y \in BOOLEAN : y = (policy # NoPolicy)
        OBVIOUS
      <3>3. status' = [status EXCEPT !.err = TRUE, !.stale = y]
        BY <1>6, <3>2
      <3> QED
        BY <3>1, <3>3 DEF StatusRecs
    <2>3. fwQueue' \subseteq Callers
      BY <1>1, <1>2, FwTypes
    <2> QED
      BY <1>2, <1>3, <1>4, <1>6, <2>1, <2>2, <2>3, FailedKeeps
  <1>7. CASE /\ policy' = p /\ files' = files \cup {p}
             /\ fw' = [fw EXCEPT !.pc = "stored", !.changed = p # policy,
                                 !.unenforced = Unenforced(fw.rows, seen')]
             /\ unread' = IF unread = "read" THEN "no" ELSE unread
             /\ UNCHANGED <<status, fwErrs, fwFaults>>
    <2>1. /\ p \in KnownPolicies /\ p \in PolicySet /\ Unenforced(fw.rows, seen') \in SUBSET RuleIds
          /\ p.blocks = UNION {RowPrefixes(fw.rows[i], seen') : i \in EnabledRows(fw.rows)}
      BY <1>3, <1>4, <1>5, CompiledKnown, EmptyPolicy
    <2>2. PICK x \in BOOLEAN : x <=> p # policy
      OBVIOUS
    <2>3. PICK g \in RefreshRecs : /\ fw' = g /\ g.pc = "stored" /\ (g.changed <=> p # policy)
                                   /\ g.rows = fw.rows /\ g.cfg = fw.cfg
                                   /\ g.unenforced = Unenforced(fw.rows, seen')
      <3>1. PICK u \in SUBSET RuleIds : u = Unenforced(fw.rows, seen')
        BY <2>1
      <3>2. PICK y \in BOOLEAN : y = (p # policy)
        OBVIOUS
      <3>3. fw' = [fw EXCEPT !.pc = "stored", !.changed = y, !.unenforced = u]
        BY <1>7, <3>1, <3>2
      <3>4. /\ fw' \in RefreshRecs /\ fw'.pc = "stored" /\ fw'.changed = y /\ fw'.unenforced = u
            /\ fw'.rows = fw.rows /\ fw'.cfg = fw.cfg
        BY <1>4, <3>3 DEF RefreshRecs
      <3> QED
        BY <3>1, <3>2, <3>4
    <2>4. FwTypeOK'
      <3>1. files' \subseteq PolicySet /\ unread' \in {"no", "read", "yes"}
        BY <1>1, <1>7, <2>1, FwTypes
      <3>2. fw'.rows \in RuleTables /\ fw'.cfg \in DNSConfigs
        BY <1>4, <2>3
      <3> QED
        BY <1>1, <1>2, <1>3, <1>7, <2>1, <2>3, <3>1, <3>2, FwTypes, FwTypesNext
    <2>5. PoliciesKnown'
      BY <1>1, <1>2, <1>7, <2>1 DEF PoliciesKnown
    <2>6. RefreshKnows'
      <3>1. unread' # "read"
        BY <1>7
      <3>2. ASSUME unread' = "no" PROVE InForce(fw.unenforced)'
        <4>1. fw.rows = rules
          BY <1>1, <1>7, <3>2 DEF RefreshKnows
        <4>2. \A i \in EnabledRows(rules) :
                RowPrefixes(rules[i], seen') \subseteq RowPrefixes(rules[i], [a \in {"far"} |-> "fresh"])
          <5>1. \A i \in EnabledRows(rules) : rules[i] \in RuleRows
            BY <1>4, <4>1, RowTyped DEF EnabledRows
          <5> QED
            BY <1>3, <5>1, RowBlocks
        <4>3. ASSUME NEW i \in EnabledRows(rules), i \notin Unenforced(rules, seen')
              PROVE  RowPrefixes(rules[i], [a \in {"far"} |-> "fresh"]) \cap p.blocks # {}
          <5>1. PICK b \in RowPrefixes(rules[i], seen') : TRUE
            BY <4>3 DEF Unenforced
          <5>2. b \in p.blocks
            BY <2>1, <4>1, <5>1
          <5> QED
            BY <4>2, <5>1, <5>2
        <4>4. ASSUME NEW b \in p.blocks
              PROVE  \E i \in EnabledRows(rules) : b \in RowPrefixes(rules[i], [a \in {"far"} |-> "fresh"])
          <5>1. PICK i \in EnabledRows(rules) : b \in RowPrefixes(rules[i], seen')
            BY <2>1, <4>1
          <5> QED
            BY <4>2, <5>1
        <4>5. fw'.unenforced = Unenforced(rules, seen') /\ policy' = p /\ rules' = rules
          BY <1>2, <1>7, <2>3, <4>1
        <4> QED
          BY <4>3, <4>4, <4>5 DEF InForce
      <3> QED
        BY <2>3, <3>1, <3>2 DEF RefreshKnows
    <2>7. WorkersKnow'
      <3>1. \A w \in FwWorkers : Staying(w)' <=> Staying(w)
        BY <1>2 DEF Staying
      <3> QED
        BY <1>1, <1>2, <1>7, <2>3, <3>1 DEF WorkersKnow
    <2> QED
      BY <2>4, <2>5, <2>6, <2>7 DEF EgressInv
  <1> QED
    BY <1>5, <1>6, <1>7 DEF RefreshPublish

\* RetireEgressPools leaves no worker that stays, once the pool of a function
\* that lost its egress was drained.
LEMMA RetiredEgress ==
  ASSUME EgressInv, RetireEgressPools, UNCHANGED <<mode, flip>>
  PROVE  /\ pool' \in {"egress", "no pool"} /\ sandboxes' \in [FwWorkers -> SandboxRecs]
         /\ \A w \in FwWorkers : /\ (~flip => ~Staying(w)') /\ sandboxes'[w].pol \in KnownPolicies
                                 /\ sandboxes'[w].st = "opening" => sandboxes'[w].pol \in files
         /\ \A w \in FwWorkers : Staying(w)' => Staying(w) /\ sandboxes'[w].pol = sandboxes[w].pol
         /\ pool' = "egress" => pool = "egress"
  <1>1. FwTypeOK /\ PoliciesKnown /\ WorkersKnow
    BY DEF EgressInv
  <1>2. CASE mode = "egress"
    <2>1. RetirePool
      BY <1>2 DEF RetireEgressPools
    <2> QED
      BY <2>1, RetiredBoxes
  <1>3. CASE mode # "egress"
    <2>1. UNCHANGED <<pool, sandboxes>> /\ mode = "none"
      BY <1>1, <1>3, FwTypes DEF RetireEgressPools
    <2>2. pool \in {"egress", "no pool"} /\ sandboxes \in [FwWorkers -> SandboxRecs]
      BY <1>1, FwTypes DEF WorkersKnow
    <2>3. \A w \in FwWorkers : Staying(w)' <=> Staying(w)
      BY <2>1 DEF Staying
    <2> QED
      BY <1>1, <2>1, <2>2, <2>3 DEF PoliciesKnown, WorkersKnow
  <1> QED
    BY <1>2, <1>3

\* The workers after a recycle, or a recycle that was put off.
LEMMA RecycledKeeps ==
  ASSUME EgressInv, RetireEgressPools \/ UNCHANGED <<pool, sandboxes>>,
         RetireEgressPools \/ status'.pending \/ ~(fw.pc = "stored" /\ fw.changed),
         RetireEgressPools \/ status'.pending \/ ~status.pending,
         fw' = IdleFw \/ fw' = fw, status' \in StatusRecs,
         fw' = fw => status'.unenforced = status.unenforced /\ (RetireEgressPools \/ status'.pending = status.pending),
         fw' = IdleFw => fw.pc = "stored" /\ status'.unenforced = fw.unenforced,
         hosts' \in BOOLEAN, within' \in BOOLEAN, drain' \in BOOLEAN,
         UNCHANGED <<rules, dnsCfg, seen, policy, files, fwQueue, fwErrs, mode, flip, edits, fwFaults, unread>>
  PROVE  EgressInv'
  <1>1. FwTypeOK /\ PoliciesKnown /\ RefreshKnows /\ WorkersKnow
    BY DEF EgressInv
  <1>2. fw' = fw \/ fw'.pc = "idle"
    BY IdleRefresh
  <1>3. /\ pool' \in {"egress", "no pool"} /\ sandboxes' \in [FwWorkers -> SandboxRecs]
        /\ \A w \in FwWorkers : /\ sandboxes'[w].pol \in KnownPolicies
                                /\ sandboxes'[w].st = "opening" => sandboxes'[w].pol \in files
        /\ \A w \in FwWorkers : Staying(w)' => Staying(w) /\ sandboxes'[w].pol = sandboxes[w].pol
        /\ pool' = "egress" => pool = "egress"
    <2>1. CASE RetireEgressPools
      <3>1. UNCHANGED <<mode, flip>>
        OBVIOUS
      <3>2. /\ pool' \in {"egress", "no pool"} /\ sandboxes' \in [FwWorkers -> SandboxRecs]
            /\ \A w \in FwWorkers : /\ (~flip => ~Staying(w)') /\ sandboxes'[w].pol \in KnownPolicies
                                    /\ sandboxes'[w].st = "opening" => sandboxes'[w].pol \in files
            /\ \A w \in FwWorkers : Staying(w)' => Staying(w) /\ sandboxes'[w].pol = sandboxes[w].pol
            /\ pool' = "egress" => pool = "egress"
        BY <2>1, <3>1, RetiredEgress
      <3> QED
        BY <3>2
    <2>2. CASE UNCHANGED <<pool, sandboxes>>
      <3>1. \A w \in FwWorkers : Staying(w)' <=> Staying(w)
        BY <2>2 DEF Staying
      <3>2. pool \in {"egress", "no pool"} /\ sandboxes \in [FwWorkers -> SandboxRecs]
        BY <1>1, FwTypes DEF WorkersKnow
      <3> QED
        BY <1>1, <2>2, <3>1, <3>2 DEF PoliciesKnown
    <2> QED
      BY <2>1, <2>2
  <1>4. FwTypeOK'
    <2>1. fw' \in RefreshRecs /\ (fw'.pc # "idle" => fw'.rows \in RuleTables /\ fw'.cfg \in DNSConfigs)
      BY <1>1, <1>2, IdleRefresh, FwTypes
    <2> QED
      BY <1>1, <1>3, <2>1, FwTypes, FwTypesNext
  <1>5. PoliciesKnown'
    BY <1>1, <1>3 DEF PoliciesKnown
  <1>6. RefreshKnows'
    <2>1. CASE fw' = fw
      BY <1>1, <2>1 DEF RefreshKnows, InForce
    <2>2. CASE fw' = IdleFw
      BY <1>1, <2>2, IdleRefresh DEF RefreshKnows, InForce
    <2> QED
      BY <2>1, <2>2
  <1>7. WorkersKnow'
    <2>1. pool' # "none" /\ (~flip' /\ mode' = "none" => pool' # "egress" /\ \A w \in FwWorkers : ~Staying(w)')
      BY <1>1, <1>3 DEF WorkersKnow
    <2>2. ASSUME ~(fw'.pc = "stored" /\ fw'.changed), ~flip', ~status'.pending, NEW w \in FwWorkers, Staying(w)'
          PROVE  sandboxes'[w].pol = policy'
      <3>1. CASE RetireEgressPools
        BY <2>2, <3>1, RetiredEgress
      <3>2. CASE ~RetireEgressPools
        <4>1. ~(fw.pc = "stored" /\ fw.changed) /\ ~status.pending /\ ~flip
          BY <2>2, <3>2
        <4> QED
          BY <1>1, <1>3, <2>2, <4>1 DEF WorkersKnow
      <3> QED
        BY <3>1, <3>2
    <2> QED
      BY <2>1, <2>2 DEF WorkersKnow
  <1> QED
    BY <1>4, <1>5, <1>6, <1>7 DEF EgressInv

LEMMA RefreshFinishKeeps ==
  ASSUME EgressInv, RefreshFinish
  PROVE  EgressInv'
  <1>1. FwTypeOK /\ fw.pc = "stored" /\ status \in StatusRecs /\ fw.unenforced \in SUBSET RuleIds
    <2>1. fw \in RefreshRecs /\ status \in StatusRecs
      BY FwTypes DEF EgressInv
    <2> QED
      BY <2>1 DEF EgressInv, RefreshFinish, RefreshRecs
  <1>2. PICK s \in StatusRecs : /\ s = [status EXCEPT !.stale = FALSE, !.err = FALSE, !.unenforced = fw.unenforced]
                                /\ s.pending = status.pending /\ s.unenforced = fw.unenforced
    <2> DEFINE new == [status EXCEPT !.stale = FALSE, !.err = FALSE, !.unenforced = fw.unenforced]
    <2>1. new \in StatusRecs /\ new.pending = status.pending /\ new.unenforced = fw.unenforced
      BY <1>1 DEF StatusRecs
    <2> QED
      BY <2>1
  <1>3. UNCHANGED <<rules, dnsCfg, seen, policy, files, fwQueue, fwErrs, mode, flip, edits, fwFaults, unread>>
    BY DEF RefreshFinish, tables, inForce
  <1>4. fw' = IdleFw /\ fw' # fw /\ hosts' \in BOOLEAN /\ drain' \in BOOLEAN
    <2>1. fw' = IdleFw /\ fw' # fw
      BY <1>1, IdleRefresh DEF RefreshFinish
    <2>2. dnsCfg.records \in BOOLEAN /\ drain \in BOOLEAN
      BY <1>1, FwTypes DEF DNSConfigs
    <2> QED
      BY <2>1, <2>2 DEF RefreshFinish, EndRefresh
  <1>5. CASE ~fw.changed
    <2>1. status' = s /\ UNCHANGED <<within, pool, sandboxes>>
      BY <1>2, <1>5 DEF RefreshFinish
    <2>2. within' \in BOOLEAN
      BY <1>1, <2>1, FwTypes
    <2>3. status'.pending \/ ~status.pending
      BY <1>2, <2>1
    <2> QED
      BY <1>1, <1>2, <1>3, <1>4, <1>5, <2>1, <2>2, <2>3, RecycledKeeps
  <1>6. CASE fw.changed /\ within
    <2>1. PICK t \in StatusRecs : t = [s EXCEPT !.pending = TRUE] /\ t.pending /\ t.unenforced = s.unenforced
      <3>1. /\ [s EXCEPT !.pending = TRUE] \in StatusRecs /\ [s EXCEPT !.pending = TRUE].pending = TRUE
            /\ [s EXCEPT !.pending = TRUE].unenforced = s.unenforced
        BY StatusFields
      <3> QED
        BY <3>1
    <2>2. status' = t /\ UNCHANGED <<within, pool, sandboxes>>
      BY <1>2, <1>6, <2>1 DEF RefreshFinish, NotifyPolicyChange
    <2>3. within' \in BOOLEAN
      BY <1>1, <2>2, FwTypes
    <2> QED
      BY <1>1, <1>2, <1>3, <1>4, <2>1, <2>2, <2>3, RecycledKeeps
  <1>7. CASE fw.changed /\ ~within
    <2>1. PICK t \in StatusRecs : t = [s EXCEPT !.pending = FALSE] /\ t.unenforced = s.unenforced
      <3>1. /\ [s EXCEPT !.pending = FALSE] \in StatusRecs /\ [s EXCEPT !.pending = FALSE].pending = FALSE
            /\ [s EXCEPT !.pending = FALSE].unenforced = s.unenforced
        BY StatusFields
      <3> QED
        BY <3>1
    <2>2. status' = t /\ within' = TRUE /\ RetireEgressPools
      BY <1>2, <1>7, <2>1 DEF RefreshFinish, NotifyPolicyChange
    <2> QED
      BY <1>1, <1>2, <1>3, <1>4, <2>1, <2>2, RecycledKeeps
  <1> QED
    BY <1>5, <1>6, <1>7

LEMMA DrainKeeps ==
  ASSUME EgressInv, DrainPendingRetire
  PROVE  EgressInv'
  <1>1. FwTypeOK /\ status \in StatusRecs /\ within \in BOOLEAN /\ hosts \in BOOLEAN /\ fw \in RefreshRecs
    BY FwTypes DEF EgressInv
  <1>2. UNCHANGED <<rules, dnsCfg, seen, policy, files, fw, fwQueue, fwErrs, hosts, mode, flip, edits, fwFaults,
                    unread>> /\ drain' = FALSE
    BY DEF DrainPendingRetire, tables, inForce
  <1>3. CASE ~(status.pending /\ ~within)
    <2>1. UNCHANGED <<status, within, pool, sandboxes>>
      BY <1>3 DEF DrainPendingRetire
    <2>2. FwTypeOK'
      BY <1>1, <1>2, <2>1, FwTypes, FwTypesNext
    <2> QED
      BY <1>2, <2>1, <2>2, FrameKeeps
  <1>4. CASE status.pending /\ ~within
    <2>1. PICK t \in StatusRecs : t = [status EXCEPT !.pending = FALSE] /\ t.unenforced = status.unenforced
                                  /\ ~t.pending
      <3>1. /\ [status EXCEPT !.pending = FALSE] \in StatusRecs /\ [status EXCEPT !.pending = FALSE].pending = FALSE
            /\ [status EXCEPT !.pending = FALSE].unenforced = status.unenforced
        BY <1>1, StatusFields
      <3> QED
        BY <3>1
    <2>2. status' = t /\ within' = TRUE /\ RetireEgressPools
      BY <1>4, <2>1 DEF DrainPendingRetire
    <2>3. /\ pool' \in {"egress", "no pool"} /\ sandboxes' \in [FwWorkers -> SandboxRecs]
          /\ \A w \in FwWorkers : /\ (~flip => ~Staying(w)') /\ sandboxes'[w].pol \in KnownPolicies
                                  /\ sandboxes'[w].st = "opening" => sandboxes'[w].pol \in files
          /\ pool' = "egress" => pool = "egress"
      BY <1>2, <2>2, RetiredEgress
    <2>4. FwTypeOK'
      BY <1>1, <1>2, <2>1, <2>2, <2>3, FwTypes, FwTypesNext
    <2>5. PoliciesKnown'
      <3>1. policy \in KnownPolicies /\ (policy # NoPolicy => policy \in files)
        BY DEF EgressInv, PoliciesKnown
      <3>2. \A w \in FwWorkers : /\ sandboxes'[w].pol \in KnownPolicies
                                 /\ sandboxes'[w].st = "opening" => sandboxes'[w].pol \in files'
        BY <1>2, <2>3
      <3> QED
        BY <1>2, <3>1, <3>2 DEF PoliciesKnown
    <2>6. RefreshKnows'
      BY <1>2, <2>1, <2>2 DEF EgressInv, RefreshKnows, InForce
    <2>7. WorkersKnow'
      BY <1>2, <2>3 DEF EgressInv, WorkersKnow
    <2> QED
      BY <2>4, <2>5, <2>6, <2>7 DEF EgressInv
  <1> QED
    BY <1>3, <1>4

LEMMA NoAnswers == <<>> \in SeenAnswers
  <1>1. <<>> \in [{} -> {"fresh", "old"}]
    OBVIOUS
  <1>2. {} \in SUBSET {"far", "any"}
    OBVIOUS
  <1> QED
    BY <1>1, <1>2 DEF SeenAnswers

LEMMA RestartKeeps ==
  ASSUME EgressInv, FwRestart
  PROVE  EgressInv'
  <1>1. FwTypeOK
    BY DEF EgressInv
  <1>2. UNCHANGED <<rules, dnsCfg, mode, edits>>
    BY DEF FwRestart, tables
  <1>3. /\ policy' = NoPolicy /\ fw' = IdleFw /\ unread' = "yes" /\ flip' = FALSE /\ pool' = "no pool"
        /\ sandboxes' = [w \in FwWorkers |-> NoSandbox] /\ status' = FreshStatus
    BY DEF FwRestart
  <1>4. files' \subseteq PolicySet
    BY <1>1, FwTypes DEF FwRestart, GcGenerations
  <1>5. seen' \in SeenAnswers
    BY NoAnswers DEF FwRestart
  <1>6. fwFaults' \in 0 .. MaxFwFaults
    <2>1. fwFaults \in 0 .. MaxFwFaults
      BY <1>1, FwTypes
    <2>2. fwFaults < MaxFwFaults /\ fwFaults' = fwFaults + 1
      BY DEF FwRestart
    <2> QED
      BY <2>1, <2>2, FirewallAssumption
  <1>7. /\ fwQueue' \subseteq Callers /\ fwErrs' \subseteq Callers /\ hosts' \in BOOLEAN
        /\ within' \in BOOLEAN /\ drain' \in BOOLEAN
    <2>1. dnsCfg.records \in BOOLEAN
      BY <1>1, FwTypes DEF DNSConfigs
    <2> QED
      BY <2>1 DEF FwRestart, Callers
  <1>8. status' \in StatusRecs
    BY <1>3 DEF FreshStatus, StatusRecs
  <1>9. sandboxes' \in [FwWorkers -> SandboxRecs] /\ \A w \in FwWorkers : sandboxes'[w] = NoSandbox
    BY <1>3, EmptyPolicy
  <1>10. FwTypeOK'
    <2>1. policy' \in PolicySet /\ fw' \in RefreshRecs /\ fw'.pc = "idle"
      BY <1>3, EmptyPolicy, IdleRefresh
    <2> QED
      BY <1>1, <1>2, <1>3, <1>4, <1>5, <1>6, <1>7, <1>8, <1>9, <2>1, FwTypes, FwTypesNext
  <1>11. PoliciesKnown'
    BY <1>3, <1>9, EmptyPolicy DEF PoliciesKnown
  <1>12. RefreshKnows'
    BY <1>3 DEF RefreshKnows
  <1>13. WorkersKnow'
    BY <1>3, <1>9, EmptyPolicy DEF WorkersKnow, Staying
  <1> QED
    BY <1>10, <1>11, <1>12, <1>13 DEF EgressInv

-----------------------------------------------------------------------------
(* Egress: the theorems.                                                   *)

LEMMA EgressStarts ==
  ASSUME FwInit
  PROVE  EgressInv
  <1> DEFINE table == [i \in RuleIds |-> IF i = 1 THEN Suggested(FALSE) ELSE NoRule]
  <1>1. FwStart(table, FwCalls, MaxEdits, MaxFwFaults)
    BY DEF FwInit
  <1>2. table \in RuleTables
    <2>1. Suggested(FALSE) \in RuleRows /\ NoRule \in RuleRows
      BY DEF Suggested, Rule, NoRule, RuleRows, RuleTypes, RuleValues
    <2>2. table \in [RuleIds -> RuleRows]
      BY <2>1
    <2>3. RuleIds \in SUBSET RuleIds
      OBVIOUS
    <2> HIDE DEF table
    <2> QED
      BY <2>2, <2>3 DEF RuleTables
  <1> HIDE DEF table
  <1>3. /\ rules = table /\ policy = NoPolicy /\ files = {} /\ fw = IdleFw /\ pool = "no pool"
        /\ sandboxes = [w \in FwWorkers |-> NoSandbox] /\ unread = "yes" /\ status = FreshStatus
        /\ seen = <<>> /\ fwQueue = {"boot"} /\ fwErrs = {} /\ hosts = FALSE /\ within = FALSE /\ drain = FALSE
        /\ mode = "egress" /\ flip = FALSE /\ edits = MaxEdits - MaxEdits /\ fwFaults = MaxFwFaults - MaxFwFaults
        /\ dnsCfg = [servers |-> {}, records |-> FALSE]
    BY <1>1 DEF FwStart
  <1>4. FwTypeOK
    <2>1. dnsCfg \in DNSConfigs /\ seen \in SeenAnswers /\ fwQueue \subseteq Callers /\ fwErrs \subseteq Callers
      BY <1>3, NoAnswers DEF DNSConfigs, Callers
    <2>2. status \in StatusRecs
      BY <1>3 DEF FreshStatus, StatusRecs
    <2>3. edits \in 0 .. MaxEdits /\ fwFaults \in 0 .. MaxFwFaults
      <3>1. \A n \in Nat : n - n \in 0 .. n
        OBVIOUS
      <3> QED
        BY <1>3, <3>1, FirewallAssumption
    <2>4. policy \in PolicySet /\ sandboxes \in [FwWorkers -> SandboxRecs] /\ fw \in RefreshRecs /\ fw.pc = "idle"
      BY <1>3, EmptyPolicy, IdleRefresh
    <2> QED
      BY <1>2, <1>3, <2>1, <2>2, <2>3, <2>4 DEF FwTypeOK
  <1>5. PoliciesKnown /\ WorkersKnow
    <2>1. \A w \in FwWorkers : sandboxes[w] = NoSandbox
      BY <1>3
    <2> QED
      BY <1>3, <2>1, EmptyPolicy DEF PoliciesKnown, WorkersKnow, Staying
  <1>6. RefreshKnows
    BY <1>3 DEF RefreshKnows
  <1> QED
    BY <1>4, <1>5, <1>6 DEF EgressInv

LEMMA FwNextKeeps ==
  ASSUME EgressInv, FwNext
  PROVE  EgressInv'
  <1>1. CASE OperatorCalls
    <2>1. ASSUME NEW i \in DOMAIN rules, NEW on \in BOOLEAN, UpdateRule(i, on) PROVE EgressInv'
      BY <2>1, UpdateRuleKeeps
    <2>2. ASSUME NEW i \in DOMAIN rules, NEW on \in BOOLEAN, NEW type \in RuleTypes, NEW v \in RuleValues,
                 CreateRule(i, type, v, on) \/ EditRule(i, on, type, v)
          PROVE  EgressInv'
      BY <2>2, InsertKeeps, EditRuleKeeps DEF CreateRule
    <2>3. ASSUME NEW i \in DOMAIN rules, DeleteRule(i) PROVE EgressInv'
      BY <2>3, DeleteRuleKeeps DEF DeleteRule
    <2>4. ASSUME NEW i \in DOMAIN rules, NEW v \in RuleValues, NEW type \in {"cidr", "hostname"},
                 add_firewall_rule(i, type, v)
          PROVE  EgressInv'
      <3>1. type \in RuleTypes
        BY DEF RuleTypes
      <3> QED
        BY <2>4, <3>1, InsertKeeps DEF add_firewall_rule
    <2>5. ASSUME NEW servers \in {{}, {"lan"}, {"any"}}, NEW records \in BOOLEAN, NEW ok \in BOOLEAN,
                 PutDNS(servers, records, ok) \/ set_dns_config(servers, records, ok)
          PROVE  EgressInv'
      BY <2>5, PutServersKeeps DEF PutDNS, set_dns_config
    <2>6. CASE ResolveNow \/ UpdateNetworkMode
      BY <2>6, CallKeeps, ModeKeeps
    <2> QED
      BY <1>1, <2>1, <2>2, <2>3, <2>4, <2>5, <2>6 DEF OperatorCalls
  <1>2. CASE FlipDrain
    BY <1>2, FlipKeeps
  <1>3. ASSUME NEW w \in FwWorkers, SpawnSandbox(w) \/ OpenSandbox(w) PROVE EgressInv'
    BY <1>3, SpawnSandboxKeeps, OpenSandboxKeeps
  <1>4. ASSUME NEW c \in Callers, RefreshRead(c) \/ SetCompileError(c) PROVE EgressInv'
    BY <1>4, RefreshReadKeeps, CompileErrorKeeps
  <1>5. CASE RefreshStep
    BY <1>5, PublishPolicyKeeps, RefreshFinishKeeps DEF RefreshStep
  <1>6. CASE PollTick \/ IntervalPasses \/ AnswersAge
    BY <1>6, ManagerQuietKeeps
  <1>7. CASE DrainPendingRetire \/ FwRestart
    BY <1>7, DrainKeeps, RestartKeeps
  <1>8. FwStepAny
    BY DEF FwNext
  <1> QED
    BY <1>1, <1>2, <1>3, <1>4, <1>5, <1>6, <1>7, <1>8 DEF FwStepAny

LEMMA FwStutters ==
  ASSUME EgressInv, UNCHANGED fwVars
  PROVE  EgressInv'
  <1>1. FwTypeOK /\ UNCHANGED <<rules, dnsCfg, seen, policy, files, fw, fwQueue, fwErrs, status, hosts, within,
                                drain, mode, flip, pool, sandboxes, allowed, edits, fwFaults, unread>>
    BY DEF EgressInv, fwVars
  <1>2. FwTypeOK'
    BY <1>1, FwTypes, FwTypesNext
  <1> QED
    BY <1>1, <1>2, FrameKeeps

\* Whatever calls, refreshes, failures and restarts interleave, the tables, the
\* policies, the refresh with the lock and the workers stay in their types; in
\* particular a refresh that goes on has read a table and settings.
THEOREM EgressTypesHold == FwSpec => []FwTypeOK
  <1>1. FwInit => EgressInv
    BY EgressStarts
  <1>2. EgressInv /\ [FwNext]_fwVars => EgressInv'
    BY FwNextKeeps, FwStutters
  <1>3. EgressInv => FwTypeOK
    BY DEF EgressInv
  <1> QED
    BY <1>1, <1>2, <1>3, PTL DEF FwSpec

\* For any table and any number of workers: a policy in use rejects exactly what
\* the operator blocked, minus the gateway, the SDK port and the resolvers, for
\* sandboxes and for orvad alike (nstun.go, Policy.Blocks); once the last edit
\* was read, every enabled rule is in force or reported; no worker stays under
\* an older policy unless a recycle is due; and no worker misses its file.
THEOREM EgressIsSafe == FwSpec => []EgressSafe
  <1>1. FwInit => EgressInv
    BY EgressStarts
  <1>2. EgressInv /\ [FwNext]_fwVars => EgressInv'
    BY FwNextKeeps, FwStutters
  <1>3. EgressInv => EgressSafe
    <2> SUFFICES ASSUME EgressInv PROVE EgressSafe
      OBVIOUS
    <2>1. PolicySound
      <3>1. \A p \in InUse : p \in KnownPolicies
        BY DEF EgressInv, PoliciesKnown, InUse
      <3> QED
        BY <3>1, Verdicts DEF PolicySound
    <2>2. RulesInForce
      BY DEF EgressInv, RefreshKnows, InForce, RulesInForce
    <2>3. WarmIsCurrent
      BY DEF EgressInv, WorkersKnow, Staying, WarmIsCurrent
    <2>4. GenerationOnDisk
      BY DEF EgressInv, PoliciesKnown, GenerationOnDisk
    <2> QED
      BY <2>1, <2>2, <2>3, <2>4 DEF EgressSafe
  <1> QED
    BY <1>1, <1>2, <1>3, PTL DEF FwSpec

-----------------------------------------------------------------------------
(* Builds: what a worker relies on.                                        *)

\* A worker past the lock has it.  Its version hash is that of its upload; it
\* publishes a compiled entrypoint that tsc has left; its installer's cache is
\* there; and its result is published.
WorkerKnows(w) ==
  LET j == job[w]
  IN  /\ j.pc \notin {"idle", "lock"} => fnLock[j.fn] = w
      /\ j.pc \in {"extract", "validate", "syntax", "install", "tsc", "publish"} => j.hash.arch = j.arch
      /\ j.pc = "publish" /\ j.arch.tsconfig =>
           MaybeCompileTypeScript(j.arch, j.entry) \in Compiled(j.arch)
      /\ j.pc \in {"install", "tsc"} => cache[j.fn].there
      /\ j.pc = "finish" =>
           \E v \in published[j.fn] : v.hash = j.hash /\ (v.entry = j.entry => v.run = j.run)

\* What was published runs what a later build of the same upload would find.
PublishedKnown ==
  \A f \in BuildFns : \A v \in published[f] : v.run = ResolveCachedEntrypoint(v.hash.arch, v.entry)

BuildInv == BuildTypeOK /\ (\A w \in BuildWorkers : WorkerKnows(w)) /\ PublishedKnown

BuildVersions == [hash : Hashes, entry : Entries, run : RunFiles]
CacheRec == [there : BOOLEAN, size : 0 .. MaxCache, age : Fresh .. Stale]
FnRec == [alive : BOOLEAN, entry : Entries, hash : SUBSET Hashes, run : SUBSET RunFiles]

LEMMA BuildTypes ==
  ASSUME BuildTypeOK
  PROVE  /\ fnRow \in [BuildFns -> FnRec] /\ published \in [BuildFns -> SUBSET BuildVersions]
         /\ fnLock \in [BuildFns -> BuildWorkers \cup {Unlocked, "delete"}]
         /\ job \in [BuildWorkers -> BuildJobs] /\ cache \in [BuildFns -> CacheRec]
         /\ memo \in [BuildFns -> 0 .. NoMemo] /\ debris \in Nat /\ ident \in {"v1", "v2"}
         /\ refused \in SUBSET BuildFns /\ offered \in [BuildFns -> SUBSET Uploads]
         /\ builtCount \in 0 .. MaxBuilds /\ tickCount \in 0 .. MaxTicks
         /\ eventCount \in 0 .. MaxEvents
  BY DEF BuildTypeOK, BuildVersions, CacheRec, FnRec

LEMMA BuildTypesNext ==
  ASSUME fnRow' \in [BuildFns -> FnRec], published' \in [BuildFns -> SUBSET BuildVersions],
         fnLock' \in [BuildFns -> BuildWorkers \cup {Unlocked, "delete"}],
         job' \in [BuildWorkers -> BuildJobs], cache' \in [BuildFns -> CacheRec],
         memo' \in [BuildFns -> 0 .. NoMemo], debris' \in Nat, ident' \in {"v1", "v2"},
         refused' \in SUBSET BuildFns, offered' \in [BuildFns -> SUBSET Uploads],
         builtCount' \in 0 .. MaxBuilds, tickCount' \in 0 .. MaxTicks,
         eventCount' \in 0 .. MaxEvents
  PROVE  BuildTypeOK'
  BY DEF BuildTypeOK, BuildVersions, CacheRec, FnRec

\* A job's program counter tells what its worker knows.
LEMMA JobShape ==
  ASSUME NEW j \in BuildJobs
  PROVE  /\ j.pc = "idle" => j = NoJob
         /\ j.pc = "lock" => j \in QueuedJobs
         /\ j.pc \in {"disk", "reclaim", "hash"} => j \in StartedJobs
         /\ j.pc \in {"extract", "validate", "syntax", "install", "tsc", "publish"} => j \in BuildingJobs
         /\ j.pc = "finish" => j \in BuiltJobs
         /\ j.pc \in {"idle", "lock", "disk", "reclaim", "hash", "extract", "validate", "syntax",
                      "install", "tsc", "publish", "finish"}
         /\ j.pc # "idle" => j.fn \in BuildFns
  <1>1. CASE j = NoJob
    BY <1>1 DEF NoJob
  <1>2. CASE j \in QueuedJobs
    <2>1. j.pc = "lock" /\ j.fn \in BuildFns
      BY <1>2 DEF QueuedJobs
    <2> QED
      BY <1>2, <2>1
  <1>3. CASE j \in StartedJobs
    <2>1. j.pc \in {"disk", "reclaim", "hash"} /\ j.fn \in BuildFns
      BY <1>3 DEF StartedJobs
    <2> QED
      BY <1>3, <2>1
  <1>4. CASE j \in BuildingJobs
    <2>1. /\ j.pc \in {"extract", "validate", "syntax", "install", "tsc", "publish"}
          /\ j.fn \in BuildFns
      BY <1>4 DEF BuildingJobs
    <2> QED
      BY <1>4, <2>1
  <1>5. CASE j \in BuiltJobs
    <2>1. j.pc = "finish" /\ j.fn \in BuildFns
      BY <1>5 DEF BuiltJobs
    <2> QED
      BY <1>5, <2>1
  <1> QED
    BY <1>1, <1>2, <1>3, <1>4, <1>5 DEF BuildJobs

LEMMA NoJobIdle == NoJob \in BuildJobs /\ NoJob.pc = "idle"
  BY DEF BuildJobs, NoJob

\* A worker whose job, lock, cache and versions stay keeps what it knows.
LEMMA OtherKeeps ==
  ASSUME BuildInv, NEW u \in BuildWorkers, job'[u] = job[u],
         \A f \in BuildFns : fnLock[f] = u =>
           /\ fnLock'[f] = u /\ published'[f] = published[f]
           /\ (cache[f].there => cache'[f].there)
  PROVE  WorkerKnows(u)'
  <1>1. WorkerKnows(u) /\ job[u] \in BuildJobs
    BY BuildTypes DEF BuildInv
  <1>2. CASE job[u].pc \in {"idle", "lock"}
    BY <1>2 DEF WorkerKnows
  <1>3. CASE job[u].pc \notin {"idle", "lock"}
    <2>1. job[u].fn \in BuildFns /\ fnLock[job[u].fn] = u
      BY <1>1, <1>3, JobShape DEF WorkerKnows
    <2>2. /\ fnLock'[job[u].fn] = u /\ published'[job[u].fn] = published[job[u].fn]
          /\ cache[job[u].fn].there => cache'[job[u].fn].there
      BY <2>1
    <2> QED
      BY <1>1, <2>2 DEF WorkerKnows
  <1> QED
    BY <1>2, <1>3

\* A worker takes a step of its own; what it changes of the others' is free.
LEMMA WorkerStepKeeps ==
  ASSUME BuildInv, NEW w \in BuildWorkers, NEW j \in BuildJobs, job' = [job EXCEPT ![w] = j],
         fnLock' \in [BuildFns -> BuildWorkers \cup {Unlocked, "delete"}],
         \A f \in BuildFns : fnLock[f] \notin {Unlocked, w} => fnLock'[f] = fnLock[f],
         cache' \in [BuildFns -> CacheRec],
         \A f \in BuildFns : fnLock[f] \notin {Unlocked, w} /\ cache[f].there => cache'[f].there,
         UNCHANGED <<published, fnRow, debris, ident, offered, tickCount, eventCount>>,
         memo' \in [BuildFns -> 0 .. NoMemo], refused' \in SUBSET BuildFns,
         builtCount' \in 0 .. MaxBuilds,
         WorkerKnows(w)'
  PROVE  BuildInv'
  <1>1. BuildTypeOK /\ PublishedKnown
    BY DEF BuildInv
  <1>2. \A u \in BuildWorkers : u \notin {Unlocked, "delete"}
    BY BuildAssumption DEF Unlocked
  <1>3. ASSUME NEW u \in BuildWorkers PROVE WorkerKnows(u)'
    <2>1. CASE u = w
      BY <2>1
    <2>2. CASE u # w
      <3>1. job'[u] = job[u]
        BY <1>1, <2>2, BuildTypes
      <3> QED
        BY <1>2, <2>2, <3>1, OtherKeeps
    <2> QED
      BY <2>1, <2>2
  <1>4. BuildTypeOK'
    <2>1. job' \in [BuildWorkers -> BuildJobs]
      BY <1>1, BuildTypes
    <2> QED
      BY <1>1, <2>1, BuildTypes, BuildTypesNext
  <1>5. PublishedKnown'
    BY <1>1 DEF PublishedKnown
  <1> QED
    BY <1>3, <1>4, <1>5 DEF BuildInv

-----------------------------------------------------------------------------
(* Builds: the steps of a worker.                                          *)

\* A record of a job with another program counter, or with what changes in
\* place.
LEMMA QueuedJob ==
  ASSUME NEW f \in BuildFns, NEW a \in Uploads
  PROVE  LET j == [pc |-> "lock", fn |-> f, arch |-> a, hung |-> FALSE]
         IN  j \in BuildJobs /\ j.pc = "lock"
  BY DEF BuildJobs, QueuedJobs

LEMMA StartedJobPc ==
  ASSUME NEW q \in StartedJobs, NEW p \in {"disk", "reclaim", "hash"}
  PROVE  /\ [q EXCEPT !.pc = p] \in BuildJobs
         /\ [q EXCEPT !.pc = p].pc = p /\ [q EXCEPT !.pc = p].fn = q.fn
  BY DEF BuildJobs, StartedJobs

LEMMA StartedJobTodo ==
  ASSUME NEW q \in StartedJobs, NEW t \in SUBSET BuildFns
  PROVE  /\ [q EXCEPT !.todo = t] \in BuildJobs
         /\ [q EXCEPT !.todo = t].pc = q.pc /\ [q EXCEPT !.todo = t].fn = q.fn
  BY DEF BuildJobs, StartedJobs

LEMMA BuildingJob ==
  ASSUME NEW q \in BuildingJobs,
         NEW p \in {"extract", "validate", "syntax", "install", "tsc", "publish"}
  PROVE  /\ [q EXCEPT !.pc = p] \in BuildJobs /\ [q EXCEPT !.pc = p].pc = p
         /\ [q EXCEPT !.pc = p].fn = q.fn /\ [q EXCEPT !.pc = p].hash = q.hash
         /\ [q EXCEPT !.pc = p].arch = q.arch /\ [q EXCEPT !.pc = p].entry = q.entry
  BY DEF BuildJobs, BuildingJobs

LEMMA HungJob ==
  ASSUME NEW q \in BuildingJobs
  PROVE  /\ [q EXCEPT !.hung = TRUE] \in BuildJobs /\ [q EXCEPT !.hung = TRUE].pc = q.pc
         /\ [q EXCEPT !.hung = TRUE].fn = q.fn /\ [q EXCEPT !.hung = TRUE].hash = q.hash
         /\ [q EXCEPT !.hung = TRUE].arch = q.arch /\ [q EXCEPT !.hung = TRUE].entry = q.entry
  BY DEF BuildJobs, BuildingJobs

\* Nothing but a worker's job changes.
besides == <<published, fnRow, debris, ident, offered, tickCount, eventCount>>

\* A worker that becomes idle, or is queued, knows nothing.
LEMMA KnowsNothing ==
  ASSUME NEW w \in BuildWorkers, job'[w].pc \in {"idle", "lock"}
  PROVE  WorkerKnows(w)'
  BY DEF WorkerKnows

LEMMA TakeJobKeeps ==
  ASSUME BuildInv, UNCHANGED offered, NEW w \in BuildWorkers, NEW f \in BuildFns,
         NEW a \in offered[f], TakeJob(w, f, a)
  PROVE  BuildInv'
  <1>1. BuildTypeOK
    BY DEF BuildInv
  <1>2. PICK j \in BuildJobs : j.pc = "lock" /\ j = [pc |-> "lock", fn |-> f, arch |-> a, hung |-> FALSE]
    <2>1. a \in Uploads
      BY <1>1, BuildTypes
    <2> QED
      BY <2>1, QueuedJob
  <1>3. job' = [job EXCEPT ![w] = j] /\ UNCHANGED <<fnLock, cache, memo, refused, besides>>
    BY <1>2 DEF TakeJob, caching, besides
  <1>4. job'[w] = j
    BY <1>1, <1>3, BuildTypes
  <1>5. WorkerKnows(w)'
    BY <1>2, <1>4, KnowsNothing
  <1>6. builtCount' \in 0 .. MaxBuilds
    BY <1>1, BuildTypes, BuildAssumption DEF TakeJob
  <1> QED
    BY <1>1, <1>3, <1>5, <1>6, BuildTypes, WorkerStepKeeps DEF besides

LEMMA RunJobKeeps ==
  ASSUME BuildInv, UNCHANGED offered, NEW w \in BuildWorkers, RunJob(w)
  PROVE  BuildInv'
  <1>1. BuildTypeOK /\ job[w] \in BuildJobs
    BY BuildTypes DEF BuildInv
  <1>2. PICK q \in QueuedJobs : q = job[w]
    BY <1>1, JobShape DEF RunJob, At
  <1>3. q.fn \in BuildFns /\ q.arch \in Uploads /\ fnLock[q.fn] = Unlocked
    BY <1>2 DEF RunJob, QueuedJobs
  <1>4. UNCHANGED <<cache, memo, refused, besides>> /\ UNCHANGED builtCount
    BY DEF RunJob, caching, besides, counters
  <1>5. CASE fnRow[q.fn].alive
    <2>1. PICK e \in Entries : e = fnRow[q.fn].entry
      <3>1. fnRow[q.fn] \in FnRec
        BY <1>1, <1>3, BuildTypes
      <3> QED
        BY <3>1 DEF FnRec
    <2>2. PICK j \in BuildJobs : /\ j.pc = "disk" /\ j.fn = q.fn
                                 /\ j = [pc |-> "disk", fn |-> q.fn, arch |-> q.arch, hung |-> FALSE,
                                         entry |-> e, todo |-> {}]
      <3> DEFINE k == [pc |-> "disk", fn |-> q.fn, arch |-> q.arch, hung |-> FALSE, entry |-> e, todo |-> {}]
      <3>1. k \in StartedJobs /\ k.pc = "disk" /\ k.fn = q.fn
        BY <1>3 DEF StartedJobs
      <3> QED
        BY <3>1 DEF BuildJobs
    <2>3. job' = [job EXCEPT ![w] = j] /\ fnLock' = [fnLock EXCEPT ![q.fn] = w]
      BY <1>2, <1>5, <2>1, <2>2 DEF RunJob
    <2>4. job'[w] = j /\ fnLock'[q.fn] = w
      BY <1>1, <1>3, <2>3, BuildTypes
    <2>5. WorkerKnows(w)'
      BY <2>2, <2>4 DEF WorkerKnows
    <2>6. /\ fnLock' \in [BuildFns -> BuildWorkers \cup {Unlocked, "delete"}]
          /\ \A f \in BuildFns : fnLock[f] \notin {Unlocked, w} => fnLock'[f] = fnLock[f]
      BY <1>1, <1>3, <2>3, BuildTypes
    <2> QED
      BY <1>1, <1>4, <2>3, <2>5, <2>6, BuildTypes, WorkerStepKeeps DEF besides
  <1>6. CASE ~fnRow[q.fn].alive
    <2>1. job' = [job EXCEPT ![w] = NoJob] /\ UNCHANGED fnLock
      BY <1>2, <1>6 DEF RunJob
    <2>2. job'[w] = NoJob
      BY <1>1, <2>1, BuildTypes
    <2>3. WorkerKnows(w)'
      BY <2>2, NoJobIdle, KnowsNothing
    <2> QED
      BY <1>1, <1>4, <2>1, <2>3, NoJobIdle, BuildTypes, WorkerStepKeeps DEF besides
  <1> QED
    BY <1>5, <1>6

\* The build ends without a result.
LEMMA FailKeeps ==
  ASSUME BuildInv, NEW w \in BuildWorkers, job[w].pc \notin {"idle", "lock"}, Fail(w),
         UNCHANGED <<cache, memo, besides>>, UNCHANGED builtCount, refused' \in SUBSET BuildFns
  PROVE  BuildInv'
  <1>1. BuildTypeOK /\ job[w] \in BuildJobs /\ WorkerKnows(w)
    BY BuildTypes DEF BuildInv
  <1>2. job[w].fn \in BuildFns /\ fnLock[job[w].fn] = w
    BY <1>1, JobShape DEF WorkerKnows
  <1>3. job' = [job EXCEPT ![w] = NoJob] /\ fnLock' = [fnLock EXCEPT ![job[w].fn] = Unlocked]
    BY DEF Fail, Unlock
  <1>4. job'[w] = NoJob
    BY <1>1, <1>3, BuildTypes
  <1>5. WorkerKnows(w)'
    BY <1>4, NoJobIdle, KnowsNothing
  <1>6. /\ fnLock' \in [BuildFns -> BuildWorkers \cup {Unlocked, "delete"}]
        /\ \A f \in BuildFns : fnLock[f] \notin {Unlocked, w} => fnLock'[f] = fnLock[f]
    BY <1>1, <1>2, <1>3, BuildTypes
  <1> QED
    BY <1>1, <1>3, <1>5, <1>6, NoJobIdle, BuildTypes, WorkerStepKeeps DEF besides

\* The steps before the version hash only use the lock.
LEMMA StartedKeeps ==
  ASSUME BuildInv, NEW w \in BuildWorkers, job[w] \in StartedJobs, NEW j \in BuildJobs,
         j.pc \in {"disk", "reclaim", "hash"}, j.fn = job[w].fn, job' = [job EXCEPT ![w] = j],
         cache' \in [BuildFns -> CacheRec],
         \A f \in BuildFns : fnLock[f] # Unlocked /\ cache[f].there => cache'[f].there,
         UNCHANGED <<fnLock, memo, refused, builtCount, besides>>
  PROVE  BuildInv'
  <1>1. BuildTypeOK /\ WorkerKnows(w) /\ job[w].pc \notin {"idle", "lock"}
    BY DEF BuildInv, StartedJobs
  <1>2. job'[w] = j
    BY <1>1, BuildTypes
  <1>3. WorkerKnows(w)'
    BY <1>1, <1>2 DEF WorkerKnows
  <1> QED
    BY <1>1, <1>3, BuildTypes, WorkerStepKeeps DEF besides

\* An eviction takes the cache of a function whose lock is free.
LEMMA Evicted ==
  ASSUME BuildInv, NEW f \in BuildFns, EvictBuildCache(f)
  PROVE  /\ cache' \in [BuildFns -> CacheRec]
         /\ \A g \in BuildFns \ {f} : cache'[g] = cache[g]
  <1>1. cache \in [BuildFns -> CacheRec]
    BY BuildTypes DEF BuildInv
  <1>2. NoCache \in CacheRec
    BY BuildAssumption DEF NoCache, CacheRec, Fresh, Stale
  <1> QED
    BY <1>1, <1>2 DEF EvictBuildCache

LEMMA DiskKeeps ==
  ASSUME BuildInv, UNCHANGED offered, NEW w \in BuildWorkers,
         \/ CheckFreeDisk(w) \/ InsufficientDisk(w)
         \/ \E f \in BuildFns : EvictIdleBuildCaches(w, f)
  PROVE  BuildInv'
  <1>1. BuildTypeOK /\ job[w] \in BuildJobs /\ cache \in [BuildFns -> CacheRec]
    BY BuildTypes DEF BuildInv
  <1>2. job[w].pc \in {"disk", "reclaim"}
    BY DEF CheckFreeDisk, InsufficientDisk, EvictIdleBuildCaches, At
  <1>3. PICK q \in StartedJobs : q = job[w]
    BY <1>1, <1>2, JobShape
  <1>4. CASE CheckFreeDisk(w)
    <2>1. PICK p \in {"reclaim", "hash"}, t \in SUBSET BuildFns :
            job' = [job EXCEPT ![w] = [q EXCEPT !.pc = p, !.todo = t]]
      <3>1. ListIdleCaches \in SUBSET BuildFns
        BY DEF ListIdleCaches
      <3>2. CASE Free >= DiskFloor
        BY <1>3, <1>4, <3>2 DEF CheckFreeDisk
      <3>3. CASE ~(Free >= DiskFloor)
        BY <1>3, <1>4, <3>1, <3>3 DEF CheckFreeDisk
      <3> QED
        BY <3>2, <3>3
    <2>2. PICK j \in BuildJobs : j = [q EXCEPT !.pc = p, !.todo = t] /\ j.pc = p /\ j.fn = q.fn
      <3>1. /\ [q EXCEPT !.pc = p, !.todo = t] \in BuildJobs
            /\ [q EXCEPT !.pc = p, !.todo = t].pc = p /\ [q EXCEPT !.pc = p, !.todo = t].fn = q.fn
        BY DEF BuildJobs, StartedJobs
      <3> QED
        BY <3>1
    <2>3. UNCHANGED <<cache, fnLock, memo, refused, builtCount, besides>>
      BY <1>4 DEF CheckFreeDisk, caching, counters, besides
    <2> QED
      BY <1>1, <1>3, <2>1, <2>2, <2>3, StartedKeeps
  <1>5. ASSUME NEW f \in BuildFns, EvictIdleBuildCaches(w, f) PROVE BuildInv'
    <2>1. PICK t \in SUBSET BuildFns : job' = [job EXCEPT ![w] = [q EXCEPT !.todo = t]]
      <3>1. q.todo \ {f} \in SUBSET BuildFns
        BY DEF StartedJobs
      <3> QED
        BY <1>3, <1>5, <3>1 DEF EvictIdleBuildCaches
    <2>2. PICK j \in BuildJobs : j = [q EXCEPT !.todo = t] /\ j.pc = q.pc /\ j.fn = q.fn
      BY StartedJobTodo
    <2>3. UNCHANGED <<fnLock, memo, refused, builtCount, besides>>
      BY <1>5 DEF EvictIdleBuildCaches, counters, besides
    <2>4. /\ cache' \in [BuildFns -> CacheRec]
          /\ \A g \in BuildFns : fnLock[g] # Unlocked /\ cache[g].there => cache'[g].there
      <3>1. CASE fnLock[f] = Unlocked
        BY <1>5, <3>1, Evicted DEF EvictIdleBuildCaches, TryFnLock
      <3>2. CASE fnLock[f] # Unlocked
        BY <1>1, <1>5, <3>2 DEF EvictIdleBuildCaches, TryFnLock
      <3> QED
        BY <3>1, <3>2
    <2>5. job[w] \in StartedJobs /\ j.pc \in {"disk", "reclaim", "hash"} /\ j.fn = job[w].fn
          /\ job' = [job EXCEPT ![w] = j]
      BY <1>2, <1>3, <2>1, <2>2
    <2> QED
      BY <2>3, <2>4, <2>5, StartedKeeps
  <1>6. CASE InsufficientDisk(w)
    <2>1. UNCHANGED <<cache, memo, besides>> /\ UNCHANGED builtCount
      BY <1>6 DEF InsufficientDisk, caching, counters, besides
    <2>2. CASE Free < DiskFloor
      <3>1. Fail(w) /\ refused' \in SUBSET BuildFns
        BY <1>6, <2>2 DEF InsufficientDisk, ListIdleCaches
      <3> QED
        BY <1>2, <2>1, <3>1, FailKeeps
    <2>3. CASE ~(Free < DiskFloor)
      <3>1. job' = [job EXCEPT ![w] = [q EXCEPT !.pc = "hash"]] /\ UNCHANGED <<fnLock, refused>>
        BY <1>3, <1>6, <2>3 DEF InsufficientDisk, Step
      <3>2. PICK j \in BuildJobs : j = [q EXCEPT !.pc = "hash"] /\ j.pc = "hash" /\ j.fn = q.fn
        BY StartedJobPc
      <3> QED
        BY <1>1, <1>3, <2>1, <3>1, <3>2, StartedKeeps
    <2> QED
      BY <2>2, <2>3
  <1> QED
    BY <1>4, <1>5, <1>6

\* What runs is an entrypoint or what tsc makes of one.
LEMMA RunFile ==
  ASSUME NEW a, NEW e \in Entries
  PROVE  ResolveCachedEntrypoint(a, e) \in RunFiles /\ MaybeCompileTypeScript(a, e) \in RunFiles
  BY DEF ResolveCachedEntrypoint, MaybeCompileTypeScript, RunFiles, TsSourceStem

LEMMA BuiltJob ==
  ASSUME NEW f \in BuildFns, NEW h \in Hashes, NEW e \in Entries, NEW r \in RunFiles
  PROVE  \E j \in BuildJobs :
           /\ j = [pc |-> "finish", fn |-> f, hash |-> h, entry |-> e, run |-> r]
           /\ j.pc = "finish" /\ j.fn = f /\ j.hash = h /\ j.entry = e /\ j.run = r
  <1> DEFINE j == [pc |-> "finish", fn |-> f, hash |-> h, entry |-> e, run |-> r]
  <1>1. j \in BuildJobs
    BY DEF BuildJobs, BuiltJobs
  <1>2. j.pc = "finish" /\ j.fn = f /\ j.hash = h /\ j.entry = e /\ j.run = r
    OBVIOUS
  <1> QED
    BY <1>1, <1>2

LEMMA HashKeeps ==
  ASSUME BuildInv, UNCHANGED offered, NEW w \in BuildWorkers, HashArchive(w)
  PROVE  BuildInv'
  <1>1. BuildTypeOK /\ job[w] \in BuildJobs /\ WorkerKnows(w) /\ PublishedKnown
    BY BuildTypes DEF BuildInv
  <1>2. PICK q \in StartedJobs : q = job[w] /\ q.pc = "hash"
    BY <1>1, JobShape DEF HashArchive, At
  <1>3. q.fn \in BuildFns /\ q.arch \in Uploads /\ q.entry \in Entries /\ fnLock[q.fn] = w
    BY <1>1, <1>2 DEF StartedJobs, WorkerKnows
  <1>4. PICK h \in Hashes : h = VersionHash(q.arch) /\ h.arch = q.arch
    <2>1. ident \in {"v1", "v2"}
      BY <1>1, BuildTypes
    <2>2. VersionHash(q.arch) \in Hashes /\ VersionHash(q.arch).arch = q.arch
      BY <1>3, <2>1 DEF VersionHash, Hashes
    <2> QED
      BY <2>2
  <1>5. UNCHANGED <<cache, fnLock, memo, refused, builtCount, besides>>
    BY DEF HashArchive, caching, counters, besides
  <1>6. CASE Cached(q.fn, h)
    <2>1. PICK r \in RunFiles : r = ResolveCachedEntrypoint(q.arch, q.entry)
      BY <1>3, RunFile
    <2>2. PICK j \in BuildJobs :
            /\ j = [pc |-> "finish", fn |-> q.fn, hash |-> h, entry |-> q.entry, run |-> r]
            /\ j.pc = "finish" /\ j.fn = q.fn /\ j.hash = h /\ j.entry = q.entry /\ j.run = r
      BY <1>3, BuiltJob
    <2>3. job' = [job EXCEPT ![w] = j]
      BY <1>2, <1>4, <1>6, <2>1, <2>2 DEF HashArchive
    <2>4. job'[w] = j
      BY <1>1, <2>3, BuildTypes
    <2>5. PICK v \in published[q.fn] : v.hash = h
      BY <1>6 DEF Cached
    <2>6. v.run = ResolveCachedEntrypoint(q.arch, v.entry)
      BY <1>1, <1>3, <1>4, <2>5 DEF PublishedKnown
    <2>7. v \in published'[j.fn] /\ v.hash = j.hash /\ (v.entry = j.entry => v.run = j.run)
      BY <1>5, <2>1, <2>2, <2>5, <2>6 DEF besides
    <2>8. fnLock'[j.fn] = w
      BY <1>3, <1>5, <2>2
    <2>9. WorkerKnows(w)'
      BY <2>2, <2>4, <2>7, <2>8 DEF WorkerKnows
    <2> QED
      BY <1>1, <1>5, <2>3, <2>9, BuildTypes, WorkerStepKeeps DEF besides
  <1>7. CASE ~Cached(q.fn, h)
    <2>1. PICK j \in BuildJobs :
            /\ j = [pc |-> "extract", fn |-> q.fn, arch |-> q.arch, hung |-> FALSE, entry |-> q.entry,
                    hash |-> h]
            /\ j.pc = "extract" /\ j.fn = q.fn /\ j.hash = h /\ j.arch = q.arch
      <3> DEFINE k == [pc |-> "extract", fn |-> q.fn, arch |-> q.arch, hung |-> FALSE,
                       entry |-> q.entry, hash |-> h]
      <3>1. k \in BuildingJobs /\ k.pc = "extract" /\ k.fn = q.fn /\ k.hash = h /\ k.arch = q.arch
        BY <1>3 DEF BuildingJobs
      <3> QED
        BY <3>1 DEF BuildJobs
    <2>2. job' = [job EXCEPT ![w] = j]
      BY <1>2, <1>4, <1>7, <2>1 DEF HashArchive
    <2>3. job'[w] = j
      BY <1>1, <2>2, BuildTypes
    <2>4. WorkerKnows(w)'
      BY <1>3, <1>4, <1>5, <2>1, <2>3 DEF WorkerKnows
    <2> QED
      BY <1>1, <1>5, <2>2, <2>4, BuildTypes, WorkerStepKeeps DEF besides
  <1> QED
    BY <1>6, <1>7

\* A step of the pipeline: the job stays what it is, its cache stays there.
LEMMA PipelineKeeps ==
  ASSUME BuildInv, NEW w \in BuildWorkers, NEW q \in BuildingJobs, q = job[w],
         NEW j \in BuildJobs, job' = [job EXCEPT ![w] = j],
         j.fn = q.fn, j.arch = q.arch, j.hash = q.hash, j.entry = q.entry,
         j.pc \in {"extract", "validate", "syntax", "install", "tsc", "publish"},
         j.pc \in {"install", "tsc"} => cache'[q.fn].there,
         j.pc = "publish" /\ q.arch.tsconfig =>
           q.pc = "publish" \/ MaybeCompileTypeScript(q.arch, q.entry) \in Compiled(q.arch),
         cache' \in [BuildFns -> CacheRec], memo' \in [BuildFns -> 0 .. NoMemo],
         \A f \in BuildFns : cache[f].there => cache'[f].there,
         UNCHANGED <<fnLock, refused, builtCount, besides>>
  PROVE  BuildInv'
  <1>1. BuildTypeOK /\ WorkerKnows(w)
    BY DEF BuildInv
  <1>2. job'[w] = j
    BY <1>1, BuildTypes
  <1>3. q.pc \in {"extract", "validate", "syntax", "install", "tsc", "publish"}
    BY DEF BuildingJobs
  <1>4. WorkerKnows(w)'
    BY <1>1, <1>2, <1>3 DEF WorkerKnows
  <1> QED
    BY <1>1, <1>4, BuildTypes, WorkerStepKeeps DEF besides


\* A worker in the pipeline, and its job.
LEMMA Building ==
  ASSUME BuildInv, NEW w \in BuildWorkers,
         job[w].pc \in {"extract", "validate", "syntax", "install", "tsc", "publish"}
  PROVE  /\ job[w] \in BuildingJobs /\ job[w].fn \in BuildFns /\ fnLock[job[w].fn] = w
         /\ job[w].arch \in Uploads /\ job[w].entry \in Entries /\ job[w].hash \in Hashes
         /\ job[w].hash.arch = job[w].arch
  <1>1. job[w] \in BuildJobs /\ WorkerKnows(w)
    BY BuildTypes DEF BuildInv
  <1>2. job[w] \in BuildingJobs
    BY <1>1, JobShape
  <1>3. /\ job[w].fn \in BuildFns /\ job[w].arch \in Uploads /\ job[w].entry \in Entries
        /\ job[w].hash \in Hashes
    BY <1>2 DEF BuildingJobs
  <1>4. fnLock[job[w].fn] = w /\ job[w].hash.arch = job[w].arch
    BY <1>1 DEF WorkerKnows
  <1> QED
    BY <1>2, <1>3, <1>4

\* The next step of a pipeline whose caches do not change.
LEMMA StepKeeps ==
  ASSUME BuildInv, NEW w \in BuildWorkers,
         job[w].pc \in {"extract", "validate", "syntax", "install", "tsc", "publish"},
         NEW p \in {"extract", "validate", "syntax", "install", "tsc", "publish"}, Step(w, p),
         p \in {"install", "tsc"} => cache'[job[w].fn].there,
         p = "publish" /\ job[w].arch.tsconfig =>
           MaybeCompileTypeScript(job[w].arch, job[w].entry) \in Compiled(job[w].arch),
         cache' \in [BuildFns -> CacheRec], memo' \in [BuildFns -> 0 .. NoMemo],
         \A f \in BuildFns : cache[f].there => cache'[f].there,
         UNCHANGED <<fnLock, refused, builtCount, besides>>
  PROVE  BuildInv'
  <1>1. PICK q \in BuildingJobs : q = job[w]
    BY Building
  <1>2. job' = [job EXCEPT ![w] = [q EXCEPT !.pc = p]]
    BY <1>1 DEF Step
  <1>3. PICK j \in BuildJobs : /\ j = [q EXCEPT !.pc = p] /\ j.pc = p /\ j.fn = q.fn
                               /\ j.arch = q.arch /\ j.hash = q.hash /\ j.entry = q.entry
    <2>1. /\ [q EXCEPT !.pc = p] \in BuildJobs /\ [q EXCEPT !.pc = p].pc = p
          /\ [q EXCEPT !.pc = p].fn = q.fn /\ [q EXCEPT !.pc = p].hash = q.hash
          /\ [q EXCEPT !.pc = p].arch = q.arch /\ [q EXCEPT !.pc = p].entry = q.entry
      BY ONLY BuildingJob, q \in BuildingJobs,
              p \in {"extract", "validate", "syntax", "install", "tsc", "publish"}
    <2> QED
      BY <2>1
  <1>4. job' = [job EXCEPT ![w] = j]
    BY <1>2, <1>3
  <1> QED
    BY <1>1, <1>3, <1>4, PipelineKeeps

\* Starting an installer or tsc leaves its cache there.
LEMMA CachePrepared ==
  ASSUME BuildInv, NEW f \in BuildFns, NEW p, PrepareBuildCache(f, p)
  PROVE  /\ cache' \in [BuildFns -> CacheRec] /\ memo' \in [BuildFns -> 0 .. NoMemo]
         /\ \A g \in BuildFns : cache[g].there => cache'[g].there
         /\ p \in {"install", "tsc"} => cache'[f].there
  <1>1. cache \in [BuildFns -> CacheRec] /\ memo \in [BuildFns -> 0 .. NoMemo]
    BY BuildTypes DEF BuildInv
  <1>2. CASE p \in {"install", "tsc"}
    <2>1. PICK c \in CacheRec : c = [there |-> TRUE, size |-> cache[f].size, age |-> Fresh] /\ c.there
      <3>1. cache[f].size \in 0 .. MaxCache
        BY <1>1 DEF CacheRec
      <3>2. [there |-> TRUE, size |-> cache[f].size, age |-> Fresh] \in CacheRec
        BY <3>1 DEF CacheRec, Fresh, Stale
      <3> QED
        BY <3>2
    <2>2. cache' = [cache EXCEPT ![f] = c] /\ memo' = [memo EXCEPT ![f] = NoMemo]
      BY <1>2, <2>1 DEF PrepareBuildCache, Stamped
    <2>3. NoMemo \in 0 .. NoMemo
      BY BuildAssumption DEF NoMemo
    <2> QED
      BY <1>1, <2>1, <2>2, <2>3
  <1>3. CASE p \notin {"install", "tsc"}
    BY <1>1, <1>3 DEF PrepareBuildCache, caching
  <1> QED
    BY <1>2, <1>3

LEMMA PipelineStepKeeps ==
  ASSUME BuildInv, UNCHANGED offered, NEW w \in BuildWorkers,
         \/ Extract(w) \/ Validate(w) \/ CheckSyntax(w) \/ InstallDependencies(w)
         \/ CompileTypeScript(w)
  PROVE  BuildInv'
  <1>1. BuildTypeOK /\ cache \in [BuildFns -> CacheRec] /\ memo \in [BuildFns -> 0 .. NoMemo]
    BY BuildTypes DEF BuildInv
  <1>2. job[w].pc \in {"extract", "validate", "syntax", "install", "tsc", "publish"}
    BY DEF Extract, Validate, CheckSyntax, InstallDependencies, CompileTypeScript, At
  <1>3. job[w].fn \in BuildFns
    BY <1>2, Building
  <1>4. UNCHANGED <<fnLock, refused, builtCount, besides>>
    BY DEF Extract, Validate, CheckSyntax, InstallDependencies, CompileTypeScript, counters, besides
  <1>5. CASE Extract(w)
    <2>1. Step(w, "validate") /\ UNCHANGED <<cache, memo>>
      BY <1>5 DEF Extract, caching
    <2> QED
      BY <1>1, <1>2, <1>4, <2>1, StepKeeps
  <1>6. CASE Validate(w)
    <2>1. Step(w, "syntax") /\ UNCHANGED <<cache, memo>>
      BY <1>6 DEF Validate, caching
    <2> QED
      BY <1>1, <1>2, <1>4, <2>1, StepKeeps
  <1>7. CASE CheckSyntax(w)
    <2>1. PICK p : p = AfterSyntax(job[w].arch)
      OBVIOUS
    <2>2. Step(w, p) /\ PrepareBuildCache(job[w].fn, p)
      BY <1>7, <2>1 DEF CheckSyntax
    <2>3. p \in {"install", "tsc", "publish"} /\ (p = "publish" => ~job[w].arch.tsconfig)
      BY <2>1 DEF AfterSyntax
    <2>4. /\ cache' \in [BuildFns -> CacheRec] /\ memo' \in [BuildFns -> 0 .. NoMemo]
          /\ \A g \in BuildFns : cache[g].there => cache'[g].there
          /\ p \in {"install", "tsc"} => cache'[job[w].fn].there
      BY <1>3, <2>2, CachePrepared
    <2> QED
      BY <1>2, <1>4, <2>2, <2>3, <2>4, StepKeeps
  <1>8. CASE InstallDependencies(w)
    <2>1. PICK p : p = AfterInstall(job[w].arch)
      OBVIOUS
    <2>2. Step(w, p) /\ PrepareBuildCache(job[w].fn, p)
      BY <1>8, <2>1 DEF InstallDependencies
    <2>3. p \in {"install", "tsc", "publish"} /\ (p = "publish" => ~job[w].arch.tsconfig)
      BY <2>1 DEF AfterInstall
    <2>4. /\ cache' \in [BuildFns -> CacheRec] /\ memo' \in [BuildFns -> 0 .. NoMemo]
          /\ \A g \in BuildFns : cache[g].there => cache'[g].there
          /\ p \in {"install", "tsc"} => cache'[job[w].fn].there
      BY <1>3, <2>2, CachePrepared
    <2> QED
      BY <1>2, <1>4, <2>2, <2>3, <2>4, StepKeeps
  <1>9. CASE CompileTypeScript(w)
    <2>1. Step(w, "publish") /\ UNCHANGED <<cache, memo>>
      BY <1>9 DEF CompileTypeScript, caching
    <2>2. MaybeCompileTypeScript(job[w].arch, job[w].entry) \in Compiled(job[w].arch)
      BY <1>9 DEF CompileTypeScript, TscRefused
    <2> QED
      BY <1>1, <1>2, <1>4, <2>1, <2>2, StepKeeps
  <1> QED
    BY <1>5, <1>6, <1>7, <1>8, <1>9

LEMMA HangKeeps ==
  ASSUME BuildInv, UNCHANGED offered, NEW w \in BuildWorkers, Hang(w)
  PROVE  BuildInv'
  <1>1. BuildTypeOK /\ cache \in [BuildFns -> CacheRec] /\ memo \in [BuildFns -> 0 .. NoMemo]
    BY BuildTypes DEF BuildInv
  <1>2. job[w].pc \in {"syntax", "install", "tsc"}
    BY DEF Hang, Jailed
  <1>3. PICK q \in BuildingJobs : q = job[w]
    BY <1>2, Building
  <1>4. PICK j \in BuildJobs : /\ j = [q EXCEPT !.hung = TRUE] /\ j.pc = q.pc /\ j.fn = q.fn
                               /\ j.arch = q.arch /\ j.hash = q.hash /\ j.entry = q.entry
    <2>1. /\ [q EXCEPT !.hung = TRUE] \in BuildJobs /\ [q EXCEPT !.hung = TRUE].pc = q.pc
          /\ [q EXCEPT !.hung = TRUE].fn = q.fn /\ [q EXCEPT !.hung = TRUE].hash = q.hash
          /\ [q EXCEPT !.hung = TRUE].arch = q.arch /\ [q EXCEPT !.hung = TRUE].entry = q.entry
      BY HungJob
    <2> QED
      BY <2>1
  <1>5. job' = [job EXCEPT ![w] = j] /\ UNCHANGED <<cache, memo>>
    BY <1>3, <1>4 DEF Hang, caching
  <1>6. UNCHANGED <<fnLock, refused, builtCount, besides>>
    BY DEF Hang, counters, besides
  <1>7. j.pc \in {"install", "tsc"} => cache'[q.fn].there
    BY <1>3, <1>4, <1>5 DEF BuildInv, WorkerKnows
  <1> QED
    BY <1>1, <1>2, <1>3, <1>4, <1>5, <1>6, <1>7, PipelineKeeps

LEMMA GiveUpKeeps ==
  ASSUME BuildInv, UNCHANGED offered, NEW w \in BuildWorkers, TimedOut(w) \/ BuildFails(w)
  PROVE  BuildInv'
  <1>1. job[w].pc \notin {"idle", "lock"}
    BY DEF TimedOut, BuildFails, Jailed
  <1>2. Fail(w) /\ UNCHANGED <<cache, memo, besides>> /\ UNCHANGED builtCount /\ UNCHANGED refused
    BY DEF TimedOut, BuildFails, caching, counters, besides
  <1>3. refused \in SUBSET BuildFns
    BY BuildTypes DEF BuildInv
  <1> QED
    BY <1>1, <1>2, <1>3, FailKeeps

\* A download grows a cache that is there, and stays there.
LEMMA DownloadKeeps ==
  ASSUME BuildInv, UNCHANGED offered, NEW w \in BuildWorkers, Download(w)
  PROVE  BuildInv'
  <1>1. BuildTypeOK /\ cache \in [BuildFns -> CacheRec] /\ PublishedKnown
    BY BuildTypes DEF BuildInv
  <1>2. PICK f \in BuildFns : f = job[w].fn
    <2>1. job[w].pc = "install"
      BY DEF Download, At
    <2> QED
      BY <2>1, Building
  <1>3. /\ cache' \in [BuildFns -> CacheRec]
        /\ \A g \in BuildFns : cache'[g].there = cache[g].there
    <2>1. cache[f].size < MaxCache /\ cache' = [cache EXCEPT ![f].size = @ + 1]
      BY <1>2 DEF Download
    <2>2. cache[f] \in CacheRec
      BY <1>1
    <2>3. /\ [cache[f] EXCEPT !.size = @ + 1] \in CacheRec
          /\ [cache[f] EXCEPT !.size = @ + 1].there = cache[f].there
      BY <2>1, <2>2, BuildAssumption DEF CacheRec
    <2>4. cache' = [cache EXCEPT ![f] = [cache[f] EXCEPT !.size = @ + 1]]
      BY <2>1
    <2> QED
      BY <1>1, <2>3, <2>4
  <1>4. UNCHANGED <<fnRow, published, fnLock, job, memo, debris, ident, refused, builtCount, tickCount, eventCount>>
    BY DEF Download, counters
  <1>5. ASSUME NEW u \in BuildWorkers PROVE WorkerKnows(u)'
    BY <1>3, <1>4, OtherKeeps
  <1>6. BuildTypeOK'
    BY <1>1, <1>3, <1>4, BuildTypes, BuildTypesNext
  <1>7. PublishedKnown'
    BY <1>1, <1>4 DEF PublishedKnown
  <1> QED
    BY <1>5, <1>6, <1>7 DEF BuildInv

\* What is published is what a later build of the same upload resolves.
LEMMA PublishKeeps ==
  ASSUME BuildInv, UNCHANGED offered, NEW w \in BuildWorkers, PublishVersion(w)
  PROVE  BuildInv'
  <1>1. BuildTypeOK /\ WorkerKnows(w) /\ PublishedKnown /\ job[w].pc = "publish"
    BY DEF BuildInv, PublishVersion, At
  <1>2. /\ job[w] \in BuildingJobs /\ job[w].fn \in BuildFns /\ fnLock[job[w].fn] = w
        /\ job[w].arch \in Uploads /\ job[w].entry \in Entries /\ job[w].hash \in Hashes
        /\ job[w].hash.arch = job[w].arch
    BY <1>1, Building
  <1>3. PICK f \in BuildFns, h \in Hashes, e \in Entries, r \in RunFiles :
          /\ f = job[w].fn /\ h = job[w].hash /\ e = job[w].entry
          /\ r = MaybeCompileTypeScript(job[w].arch, e) /\ r = ResolveCachedEntrypoint(h.arch, e)
    <2>1. MaybeCompileTypeScript(job[w].arch, job[w].entry)
            = ResolveCachedEntrypoint(job[w].hash.arch, job[w].entry)
      BY <1>1, <1>2 DEF WorkerKnows, MaybeCompileTypeScript, ResolveCachedEntrypoint
    <2> QED
      BY <1>2, <2>1, RunFile
  <1>4. PICK v \in BuildVersions : /\ v = [hash |-> h, entry |-> e, run |-> r]
                              /\ v.hash = h /\ v.entry = e /\ v.run = r
    <2>1. [hash |-> h, entry |-> e, run |-> r] \in BuildVersions
      BY DEF BuildVersions
    <2> QED
      BY <2>1
  <1>5. PICK j \in BuildJobs :
          /\ j = [pc |-> "finish", fn |-> f, hash |-> h, entry |-> e, run |-> r]
          /\ j.pc = "finish" /\ j.fn = f /\ j.hash = h /\ j.entry = e /\ j.run = r
    BY BuiltJob
  <1>6. /\ published' = [published EXCEPT ![f] = {x \in published[f] : x.hash # h} \cup {v}]
        /\ job' = [job EXCEPT ![w] = j]
    BY <1>3, <1>4, <1>5 DEF PublishVersion
  <1>7. UNCHANGED <<fnRow, fnLock, cache, memo, debris, ident, refused, builtCount, tickCount, eventCount>>
    BY DEF PublishVersion, caching, counters
  <1>8. /\ published' \in [BuildFns -> SUBSET BuildVersions] /\ v \in published'[f]
        /\ \A g \in BuildFns \ {f} : published'[g] = published[g]
        /\ \A x \in published'[f] : x \in published[f] \/ x = v
    BY <1>1, <1>6, BuildTypes
  <1>9. job' \in [BuildWorkers -> BuildJobs] /\ job'[w] = j
    BY <1>1, <1>6, BuildTypes
  <1>10. ASSUME NEW u \in BuildWorkers PROVE WorkerKnows(u)'
    <2>1. CASE u = w
      <3>1. fnLock'[j.fn] = w
        BY <1>2, <1>3, <1>5, <1>7
      <3>2. v \in published'[j.fn] /\ v.hash = j.hash /\ (v.entry = j.entry => v.run = j.run)
        BY <1>4, <1>5, <1>8
      <3> QED
        BY <1>5, <1>9, <2>1, <3>1, <3>2 DEF WorkerKnows
    <2>2. CASE u # w
      <3>1. job'[u] = job[u]
        BY <1>1, <1>6, <2>2, BuildTypes
      <3>2. \A g \in BuildFns : fnLock[g] = u => g # f
        BY <1>2, <1>3, <2>2
      <3> QED
        BY <1>7, <1>8, <3>1, <3>2, OtherKeeps
    <2> QED
      BY <2>1, <2>2
  <1>11. BuildTypeOK'
    BY <1>1, <1>7, <1>8, <1>9, BuildTypes, BuildTypesNext
  <1>12. PublishedKnown'
    <2> SUFFICES ASSUME NEW g \in BuildFns, NEW x \in published'[g]
                 PROVE  x.run = ResolveCachedEntrypoint(x.hash.arch, x.entry)
      BY DEF PublishedKnown
    <2>1. CASE x \in published[g]
      BY <1>1, <2>1 DEF PublishedKnown
    <2>2. CASE x \notin published[g]
      <3>1. x = v
        BY <1>8, <2>2
      <3> QED
        BY <1>3, <1>4, <3>1
    <2> QED
      BY <2>1, <2>2
  <1> QED
    BY <1>10, <1>11, <1>12 DEF BuildInv

\* A state whose workers are where they were, or idle.
LEMMA RestKeeps ==
  ASSUME BuildInv,
         \A u \in BuildWorkers : WorkerKnows(u)',
         \A f \in BuildFns : published'[f] \in SUBSET published[f],
         BuildTypeOK'
  PROVE  BuildInv'
  BY DEF BuildInv, PublishedKnown

LEMMA FinishKeeps ==
  ASSUME BuildInv, UNCHANGED offered, NEW w \in BuildWorkers, FinishJob(w)
  PROVE  BuildInv'
  <1>1. BuildTypeOK /\ WorkerKnows(w) /\ job[w].pc = "finish" /\ job[w] \in BuildJobs
    BY BuildTypes DEF BuildInv, FinishJob, At
  <1>2. PICK j \in BuiltJobs : j = job[w]
    BY <1>1, JobShape
  <1>3. j.fn \in BuildFns /\ j.entry \in Entries /\ j.hash \in Hashes /\ j.run \in RunFiles
    BY DEF BuiltJobs
  <1>4. fnLock[j.fn] = w
    BY <1>1, <1>2 DEF WorkerKnows
  <1>5. PICK r \in FnRec : r = [alive |-> TRUE, entry |-> j.entry, hash |-> {j.hash},
                                run |-> IF j.run = j.entry THEN {} ELSE {j.run}]
    <2>1. PICK s \in SUBSET RunFiles : s = IF j.run = j.entry THEN {} ELSE {j.run}
      BY <1>3
    <2>2. [alive |-> TRUE, entry |-> j.entry, hash |-> {j.hash}, run |-> s] \in FnRec
      BY <1>3 DEF FnRec
    <2> QED
      BY <2>1, <2>2
  <1>6. /\ fnRow' = [fnRow EXCEPT ![j.fn] = r] /\ job' = [job EXCEPT ![w] = NoJob]
        /\ fnLock' = [fnLock EXCEPT ![j.fn] = Unlocked]
    BY <1>2, <1>5 DEF FinishJob, Unlock
  <1>7. UNCHANGED <<published, cache, memo, debris, ident, refused, builtCount, tickCount, eventCount>>
    BY DEF FinishJob, caching, counters
  <1>8. /\ fnRow' \in [BuildFns -> FnRec] /\ job' \in [BuildWorkers -> BuildJobs]
        /\ fnLock' \in [BuildFns -> BuildWorkers \cup {Unlocked, "delete"}]
    BY <1>1, <1>6, BuildTypes, NoJobIdle
  <1>9. BuildTypeOK'
    BY <1>1, <1>7, <1>8, BuildTypes, BuildTypesNext
  <1>10. ASSUME NEW u \in BuildWorkers PROVE WorkerKnows(u)'
    <2>1. CASE u = w
      <3>1. job'[w] = NoJob
        BY <1>1, <1>6, BuildTypes
      <3> QED
        BY <2>1, <3>1, NoJobIdle, KnowsNothing
    <2>2. CASE u # w
      <3>1. job'[u] = job[u]
        BY <1>1, <1>6, <2>2, BuildTypes
      <3>2. \A g \in BuildFns : fnLock[g] = u => fnLock'[g] = u
        BY <1>1, <1>4, <1>6, <2>2, BuildTypes
      <3> QED
        BY <1>7, <3>1, <3>2, OtherKeeps
    <2> QED
      BY <2>1, <2>2
  <1> QED
    BY <1>7, <1>9, <1>10, RestKeeps

-----------------------------------------------------------------------------
(* Builds: the sweep, requests, time and crashes.                          *)

\* The workers do not step, and a cache whose function is locked stays there.
LEMMA AsideKeeps ==
  ASSUME BuildInv, UNCHANGED job,
         \A f \in BuildFns : fnLock[f] \in BuildWorkers =>
           fnLock'[f] = fnLock[f] /\ published'[f] = published[f] /\ (cache[f].there => cache'[f].there),
         \A f \in BuildFns : published'[f] \in SUBSET published[f],
         BuildTypeOK'
  PROVE  BuildInv'
  <1>1. ASSUME NEW u \in BuildWorkers PROVE WorkerKnows(u)'
    <2>1. \A f \in BuildFns : fnLock[f] = u =>
            /\ fnLock'[f] = u /\ published'[f] = published[f]
            /\ (cache[f].there => cache'[f].there)
      OBVIOUS
    <2> QED
      BY <2>1, OtherKeeps
  <1> QED
    BY <1>1, RestKeeps

LEMMA NoLockWorker == \A u \in BuildWorkers : u # Unlocked /\ u # "delete"
  BY BuildAssumption DEF Unlocked

LEMMA SweepOneKeeps ==
  ASSUME BuildInv, NEW f \in BuildFns, SweepOne(f),
         UNCHANGED <<fnRow, published, fnLock, job, debris, ident, refused, offered>>, UNCHANGED counters
  PROVE  BuildInv'
  <1>1. BuildTypeOK
    BY DEF BuildInv
  <1>2. UNCHANGED <<builtCount, tickCount, eventCount>>
    BY DEF counters
  <1>3. CASE fnLock[f] = Unlocked
    <2>1. EvictBuildCache(f) /\ memo' = [memo EXCEPT ![f] = NoMemo]
      BY <1>3 DEF SweepOne, TryFnLock
    <2>2. cache' \in [BuildFns -> CacheRec] /\ \A g \in BuildFns \ {f} : cache'[g] = cache[g]
      BY <2>1, Evicted
    <2>3. memo' \in [BuildFns -> 0 .. NoMemo]
      <3>1. NoMemo \in 0 .. NoMemo
        BY BuildAssumption DEF NoMemo
      <3> QED
        BY <1>1, <2>1, <3>1, BuildTypes
    <2>4. BuildTypeOK'
      BY <1>1, <1>2, <2>2, <2>3, BuildTypes, BuildTypesNext
    <2>5. \A g \in BuildFns : fnLock[g] \in BuildWorkers => g # f
      BY <1>3, NoLockWorker
    <2> QED
      BY <2>2, <2>4, <2>5, AsideKeeps
  <1>4. CASE fnLock[f] # Unlocked
    <2>1. UNCHANGED <<cache, memo>>
      BY <1>4 DEF SweepOne, TryFnLock, caching
    <2>2. BuildTypeOK'
      BY <1>1, <1>2, <2>1, BuildTypes, BuildTypesNext
    <2> QED
      BY <2>1, <2>2, AsideKeeps
  <1> QED
    BY <1>3, <1>4

LEMMA SweepKeeps ==
  ASSUME BuildInv, UNCHANGED offered, SweepNext
  PROVE  BuildInv'
  <1>1. BuildTypeOK
    BY DEF BuildInv
  <1>2. CASE ListBuildCaches
    <2>1. UNCHANGED <<fnRow, published, fnLock, job, cache, debris, ident, refused, builtCount,
                      tickCount, eventCount>>
      BY <1>2 DEF ListBuildCaches, counters
    <2>2. memo' \in [BuildFns -> 0 .. NoMemo]
      <3>1. ASSUME NEW f \in BuildFns PROVE Memoized(f) \in 0 .. NoMemo
        <4>1. memo[f] \in 0 .. NoMemo /\ cache[f] \in CacheRec
          BY <1>1, BuildTypes
        <4>2. cache[f].size \in 0 .. MaxCache
          BY <4>1 DEF CacheRec
        <4> QED
          BY <4>1, <4>2, BuildAssumption DEF Memoized, NoMemo
      <3>2. memo' = [f \in BuildFns |-> Memoized(f)]
        BY <1>2 DEF ListBuildCaches
      <3> QED
        BY <3>1, <3>2
    <2>3. BuildTypeOK'
      BY <1>1, <2>1, <2>2, BuildTypes, BuildTypesNext
    <2> QED
      BY <2>1, <2>3, AsideKeeps
  <1>3. CASE SweepCap \/ SweepEnds
    <2>1. UNCHANGED <<fnRow, published, fnLock, job, cache, memo, debris, ident, refused, builtCount,
                      tickCount, eventCount>>
      BY <1>3 DEF SweepCap, SweepEnds, caching, counters
    <2>2. BuildTypeOK'
      BY <1>1, <2>1, BuildTypes, BuildTypesNext
    <2> QED
      BY <2>1, <2>2, AsideKeeps
  <1>4. ASSUME NEW f \in BuildFns, SweepStale(f) \/ SweepLRU(f) PROVE BuildInv'
    <2>1. /\ SweepOne(f) /\ UNCHANGED counters
          /\ UNCHANGED <<fnRow, published, fnLock, job, debris, ident, refused, offered>>
      BY <1>4 DEF SweepStale, SweepLRU
    <2> QED
      BY <2>1, SweepOneKeeps
  <1> QED
    BY <1>2, <1>3, <1>4 DEF SweepNext

LEMMA EventCounted ==
  ASSUME BuildTypeOK, Event
  PROVE  eventCount' \in 0 .. MaxEvents
  BY BuildTypes, BuildAssumption DEF Event

LEMMA EntrypointKeeps ==
  ASSUME BuildInv, UNCHANGED offered, NEW f \in BuildFns, NEW e \in Entries, UpdateEntrypoint(f, e)
  PROVE  BuildInv'
  <1>1. BuildTypeOK
    BY DEF BuildInv
  <1>2. eventCount' \in 0 .. MaxEvents
    BY <1>1, EventCounted DEF UpdateEntrypoint
  <1>3. UNCHANGED <<published, fnLock, job, cache, memo, debris, ident, refused, builtCount, tickCount>>
    BY DEF UpdateEntrypoint, caching
  <1>4. fnRow' \in [BuildFns -> FnRec]
    <2>1. fnRow \in [BuildFns -> FnRec] /\ fnRow[f] \in FnRec
      BY <1>1, BuildTypes
    <2>2. [fnRow[f] EXCEPT !.entry = e] \in FnRec
      BY <2>1 DEF FnRec
    <2>3. fnRow' = [fnRow EXCEPT ![f] = [fnRow[f] EXCEPT !.entry = e]]
      BY DEF UpdateEntrypoint
    <2> QED
      BY <2>1, <2>2, <2>3
  <1>5. BuildTypeOK'
    BY <1>1, <1>2, <1>3, <1>4, BuildTypes, BuildTypesNext
  <1> QED
    BY <1>3, <1>5, AsideKeeps

LEMMA DeleteRowKeeps ==
  ASSUME BuildInv, UNCHANGED offered, NEW f \in BuildFns, DeleteFunctionRow(f)
  PROVE  BuildInv'
  <1>1. BuildTypeOK
    BY DEF BuildInv
  <1>2. eventCount' \in 0 .. MaxEvents
    BY <1>1, EventCounted DEF DeleteFunctionRow
  <1>3. UNCHANGED <<published, job, cache, memo, debris, ident, refused, builtCount, tickCount>>
    BY DEF DeleteFunctionRow, caching
  <1>4. fnRow' \in [BuildFns -> FnRec]
    <2>1. fnRow \in [BuildFns -> FnRec] /\ fnRow[f] \in FnRec
      BY <1>1, BuildTypes
    <2>2. [fnRow[f] EXCEPT !.alive = FALSE] \in FnRec
      BY <2>1 DEF FnRec
    <2>3. fnRow' = [fnRow EXCEPT ![f] = [fnRow[f] EXCEPT !.alive = FALSE]]
      BY DEF DeleteFunctionRow
    <2> QED
      BY <2>1, <2>2, <2>3
  <1>5. fnLock[f] = Unlocked /\ fnLock' = [fnLock EXCEPT ![f] = "delete"]
    BY DEF DeleteFunctionRow
  <1>6. /\ fnLock' \in [BuildFns -> BuildWorkers \cup {Unlocked, "delete"}]
        /\ \A g \in BuildFns : fnLock[g] \in BuildWorkers => fnLock'[g] = fnLock[g]
    BY <1>1, <1>5, BuildTypes, NoLockWorker
  <1>7. BuildTypeOK'
    BY <1>1, <1>2, <1>3, <1>4, <1>6, BuildTypes, BuildTypesNext
  <1> QED
    BY <1>3, <1>6, <1>7, AsideKeeps

LEMMA PurgeKeeps ==
  ASSUME BuildInv, UNCHANGED offered, NEW f \in BuildFns, PurgeFiles(f) \/ PurgeBuildCache(f)
  PROVE  BuildInv'
  <1>1. BuildTypeOK
    BY DEF BuildInv
  <1>2. EvictBuildCache(f)
    BY DEF PurgeFiles, PurgeBuildCache
  <1>3. cache' \in [BuildFns -> CacheRec] /\ \A g \in BuildFns \ {f} : cache'[g] = cache[g]
    BY <1>2, Evicted
  <1>4. \A g \in BuildFns : fnLock[g] \in BuildWorkers => g # f
    BY NoLockWorker DEF PurgeFiles, PurgeBuildCache
  <1>5. UNCHANGED <<fnRow, job, memo, debris, ident, refused, builtCount, tickCount>>
    BY DEF PurgeFiles, PurgeBuildCache, counters
  <1>6. eventCount' \in 0 .. MaxEvents
    <2>1. CASE PurgeFiles(f)
      BY <1>1, <2>1, BuildTypes DEF PurgeFiles, counters
    <2>2. CASE PurgeBuildCache(f)
      BY <1>1, <2>2, EventCounted DEF PurgeBuildCache
    <2> QED
      BY <2>1, <2>2
  <1>7. /\ fnLock' \in [BuildFns -> BuildWorkers \cup {Unlocked, "delete"}]
        /\ published' \in [BuildFns -> SUBSET BuildVersions]
        /\ \A g \in BuildFns \ {f} : fnLock'[g] = fnLock[g] /\ published'[g] = published[g]
        /\ published'[f] \in SUBSET published[f]
    <2>1. CASE PurgeFiles(f)
      BY <1>1, <2>1, BuildTypes DEF PurgeFiles, Unlock
    <2>2. CASE PurgeBuildCache(f)
      BY <1>1, <2>2, BuildTypes DEF PurgeBuildCache
    <2> QED
      BY <2>1, <2>2
  <1>8. BuildTypeOK'
    BY <1>1, <1>3, <1>5, <1>6, <1>7, BuildTypes, BuildTypesNext
  <1>9. \A g \in BuildFns : published'[g] \in SUBSET published[g]
    BY <1>7
  <1> QED
    BY <1>3, <1>4, <1>5, <1>7, <1>8, <1>9, AsideKeeps

\* After a crash no worker has a job; what is published and cached stays.
LEMMA CrashKeeps ==
  ASSUME BuildInv, UNCHANGED offered, NEW i \in {"v1", "v2"}, BuilderCrash(i)
  PROVE  BuildInv'
  <1>1. BuildTypeOK
    BY DEF BuildInv
  <1>2. eventCount' \in 0 .. MaxEvents
    BY <1>1, EventCounted DEF BuilderCrash
  <1>3. UNCHANGED <<fnRow, published, cache, refused, builtCount, tickCount>> /\ ident' = i
    BY DEF BuilderCrash
  <1>4. debris' \in Nat
    <2>1. IsFiniteSet(Scratches)
      BY FS_Subset, BuildAssumption DEF Scratches
    <2>2. Cardinality(Scratches) \in Nat
      BY <2>1, FS_CardinalityType
    <2> QED
      BY <1>1, <2>2, BuildTypes DEF BuilderCrash
  <1>5. /\ job' \in [BuildWorkers -> BuildJobs] /\ \A u \in BuildWorkers : job'[u] = NoJob
        /\ fnLock' \in [BuildFns -> BuildWorkers \cup {Unlocked, "delete"}]
    BY NoJobIdle DEF BuilderCrash
  <1>6. memo' \in [BuildFns -> 0 .. NoMemo]
    BY BuildAssumption DEF BuilderCrash, NoMemo
  <1>7. BuildTypeOK'
    BY <1>1, <1>2, <1>3, <1>4, <1>5, <1>6, BuildTypes, BuildTypesNext
  <1>8. \A u \in BuildWorkers : WorkerKnows(u)'
    BY <1>5, NoJobIdle, KnowsNothing
  <1> QED
    BY <1>3, <1>7, <1>8, RestKeeps

LEMMA TickKeeps ==
  ASSUME BuildInv, UNCHANGED offered, Tick
  PROVE  BuildInv'
  <1>1. BuildTypeOK
    BY DEF BuildInv
  <1>2. tickCount' \in 0 .. MaxTicks
    BY <1>1, BuildTypes, BuildAssumption DEF Tick
  <1>3. UNCHANGED <<fnRow, published, fnLock, job, memo, debris, ident, refused, builtCount, eventCount>>
    BY DEF Tick
  <1>4. /\ cache' \in [BuildFns -> CacheRec]
        /\ \A f \in BuildFns : cache[f].there => cache'[f].there
    <2> DEFINE older(f) == [cache[f] EXCEPT !.age = IF @ = Stale THEN Stale ELSE @ + 1]
    <2>1. ASSUME NEW f \in BuildFns PROVE cache[f] \in CacheRec /\ older(f) \in CacheRec
                                          /\ older(f).there = cache[f].there
      <3>1. cache[f] \in CacheRec
        BY <1>1, BuildTypes
      <3> QED
        BY <3>1 DEF CacheRec, Fresh, Stale
    <2>2. cache' = [f \in BuildFns |-> IF cache[f].there THEN older(f) ELSE cache[f]]
      BY DEF Tick
    <2> HIDE DEF older
    <2> QED
      BY <2>1, <2>2
  <1>5. BuildTypeOK'
    BY <1>1, <1>2, <1>3, <1>4, BuildTypes, BuildTypesNext
  <1> QED
    BY <1>3, <1>4, <1>5, AsideKeeps

-----------------------------------------------------------------------------
(* Builds: the theorems.                                                   *)

LEMMA BuildStarts ==
  ASSUME BuildInit
  PROVE  BuildInv
  <1>1. PICK us \in [BuildFns -> SUBSET Uploads], e \in Entries, c \in [BuildFns -> CacheRec] :
          BuildStart(us, e, c, 0, 0, 0)
    BY DEF BuildInit, CacheRec
  <1>2. job = [w \in BuildWorkers |-> NoJob] /\ published = [f \in BuildFns |-> {}]
    BY <1>1 DEF BuildStart
  <1>3. fnRow \in [BuildFns -> FnRec]
    <2>1. [alive |-> TRUE, entry |-> e, hash |-> {}, run |-> {}] \in FnRec
      BY DEF FnRec
    <2> QED
      BY <1>1, <2>1 DEF BuildStart
  <1>4. BuildTypeOK
    <2>1. memo \in [BuildFns -> 0 .. NoMemo] /\ job \in [BuildWorkers -> BuildJobs]
          /\ builtCount \in 0 .. MaxBuilds /\ tickCount \in 0 .. MaxTicks /\ eventCount \in 0 .. MaxEvents
      BY <1>1, <1>2, NoJobIdle, BuildAssumption DEF BuildStart, NoMemo
    <2>2. /\ offered = us /\ cache = c /\ fnLock \in [BuildFns -> BuildWorkers \cup {Unlocked, "delete"}]
          /\ debris \in Nat /\ ident \in {"v1", "v2"} /\ refused \in SUBSET BuildFns
          /\ published \in [BuildFns -> SUBSET BuildVersions]
      BY <1>1 DEF BuildStart
    <2> QED
      BY <1>1, <1>3, <2>1, <2>2 DEF BuildTypeOK, FnRec, BuildVersions, CacheRec
  <1>5. \A w \in BuildWorkers : WorkerKnows(w)
    BY <1>2, NoJobIdle DEF WorkerKnows
  <1>6. PublishedKnown
    BY <1>2 DEF PublishedKnown
  <1> QED
    BY <1>4, <1>5, <1>6 DEF BuildInv

LEMMA BuildNextKeeps ==
  ASSUME BuildInv, BuildNext
  PROVE  BuildInv'
  <1>1. UNCHANGED offered
    BY DEF BuildNext
  <1>2. ASSUME NEW w \in BuildWorkers, WorkerStep(w) \/ Download(w) \/ Hang(w) PROVE BuildInv'
    BY <1>1, <1>2, RunJobKeeps, DiskKeeps, HashKeeps, PipelineStepKeeps, GiveUpKeeps, PublishKeeps,
       FinishKeeps, DownloadKeeps, HangKeeps DEF WorkerStep
  <1>3. ASSUME NEW w \in BuildWorkers, NEW f \in BuildFns, NEW a \in offered[f], TakeJob(w, f, a)
        PROVE  BuildInv'
    BY <1>1, <1>3, TakeJobKeeps
  <1>4. CASE SweepNext
    BY <1>1, <1>4, SweepKeeps
  <1>5. ASSUME NEW f \in BuildFns, DeleteFunctionRow(f) \/ PurgeFiles(f) \/ PurgeBuildCache(f)
        PROVE  BuildInv'
    BY <1>1, <1>5, DeleteRowKeeps, PurgeKeeps
  <1>6. ASSUME NEW f \in BuildFns, NEW e \in Entries, UpdateEntrypoint(f, e) PROVE BuildInv'
    BY <1>1, <1>6, EntrypointKeeps
  <1>7. ASSUME NEW i \in {"v1", "v2"}, BuilderCrash(i) PROVE BuildInv'
    BY <1>1, <1>7, CrashKeeps
  <1>8. CASE Tick
    BY <1>1, <1>8, TickKeeps
  <1>9. BuildStepAny
    BY DEF BuildNext
  <1> QED
    BY <1>2, <1>3, <1>4, <1>5, <1>6, <1>7, <1>8, <1>9 DEF BuildStepAny

LEMMA BuildStutters ==
  ASSUME BuildInv, UNCHANGED buildVars
  PROVE  BuildInv'
  <1>1. BuildTypeOK /\ UNCHANGED <<fnRow, published, fnLock, job, cache, memo, debris, ident, refused,
                                   builtCount, tickCount, eventCount, offered>>
    BY DEF BuildInv, buildVars
  <1>2. BuildTypeOK'
    BY <1>1, BuildTypes, BuildTypesNext
  <1> QED
    BY <1>1, <1>2, AsideKeeps

\* Whatever two builds of one function, the sweep, deletes and crashes do, the
\* builder's rows, locks, jobs, caches and sizes stay in their types: no
\* worker reads a field its step has not set, and no cache outgrows its bound.
THEOREM BuildTypesHold == BuildSpec => []BuildTypeOK
  <1>1. BuildInit => BuildInv
    BY BuildStarts
  <1>2. BuildInv /\ [BuildNext]_buildVars => BuildInv'
    BY BuildNextKeeps, BuildStutters
  <1>3. BuildInv => BuildTypeOK
    BY DEF BuildInv
  <1> QED
    BY <1>1, <1>2, <1>3, PTL DEF BuildSpec

\* For any number of functions, workers and uploads: no installer loses its
\* cache directory to a worker that reclaims disk (EvictIdleBuildCaches), to
\* the GC's sweep or to a delete, though each works from a listing older than
\* the install; and a build that is skipped because its version is published
\* runs the file that the first build resolved.
THEOREM BuildsAreSafe == BuildSpec => []BuildSafe
  <1>1. BuildInit => BuildInv
    BY BuildStarts
  <1>2. BuildInv /\ [BuildNext]_buildVars => BuildInv'
    BY BuildNextKeeps, BuildStutters
  <1>3. BuildInv => BuildSafe
    BY DEF BuildInv, BuildSafe, WorkerKnows, At
  <1> QED
    BY <1>1, <1>2, <1>3, PTL DEF BuildSpec

-----------------------------------------------------------------------------
(* The data directory: what its parts know of each other.                  *)

\* Commits of the process are what a restart reads; while a restore swaps the
\* files they are not, and after it the process only exits.
WalKnown ==
  /\ link # "unlinked"
  /\ link = "wal" => live = handle
  /\ link = "aside" => proc \in {"up", "exiting", "down"} /\ (proc = "up" => Activating)
  /\ rs.pc # "idle" => proc = "up" /\ archive.plan \subseteq archive.held /\ (link = "wal" <=> rs.pc = "swap")
  /\ rs.pc \in {"keys", "trees"} => live = archive.db
  /\ link = "aside" /\ ~Activating => live # NoFile /\ live.pending = {}

\* Renames are outstanding only until the boot has made them, each of a tree
\* of its own, and never in a copy of the database.
PendingKnown ==
  /\ proc \in {"fold", "up", "exiting"} => handle.pending = {}
  /\ ~handle.done => handle.pending = {}
  /\ archive # NoFile => archive.db.pending = {}
  /\ dl.pc # "idle" => dl.db.pending = {} /\ archive = NoFile
  /\ \A p \in handle.pending : p[1] = <<p[2][1], 0>> /\ p[2][2] # 0 /\ p[1] \notin DOMAIN handle.fns
  /\ \A p, q \in handle.pending : p[1] = q[1] => p = q

\* The code of a row is there, fresh enough for the sweep of a process whose
\* database was replaced, or a rename that is due will bring it.
RowHasCode(id) ==
  \/ HasCode(id, live.fns[id]) /\ (link = "aside" /\ proc = "exiting" => trees[id].young)
  \/ \E p \in live.pending : /\ p[2] = id /\ HasCode(p[1], live.fns[id]) /\ ~trees[id].dir
                             /\ proc = "reconcile" => p \in todo
CodeKnown ==
  ~Activating => \A id \in DOMAIN live.fns : live.fns[id] # None /\ id[1] \notin lost => RowHasCode(id)

\* A tree that the restore has put in place holds what the archive held.
Shipped(id, c) == \E s \in {"bare", "ready"} : <<id, c, s>> \in archive.held
StagedKnown ==
  rs.pc = "trees" => \A id \in StagedIds \ rs.left : id[1] \notin lost =>
      trees[id].young /\ \A c \in Codes : Shipped(id, c) => trees[id].ver[c] = "ready"

\* Code is in a directory, a flat one has no build beside it, and no row of a
\* server has a flat one.
TreesKnown ==
  /\ \A id \in Ids : Wellformed(trees[id])
  /\ \A b \in builds : b[1] \in DOMAIN handle.fns => trees[b[1]].dir
  /\ proc = "fold" => \A id \in DOMAIN handle.fns : (trees[id].flat => id \in todo) /\ (id \in todo => trees[id].dir)
  /\ Serving => \A id \in DOMAIN handle.fns : ~trees[id].flat

\* What requests and the collector hold on to.
RequestsKnown ==
  /\ ~Serving => builds = {} /\ deleting = {} /\ collector = {}
  /\ collector # {} => DOMAIN handle.fns \subseteq collector
  /\ link = "wal" => deleting \cap DOMAIN handle.fns = {}

DirKnown == WalKnown /\ PendingKnown /\ CodeKnown /\ StagedKnown /\ TreesKnown /\ RequestsKnown

\* A restore that failed half-way was announced for every function.
DirInv == DirTypeOK /\ (lost # Fns => DirKnown)

LEMMA DatabaseFields ==
  ASSUME NEW d \in Database
  PROVE  /\ d.fns \in [DOMAIN d.fns -> Codes \cup {None}] /\ DOMAIN d.fns \subseteq Ids
         /\ d.pending \subseteq Ids \X Ids /\ d.done \in BOOLEAN /\ d.soft \subseteq Ids /\ d.sealed \in {"old", "new"}
         /\ d # NoFile
  <1>1. /\ d.fns \in UNION {[S -> Codes \cup {None}] : S \in SUBSET Ids}
        /\ d.pending \subseteq Ids \X Ids /\ d.done \in BOOLEAN /\ d.soft \subseteq Ids /\ d.sealed \in {"old", "new"}
    BY DEF Database
  <1>2. d # NoFile
    BY DEF Database, NoFile
  <1>3. PICK S \in SUBSET Ids : d.fns \in [S -> Codes \cup {None}]
    BY <1>1
  <1> QED
    BY <1>1, <1>2, <1>3

LEMMA DatabaseRows ==
  ASSUME NEW d \in Database, NEW S \in SUBSET Ids, NEW F \in [S -> Codes \cup {None}]
  PROVE  /\ [d EXCEPT !.fns = F] \in Database /\ [d EXCEPT !.fns = F].fns = F
         /\ [d EXCEPT !.fns = F].pending = d.pending /\ [d EXCEPT !.fns = F].done = d.done
  <1>1. F \in UNION {[T -> Codes \cup {None}] : T \in SUBSET Ids}
    OBVIOUS
  <1> QED
    BY <1>1 DEF Database

LEMMA DatabaseCleared ==
  ASSUME NEW d \in Database
  PROVE  /\ [d EXCEPT !.pending = {}] \in Database /\ [d EXCEPT !.pending = {}].fns = d.fns
         /\ [d EXCEPT !.pending = {}].pending = {} /\ [d EXCEPT !.pending = {}].done = d.done
  BY DEF Database

LEMMA ArchiveFields ==
  ASSUME NEW a \in Archives
  PROVE  /\ a.db \in Database /\ a.key \in {"old", "new"} /\ a.plan \subseteq VersionFiles
         /\ a.held \subseteq VersionFiles /\ a # NoFile
  BY DEF Archives, NoFile

LEMMA TreeFields ==
  ASSUME NEW t \in Trees
  PROVE  /\ t.dir \in BOOLEAN /\ t.flat \in BOOLEAN /\ t.young \in BOOLEAN /\ t.cur \in Codes \cup {None}
         /\ t.ver \in [Codes -> {"absent", "scratch", "bare", "ready"}]
  BY DEF Trees, Versions

LEMMA BareTree ==
  /\ NoTree \in Trees /\ ~NoTree.dir /\ ~NoTree.flat /\ ~NoTree.young
  /\ \A c \in Codes : NoTree.ver[c] = "absent"
  BY DEF NoTree, NoVersions, Trees, Versions

LEMMA EmptyDatabase == EmptyDB \in Database /\ EmptyDB.pending = {} /\ DOMAIN EmptyDB.fns = {}
  <1>1. [id \in {} |-> None] \in [{} -> Codes \cup {None}] /\ {} \in SUBSET Ids
    OBVIOUS
  <1>2. [id \in {} |-> None] \in UNION {[T -> Codes \cup {None}] : T \in SUBSET Ids}
    BY <1>1
  <1> QED
    BY <1>2 DEF EmptyDB, Database

\* The parts of the state that the restore's record has at each of its labels.
LEMMA RestoreRecord ==
  ASSUME DirTypeOK
  PROVE  /\ rs.pc \in {"idle", "swap", "install", "keys", "trees"}
         /\ rs.pc \in {"install", "keys", "trees"} => rs.aside \in Database \cup {NoFile}
         /\ rs.pc = "trees" => rs.left \subseteq Ids
         /\ rs.pc = "idle" => rs = Idle
         /\ rs.pc = "swap" => rs = [pc |-> "swap"]
  BY DEF DirTypeOK, Idle, Restores

LEMMA DownloadRecord ==
  ASSUME DirTypeOK
  PROVE  /\ dl.pc \in {"idle", "walk", "stream"} /\ (dl.pc = "idle" => dl = Idle)
         /\ dl.pc # "idle" => /\ dl \in [pc : {"walk", "stream"}, db : Database, left : SUBSET Ids,
                                         plan : SUBSET VersionFiles, held : SUBSET VersionFiles]
                              /\ dl.db \in Database /\ dl.left \subseteq Ids
                              /\ dl.plan \subseteq VersionFiles /\ dl.held \subseteq VersionFiles
  BY DEF DirTypeOK, Idle, Downloads

LEMMA DirTypes ==
  ASSUME DirTypeOK
  PROVE  /\ live \in Database \cup {NoFile} /\ main \in Database \cup {NoFile} /\ handle \in Database
         /\ link \in {"wal", "unlinked", "aside"}
         /\ proc \in {"down", "migrate", "reconcile", "fold", "up", "exiting"}
         /\ proc = "reconcile" => todo \subseteq handle.pending
         /\ proc = "fold" => todo \subseteq DOMAIN handle.fns
         /\ proc \notin {"reconcile", "fold"} => todo = {}
         /\ trees \in [Ids -> Trees]
         /\ key \in {"old", "new"} /\ lost \in SUBSET Fns /\ archive \in Archives \cup {NoFile}
         /\ dl \in Downloads /\ rs \in Restores /\ (rs.pc # "idle" => archive # NoFile /\ proc = "up")
         /\ rs.pc \in {"keys", "trees"} => live # NoFile
         /\ builds \in SUBSET (Ids \X Codes) /\ deleting \in SUBSET Ids /\ collector \in SUBSET Ids
         /\ faults \in 0 .. MaxFaults /\ work \in 0 .. MaxWork
  BY DEF DirTypeOK

LEMMA DirTypesNext ==
  ASSUME live' \in Database \cup {NoFile}, main' \in Database \cup {NoFile}, handle' \in Database,
         link' \in {"wal", "unlinked", "aside"},
         proc' \in {"down", "migrate", "reconcile", "fold", "up", "exiting"},
         proc' = "reconcile" => todo' \subseteq handle'.pending,
         proc' = "fold" => todo' \subseteq DOMAIN handle'.fns,
         proc' \notin {"reconcile", "fold"} => todo' = {},
         trees' \in [Ids -> Trees],
         key' \in {"old", "new"}, lost' \in SUBSET Fns, archive' \in Archives \cup {NoFile},
         dl' \in Downloads, rs' \in Restores, rs'.pc # "idle" => archive' # NoFile /\ proc' = "up",
         rs'.pc \in {"keys", "trees"} => live' # NoFile,
         builds' \in SUBSET (Ids \X Codes), deleting' \in SUBSET Ids, collector' \in SUBSET Ids,
         faults' \in 0 .. MaxFaults, work' \in 0 .. MaxWork
  PROVE  DirTypeOK'
  BY DEF DirTypeOK

LEMMA DirLimits ==
  /\ \A n \in 0 .. MaxFaults : n < MaxFaults => n + 1 \in 0 .. MaxFaults
  /\ \A n \in 0 .. MaxWork : n < MaxWork => n + 1 \in 0 .. MaxWork
  BY DirAssumption

\* A server knows its database has no renames outstanding, nor has the one
\* that a restart will read.
LEMMA ServerKnows ==
  ASSUME DirTypeOK, DirKnown, Serving
  PROVE  /\ handle.pending = {} /\ link \in {"wal", "aside"} /\ todo = {}
         /\ ~Activating => live \in Database /\ live.pending = {}
         /\ link = "wal" => live = handle /\ ~Activating
         /\ rs.pc = "trees" => link = "aside"
  <1>1. link \in {"wal", "aside"}
    BY DirTypes DEF DirKnown, WalKnown
  <1>2. handle.pending = {} /\ todo = {}
    BY DirTypes DEF DirKnown, PendingKnown, Serving
  <1>3. link = "wal" => live = handle /\ ~Activating
    BY <1>1 DEF DirKnown, WalKnown, Activating
  <1>4. rs.pc = "trees" => link = "aside"
    BY <1>1 DEF DirKnown, WalKnown
  <1>5. ~Activating => live \in Database /\ live.pending = {}
    <2>1. CASE link = "wal"
      BY <1>2, <1>3, <2>1, DirTypes
    <2>2. CASE link = "aside"
      BY <2>2, DirTypes DEF DirKnown, WalKnown
    <2> QED
      BY <1>1, <2>1, <2>2
  <1> QED
    BY <1>1, <1>2, <1>3, <1>4, <1>5

\* What a step that adds to a tree leaves of it.
Kept(id) ==
  /\ trees[id].flat => trees'[id].flat
  /\ \A c \in Codes : trees[id].ver[c] \in {"bare", "ready"} => trees'[id].ver[c] \in {"bare", "ready"}
  /\ \A c \in Codes : trees[id].ver[c] = "ready" => trees'[id].ver[c] = "ready"
  /\ trees[id].young => trees'[id].young

LEMMA KeptCode ==
  ASSUME NEW id, Kept(id), NEW h \in Codes, HasCode(id, h)
  PROVE  HasCode(id, h)'
  BY DEF Kept, HasCode

\* A step of the server that spares the trees of rows, or announces the loss.
LEMMA ServerCode ==
  ASSUME DirTypeOK, DirKnown, Serving, UNCHANGED <<live, link, proc, rs, archive>>, lost \subseteq lost',
         \A id \in Ids : id[1] \in lost' \/ Kept(id) \/ (link = "wal" /\ id \notin DOMAIN live.fns)
  PROVE  CodeKnown' /\ StagedKnown'
  <1>1. ASSUME ~Activating', NEW id \in DOMAIN live'.fns, live'.fns[id] # None, id[1] \notin lost'
        PROVE  RowHasCode(id)'
    <2>1. ~Activating /\ live \in Database /\ live.pending = {}
      BY <1>1, ServerKnows DEF Activating
    <2>2. id \in Ids /\ live.fns[id] \in Codes
      BY <1>1, <2>1, DatabaseFields
    <2>3. RowHasCode(id)
      BY <1>1, <2>1 DEF DirKnown, CodeKnown
    <2>4. HasCode(id, live.fns[id]) /\ (link = "aside" /\ proc = "exiting" => trees[id].young)
      BY <2>1, <2>3 DEF RowHasCode
    <2>5. Kept(id)
      BY <1>1, <2>2
    <2>6. HasCode(id, live.fns[id])'
      BY <2>2, <2>4, <2>5, KeptCode DEF HasCode
    <2> QED
      BY <2>4, <2>5, <2>6 DEF RowHasCode, Kept
  <1>2. ASSUME rs'.pc = "trees", NEW id \in StagedIds' \ rs'.left, id[1] \notin lost'
        PROVE  trees'[id].young /\ \A c \in Codes : Shipped(id, c)' => trees'[id].ver[c] = "ready"
    <2>1. rs.pc = "trees" /\ id \in StagedIds \ rs.left /\ id[1] \notin lost /\ link = "aside"
      BY <1>2, ServerKnows DEF StagedIds
    <2>2. trees[id].young /\ \A c \in Codes : Shipped(id, c) => trees[id].ver[c] = "ready"
      BY <2>1 DEF DirKnown, StagedKnown
    <2>3. id \in Ids
      <3>1. archive.held \subseteq VersionFiles
        BY <2>1, DirTypes, ArchiveFields
      <3> QED
        BY <2>1, <3>1 DEF StagedIds, VersionFiles
    <2>4. Kept(id)
      BY <1>2, <2>1, <2>3
    <2> QED
      BY <2>2, <2>4 DEF Kept, Shipped
  <1> QED
    BY <1>1, <1>2 DEF CodeKnown, StagedKnown

\* The parts that a step leaves alone when it leaves their variables alone.
LEMMA WalStays ==
  ASSUME WalKnown, UNCHANGED <<live, handle, link, proc, rs, archive>>
  PROVE  WalKnown'
  BY DEF WalKnown, Activating

LEMMA PendingStays ==
  ASSUME PendingKnown, UNCHANGED <<proc, archive, dl>>, handle'.pending = handle.pending, handle'.done = handle.done,
         DOMAIN handle'.fns \subseteq DOMAIN handle.fns
  PROVE  PendingKnown'
  BY DEF PendingKnown

LEMMA BuildScratchKeeps ==
  ASSUME DirInv, NEW id \in Ids, NEW c \in Codes, BuildScratch(id, c)
  PROVE  DirInv'
  <1>1. DirTypeOK
    BY DEF DirInv
  <1>2. UNCHANGED <<live, main, handle, link, proc, todo, key, dl, archive, rs, deleting, collector, lost, faults>>
    BY DEF BuildScratch, dbVars, bootVars, copyVars
  <1>3. /\ Serving /\ work < MaxWork /\ work' = work + 1 /\ id \in DOMAIN handle.fns
        /\ trees[id].ver[c] \in {"absent", "scratch"} /\ builds' = builds \cup {<<id, c>>}
    BY DEF BuildScratch, Working
  <1>4. trees[id] \in Trees
    BY <1>1, DirTypes
  <1>5. PICK t \in Trees : /\ trees' = [trees EXCEPT ![id] = t] /\ t.dir /\ t.young /\ t.flat = trees[id].flat
                           /\ t.ver = [trees[id].ver EXCEPT ![c] = "scratch"]
    <2> DEFINE t == [trees[id] EXCEPT !.dir = TRUE, !.ver[c] = "scratch", !.young = TRUE]
    <2>1. /\ t \in Trees /\ t.dir /\ t.young /\ t.flat = trees[id].flat
          /\ t.ver = [trees[id].ver EXCEPT ![c] = "scratch"]
      BY <1>4 DEF Trees, Versions
    <2>2. trees' = [trees EXCEPT ![id] = t]
      BY DEF BuildScratch
    <2> QED
      BY <2>1, <2>2
  <1>6. DirTypeOK'
    <2>1. trees' \in [Ids -> Trees] /\ builds' \in SUBSET (Ids \X Codes) /\ work' \in 0 .. MaxWork
      BY <1>1, <1>3, <1>5, DirTypes, DirLimits
    <2> QED
      BY <1>1, <1>2, <2>1, DirTypes, DirTypesNext
  <1>7. ASSUME lost' # Fns PROVE DirKnown'
    <2>1. DirKnown
      BY <1>2, <1>7 DEF DirInv
    <2>2. trees \in [Ids -> Trees] /\ trees[id].ver \in [Codes -> {"absent", "scratch", "bare", "ready"}]
      BY <1>1, <1>4, DirTypes, TreeFields
    <2>3. \A i \in Ids : Kept(i)
      BY <1>3, <1>5, <2>2 DEF Kept
    <2>4. CodeKnown' /\ StagedKnown'
      BY <1>1, <1>2, <1>3, <2>1, <2>3, ServerCode
    <2>5. WalKnown' /\ PendingKnown'
      BY <1>2, <2>1, WalStays, PendingStays DEF DirKnown
    <2>6. TreesKnown'
      <3>1. ~trees[id].flat /\ Wellformed(trees[id])
        BY <1>3, <2>1 DEF DirKnown, TreesKnown
      <3>2. Wellformed(t)
        BY <1>5, <3>1 DEF Wellformed
      <3>3. \A i \in Ids : Wellformed(trees'[i]) /\ (trees[i].dir => trees'[i].dir) /\ (trees'[i].flat <=> trees[i].flat)
        BY <1>5, <2>1, <2>2, <3>2 DEF DirKnown, TreesKnown
      <3>4. trees'[id].dir
        BY <1>5, <2>2
      <3>5. DOMAIN handle.fns \subseteq Ids
        BY <1>1, DirTypes, DatabaseFields
      <3>6. builds \subseteq Ids \X Codes /\ proc # "fold"
        BY <1>1, <1>3, DirTypes DEF Serving
      <3>7. \A b \in builds' : b[1] \in DOMAIN handle.fns => trees'[b[1]].dir
        BY <1>3, <2>1, <3>3, <3>4, <3>5 DEF DirKnown, TreesKnown
      <3> QED
        BY <1>2, <1>3, <2>1, <3>3, <3>5, <3>6, <3>7 DEF DirKnown, TreesKnown, Serving
    <2>7. RequestsKnown'
      BY <1>2, <1>3, <2>1 DEF DirKnown, RequestsKnown, Serving
    <2> QED
      BY <2>4, <2>5, <2>6, <2>7 DEF DirKnown
  <1> QED
    BY <1>6, <1>7 DEF DirInv

\* A commit of new rows.
LEMMA CommitRows ==
  ASSUME DirTypeOK, NEW S \in SUBSET Ids, NEW F \in [S -> Codes \cup {None}], Commit([handle EXCEPT !.fns = F])
  PROVE  /\ handle' \in Database /\ handle'.fns = F /\ handle'.pending = handle.pending /\ handle'.done = handle.done
         /\ live' \in Database \cup {NoFile} /\ live' = IF link = "wal" THEN handle' ELSE live
         /\ live # NoFile => live' # NoFile
  <1>1. handle \in Database /\ live \in Database \cup {NoFile}
    BY DirTypes
  <1>2. /\ handle' \in Database /\ handle'.fns = F /\ handle'.pending = handle.pending /\ handle'.done = handle.done
        /\ live' = IF link = "wal" THEN handle' ELSE live
    BY <1>1, DatabaseRows DEF Commit
  <1> QED
    BY <1>1, <1>2, DatabaseFields

LEMMA VersionPublishedKeeps ==
  ASSUME DirInv, NEW id \in Ids, NEW c \in Codes, Publish(id, c)
  PROVE  DirInv'
  <1>1. DirTypeOK
    BY DEF DirInv
  <1>2. UNCHANGED <<main, link, proc, todo, key, dl, archive, rs, deleting, collector, lost, faults, work>>
    BY DEF Publish, bootVars, copyVars, auxVars
  <1>3. Serving /\ id \in DOMAIN handle.fns /\ <<id, c>> \in builds /\ builds' = builds \ {<<id, c>>}
    BY DEF Publish
  <1>4. trees[id] \in Trees /\ handle \in Database /\ trees \in [Ids -> Trees]
    BY <1>1, DirTypes
  <1>5. PICK t \in Trees : /\ trees' = [trees EXCEPT ![id] = t] /\ t.dir = trees[id].dir /\ t.young
                           /\ t.flat = trees[id].flat /\ t.ver = [trees[id].ver EXCEPT ![c] = "ready"]
    <2> DEFINE t == [trees[id] EXCEPT !.ver[c] = "ready", !.cur = c, !.young = TRUE]
    <2>1. /\ t \in Trees /\ t.dir = trees[id].dir /\ t.young /\ t.flat = trees[id].flat
          /\ t.ver = [trees[id].ver EXCEPT ![c] = "ready"]
      BY <1>4 DEF Trees, Versions
    <2>2. trees' = [trees EXCEPT ![id] = t]
      BY DEF Publish
    <2> QED
      BY <2>1, <2>2
  <1>6. PICK F \in [DOMAIN handle.fns -> Codes \cup {None}] : F = [handle.fns EXCEPT ![id] = c]
    BY <1>4, DatabaseFields
  <1>7. /\ handle' \in Database /\ handle'.fns = F /\ handle'.pending = handle.pending /\ handle'.done = handle.done
        /\ live' \in Database \cup {NoFile} /\ live' = IF link = "wal" THEN handle' ELSE live
        /\ live # NoFile => live' # NoFile
    <2>1. Commit([handle EXCEPT !.fns = F])
      <3>1. [handle EXCEPT !.fns[id] = c] = [handle EXCEPT !.fns = F]
        BY <1>4, <1>6 DEF Database
      <3> QED
        BY <3>1 DEF Publish
    <2>2. DOMAIN handle.fns \in SUBSET Ids
      BY <1>4, DatabaseFields
    <2> QED
      BY <1>1, <2>1, <2>2, CommitRows
  <1>8. DirTypeOK'
    <2>1. trees' \in [Ids -> Trees] /\ builds' \in SUBSET (Ids \X Codes)
      BY <1>1, <1>3, <1>5, DirTypes
    <2>2. proc # "fold" /\ proc # "reconcile"
      BY <1>3 DEF Serving
    <2> QED
      BY <1>1, <1>2, <1>7, <2>1, <2>2, DirTypes, DirTypesNext
  <1>9. ASSUME lost' # Fns PROVE DirKnown'
    <2>1. DirKnown
      BY <1>2, <1>9 DEF DirInv
    <2>2. trees[id].ver \in [Codes -> {"absent", "scratch", "bare", "ready"}]
      BY <1>4, TreeFields
    <2>3. \A i \in Ids : Kept(i)
      BY <1>3, <1>4, <1>5, <2>2 DEF Kept
    <2>4. CodeKnown' /\ StagedKnown'
      <3>1. CASE link # "wal"
        BY <1>1, <1>2, <1>3, <1>7, <2>1, <2>3, <3>1, ServerCode
      <3>2. CASE link = "wal"
        <4>1. live = handle /\ live' = handle' /\ handle.pending = {} /\ rs.pc # "trees" /\ ~Activating
          BY <1>1, <1>3, <1>7, <2>1, <3>2, ServerKnows
        <4>2. ASSUME NEW i \in DOMAIN live'.fns, live'.fns[i] # None, i[1] \notin lost'
              PROVE  RowHasCode(i)'
          <5>1. i \in DOMAIN handle.fns /\ i \in Ids
            BY <1>4, <1>7, <4>1, <4>2, DatabaseFields
          <5>2. CASE i = id
            <6>1. live'.fns[i] = c /\ trees'[i].ver[c] = "ready"
              BY <1>3, <1>4, <1>5, <1>6, <1>7, <2>2, <4>1, <5>2
            <6> QED
              BY <1>2, <3>2, <6>1 DEF RowHasCode, HasCode
          <5>3. CASE i # id
            <6>1. live'.fns[i] = live.fns[i] /\ live.fns[i] # None /\ live.fns[i] \in Codes
              BY <1>4, <1>6, <1>7, <4>1, <4>2, <5>1, <5>3, DatabaseFields
            <6>2. HasCode(i, live.fns[i])
              BY <1>2, <2>1, <4>1, <4>2, <5>1, <6>1 DEF DirKnown, CodeKnown, RowHasCode
            <6>3. HasCode(i, live.fns[i])'
              BY <2>3, <5>1, <6>1, <6>2, KeptCode DEF HasCode
            <6> QED
              BY <1>2, <3>2, <6>1, <6>3 DEF RowHasCode, HasCode
          <5> QED
            BY <5>2, <5>3
        <4> QED
          BY <1>2, <4>1, <4>2 DEF CodeKnown, StagedKnown
      <3> QED
        BY <3>1, <3>2
    <2>5. WalKnown'
      <3>1. CASE link # "wal"
        BY <1>2, <1>7, <2>1, <3>1 DEF DirKnown, WalKnown, Activating
      <3>2. CASE link = "wal"
        BY <1>2, <1>7, <2>1, <3>2 DEF DirKnown, WalKnown, Activating
      <3> QED
        BY <3>1, <3>2
    <2>6. PendingKnown'
      <3>1. DOMAIN handle'.fns \subseteq DOMAIN handle.fns
        BY <1>7
      <3> QED
        BY <1>2, <1>7, <2>1, <3>1, PendingStays DEF DirKnown
    <2>7. TreesKnown'
      <3>1. ~trees[id].flat /\ Wellformed(trees[id]) /\ trees[id].dir
        BY <1>3, <2>1 DEF DirKnown, TreesKnown
      <3>2. Wellformed(t)
        BY <1>5, <3>1 DEF Wellformed
      <3>3. \A i \in Ids : Wellformed(trees'[i]) /\ (trees[i].dir => trees'[i].dir) /\ (trees'[i].flat <=> trees[i].flat)
        BY <1>4, <1>5, <2>1, <3>2 DEF DirKnown, TreesKnown
      <3>4. DOMAIN handle.fns \subseteq Ids /\ DOMAIN handle'.fns = DOMAIN handle.fns
        BY <1>4, <1>7, DatabaseFields
      <3>5. proc # "fold"
        BY <1>3 DEF Serving
      <3> QED
        BY <1>2, <1>3, <2>1, <3>3, <3>4, <3>5 DEF DirKnown, TreesKnown, Serving
    <2>8. RequestsKnown'
      <3>1. DOMAIN handle'.fns = DOMAIN handle.fns
        BY <1>7
      <3> QED
        BY <1>2, <1>3, <2>1, <3>1 DEF DirKnown, RequestsKnown, Serving
    <2> QED
      BY <2>4, <2>5, <2>6, <2>7, <2>8 DEF DirKnown
  <1> QED
    BY <1>8, <1>9 DEF DirInv

LEMMA RowDeletedKeeps ==
  ASSUME DirInv, NEW id \in Ids, DeleteRow(id)
  PROVE  DirInv'
  <1>1. DirTypeOK
    BY DEF DirInv
  <1>2. UNCHANGED <<main, link, proc, todo, trees, key, dl, archive, rs, builds, collector, lost, faults>>
    BY DEF DeleteRow, bootVars, copyVars
  <1>3. /\ Serving /\ work < MaxWork /\ work' = work + 1 /\ id \in DOMAIN handle.fns
        /\ deleting' = deleting \cup {id}
    BY DEF DeleteRow, Working
  <1>4. handle \in Database /\ DOMAIN handle.fns \subseteq Ids
    BY <1>1, DirTypes, DatabaseFields
  <1>5. PICK F \in [DOMAIN handle.fns \ {id} -> Codes \cup {None}] : F = Restrict(handle.fns, DOMAIN handle.fns \ {id})
    BY <1>4, DatabaseFields DEF Restrict
  <1>6. \A i \in DOMAIN F : i \in DOMAIN handle.fns /\ F[i] = handle.fns[i] /\ i # id
    BY <1>5 DEF Restrict
  <1>7. /\ handle' \in Database /\ handle'.fns = F /\ handle'.pending = handle.pending /\ handle'.done = handle.done
        /\ live' \in Database \cup {NoFile} /\ live' = IF link = "wal" THEN handle' ELSE live
        /\ live # NoFile => live' # NoFile
    <2>1. Commit([handle EXCEPT !.fns = F])
      BY <1>5 DEF DeleteRow
    <2>2. DOMAIN handle.fns \ {id} \in SUBSET Ids
      BY <1>4
    <2> QED
      BY <1>1, <2>1, <2>2, CommitRows
  <1>8. DirTypeOK'
    <2>1. deleting' \in SUBSET Ids /\ work' \in 0 .. MaxWork
      BY <1>1, <1>3, DirTypes, DirLimits
    <2>2. proc # "fold" /\ proc # "reconcile"
      BY <1>3 DEF Serving
    <2> QED
      BY <1>1, <1>2, <1>7, <2>1, <2>2, DirTypes, DirTypesNext
  <1>9. ASSUME lost' # Fns PROVE DirKnown'
    <2>1. DirKnown
      BY <1>2, <1>9 DEF DirInv
    <2>2. DOMAIN handle'.fns \subseteq DOMAIN handle.fns /\ id \notin DOMAIN handle'.fns
      BY <1>5, <1>6, <1>7
    <2>3. CodeKnown' /\ StagedKnown'
      <3>1. CASE link # "wal"
        BY <1>2, <1>7, <2>1, <3>1 DEF DirKnown, CodeKnown, StagedKnown, RowHasCode, HasCode, StagedIds, Shipped, Activating
      <3>2. CASE link = "wal"
        <4>1. live = handle /\ live' = handle' /\ handle.pending = {} /\ rs.pc # "trees" /\ ~Activating
          BY <1>1, <1>3, <1>7, <2>1, <3>2, ServerKnows
        <4>2. ASSUME NEW i \in DOMAIN live'.fns, live'.fns[i] # None, i[1] \notin lost'
              PROVE  RowHasCode(i)'
          <5>1. i \in DOMAIN live.fns /\ live'.fns[i] = live.fns[i]
            BY <1>6, <1>7, <4>1, <4>2
          <5>2. HasCode(i, live.fns[i])
            BY <1>2, <2>1, <4>1, <4>2, <5>1 DEF DirKnown, CodeKnown, RowHasCode
          <5> QED
            BY <1>2, <3>2, <5>1, <5>2 DEF RowHasCode, HasCode
        <4> QED
          BY <1>2, <4>1, <4>2 DEF CodeKnown, StagedKnown
      <3> QED
        BY <3>1, <3>2
    <2>4. WalKnown'
      BY <1>2, <1>7, <2>1 DEF DirKnown, WalKnown, Activating
    <2>5. PendingKnown'
      BY <1>2, <1>7, <2>1, <2>2, PendingStays DEF DirKnown
    <2>6. TreesKnown'
      <3>1. proc # "fold"
        BY <1>3 DEF Serving
      <3> QED
        BY <1>2, <2>1, <2>2, <3>1 DEF DirKnown, TreesKnown, Serving
    <2>7. RequestsKnown'
      BY <1>2, <1>3, <2>1, <2>2 DEF DirKnown, RequestsKnown, Serving
    <2> QED
      BY <2>3, <2>4, <2>5, <2>6, <2>7 DEF DirKnown
  <1> QED
    BY <1>8, <1>9 DEF DirInv

LEMMA FilesPurgedKeeps ==
  ASSUME DirInv, NEW id \in Ids, PurgeFunctionFiles(id)
  PROVE  DirInv'
  <1>1. DirTypeOK
    BY DEF DirInv
  <1>2. UNCHANGED <<live, main, handle, link, proc, todo, key, dl, archive, rs, collector, faults, work>>
    BY DEF PurgeFunctionFiles, dbVars, bootVars, copyVars
  <1>3. /\ Serving /\ id \in deleting /\ deleting' = deleting \ {id} /\ builds' = {b \in builds : b[1] # id}
        /\ trees' = [trees EXCEPT ![id] = NoTree] /\ lost' = IF link = "wal" THEN lost ELSE lost \cup {id[1]}
    BY DEF PurgeFunctionFiles, WithoutBuilds
  <1>4. trees \in [Ids -> Trees] /\ id[1] \in Fns /\ lost \subseteq Fns
    BY <1>1, DirTypes DEF Ids
  <1>5. DirTypeOK'
    <2>1. /\ trees' \in [Ids -> Trees] /\ deleting' \in SUBSET Ids /\ builds' \in SUBSET (Ids \X Codes)
          /\ lost' \in SUBSET Fns
      BY <1>1, <1>3, <1>4, DirTypes, BareTree
    <2> QED
      BY <1>1, <1>2, <2>1, DirTypes, DirTypesNext
  <1>6. ASSUME lost' # Fns PROVE DirKnown'
    <2>1. DirKnown
      BY <1>3, <1>4, <1>6 DEF DirInv
    <2>2. \A i \in Ids : i # id => trees'[i] = trees[i]
      BY <1>3, <1>4
    <2>3. CodeKnown' /\ StagedKnown'
      <3>1. link = "wal" => id \notin DOMAIN live.fns
        BY <1>1, <1>3, <2>1, ServerKnows DEF DirKnown, RequestsKnown
      <3>2. \A i \in Ids : i # id => Kept(i)
        BY <2>2 DEF Kept
      <3>3. \A i \in Ids : i[1] \in lost' \/ Kept(i) \/ (link = "wal" /\ i \notin DOMAIN live.fns)
        BY <1>3, <3>1, <3>2
      <3>4. lost \subseteq lost'
        BY <1>3
      <3> QED
        BY <1>1, <1>2, <1>3, <2>1, <3>3, <3>4, ServerCode
    <2>4. WalKnown' /\ PendingKnown'
      BY <1>2, <2>1, WalStays, PendingStays DEF DirKnown
    <2>5. TreesKnown'
      <3>1. trees'[id] = NoTree /\ Wellformed(NoTree) /\ ~NoTree.flat
        BY <1>3, <1>4, BareTree DEF Wellformed
      <3>2. \A i \in Ids : Wellformed(trees'[i]) /\ (trees'[i].flat => trees[i].flat)
        BY <2>1, <2>2, <3>1 DEF DirKnown, TreesKnown
      <3>3. DOMAIN handle.fns \subseteq Ids /\ builds \subseteq Ids \X Codes /\ proc # "fold"
        BY <1>1, <1>3, DirTypes, DatabaseFields DEF Serving
      <3>4. \A b \in builds' : b[1] \in Ids /\ b[1] # id /\ b \in builds
        BY <1>3, <3>3
      <3>5. \A b \in builds' : b[1] \in DOMAIN handle'.fns => trees'[b[1]].dir
        BY <1>2, <2>1, <2>2, <3>4 DEF DirKnown, TreesKnown
      <3> QED
        BY <1>2, <1>3, <2>1, <3>2, <3>3, <3>5 DEF DirKnown, TreesKnown, Serving
    <2>6. RequestsKnown'
      BY <1>2, <1>3, <2>1 DEF DirKnown, RequestsKnown, Serving
    <2> QED
      BY <2>3, <2>4, <2>5, <2>6 DEF DirKnown
  <1> QED
    BY <1>5, <1>6 DEF DirInv

\* The rows, the trees and who serves are as they were.
LEMMA QuietServer ==
  ASSUME DirInv, DirTypeOK', UNCHANGED <<handle, link, proc, todo, trees, rs, builds, deleting, lost>>,
         lost # Fns => live' = live, lost # Fns => PendingKnown',
         lost # Fns /\ rs.pc # "idle" => archive' = archive,
         lost # Fns => collector' = collector \/ collector' = {} \/ (Serving /\ collector' = DOMAIN handle.fns)
  PROVE  DirInv'
  <1>1. ASSUME lost # Fns PROVE DirKnown'
    <2>1. DirKnown /\ DirTypeOK
      BY <1>1 DEF DirInv
    <2>2. live' = live
      BY <1>1
    <2>3. CodeKnown'
      BY <2>1, <2>2 DEF DirKnown, CodeKnown, RowHasCode, HasCode, Activating
    <2>4. StagedKnown'
      BY <1>1, <2>1 DEF DirKnown, StagedKnown, StagedIds, Shipped
    <2>5. WalKnown'
      BY <1>1, <2>1, <2>2 DEF DirKnown, WalKnown, Activating
    <2>6. TreesKnown'
      BY <2>1 DEF DirKnown, TreesKnown, Serving
    <2>7. RequestsKnown'
      BY <1>1, <2>1 DEF DirKnown, RequestsKnown, Serving
    <2> QED
      BY <1>1, <2>3, <2>4, <2>5, <2>6, <2>7 DEF DirKnown
  <1> QED
    BY <1>1 DEF DirInv

LEMMA CheckpointKeeps ==
  ASSUME DirInv, Checkpoint
  PROVE  DirInv'
  <1>1. DirTypeOK /\ (lost # Fns => DirKnown)
    BY DEF DirInv
  <1>2. UNCHANGED <<handle, link, proc, todo, trees, key, dl, archive, rs, builds, deleting, collector, lost, faults, work>>
    BY DEF Checkpoint, bootVars, copyVars, reqVars, auxVars
  <1>3. main' = handle /\ live' = handle /\ link # "aside"
    BY DEF Checkpoint
  <1>4. DirTypeOK'
    <2>1. handle \in Database /\ handle # NoFile
      BY <1>1, DirTypes, DatabaseFields
    <2> QED
      BY <1>1, <1>2, <1>3, <2>1, DirTypes, DirTypesNext
  <1>5. lost # Fns => live' = live
    BY <1>1, <1>3, DirTypes DEF DirKnown, WalKnown
  <1>6. lost # Fns => PendingKnown'
    BY <1>1, <1>2, PendingStays DEF DirKnown
  <1> QED
    BY <1>2, <1>4, <1>5, <1>6, QuietServer

LEMMA GcListKeeps ==
  ASSUME DirInv, GcList
  PROVE  DirInv'
  <1>1. DirTypeOK /\ (lost # Fns => DirKnown)
    BY DEF DirInv
  <1>2. UNCHANGED <<live, main, handle, link, proc, todo, trees, key, dl, archive, rs, builds, deleting, lost, faults, work>>
    BY DEF GcList, dbVars, bootVars, copyVars, reqVars
  <1>3. Serving /\ collector' = DOMAIN handle.fns
    BY DEF GcList, Serving
  <1>4. DirTypeOK'
    <2>1. collector' \in SUBSET Ids
      BY <1>1, <1>3, DirTypes, DatabaseFields
    <2> QED
      BY <1>1, <1>2, <2>1, DirTypes, DirTypesNext
  <1>5. lost # Fns => PendingKnown'
    BY <1>1, <1>2, PendingStays DEF DirKnown
  <1> QED
    BY <1>2, <1>3, <1>4, <1>5, QuietServer

LEMMA OrphanSweepKeeps ==
  ASSUME DirInv, SweepOrphanFunctionDirs
  PROVE  DirInv'
  <1>1. DirTypeOK
    BY DEF DirInv
  <1>2. UNCHANGED <<live, main, handle, link, proc, todo, key, dl, archive, rs, builds, deleting, lost, faults, work>>
    BY DEF SweepOrphanFunctionDirs, dbVars, bootVars, copyVars, reqVars
  <1>3. /\ Serving /\ collector # {} /\ collector' = {}
        /\ trees' = [id \in Ids |-> IF trees[id].dir /\ id \notin collector /\ ~trees[id].young THEN NoTree ELSE trees[id]]
    BY DEF SweepOrphanFunctionDirs, RecentlyWritten
  <1>4. trees \in [Ids -> Trees]
    BY <1>1, DirTypes
  <1>5. \A i \in Ids : \/ trees'[i] = trees[i]
                       \/ trees'[i] = NoTree /\ i \notin collector /\ ~trees[i].young
    BY <1>3
  <1>6. DirTypeOK'
    <2>1. trees' \in [Ids -> Trees] /\ collector' \in SUBSET Ids
      BY <1>3, <1>4, BareTree
    <2> QED
      BY <1>1, <1>2, <2>1, DirTypes, DirTypesNext
  <1>7. ASSUME lost' # Fns PROVE DirKnown'
    <2>1. DirKnown
      BY <1>2, <1>7 DEF DirInv
    <2>2. DOMAIN handle.fns \subseteq collector
      BY <1>3, <2>1 DEF DirKnown, RequestsKnown
    <2>3. CodeKnown'
      <3>1. ASSUME ~Activating', NEW i \in DOMAIN live'.fns, live'.fns[i] # None, i[1] \notin lost'
            PROVE  RowHasCode(i)'
        <4>1. ~Activating /\ live \in Database /\ live.pending = {}
          BY <1>1, <1>2, <1>3, <2>1, <3>1, ServerKnows DEF Activating
        <4>2. i \in Ids
          BY <1>2, <3>1, <4>1, DatabaseFields
        <4>3. HasCode(i, live.fns[i]) /\ (link = "aside" /\ proc = "exiting" => trees[i].young)
          BY <1>2, <2>1, <3>1, <4>1 DEF DirKnown, CodeKnown, RowHasCode
        <4>4. CASE trees'[i] = trees[i]
          BY <1>2, <4>3, <4>4 DEF RowHasCode, HasCode
        <4>5. CASE link = "wal"
          BY <1>1, <1>3, <1>5, <1>2, <2>1, <2>2, <3>1, <4>2, <4>4, <4>5, ServerKnows
        <4>6. CASE link = "aside"
          <5>1. proc = "exiting"
            BY <1>3, <2>1, <4>1, <4>6 DEF DirKnown, WalKnown, Serving
          <5> QED
            BY <1>5, <4>2, <4>3, <4>4, <4>6, <5>1
        <4> QED
          BY <1>1, <1>3, <2>1, <4>5, <4>6, ServerKnows
      <3> QED
        BY <3>1 DEF CodeKnown
    <2>4. StagedKnown'
      <3>1. ASSUME rs'.pc = "trees", NEW i \in StagedIds' \ rs'.left, i[1] \notin lost'
            PROVE  trees'[i].young /\ \A c \in Codes : Shipped(i, c)' => trees'[i].ver[c] = "ready"
        <4>1. rs.pc = "trees" /\ i \in StagedIds \ rs.left /\ i[1] \notin lost
          BY <1>2, <3>1 DEF StagedIds
        <4>2. trees[i].young /\ \A c \in Codes : Shipped(i, c) => trees[i].ver[c] = "ready"
          BY <2>1, <4>1 DEF DirKnown, StagedKnown
        <4>3. i \in Ids
          <5>1. archive.held \subseteq VersionFiles
            BY <1>1, <4>1, DirTypes, ArchiveFields
          <5> QED
            BY <4>1, <5>1 DEF StagedIds, VersionFiles
        <4>4. trees'[i] = trees[i]
          BY <1>5, <4>2, <4>3
        <4> QED
          BY <1>2, <4>2, <4>4 DEF Shipped
      <3> QED
        BY <3>1 DEF StagedKnown
    <2>5. WalKnown' /\ PendingKnown'
      BY <1>2, <2>1, WalStays, PendingStays DEF DirKnown
    <2>6. TreesKnown'
      <3>1. Wellformed(NoTree) /\ ~NoTree.flat
        BY BareTree DEF Wellformed
      <3>2. \A i \in Ids : Wellformed(trees'[i])
        BY <1>5, <2>1, <3>1 DEF DirKnown, TreesKnown
      <3>3. DOMAIN handle.fns \subseteq Ids /\ proc # "fold"
        BY <1>1, <1>3, DirTypes, DatabaseFields DEF Serving
      <3>4. \A i \in DOMAIN handle.fns : trees'[i] = trees[i]
        BY <1>5, <2>2, <3>3
      <3> QED
        BY <1>2, <2>1, <3>2, <3>3, <3>4 DEF DirKnown, TreesKnown, Serving
    <2>7. RequestsKnown'
      BY <1>2, <1>3, <2>1 DEF DirKnown, RequestsKnown, Serving
    <2> QED
      BY <2>3, <2>4, <2>5, <2>6, <2>7 DEF DirKnown
  <1> QED
    BY <1>6, <1>7 DEF DirInv

LEMMA AgedKeeps ==
  ASSUME DirInv, Aged
  PROVE  DirInv'
  <1>1. DirTypeOK
    BY DEF DirInv
  <1>2. UNCHANGED <<live, main, handle, link, proc, todo, key, dl, archive, rs, builds, deleting, collector, lost, faults, work>>
    BY DEF Aged, dbVars, bootVars, copyVars, reqVars, auxVars
  <1>3. proc = "up" /\ rs.pc = "idle" /\ trees' = [id \in Ids |-> [trees[id] EXCEPT !.young = FALSE]]
    BY DEF Aged
  <1>4. \A i \in Ids : /\ trees'[i] \in Trees /\ trees'[i].dir = trees[i].dir /\ trees'[i].flat = trees[i].flat
                       /\ trees'[i].ver = trees[i].ver
    <2>1. ASSUME NEW t \in Trees
          PROVE  LET u == [t EXCEPT !.young = FALSE] IN u \in Trees /\ u.dir = t.dir /\ u.flat = t.flat /\ u.ver = t.ver
      BY DEF Trees
    <2> QED
      BY <1>1, <1>3, <2>1, DirTypes
  <1>5. DirTypeOK'
    <2>1. trees' \in [Ids -> Trees]
      BY <1>3, <1>4
    <2> QED
      BY <1>1, <1>2, <2>1, DirTypes, DirTypesNext
  <1>6. ASSUME lost' # Fns PROVE DirKnown'
    <2>1. DirKnown /\ Serving
      BY <1>2, <1>3, <1>6 DEF DirInv, Serving
    <2>2. CodeKnown'
      <3>1. ASSUME ~Activating', NEW i \in DOMAIN live'.fns, live'.fns[i] # None, i[1] \notin lost'
            PROVE  RowHasCode(i)'
        <4>1. ~Activating /\ live \in Database /\ live.pending = {}
          BY <1>1, <1>2, <2>1, <3>1, ServerKnows DEF Activating
        <4>2. i \in Ids
          BY <1>2, <3>1, <4>1, DatabaseFields
        <4>3. HasCode(i, live.fns[i])
          BY <1>2, <2>1, <3>1, <4>1 DEF DirKnown, CodeKnown, RowHasCode
        <4> QED
          BY <1>2, <1>3, <1>4, <4>2, <4>3 DEF RowHasCode, HasCode
      <3> QED
        BY <3>1 DEF CodeKnown
    <2>3. StagedKnown'
      BY <1>2, <1>3 DEF StagedKnown
    <2>4. WalKnown' /\ PendingKnown'
      BY <1>2, <2>1, WalStays, PendingStays DEF DirKnown
    <2>5. TreesKnown'
      <3>1. \A i \in Ids : Wellformed(trees'[i])
        BY <1>4, <2>1 DEF DirKnown, TreesKnown, Wellformed
      <3>2. DOMAIN handle.fns \subseteq Ids
        BY <1>1, DirTypes, DatabaseFields
      <3> QED
        BY <1>2, <1>3, <1>4, <2>1, <3>1, <3>2 DEF DirKnown, TreesKnown, Serving
    <2>6. RequestsKnown'
      BY <1>2, <2>1 DEF DirKnown, RequestsKnown, Serving
    <2> QED
      BY <2>2, <2>3, <2>4, <2>5, <2>6 DEF DirKnown
  <1> QED
    BY <1>5, <1>6 DEF DirInv

\* The backup only writes its own record.
LEMMA SnapshotKeeps ==
  ASSUME DirInv, SnapshotDB
  PROVE  DirInv'
  <1>1. DirTypeOK /\ (lost # Fns => DirKnown)
    BY DEF DirInv
  <1>2. UNCHANGED <<live, main, handle, link, proc, todo, trees, key, archive, rs, builds, deleting, collector, lost, faults, work>>
    BY DEF SnapshotDB, dbVars, bootVars, reqVars, auxVars
  <1>3. /\ proc = "up" /\ archive = NoFile
        /\ dl' = [pc |-> "walk", db |-> handle, left |-> DOMAIN handle.fns, plan |-> {}, held |-> {}]
    BY DEF SnapshotDB
  <1>4. DirTypeOK'
    <2>1. handle \in Database /\ DOMAIN handle.fns \subseteq Ids
      BY <1>1, DirTypes, DatabaseFields
    <2>2. dl' \in Downloads
      BY <1>3, <2>1 DEF Downloads
    <2> QED
      BY <1>1, <1>2, <2>2, DirTypes, DirTypesNext
  <1>5. lost # Fns => PendingKnown'
    BY <1>1, <1>2, <1>3 DEF DirKnown, PendingKnown
  <1> QED
    BY <1>2, <1>4, <1>5, QuietServer

LEMMA PlanKeeps ==
  ASSUME DirInv, NEW id \in Ids, PlanArchive(id)
  PROVE  DirInv'
  <1>1. DirTypeOK /\ (lost # Fns => DirKnown)
    BY DEF DirInv
  <1>2. UNCHANGED <<live, main, handle, link, proc, todo, trees, key, archive, rs, builds, deleting, collector, lost, faults, work>>
    BY DEF PlanArchive, dbVars, bootVars, reqVars, auxVars
  <1>3. dl.pc # "idle" /\ dl.db \in Database
    BY <1>1, DownloadRecord DEF PlanArchive
  <1>4. dl' \in Downloads /\ dl'.pc # "idle" /\ dl'.db = dl.db
    <2>1. Files(id) \subseteq VersionFiles
      <3>1. trees[id].ver \in [Codes -> {"absent", "scratch", "bare", "ready"}]
        BY <1>1, DirTypes, TreeFields
      <3> QED
        BY <3>1 DEF Files, VersionFiles
    <2>2. dl \in [pc : {"walk", "stream"}, db : Database, left : SUBSET Ids,
                  plan : SUBSET VersionFiles, held : SUBSET VersionFiles]
      BY <1>1, <1>3, DownloadRecord
    <2>3. dl' = [dl EXCEPT !.left = @ \ {id}, !.plan = @ \cup Files(id), !.pc = IF dl.left = {id} THEN "stream" ELSE @]
      BY DEF PlanArchive
    <2> QED
      BY <2>1, <2>2, <2>3 DEF Downloads
  <1>5. DirTypeOK'
    BY <1>1, <1>2, <1>4, DirTypes, DirTypesNext
  <1>6. lost # Fns => PendingKnown'
    BY <1>1, <1>2, <1>3, <1>4 DEF DirKnown, PendingKnown
  <1> QED
    BY <1>2, <1>5, <1>6, QuietServer

LEMMA AddFileKeeps ==
  ASSUME DirInv, NEW f, AddFileToTar(f)
  PROVE  DirInv'
  <1>1. DirTypeOK /\ (lost # Fns => DirKnown)
    BY DEF DirInv
  <1>2. UNCHANGED <<live, main, handle, link, proc, todo, trees, key, archive, rs, builds, deleting, collector, lost, faults, work>>
    BY DEF AddFileToTar, dbVars, bootVars, reqVars, auxVars
  <1>3. dl.pc # "idle" /\ dl.db \in Database
    BY <1>1, DownloadRecord DEF AddFileToTar
  <1>4. dl' \in Downloads /\ dl'.pc # "idle" /\ dl'.db = dl.db
    <2>1. dl \in [pc : {"walk", "stream"}, db : Database, left : SUBSET Ids,
                  plan : SUBSET VersionFiles, held : SUBSET VersionFiles]
      BY <1>1, <1>3, DownloadRecord
    <2>2. dl' = [dl EXCEPT !.held = @ \cup {f}] /\ f \in dl.plan
      BY DEF AddFileToTar
    <2> QED
      BY <2>1, <2>2 DEF Downloads
  <1>5. DirTypeOK'
    BY <1>1, <1>2, <1>4, DirTypes, DirTypesNext
  <1>6. lost # Fns => PendingKnown'
    BY <1>1, <1>2, <1>3, <1>4 DEF DirKnown, PendingKnown
  <1> QED
    BY <1>2, <1>5, <1>6, QuietServer

\* No restore runs yet: there was no archive to restore.
LEMMA ArchiveToKeeps ==
  ASSUME DirInv, ArchiveTo
  PROVE  DirInv'
  <1>1. DirTypeOK /\ (lost # Fns => DirKnown)
    BY DEF DirInv
  <1>2. UNCHANGED <<live, main, handle, link, proc, todo, trees, key, rs, builds, deleting, collector, lost, faults, work>>
    BY DEF ArchiveTo, dbVars, bootVars, reqVars, auxVars
  <1>3. /\ archive' = [db |-> dl.db, key |-> key, plan |-> dl.plan, held |-> dl.held] /\ dl' = Idle
        /\ dl.pc # "idle"
    BY DEF ArchiveTo
  <1>4. archive' \in Archives /\ archive' # NoFile /\ archive'.db = dl.db
    <2>1. dl.db \in Database /\ dl.plan \subseteq VersionFiles /\ dl.held \subseteq VersionFiles /\ key \in {"old", "new"}
      BY <1>1, <1>3, DownloadRecord, DirTypes
    <2>2. archive' \in Archives
      BY <1>3, <2>1 DEF Archives
    <2> QED
      BY <1>3, <2>2, ArchiveFields
  <1>5. DirTypeOK'
    <2>1. dl' \in Downloads /\ dl'.pc = "idle"
      BY <1>3 DEF Downloads, Idle
    <2> QED
      BY <1>1, <1>2, <1>4, <2>1, DirTypes, DirTypesNext
  <1>6. lost # Fns => PendingKnown'
    <2>1. dl'.pc = "idle"
      BY <1>3 DEF Idle
    <2> QED
      BY <1>1, <1>2, <1>3, <1>4, <2>1 DEF DirKnown, PendingKnown
  <1>7. lost # Fns => rs.pc = "idle"
    BY <1>1, <1>3, DirTypes DEF DirKnown, PendingKnown
  <1> QED
    BY <1>2, <1>5, <1>6, <1>7, QuietServer

\* A restore begins under a server whose commits still reach the database.
LEMMA RestoreVerifyKeeps ==
  ASSUME DirInv, RestoreVerify
  PROVE  DirInv'
  <1>1. DirTypeOK
    BY DEF DirInv
  <1>2. UNCHANGED <<live, main, handle, link, proc, todo, trees, key, dl, archive, builds, deleting, collector, lost, faults>>
    BY DEF RestoreVerify, dbVars, bootVars, reqVars
  <1>3. /\ proc = "up" /\ rs.pc = "idle" /\ archive # NoFile /\ archive.plan \subseteq archive.held
        /\ rs' = [pc |-> "swap"] /\ work < MaxWork /\ work' = work + 1
    BY DEF RestoreVerify, Working, Verified
  <1>4. DirTypeOK'
    <2>1. rs' \in Restores /\ work' \in 0 .. MaxWork
      BY <1>1, <1>3, DirTypes, DirLimits DEF Restores
    <2> QED
      BY <1>1, <1>2, <1>3, <2>1, DirTypes, DirTypesNext
  <1>5. ASSUME lost' # Fns PROVE DirKnown'
    <2>1. DirKnown
      BY <1>2, <1>5 DEF DirInv
    <2>2. ~Activating /\ ~Activating' /\ rs'.pc = "swap"
      BY <1>3 DEF Activating
    <2>3. link = "wal"
      BY <1>1, <1>3, <2>1, <2>2, DirTypes DEF DirKnown, WalKnown
    <2>4. WalKnown'
      BY <1>2, <1>3, <2>1, <2>2, <2>3 DEF DirKnown, WalKnown
    <2>5. PendingKnown'
      BY <1>2, <2>1, PendingStays DEF DirKnown
    <2>6. CodeKnown' /\ StagedKnown'
      BY <1>2, <2>1, <2>2 DEF DirKnown, CodeKnown, StagedKnown, RowHasCode, HasCode
    <2>7. TreesKnown' /\ RequestsKnown'
      BY <1>2, <2>1 DEF DirKnown, TreesKnown, RequestsKnown, Serving
    <2> QED
      BY <2>4, <2>5, <2>6, <2>7 DEF DirKnown
  <1> QED
    BY <1>4, <1>5 DEF DirInv

\* A process that ends leaves the directory as it is.
LEMMA StoppedKeeps ==
  ASSUME DirInv, Stopped, faults' \in 0 .. MaxFaults, lost' = IF Activating THEN Fns ELSE lost
  PROVE  DirInv'
  <1>1. DirTypeOK
    BY DEF DirInv
  <1>2. UNCHANGED <<live, main, trees, key, handle, link, archive, work>>
    BY DEF Stopped, disk
  <1>3. /\ proc' = "down" /\ todo' = {} /\ dl' = Idle /\ rs' = Idle
        /\ builds' = {} /\ deleting' = {} /\ collector' = {} /\ Idle.pc = "idle"
    BY DEF Stopped, Idle
  <1>4. DirTypeOK'
    <2>1. lost' \in SUBSET Fns /\ Idle \in Downloads /\ Idle \in Restores
      BY <1>1, DirTypes DEF Downloads, Restores
    <2> QED
      BY <1>1, <1>2, <1>3, <2>1, DirTypes, DirTypesNext
  <1>5. ASSUME lost' # Fns PROVE DirKnown'
    <2>1. DirKnown /\ ~Activating /\ ~Activating' /\ lost' = lost
      BY <1>3, <1>5 DEF DirInv, Activating
    <2>2. WalKnown'
      BY <1>2, <1>3, <2>1 DEF DirKnown, WalKnown
    <2>3. PendingKnown'
      BY <1>2, <1>3, <2>1 DEF DirKnown, PendingKnown
    <2>4. CodeKnown' /\ StagedKnown'
      BY <1>2, <1>3, <2>1 DEF DirKnown, CodeKnown, StagedKnown, RowHasCode, HasCode
    <2>5. TreesKnown' /\ RequestsKnown'
      BY <1>2, <1>3, <2>1 DEF DirKnown, TreesKnown, RequestsKnown, Serving
    <2> QED
      BY <2>2, <2>3, <2>4, <2>5 DEF DirKnown
  <1> QED
    BY <1>4, <1>5 DEF DirInv

LEMMA DirCrashKeeps ==
  ASSUME DirInv, DirCrash
  PROVE  DirInv'
  <1>1. faults \in 0 .. MaxFaults
    BY DirTypes DEF DirInv
  <1>2. faults' \in 0 .. MaxFaults
    BY <1>1, DirLimits DEF DirCrash, Fault
  <1> QED
    BY <1>2, StoppedKeeps DEF DirCrash

\* The exit after a restore: no swap is under way.
LEMMA ExitKeeps ==
  ASSUME DirInv, ExitRestart
  PROVE  DirInv'
  <1>1. DirTypeOK /\ faults' \in 0 .. MaxFaults /\ lost' = lost /\ proc = "exiting" /\ Stopped
    BY DirTypes DEF DirInv, ExitRestart
  <1>2. CASE lost = Fns
    <2>1. lost' = IF Activating THEN Fns ELSE lost
      BY <1>1, <1>2
    <2> QED
      BY <1>1, <2>1, StoppedKeeps
  <1>3. CASE lost # Fns
    <2>1. ~Activating
      BY <1>1, <1>3 DEF DirInv, DirKnown, WalKnown, Activating
    <2> QED
      BY <1>1, <2>1, StoppedKeeps
  <1> QED
    BY <1>2, <1>3

\* The restore swaps the files; its server's commits go aside from here on.
LEMMA MoveAsideKeeps ==
  ASSUME DirInv, MoveLiveAside
  PROVE  DirInv'
  <1>1. DirTypeOK
    BY DEF DirInv
  <1>2. UNCHANGED <<handle, proc, todo, trees, key, dl, archive, builds, deleting, collector, lost, faults, work>>
    BY DEF MoveLiveAside, bootVars, reqVars, auxVars
  <1>3. /\ rs.pc = "swap" /\ rs' = [pc |-> "install", aside |-> main]
        /\ live' = NoFile /\ main' = NoFile /\ link' = "aside"
    BY DEF MoveLiveAside
  <1>4. DirTypeOK'
    <2>1. rs' \in Restores /\ rs'.pc = "install"
      BY <1>1, <1>3, DirTypes DEF Restores
    <2> QED
      BY <1>1, <1>2, <1>3, <2>1, DirTypes, DirTypesNext
  <1>5. ASSUME lost' # Fns PROVE DirKnown'
    <2>1. DirKnown
      BY <1>2, <1>5 DEF DirInv
    <2>2. Activating' /\ rs'.pc = "install"
      BY <1>3 DEF Activating
    <2>3. WalKnown'
      BY <1>2, <1>3, <2>1, <2>2 DEF DirKnown, WalKnown
    <2>4. PendingKnown'
      BY <1>2, <2>1, PendingStays DEF DirKnown
    <2>5. CodeKnown' /\ StagedKnown'
      BY <2>2 DEF CodeKnown, StagedKnown
    <2>6. TreesKnown' /\ RequestsKnown'
      BY <1>2, <1>3, <2>1 DEF DirKnown, TreesKnown, RequestsKnown, Serving
    <2> QED
      BY <2>3, <2>4, <2>5, <2>6 DEF DirKnown
  <1> QED
    BY <1>4, <1>5 DEF DirInv

LEMMA InstallDBKeeps ==
  ASSUME DirInv, InstallDB
  PROVE  DirInv'
  <1>1. DirTypeOK
    BY DEF DirInv
  <1>2. UNCHANGED <<handle, link, proc, todo, trees, key, dl, archive, builds, deleting, collector, lost, faults, work>>
    BY DEF InstallDB, bootVars, reqVars, auxVars
  <1>3. rs.pc = "install" /\ rs' = [rs EXCEPT !.pc = "keys"] /\ live' = archive.db /\ main' = archive.db
    BY DEF InstallDB
  <1>4. archive.db \in Database /\ archive.db # NoFile
    <2>1. archive \in Archives
      BY <1>1, <1>3, DirTypes
    <2> QED
      BY <2>1, ArchiveFields, DatabaseFields
  <1>5. rs' \in Restores /\ rs'.pc = "keys"
    <2>1. rs \in [pc : {"install", "keys"}, aside : Database \cup {NoFile}]
      BY <1>1, <1>3, DirTypes DEF Restores, Idle
    <2> QED
      BY <1>3, <2>1 DEF Restores
  <1>6. DirTypeOK'
    BY <1>1, <1>2, <1>3, <1>4, <1>5, DirTypes, DirTypesNext
  <1>7. ASSUME lost' # Fns PROVE DirKnown'
    <2>1. DirKnown
      BY <1>2, <1>7 DEF DirInv
    <2>2. Activating /\ Activating'
      BY <1>3, <1>5 DEF Activating
    <2>3. WalKnown'
      BY <1>2, <1>3, <1>5, <2>1, <2>2 DEF DirKnown, WalKnown
    <2>4. PendingKnown'
      BY <1>2, <2>1, PendingStays DEF DirKnown
    <2>5. CodeKnown' /\ StagedKnown'
      BY <1>5, <2>2 DEF CodeKnown, StagedKnown
    <2>6. TreesKnown' /\ RequestsKnown'
      BY <1>2, <2>1 DEF DirKnown, TreesKnown, RequestsKnown, Serving
    <2> QED
      BY <2>3, <2>4, <2>5, <2>6 DEF DirKnown
  <1> QED
    BY <1>6, <1>7 DEF DirInv

LEMMA InstallKeysKeeps ==
  ASSUME DirInv, InstallKeys
  PROVE  DirInv'
  <1>1. DirTypeOK
    BY DEF DirInv
  <1>2. UNCHANGED <<live, main, handle, link, proc, todo, trees, dl, archive, builds, deleting, collector, lost, faults, work>>
    BY DEF InstallKeys, dbVars, bootVars, reqVars, auxVars
  <1>3. rs.pc = "keys" /\ rs' = [pc |-> "trees", aside |-> rs.aside, left |-> StagedIds] /\ key' = archive.key
    BY DEF InstallKeys
  <1>4. archive \in Archives /\ archive.key \in {"old", "new"} /\ StagedIds \subseteq Ids
    <2>1. archive \in Archives
      BY <1>1, <1>3, DirTypes
    <2>2. archive.held \subseteq VersionFiles /\ archive.key \in {"old", "new"}
      BY <2>1, ArchiveFields
    <2> QED
      BY <2>1, <2>2 DEF StagedIds, VersionFiles
  <1>5. rs' \in Restores /\ rs'.pc = "trees" /\ rs'.left = StagedIds
    <2>1. rs.aside \in Database \cup {NoFile}
      BY <1>1, <1>3, RestoreRecord
    <2> QED
      BY <1>3, <1>4, <2>1 DEF Restores
  <1>6. DirTypeOK'
    BY <1>1, <1>2, <1>3, <1>4, <1>5, DirTypes, DirTypesNext
  <1>7. ASSUME lost' # Fns PROVE DirKnown'
    <2>1. DirKnown
      BY <1>2, <1>7 DEF DirInv
    <2>2. Activating /\ Activating'
      BY <1>3, <1>5 DEF Activating
    <2>3. WalKnown'
      BY <1>2, <1>3, <1>5, <2>1, <2>2 DEF DirKnown, WalKnown
    <2>4. PendingKnown'
      BY <1>2, <2>1, PendingStays DEF DirKnown
    <2>5. CodeKnown' /\ StagedKnown'
      BY <1>2, <1>5, <2>2 DEF CodeKnown, StagedKnown, StagedIds
    <2>6. TreesKnown' /\ RequestsKnown'
      BY <1>2, <2>1 DEF DirKnown, TreesKnown, RequestsKnown, Serving
    <2> QED
      BY <2>3, <2>4, <2>5, <2>6 DEF DirKnown
  <1> QED
    BY <1>6, <1>7 DEF DirInv

LEMMA InstallTreeKeeps ==
  ASSUME DirInv, NEW id \in Ids, InstallTree(id)
  PROVE  DirInv'
  <1>1. DirTypeOK
    BY DEF DirInv
  <1>2. UNCHANGED <<live, main, handle, link, proc, todo, key, dl, archive, deleting, collector, lost, faults, work>>
    BY DEF InstallTree, dbVars, bootVars, auxVars
  <1>3. /\ rs.pc = "trees" /\ rs' = [rs EXCEPT !.left = @ \ {id}] /\ builds' = {b \in builds : b[1] # id}
    BY DEF InstallTree, WithoutBuilds
  <1>4. trees \in [Ids -> Trees] /\ archive \in Archives
    BY <1>1, <1>3, DirTypes
  <1>5. PICK t \in Trees : /\ trees' = [trees EXCEPT ![id] = t] /\ t.dir /\ t.young /\ ~t.flat
                           /\ t.ver = StagedVersions(id)
    <2> DEFINE t == [Tree(StagedVersions(id), None) EXCEPT !.young = TRUE]
    <2>1. StagedVersions(id) \in Versions
      BY DEF StagedVersions, Versions
    <2>2. t \in Trees /\ t.dir /\ t.young /\ ~t.flat /\ t.ver = StagedVersions(id)
      BY <2>1 DEF Tree, Trees
    <2>3. trees' = [trees EXCEPT ![id] = t]
      BY DEF InstallTree
    <2> QED
      BY <2>2, <2>3
  <1>6. rs' \in Restores /\ rs'.pc = "trees" /\ rs'.left = rs.left \ {id}
    <2>1. rs \in [pc : {"trees"}, aside : Database \cup {NoFile}, left : SUBSET Ids]
      BY <1>1, <1>3, DirTypes DEF Restores, Idle
    <2> QED
      BY <1>3, <2>1 DEF Restores
  <1>7. DirTypeOK'
    <2>1. trees' \in [Ids -> Trees] /\ builds' \in SUBSET (Ids \X Codes)
      BY <1>1, <1>3, <1>5, DirTypes
    <2> QED
      BY <1>1, <1>2, <1>3, <1>6, <2>1, DirTypes, DirTypesNext
  <1>8. ASSUME lost' # Fns PROVE DirKnown'
    <2>1. DirKnown
      BY <1>2, <1>8 DEF DirInv
    <2>2. Activating /\ Activating'
      BY <1>3, <1>6 DEF Activating
    <2>3. trees'[id] = t /\ \A i \in Ids : i # id => trees'[i] = trees[i]
      BY <1>4, <1>5
    <2>4. WalKnown'
      BY <1>2, <1>3, <1>6, <2>1, <2>2 DEF DirKnown, WalKnown
    <2>5. PendingKnown'
      BY <1>2, <2>1, PendingStays DEF DirKnown
    <2>6. CodeKnown'
      BY <2>2 DEF CodeKnown
    <2>7. StagedKnown'
      <3>1. ASSUME NEW i \in StagedIds' \ rs'.left, i[1] \notin lost'
            PROVE  trees'[i].young /\ \A c \in Codes : Shipped(i, c)' => trees'[i].ver[c] = "ready"
        <4>1. i \in StagedIds /\ i \in Ids
          <5>1. archive.held \subseteq VersionFiles
            BY <1>4, ArchiveFields
          <5> QED
            BY <1>2, <3>1, <5>1 DEF StagedIds, VersionFiles
        <4>2. CASE i = id
          <5>1. \A c \in Codes : Shipped(id, c) => StagedVersions(id)[c] = "ready"
            BY DEF Shipped, StagedVersions
          <5> QED
            BY <1>2, <1>5, <2>3, <4>2, <5>1 DEF Shipped
        <4>3. CASE i # id
          <5>1. i \notin rs.left
            BY <1>6, <3>1, <4>3
          <5>2. trees[i].young /\ \A c \in Codes : Shipped(i, c) => trees[i].ver[c] = "ready"
            BY <1>2, <1>3, <2>1, <3>1, <4>1, <5>1 DEF DirKnown, StagedKnown
          <5> QED
            BY <1>2, <2>3, <4>1, <4>3, <5>2 DEF Shipped
        <4> QED
          BY <4>2, <4>3
      <3> QED
        BY <3>1 DEF StagedKnown
    <2>8. TreesKnown'
      <3>1. Wellformed(t)
        BY <1>5 DEF Wellformed
      <3>2. \A i \in Ids : Wellformed(trees'[i]) /\ (trees'[i].flat => trees[i].flat)
        BY <1>5, <2>1, <2>3, <3>1 DEF DirKnown, TreesKnown
      <3>3. DOMAIN handle.fns \subseteq Ids /\ builds \subseteq Ids \X Codes
        BY <1>1, DirTypes, DatabaseFields
      <3>4. proc = "up"
        BY <1>3, <2>1 DEF DirKnown, WalKnown
      <3>5. \A b \in builds' : b[1] \in Ids /\ b[1] # id /\ b \in builds
        BY <1>3, <3>3
      <3>6. \A b \in builds' : b[1] \in DOMAIN handle'.fns => trees'[b[1]].dir
        BY <1>2, <2>1, <2>3, <3>5 DEF DirKnown, TreesKnown
      <3> QED
        BY <1>2, <2>1, <3>2, <3>3, <3>4, <3>6 DEF DirKnown, TreesKnown, Serving
    <2>9. RequestsKnown'
      BY <1>2, <1>3, <2>1 DEF DirKnown, RequestsKnown, Serving
    <2> QED
      BY <2>4, <2>5, <2>6, <2>7, <2>8, <2>9 DEF DirKnown
  <1> QED
    BY <1>7, <1>8 DEF DirInv

\* The last step of a restore: the code of every row was shipped and is in
\* place, or its absence is announced.
LEMMA RelinkKeeps ==
  ASSUME DirInv, RebuildCurrentSymlinks
  PROVE  DirInv'
  <1>1. DirTypeOK
    BY DEF DirInv
  <1>2. UNCHANGED <<live, main, handle, link, todo, key, dl, archive, builds, deleting, collector, faults, work>>
    BY DEF RebuildCurrentSymlinks, dbVars, reqVars
  <1>3. /\ rs.pc = "trees" /\ rs.left = {} /\ trees' = [id \in Ids |-> Relinked(id)]
        /\ rs' = Idle /\ proc' = "exiting" /\ lost' = lost \cup Unshipped /\ Idle.pc = "idle"
    BY DEF RebuildCurrentSymlinks, Idle
  <1>4. trees \in [Ids -> Trees] /\ archive \in Archives /\ live \in Database /\ lost \subseteq Fns
    BY <1>1, <1>3, DirTypes
  <1>5. DOMAIN live.fns \subseteq Ids /\ live.fns \in [DOMAIN live.fns -> Codes \cup {None}]
    BY <1>4, DatabaseFields
  <1>6. \A i \in Ids : /\ trees'[i] \in Trees /\ trees'[i].flat = trees[i].flat /\ trees'[i].ver = trees[i].ver
                       /\ trees[i].dir => trees'[i].dir
                       /\ i \in DOMAIN live.fns /\ live.fns[i] # None => trees'[i].young /\ trees'[i].dir
                       /\ trees'[i] = trees[i] \/ trees'[i].dir
    <2> SUFFICES ASSUME NEW i \in Ids
                 PROVE  /\ trees'[i] \in Trees /\ trees'[i].flat = trees[i].flat /\ trees'[i].ver = trees[i].ver
                        /\ trees[i].dir => trees'[i].dir
                        /\ i \in DOMAIN live.fns /\ live.fns[i] # None => trees'[i].young /\ trees'[i].dir
                        /\ trees'[i] = trees[i] \/ trees'[i].dir
      OBVIOUS
    <2>1. trees'[i] = Relinked(i) /\ trees[i] \in Trees
      BY <1>3, <1>4
    <2>2. CASE i \in DOMAIN live.fns /\ live.fns[i] # None
      <3>1. live.fns[i] \in Codes \cup {None}
        BY <1>5, <2>2
      <3>2. trees'[i] = [trees[i] EXCEPT !.dir = TRUE, !.cur = live.fns[i], !.young = TRUE]
        BY <2>1, <2>2 DEF Relinked
      <3> QED
        BY <2>1, <3>1, <3>2 DEF Trees
    <2>3. CASE ~(i \in DOMAIN live.fns /\ live.fns[i] # None)
      BY <2>1, <2>3 DEF Relinked
    <2> QED
      BY <2>2, <2>3
  <1>7. DirTypeOK'
    <2>1. trees' \in [Ids -> Trees]
      BY <1>3, <1>6
    <2>2. Unshipped \subseteq Fns
      BY <1>5 DEF Unshipped, Ids
    <2>3. lost' \in SUBSET Fns /\ Idle \in Restores
      BY <1>3, <1>4, <2>2 DEF Restores
    <2>4. todo' = {}
      BY <1>1, <1>2, <1>3, DirTypes
    <2> QED
      BY <1>1, <1>2, <1>3, <2>1, <2>3, <2>4, DirTypes, DirTypesNext
  <1>8. ASSUME lost' # Fns PROVE DirKnown'
    <2>1. DirKnown
      BY <1>3, <1>4, <1>7, <1>8, DirTypes DEF DirInv, DirTypeOK
    <2>2. proc = "up" /\ link = "aside" /\ ~Activating' /\ Activating /\ rs'.pc = "idle"
      BY <1>1, <1>3, <2>1, DirTypes DEF DirKnown, WalKnown, Activating
    <2>3. live = archive.db /\ live.pending = {} /\ archive.plan \subseteq archive.held /\ live # NoFile
      BY <1>3, <1>4, <2>1, ArchiveFields, DatabaseFields DEF DirKnown, WalKnown, PendingKnown
    <2>4. WalKnown'
      BY <1>2, <1>3, <2>2, <2>3 DEF WalKnown
    <2>5. PendingKnown'
      BY <1>2, <1>3, <2>1, <2>2 DEF DirKnown, PendingKnown
    <2>6. CodeKnown' /\ StagedKnown'
      <3>1. ASSUME NEW i \in DOMAIN live'.fns, live'.fns[i] # None, i[1] \notin lost'
            PROVE  RowHasCode(i)'
        <4>1. i \in DOMAIN live.fns /\ i \in Ids /\ live.fns[i] \in Codes /\ live.fns[i] # None
          BY <1>2, <1>5, <3>1
        <4>2. i[1] \notin lost /\ i[1] \notin Unshipped
          BY <1>3, <3>1
        <4>3. PICK s \in {"bare", "ready"} : <<i, live.fns[i], s>> \in archive.plan
          BY <4>1, <4>2 DEF Unshipped
        <4>4. <<i, live.fns[i], s>> \in archive.held /\ Shipped(i, live.fns[i])
          BY <2>3, <4>3 DEF Shipped
        <4>5. i \in StagedIds
          BY <4>4 DEF StagedIds
        <4>6. trees[i].ver[live.fns[i]] = "ready"
          BY <1>3, <2>1, <4>1, <4>2, <4>4, <4>5 DEF DirKnown, StagedKnown
        <4>7. trees'[i].ver[live'.fns[i]] = "ready" /\ trees'[i].young
          BY <1>2, <1>6, <4>1, <4>6
        <4> QED
          BY <4>7 DEF RowHasCode, HasCode
      <3> QED
        BY <2>2, <3>1 DEF CodeKnown, StagedKnown
    <2>7. TreesKnown'
      <3>1. \A i \in Ids : Wellformed(trees'[i])
        BY <1>6, <2>1 DEF DirKnown, TreesKnown, Wellformed
      <3>2. DOMAIN handle.fns \subseteq Ids /\ builds \subseteq Ids \X Codes
        BY <1>1, DirTypes, DatabaseFields
      <3>3. \A b \in builds : b[1] \in Ids
        BY <3>2
      <3>4. \A b \in builds' : b[1] \in DOMAIN handle'.fns => trees'[b[1]].dir
        BY <1>2, <1>6, <2>1, <3>3 DEF DirKnown, TreesKnown
      <3> QED
        BY <1>2, <1>3, <1>6, <2>1, <2>2, <3>1, <3>2, <3>4 DEF DirKnown, TreesKnown, Serving
    <2>8. RequestsKnown'
      BY <1>2, <1>3, <2>1, <2>2 DEF DirKnown, RequestsKnown, Serving
    <2> QED
      BY <2>4, <2>5, <2>6, <2>7, <2>8 DEF DirKnown
  <1> QED
    BY <1>7, <1>8 DEF DirInv

\* A restore that fails is announced for every function: only the types are
\* left to show.
LEMMA RestoreFailsKeeps ==
  ASSUME DirInv, RestoreFails
  PROVE  DirInv'
  <1>1. DirTypeOK
    BY DEF DirInv
  <1>2. UNCHANGED <<handle, proc, todo, key, dl, archive, deleting, collector, work>> /\ lost' = Fns
    BY DEF RestoreFails, bootVars
  <1>3. faults' \in 0 .. MaxFaults
    BY <1>1, DirTypes, DirLimits DEF RestoreFails, Fault
  <1>4. rs' = Idle /\ Idle.pc = "idle" /\ Idle \in Restores
    BY DEF RestoreFails, Rollback, Idle, Restores
  <1>5. live' \in Database \cup {NoFile} /\ main' \in Database \cup {NoFile} /\ link' \in {"wal", "unlinked", "aside"}
    <2>1. UNCHANGED <<live, main, link>> \/ (Rollback /\ rs.pc \in {"install", "keys", "trees"})
      BY DEF RestoreFails
    <2> QED
      BY <1>1, <2>1, DirTypes, RestoreRecord DEF Rollback
  <1>6. trees' \in [Ids -> Trees] /\ builds' \in SUBSET (Ids \X Codes)
    <2>1. trees \in [Ids -> Trees] /\ builds \in SUBSET (Ids \X Codes) /\ (rs.pc = "trees" => rs.left \subseteq Ids)
      BY <1>1, DirTypes, RestoreRecord
    <2>2. CASE UNCHANGED <<trees, builds>>
      BY <2>1, <2>2
    <2>3. CASE \E id \in rs.left : trees' = [trees EXCEPT ![id] = NoTree] /\ builds' = WithoutBuilds(id)
      BY <2>1, <2>3, BareTree DEF WithoutBuilds
    <2> QED
      BY <2>2, <2>3 DEF RestoreFails
  <1>7. DirTypeOK'
    BY <1>1, <1>2, <1>3, <1>4, <1>5, <1>6, DirTypes, DirTypesNext
  <1> QED
    BY <1>2, <1>7 DEF DirInv

\* A booting process has the directory to itself.
LEMMA BootKnows ==
  ASSUME DirTypeOK, DirKnown, proc \in {"migrate", "reconcile", "fold"}
  PROVE  /\ link = "wal" /\ live = handle /\ rs.pc = "idle" /\ ~Activating
         /\ builds = {} /\ deleting = {} /\ collector = {}
         /\ handle \in Database /\ DOMAIN handle.fns \subseteq Ids
         /\ handle.fns \in [DOMAIN handle.fns -> Codes \cup {None}]
  <1>1. link = "wal" /\ live = handle /\ rs.pc = "idle" /\ ~Activating
    BY DirTypes DEF DirKnown, WalKnown, Activating
  <1>2. builds = {} /\ deleting = {} /\ collector = {}
    BY DEF DirKnown, RequestsKnown, Serving
  <1> QED
    BY <1>1, <1>2, DirTypes, DatabaseFields

\* What every step of a boot leaves alone.
LEMMA BootStays ==
  ASSUME DirTypeOK, DirKnown, proc \in {"migrate", "reconcile", "fold"},
         proc' \in {"down", "migrate", "reconcile", "fold", "up"}, live' = handle',
         UNCHANGED <<link, rs, archive, builds, deleting, collector>>
  PROVE  WalKnown' /\ StagedKnown' /\ RequestsKnown' /\ ~Activating'
  <1>1. /\ link = "wal" /\ rs.pc = "idle" /\ builds = {} /\ deleting = {} /\ collector = {}
    BY BootKnows
  <1>2. WalKnown' /\ ~Activating'
    BY <1>1 DEF WalKnown, Activating
  <1> QED
    BY <1>1, <1>2 DEF StagedKnown, RequestsKnown

LEMMA OpenKeeps ==
  ASSUME DirInv, Open
  PROVE  DirInv'
  <1>1. DirTypeOK
    BY DEF DirInv
  <1>2. UNCHANGED <<main, todo, trees, key, dl, archive, rs, builds, deleting, collector, lost, faults, work>>
    BY DEF Open, copyVars, reqVars, auxVars
  <1>3. /\ proc = "down" /\ proc' = "migrate" /\ link' = "wal" /\ handle' = live'
        /\ live' = IF live = NoFile THEN EmptyDB ELSE live
    BY DEF Open
  <1>4. rs.pc = "idle" /\ todo = {} /\ live' \in Database
    BY <1>1, <1>3, DirTypes, EmptyDatabase
  <1>5. DirTypeOK'
    BY <1>1, <1>2, <1>3, <1>4, DirTypes, DirTypesNext
  <1>6. ASSUME lost' # Fns PROVE DirKnown'
    <2>1. DirKnown
      BY <1>2, <1>6 DEF DirInv
    <2>2. /\ ~Activating /\ ~Activating' /\ link # "unlinked"
          /\ builds = {} /\ deleting = {} /\ collector = {}
      BY <1>2, <1>3, <1>4, <2>1 DEF DirKnown, WalKnown, RequestsKnown, Activating, Serving
    <2>3. CASE link = "wal"
      <3>1. live = handle /\ live # NoFile
        BY <1>1, <2>1, <2>3, DirTypes, DatabaseFields DEF DirKnown, WalKnown
      <3>2. live' = live /\ handle' = handle
        BY <1>3, <3>1
      <3>3. WalKnown' /\ StagedKnown' /\ RequestsKnown'
        BY <1>2, <1>3, <1>4, <2>2 DEF WalKnown, StagedKnown, RequestsKnown, Activating
      <3>4. PendingKnown'
        BY <1>2, <1>3, <2>1, <3>2 DEF DirKnown, PendingKnown
      <3>5. CodeKnown'
        BY <1>2, <1>3, <2>1, <2>2, <3>2 DEF DirKnown, CodeKnown, RowHasCode, HasCode
      <3>6. TreesKnown'
        BY <1>2, <1>3, <2>1, <2>2 DEF DirKnown, TreesKnown, Serving
      <3> QED
        BY <3>3, <3>4, <3>5, <3>6 DEF DirKnown
    <2>4. CASE link = "aside"
      <3>1. live # NoFile /\ live.pending = {}
        BY <2>1, <2>2, <2>4 DEF DirKnown, WalKnown
      <3>2. live' = live /\ handle' = live
        BY <1>3, <3>1
      <3>3. WalKnown' /\ StagedKnown' /\ RequestsKnown'
        BY <1>2, <1>3, <1>4, <2>2 DEF WalKnown, StagedKnown, RequestsKnown, Activating
      <3>4. PendingKnown'
        BY <1>2, <1>3, <2>1, <3>1, <3>2 DEF DirKnown, PendingKnown
      <3>5. CodeKnown'
        BY <1>2, <1>3, <2>1, <2>2, <3>1, <3>2 DEF DirKnown, CodeKnown, RowHasCode, HasCode
      <3>6. TreesKnown'
        BY <1>2, <1>3, <2>1, <2>2 DEF DirKnown, TreesKnown, Serving
      <3> QED
        BY <3>3, <3>4, <3>5, <3>6 DEF DirKnown
    <2> QED
      BY <1>1, <2>2, <2>3, <2>4, DirTypes
  <1> QED
    BY <1>5, <1>6 DEF DirInv

\* A boot that gives up keeps its record of renames.
LEMMA BootEnds ==
  ASSUME DirInv, proc \in {"migrate", "reconcile"}, proc' = "down", todo' = {}, faults' \in 0 .. MaxFaults,
         UNCHANGED <<live, main, handle, link, trees, key, dl, archive, rs, builds, deleting, collector, lost, work>>
  PROVE  DirInv'
  <1>1. DirTypeOK /\ rs.pc = "idle"
    BY DirTypes DEF DirInv
  <1>2. DirTypeOK'
    BY <1>1, DirTypes, DirTypesNext
  <1>3. ASSUME lost' # Fns PROVE DirKnown'
    <2>1. DirKnown
      BY <1>3 DEF DirInv
    <2>2. live = handle /\ ~Activating
      BY <1>1, <2>1, BootKnows
    <2>3. WalKnown' /\ StagedKnown' /\ RequestsKnown'
      BY <1>1, <2>1, <2>2, BootStays
    <2>4. PendingKnown'
      BY <2>1 DEF DirKnown, PendingKnown
    <2>5. CodeKnown'
      BY <2>1, <2>2 DEF DirKnown, CodeKnown, RowHasCode, HasCode
    <2>6. TreesKnown'
      BY <2>1 DEF DirKnown, TreesKnown, Serving
    <2> QED
      BY <2>3, <2>4, <2>5, <2>6 DEF DirKnown
  <1> QED
    BY <1>2, <1>3 DEF DirInv

LEMMA RefusedKeeps ==
  ASSUME DirInv, MigrateRefused
  PROVE  DirInv'
  <1>1. /\ UNCHANGED <<live, main, handle, link, todo, trees, key, dl, archive, rs, builds, deleting, collector, lost, faults, work>>
        /\ proc = "migrate" /\ proc' = "down"
    BY DEF MigrateRefused, dbVars, copyVars, reqVars, auxVars
  <1>2. todo' = {} /\ faults' \in 0 .. MaxFaults
    BY <1>1, DirTypes DEF DirInv
  <1> QED
    BY <1>1, <1>2, BootEnds

LEMMA RenameFailsKeeps ==
  ASSUME DirInv, NEW p, RenameFails(p)
  PROVE  DirInv'
  <1>1. /\ UNCHANGED <<live, main, handle, link, trees, key, dl, archive, rs, builds, deleting, collector, lost, work>>
        /\ proc = "reconcile" /\ proc' = "down" /\ todo' = {} /\ faults < MaxFaults /\ faults' = faults + 1
    BY DEF RenameFails, Fault, dbVars, copyVars, reqVars
  <1>2. faults' \in 0 .. MaxFaults
    BY <1>1, DirTypes, DirLimits DEF DirInv
  <1> QED
    BY <1>1, <1>2, BootEnds

\* The generation that a migration mints is one no row and no tree has.
LEMMA MintedFresh ==
  ASSUME FreshGens # {}
  PROVE  /\ Minted \in 1 .. MaxGen
         /\ \A id \in Ids : id[2] = Minted => id \notin DOMAIN live.fns /\ ~trees[id].dir
  <1>1. FreshGens \subseteq Nat
    BY DirAssumption DEF FreshGens
  <1>2. Minted \in FreshGens
    BY <1>1, LeastIndex DEF Minted
  <1> QED
    BY <1>2 DEF FreshGens

\* The pairs of a migration, and what it makes of an id.
LEMMA RewrittenIds ==
  ASSUME DirTypeOK, FreshGens # {}
  PROVE  /\ RewriteOne \subseteq Ids \X Ids
         /\ \A id \in Ids : Rewritten(RewriteOne, id) \in Ids
         /\ \A id \in DOMAIN handle.fns : id[2] # 0 => Rewritten(RewriteOne, id) = id
         /\ \A id \in DOMAIN handle.fns : id[2] = 0 =>
               /\ Rewritten(RewriteOne, id) = <<id[1], Minted>>
               /\ <<id, <<id[1], Minted>>>> \in RewriteOne
         /\ \A p \in RewriteOne : /\ p[1] \in DOMAIN handle.fns /\ p[2] = <<p[1][1], Minted>>
                                  /\ p = <<p[1], p[2]>> /\ p[1] = <<p[1][1], 0>>
  <1>1. Minted \in 1 .. MaxGen /\ MaxGen \in Nat
    BY MintedFresh, DirAssumption
  <1>2. DOMAIN handle.fns \subseteq Ids
    BY DirTypes, DatabaseFields
  <1>3. \A id \in Ids : id = <<id[1], id[2]>> /\ id[1] \in Fns /\ id[2] \in Nat /\ <<id[1], Minted>> \in Ids
    BY <1>1 DEF Ids
  <1>4. \A id \in Ids : ~IsUUID(id) <=> id[2] = 0
    <2>1. ASSUME NEW n \in Nat PROVE ~(n > 0) <=> n = 0
      OBVIOUS
    <2> SUFFICES ASSUME NEW id \in Ids PROVE ~(id[2] > 0) <=> id[2] = 0
      BY DEF IsUUID
    <2>2. id[2] \in Nat
      BY <1>3
    <2> QED
      BY <2>1, <2>2
  <1>5. \A p \in RewriteOne : /\ p[1] \in DOMAIN handle.fns /\ p[2] = <<p[1][1], Minted>>
                              /\ p = <<p[1], p[2]>> /\ p[1] = <<p[1][1], 0>>
    <2> SUFFICES ASSUME NEW p \in RewriteOne
                 PROVE  /\ p[1] \in DOMAIN handle.fns /\ p[2] = <<p[1][1], Minted>>
                        /\ p = <<p[1], p[2]>> /\ p[1] = <<p[1][1], 0>>
      OBVIOUS
    <2>1. PICK x \in DOMAIN handle.fns : ~IsUUID(x) /\ p = <<x, <<x[1], Minted>>>>
      BY DEF RewriteOne
    <2>2. x \in Ids /\ x[2] = 0 /\ x = <<x[1], x[2]>>
      BY <1>2, <1>3, <1>4, <2>1
    <2> QED
      BY <2>1, <2>2
  <1>6. RewriteOne \subseteq Ids \X Ids
    BY <1>2, <1>3, <1>5
  <1>7. \A id \in DOMAIN handle.fns : id[2] = 0 => <<id, <<id[1], Minted>>>> \in RewriteOne
    BY <1>2, <1>4 DEF RewriteOne
  <1>8. ASSUME NEW id \in Ids
        PROVE  IF \E p \in RewriteOne : p[1] = id THEN id[2] = 0 /\ Rewritten(RewriteOne, id) = <<id[1], Minted>>
               ELSE Rewritten(RewriteOne, id) = id
    <2>1. CASE \E p \in RewriteOne : p[1] = id
      <3> DEFINE q == CHOOSE p \in RewriteOne : p[1] = id
      <3>1. q \in RewriteOne /\ q[1] = id
        BY <2>1
      <3>2. Rewritten(RewriteOne, id) = q[2]
        BY <2>1 DEF Rewritten
      <3> HIDE DEF q
      <3>3. q[2] = <<id[1], Minted>> /\ id = <<id[1], 0>>
        BY <1>5, <3>1
      <3>4. id[2] = 0
        BY <3>3
      <3> QED
        BY <2>1, <3>2, <3>3, <3>4
    <2>2. CASE ~ \E p \in RewriteOne : p[1] = id
      BY <2>2 DEF Rewritten
    <2> QED
      BY <2>1, <2>2
  <1>9. \A id \in Ids : Rewritten(RewriteOne, id) \in Ids
    BY <1>3, <1>8
  <1>10. \A id \in DOMAIN handle.fns : id[2] # 0 => Rewritten(RewriteOne, id) = id
    BY <1>2, <1>8
  <1>11. \A id \in DOMAIN handle.fns : id[2] = 0 => Rewritten(RewriteOne, id) = <<id[1], Minted>>
    <2> SUFFICES ASSUME NEW id \in DOMAIN handle.fns, id[2] = 0
                 PROVE  Rewritten(RewriteOne, id) = <<id[1], Minted>>
      OBVIOUS
    <2>1. \E p \in RewriteOne : p[1] = id
      BY <1>7
    <2> QED
      BY <1>2, <1>8, <2>1
  <1> QED
    BY <1>5, <1>6, <1>7, <1>9, <1>10, <1>11

\* The migrated database: each row is the row it was, under its new id.
LEMMA MigratedRows ==
  ASSUME DirTypeOK, FreshGens # {}
  PROVE  /\ Migrated(RewriteOne) \in Database /\ Migrated(RewriteOne).done
         /\ Migrated(RewriteOne).pending = WritePendingFnRenames(RewriteOne)
         /\ \A n \in DOMAIN Migrated(RewriteOne).fns :
               \E m \in DOMAIN handle.fns : /\ n = Rewritten(RewriteOne, m)
                                            /\ Migrated(RewriteOne).fns[n] = handle.fns[m]
  <1> DEFINE R(id) == Rewritten(RewriteOne, id)
             T == {R(id) : id \in DOMAIN handle.fns}
             F == [n \in T |-> handle.fns[CHOOSE id \in DOMAIN handle.fns : R(id) = n]]
             s == RewriteSoftRefs(RewriteOne)
             w == WritePendingFnRenames(RewriteOne)
  <1>1. /\ handle \in Database /\ DOMAIN handle.fns \subseteq Ids /\ handle.soft \subseteq Ids
        /\ handle.pending \subseteq Ids \X Ids /\ handle.fns \in [DOMAIN handle.fns -> Codes \cup {None}]
    BY DirTypes, DatabaseFields
  <1>2. (\A id \in Ids : R(id) \in Ids) /\ RewriteOne \subseteq Ids \X Ids
    BY RewrittenIds
  <1>3. Migrated(RewriteOne) = [handle EXCEPT !.fns = F, !.soft = s, !.pending = w, !.done = TRUE]
    BY DEF Migrated
  <1>4. T \subseteq Ids /\ s \subseteq Ids /\ w \subseteq Ids \X Ids
    BY <1>1, <1>2 DEF RewriteSoftRefs, WritePendingFnRenames
  <1>5. \A n \in T : \E m \in DOMAIN handle.fns : n = R(m) /\ F[n] = handle.fns[m]
    <2> SUFFICES ASSUME NEW n \in T PROVE \E m \in DOMAIN handle.fns : n = R(m) /\ F[n] = handle.fns[m]
      OBVIOUS
    <2> DEFINE m == CHOOSE id \in DOMAIN handle.fns : R(id) = n
    <2>1. \E id \in DOMAIN handle.fns : R(id) = n
      OBVIOUS
    <2>2. m \in DOMAIN handle.fns /\ R(m) = n
      BY <2>1
    <2>3. F[n] = handle.fns[m]
      OBVIOUS
    <2> QED
      BY <2>2, <2>3
  <1>6. F \in [T -> Codes \cup {None}]
    <2> HIDE DEF R
    <2>1. DOMAIN F = T /\ F = [n \in T |-> F[n]]
      OBVIOUS
    <2>2. \A n \in T : F[n] \in Codes \cup {None}
      BY <1>1, <1>5
    <2> HIDE DEF F, T
    <2> QED
      BY <2>1, <2>2
  <1> HIDE DEF F, T, s, w, R
  <1>7. F \in UNION {[S -> Codes \cup {None}] : S \in SUBSET Ids}
    BY <1>4, <1>6
  <1>8. DOMAIN F = T
    BY <1>6
  <1>9. /\ Migrated(RewriteOne) \in Database /\ Migrated(RewriteOne).fns = F /\ Migrated(RewriteOne).pending = w
        /\ Migrated(RewriteOne).done
    BY <1>1, <1>3, <1>4, <1>7 DEF Database
  <1> QED
    BY <1>5, <1>8, <1>9 DEF R, w

\* A row that had its code has it still under the id that a rename leads from.
LEMMA MigrateKeeps ==
  ASSUME DirInv, MigrateToUUIDv7
  PROVE  DirInv'
  <1>1. DirTypeOK
    BY DEF DirInv
  <1>2. UNCHANGED <<main, link, trees, key, dl, archive, rs, builds, deleting, collector, lost, faults, work>>
    BY DEF MigrateToUUIDv7, dbVars, copyVars, reqVars, auxVars
  <1>3. proc = "migrate" /\ proc' = "reconcile" /\ todo' = handle'.pending /\ rs.pc = "idle"
    BY <1>1, DirTypes DEF MigrateToUUIDv7
  <1>4. CASE handle.done /\ UNCHANGED <<live, handle>>
    <2>1. DirTypeOK'
      BY <1>1, <1>2, <1>3, <1>4, DirTypes, DirTypesNext
    <2>2. ASSUME lost' # Fns PROVE DirKnown'
      <3>1. DirKnown
        BY <1>2, <2>2 DEF DirInv
      <3>2. live = handle /\ ~Activating
        BY <1>1, <1>3, <3>1, BootKnows
      <3>3. WalKnown' /\ StagedKnown' /\ RequestsKnown'
        BY <1>1, <1>2, <1>3, <1>4, <3>1, <3>2, BootStays
      <3>4. PendingKnown'
        BY <1>2, <1>3, <1>4, <3>1 DEF DirKnown, PendingKnown
      <3>5. CodeKnown'
        BY <1>2, <1>3, <1>4, <3>1, <3>2 DEF DirKnown, CodeKnown, RowHasCode, HasCode
      <3>6. TreesKnown'
        BY <1>2, <1>3, <1>4, <3>1 DEF DirKnown, TreesKnown, Serving
      <3> QED
        BY <3>3, <3>4, <3>5, <3>6 DEF DirKnown
    <2> QED
      BY <2>1, <2>2 DEF DirInv
  <1>5. CASE ~handle.done /\ FreshGens # {} /\ Commit(Migrated(RewriteOne))
    <2>1. /\ handle' = Migrated(RewriteOne) /\ live' = IF link = "wal" THEN handle' ELSE live
      BY <1>5 DEF Commit
    <2>2. /\ handle' \in Database /\ handle'.done /\ handle'.pending = WritePendingFnRenames(RewriteOne)
          /\ \A n \in DOMAIN handle'.fns :
               \E m \in DOMAIN handle.fns : n = Rewritten(RewriteOne, m) /\ handle'.fns[n] = handle.fns[m]
      BY <1>1, <1>5, <2>1, MigratedRows
    <2>3. DirTypeOK'
      BY <1>1, <1>2, <1>3, <2>1, <2>2, DirTypes, DirTypesNext
    <2>4. ASSUME lost' # Fns PROVE DirKnown'
      <3>1. DirKnown
        BY <1>2, <2>4 DEF DirInv
      <3>2. /\ live = handle /\ ~Activating /\ link = "wal" /\ builds = {} /\ DOMAIN handle.fns \subseteq Ids
            /\ handle.fns \in [DOMAIN handle.fns -> Codes \cup {None}]
        BY <1>1, <1>3, <3>1, BootKnows
      <3>3. handle.pending = {} /\ handle'.pending = RewriteOne
        BY <1>5, <2>2, <3>1 DEF DirKnown, PendingKnown, WritePendingFnRenames
      <3>4. WalKnown' /\ StagedKnown' /\ RequestsKnown' /\ ~Activating'
        BY <1>1, <1>2, <1>3, <2>1, <3>1, <3>2, BootStays
      <3>5. Minted # 0 /\ \A id \in Ids : id[2] = Minted => id \notin DOMAIN handle.fns /\ ~trees[id].dir
        BY <1>5, <3>2, MintedFresh
      <3>6. \A id \in Ids : id = <<id[1], id[2]>> /\ id[1] \in Fns
        BY DEF Ids
      <3>7. ASSUME NEW n \in DOMAIN handle'.fns PROVE n[2] # 0
        <4>1. PICK m \in DOMAIN handle.fns : n = Rewritten(RewriteOne, m)
          BY <2>2
        <4>2. CASE m[2] = 0
          <5>1. n = <<m[1], Minted>>
            BY <1>1, <1>5, <4>1, <4>2, RewrittenIds
          <5> QED
            BY <3>5, <5>1
        <4>3. CASE m[2] # 0
          BY <1>1, <1>5, <4>1, <4>3, RewrittenIds
        <4> QED
          BY <4>2, <4>3
      <3>8. PendingKnown'
        <4>1. \A p \in RewriteOne : /\ p[2] = <<p[1][1], Minted>> /\ p = <<p[1], p[2]>> /\ p[1] = <<p[1][1], 0>>
          BY <1>1, <1>5, RewrittenIds
        <4>2. \A p \in RewriteOne : p[1] = <<p[2][1], 0>> /\ p[2][2] # 0 /\ p[1][2] = 0
          BY <3>5, <4>1
        <4>3. \A p \in RewriteOne : p[1] \notin DOMAIN handle'.fns
          BY <3>7, <4>2
        <4>4. \A p, q \in RewriteOne : p[1] = q[1] => p = q
          BY <4>1
        <4> QED
          BY <1>2, <1>3, <2>2, <3>1, <3>3, <4>2, <4>3, <4>4 DEF DirKnown, PendingKnown
      <3>9. CodeKnown'
        <4>1. ASSUME NEW n \in DOMAIN live'.fns, live'.fns[n] # None, n[1] \notin lost'
              PROVE  RowHasCode(n)'
          <5>1. live' = handle' /\ live'.pending = RewriteOne
            BY <2>1, <3>2, <3>3
          <5>2. PICK m \in DOMAIN handle.fns : n = Rewritten(RewriteOne, m) /\ handle'.fns[n] = handle.fns[m]
            BY <2>2, <4>1, <5>1
          <5>3. m \in Ids /\ handle.fns[m] # None
            BY <3>2, <4>1, <5>1, <5>2
          <5>4. CASE m[2] = 0
            <6>1. n = <<m[1], Minted>> /\ <<m, n>> \in RewriteOne
              BY <1>1, <1>5, <5>2, <5>4, RewrittenIds
            <6>2. n \in Ids /\ n[1] = m[1] /\ n[2] = Minted
              BY <1>1, <1>5, <5>2, <5>3, <6>1, RewrittenIds
            <6>3. HasCode(m, handle.fns[m])
              BY <1>2, <3>1, <3>2, <3>3, <4>1, <5>2, <5>3, <6>2 DEF DirKnown, CodeKnown, RowHasCode
            <6>4. ~trees[n].dir
              BY <3>5, <6>2
            <6>5. PICK p \in live'.pending : p[1] = m /\ p[2] = n
              BY <5>1, <6>1
            <6> QED
              BY <1>2, <1>3, <5>1, <5>2, <6>3, <6>4, <6>5 DEF RowHasCode, HasCode
          <5>5. CASE m[2] # 0
            <6>1. n = m
              BY <1>1, <1>5, <5>2, <5>5, RewrittenIds
            <6>2. HasCode(m, handle.fns[m])
              BY <1>2, <3>1, <3>2, <3>3, <4>1, <5>2, <5>3, <6>1 DEF DirKnown, CodeKnown, RowHasCode
            <6> QED
              BY <1>2, <3>2, <5>1, <5>2, <6>1, <6>2 DEF RowHasCode, HasCode
          <5> QED
            BY <5>4, <5>5
        <4> QED
          BY <4>1 DEF CodeKnown
      <3>10. TreesKnown'
        BY <1>2, <1>3, <3>1, <3>2 DEF DirKnown, TreesKnown, Serving
      <3> QED
        BY <3>4, <3>8, <3>9, <3>10 DEF DirKnown
    <2> QED
      BY <2>3, <2>4 DEF DirInv
  <1> QED
    BY <1>4, <1>5 DEF MigrateToUUIDv7, dbVars

\* A rename brings the tree of one row, and leaves the others due.
LEMMA ReconcileKeeps ==
  ASSUME DirInv, NEW p, ReconcileFunctionDirs(p)
  PROVE  DirInv'
  <1>1. DirTypeOK
    BY DEF DirInv
  <1>2. UNCHANGED <<live, main, handle, link, proc, key, dl, archive, rs, builds, deleting, collector, lost, faults, work>>
    BY DEF ReconcileFunctionDirs, dbVars, copyVars, reqVars, auxVars
  <1>3. /\ proc = "reconcile" /\ p \in todo /\ todo' = todo \ {p}
        /\ trees' = IF RenameDue(p) THEN [trees EXCEPT ![p[2]] = trees[p[1]], ![p[1]] = NoTree] ELSE trees
    BY DEF ReconcileFunctionDirs
  <1>4. /\ todo \subseteq handle.pending /\ handle.pending \subseteq Ids \X Ids /\ trees \in [Ids -> Trees]
        /\ DOMAIN handle.fns \subseteq Ids
    BY <1>1, <1>3, DirTypes, DatabaseFields
  <1>5. p \in handle.pending /\ p[1] \in Ids /\ p[2] \in Ids
    BY <1>3, <1>4
  <1>6. DirTypeOK'
    <2>1. trees' \in [Ids -> Trees] /\ todo' \subseteq handle'.pending
      BY <1>2, <1>3, <1>4, <1>5, BareTree
    <2> QED
      BY <1>1, <1>2, <1>3, <2>1, DirTypes, DirTypesNext
  <1>7. ASSUME lost' # Fns PROVE DirKnown'
    <2>1. DirKnown
      BY <1>2, <1>7 DEF DirInv
    <2>2. live = handle /\ ~Activating /\ link = "wal" /\ builds = {} /\ live \in Database
      BY <1>1, <1>3, <2>1, BootKnows
    <2>3. WalKnown' /\ StagedKnown' /\ RequestsKnown' /\ ~Activating'
      BY <1>1, <1>2, <1>3, <2>1, <2>2, BootStays
    <2>4. PendingKnown'
      BY <1>2, <2>1, PendingStays DEF DirKnown
    <2>5. \A id \in Ids : Wellformed(trees[id])
      BY <2>1 DEF DirKnown, TreesKnown
    <2>6. ASSUME NEW q \in handle.pending
          PROVE  /\ q[1] \in Ids /\ q[2] \in Ids /\ q[1] = <<q[2][1], 0>> /\ q[2][2] # 0
                 /\ q[1] \notin DOMAIN handle.fns /\ q[1][2] = 0
      <3>1. q[1] = <<q[2][1], 0>> /\ q[2][2] # 0 /\ q[1] \notin DOMAIN handle.fns
        BY <2>1 DEF DirKnown, PendingKnown
      <3>2. q[1][2] = 0
        BY <3>1
      <3> QED
        BY <1>4, <3>1, <3>2
    <2>7. \A q \in handle.pending : q[1] = p[1] \/ q[2] = p[2] => q = p
      <3>1. \A q \in handle.pending : q[1] = p[1] => q = p
        BY <1>5, <2>1 DEF DirKnown, PendingKnown
      <3> QED
        BY <1>5, <2>6, <3>1
    <2>8. p[1] # p[2] /\ \A q \in handle.pending : q[1] # p[2] /\ q[2] # p[1]
      BY <1>5, <2>6
    <2>9. RenameDue(p) => /\ trees'[p[2]] = trees[p[1]] /\ trees'[p[1]] = NoTree
                          /\ \A id \in Ids : id # p[1] /\ id # p[2] => trees'[id] = trees[id]
      BY <1>3, <1>4, <1>5, <2>8
    <2>10. ASSUME NEW id \in Ids, NEW h \in Codes, HasCode(id, h) PROVE trees[id].dir
      BY <2>5, <2>10 DEF HasCode, Wellformed
    <2>11. CodeKnown'
      <3>1. ASSUME NEW id \in DOMAIN live'.fns, live'.fns[id] # None, id[1] \notin lost'
            PROVE  RowHasCode(id)'
        <4> DEFINE h == live.fns[id]
        <4>1. id \in DOMAIN handle.fns /\ id \in Ids /\ h \in Codes /\ live'.fns[id] = h
          BY <1>2, <1>4, <2>2, <3>1, DatabaseFields
        <4>2. RowHasCode(id)
          BY <1>2, <2>1, <2>2, <3>1 DEF DirKnown, CodeKnown
        <4> HIDE DEF h
        <4>3. CASE HasCode(id, h)
          <5>1. trees'[id] = trees[id]
            <6>1. CASE RenameDue(p)
              <7>1. id # p[1]
                BY <1>5, <2>6, <4>1
              <7>2. id # p[2]
                BY <2>10, <4>1, <4>3, <6>1 DEF RenameDue
              <7> QED
                BY <2>9, <4>1, <6>1, <7>1, <7>2
            <6>2. CASE ~RenameDue(p)
              BY <1>3, <6>2
            <6> QED
              BY <6>1, <6>2
          <5> QED
            BY <1>2, <2>2, <4>1, <4>3, <5>1 DEF RowHasCode, HasCode
        <4>4. ASSUME NEW q \in live.pending, q[2] = id, HasCode(q[1], h), ~trees[id].dir, q \in todo
              PROVE  RowHasCode(id)'
          <5>1. q \in handle.pending /\ q[1] \in Ids
            BY <2>2, <2>6, <4>4
          <5>2. CASE q = p
            <6>1. RenameDue(p)
              BY <2>10, <4>1, <4>4, <5>1, <5>2 DEF RenameDue
            <6>2. trees'[id] = trees[p[1]]
              BY <2>9, <4>4, <5>2, <6>1
            <6> QED
              BY <1>2, <2>2, <4>1, <4>4, <5>2, <6>2 DEF RowHasCode, HasCode
          <5>3. CASE q # p
            <6>1. q[1] # p[1] /\ q[2] # p[2] /\ q[1] # p[2] /\ q[2] # p[1]
              BY <2>7, <2>8, <5>1, <5>3
            <6>2. trees'[q[1]] = trees[q[1]] /\ trees'[id] = trees[id]
              BY <1>3, <2>9, <4>1, <4>4, <5>1, <6>1
            <6>3. q \in todo' /\ q \in live'.pending
              BY <1>2, <1>3, <4>4, <5>3
            <6> QED
              BY <1>2, <4>1, <4>4, <6>2, <6>3 DEF RowHasCode, HasCode
          <5> QED
            BY <5>2, <5>3
        <4> QED
          BY <1>3, <4>2, <4>3, <4>4 DEF RowHasCode, h
      <3> QED
        BY <3>1 DEF CodeKnown
    <2>12. TreesKnown'
      <3>1. Wellformed(NoTree)
        BY BareTree DEF Wellformed
      <3>2. \A id \in Ids : Wellformed(trees'[id])
        BY <1>3, <1>5, <2>5, <2>9, <3>1
      <3> QED
        BY <1>2, <1>3, <2>2, <3>2 DEF TreesKnown, Serving
    <2> QED
      BY <2>3, <2>4, <2>11, <2>12 DEF DirKnown
  <1> QED
    BY <1>6, <1>7 DEF DirInv

\* With no rename left to make, every row has its code under its own id.
LEMMA ClearKeeps ==
  ASSUME DirInv, ClearPendingFnRenames
  PROVE  DirInv'
  <1>1. DirTypeOK
    BY DEF DirInv
  <1>2. UNCHANGED <<main, link, trees, key, dl, archive, rs, builds, deleting, collector, lost, faults, work>>
    BY DEF ClearPendingFnRenames, copyVars, reqVars, auxVars
  <1>3. /\ proc = "reconcile" /\ todo = {} /\ proc' = "fold" /\ todo' = {id \in DOMAIN handle.fns : trees[id].flat}
        /\ handle' = [handle EXCEPT !.pending = {}] /\ live' = IF link = "wal" THEN handle' ELSE live
    BY DEF ClearPendingFnRenames, Commit
  <1>4. handle' \in Database /\ handle'.fns = handle.fns /\ handle'.pending = {} /\ handle'.done = handle.done
    BY <1>1, <1>3, DirTypes, DatabaseCleared
  <1>5. DirTypeOK'
    BY <1>1, <1>2, <1>3, <1>4, DirTypes, DirTypesNext
  <1>6. ASSUME lost' # Fns PROVE DirKnown'
    <2>1. DirKnown
      BY <1>2, <1>6 DEF DirInv
    <2>2. live = handle /\ ~Activating /\ link = "wal" /\ builds = {} /\ live' = handle'
      BY <1>1, <1>3, <2>1, BootKnows
    <2>3. WalKnown' /\ StagedKnown' /\ RequestsKnown' /\ ~Activating'
      BY <1>1, <1>2, <1>3, <2>1, <2>2, BootStays
    <2>4. PendingKnown'
      BY <1>2, <1>3, <1>4, <2>1 DEF DirKnown, PendingKnown
    <2>5. CodeKnown'
      BY <1>2, <1>3, <1>4, <2>1, <2>2 DEF DirKnown, CodeKnown, RowHasCode, HasCode
    <2>6. TreesKnown'
      <3>1. DOMAIN handle.fns \subseteq Ids
        BY <1>1, <1>3, <2>1, BootKnows
      <3>2. \A id \in Ids : trees[id].flat => trees[id].dir
        BY <2>1 DEF DirKnown, TreesKnown, Wellformed
      <3> QED
        BY <1>2, <1>3, <1>4, <2>1, <2>2, <3>1, <3>2 DEF DirKnown, TreesKnown, Serving
    <2> QED
      BY <2>3, <2>4, <2>5, <2>6 DEF DirKnown
  <1> QED
    BY <1>5, <1>6 DEF DirInv

\* A step of the folding touches the tree of one row, and leaves its code.
LEMMA FoldKeeps ==
  ASSUME DirInv, NEW id \in Ids, NEW t \in Trees, trees' = [trees EXCEPT ![id] = t], proc = "fold",
         UNCHANGED <<live, main, handle, link, proc, key, dl, archive, rs, builds, deleting, collector, lost, faults, work>>,
         todo' \subseteq todo, ~t.flat, t.dir = trees[id].dir,
         lost # Fns => /\ \A c \in Codes : t.ver[c] \in {"bare", "ready"} => t.dir
                       /\ handle.fns[id] # None /\ HasCode(id, handle.fns[id])
                             => t.ver[handle.fns[id]] \in {"bare", "ready"},
         \A i \in todo : i # id => i \in todo'
  PROVE  DirInv'
  <1>1. DirTypeOK
    BY DEF DirInv
  <1>2. trees \in [Ids -> Trees] /\ todo \subseteq DOMAIN handle.fns
    BY <1>1, DirTypes
  <1>3. trees'[id] = t /\ \A i \in Ids : i # id => trees'[i] = trees[i]
    BY <1>2
  <1>4. DirTypeOK'
    <2>1. trees' \in [Ids -> Trees] /\ todo' \subseteq DOMAIN handle'.fns
      BY <1>2
    <2> QED
      BY <1>1, <2>1, DirTypes, DirTypesNext
  <1>5. ASSUME lost' # Fns PROVE DirKnown'
    <2>1. DirKnown
      BY <1>5 DEF DirInv
    <2>2. live = handle /\ ~Activating /\ link = "wal" /\ builds = {} /\ live \in Database /\ DOMAIN handle.fns \subseteq Ids
      BY <1>1, <2>1, BootKnows
    <2>3. WalKnown' /\ StagedKnown' /\ RequestsKnown' /\ ~Activating'
      BY <1>1, <2>1, <2>2, BootStays
    <2>4. PendingKnown' /\ handle.pending = {}
      BY <2>1, PendingStays DEF DirKnown, PendingKnown
    <2>5. CodeKnown'
      <3>1. ASSUME NEW i \in DOMAIN live'.fns, live'.fns[i] # None, i[1] \notin lost'
            PROVE  RowHasCode(i)'
        <4>1. i \in Ids /\ live.fns[i] \in Codes /\ live'.fns[i] = live.fns[i]
          BY <2>2, <3>1, DatabaseFields
        <4>2. HasCode(i, live.fns[i])
          BY <2>1, <2>2, <2>4, <3>1 DEF DirKnown, CodeKnown, RowHasCode
        <4>3. HasCode(i, live.fns[i])'
          BY <1>3, <1>5, <2>2, <3>1, <4>1, <4>2 DEF HasCode
        <4> QED
          BY <2>2, <4>1, <4>3 DEF RowHasCode, HasCode
      <3> QED
        BY <3>1 DEF CodeKnown
    <2>6. TreesKnown'
      <3>1. Wellformed(t)
        BY <1>5 DEF Wellformed
      <3>2. \A i \in Ids : Wellformed(trees'[i])
        BY <1>3, <2>1, <3>1 DEF DirKnown, TreesKnown
      <3>3. \A i \in DOMAIN handle.fns : (trees'[i].flat => i # id /\ trees[i].flat) /\ trees'[i].dir = trees[i].dir
        BY <1>3, <2>2
      <3> QED
        BY <2>1, <2>2, <3>2, <3>3 DEF DirKnown, TreesKnown, Serving
    <2> QED
      BY <2>3, <2>4, <2>5, <2>6 DEF DirKnown
  <1> QED
    BY <1>4, <1>5 DEF DirInv

LEMMA LegacyFoldKeeps ==
  ASSUME DirInv, NEW id, MigrateLegacyCodeDirs(id)
  PROVE  DirInv'
  <1> DEFINE h == handle.fns[id]
             moves == h # None /\ trees[id].ver[h] = "absent"
             v == IF moves THEN [trees[id].ver EXCEPT ![h] = "bare"] ELSE trees[id].ver
  <1>1. DirTypeOK
    BY DEF DirInv
  <1>2. UNCHANGED <<live, main, handle, link, proc, key, dl, archive, rs, builds, deleting, collector, lost, faults, work>>
    BY DEF MigrateLegacyCodeDirs, dbVars, copyVars, reqVars, auxVars
  <1>3. proc = "fold" /\ id \in todo /\ trees[id].flat /\ todo' = IF moves THEN todo ELSE todo \ {id}
    BY DEF MigrateLegacyCodeDirs
  <1>4. id \in DOMAIN handle.fns /\ id \in Ids /\ h \in Codes \cup {None} /\ trees[id] \in Trees
    BY <1>1, <1>3, DirTypes, DatabaseFields
  <1>5. trees[id].ver \in [Codes -> {"absent", "scratch", "bare", "ready"}]
    BY <1>4, TreeFields
  <1>6. v \in Versions
    BY <1>5 DEF Versions
  <1>7. trees' = [trees EXCEPT ![id] = [trees[id] EXCEPT !.flat = FALSE, !.ver = v]]
    <2>1. trees \in [Ids -> Trees]
      BY <1>1, DirTypes
    <2>2. trees' = [trees EXCEPT ![id].flat = FALSE, ![id].ver = IF moves THEN [@ EXCEPT ![h] = "bare"] ELSE @]
      BY DEF MigrateLegacyCodeDirs
    <2> QED
      BY <1>4, <2>1, <2>2 DEF Trees
  <1>8. PICK t \in Trees : trees' = [trees EXCEPT ![id] = t] /\ ~t.flat /\ t.dir = trees[id].dir /\ t.ver = v
    <2> HIDE DEF v
    <2>1. LET t == [trees[id] EXCEPT !.flat = FALSE, !.ver = v] IN t \in Trees /\ ~t.flat /\ t.dir = trees[id].dir /\ t.ver = v
      BY <1>4, <1>6 DEF Trees
    <2> QED
      BY <1>7, <2>1
  <1>9. lost # Fns => /\ \A c \in Codes : t.ver[c] \in {"bare", "ready"} => t.dir
                      /\ h # None /\ HasCode(id, h) => t.ver[h] \in {"bare", "ready"}
    <2> SUFFICES ASSUME lost # Fns
                 PROVE  /\ \A c \in Codes : t.ver[c] \in {"bare", "ready"} => t.dir
                        /\ h # None /\ HasCode(id, h) => t.ver[h] \in {"bare", "ready"}
      OBVIOUS
    <2>1. Wellformed(trees[id])
      BY <1>4 DEF DirInv, DirKnown, TreesKnown
    <2>2. t.dir
      BY <1>3, <1>8, <2>1 DEF Wellformed
    <2>3. ASSUME h # None PROVE t.ver[h] \in {"bare", "ready"}
      <3>1. h \in Codes /\ trees[id].ver[h] \in {"absent", "scratch", "bare", "ready"} /\ trees[id].ver[h] # "scratch"
        BY <1>3, <1>4, <1>5, <2>1, <2>3 DEF Wellformed
      <3> QED
        BY <1>5, <1>8, <2>3, <3>1
    <2> QED
      BY <2>2, <2>3
  <1>10. todo' \subseteq todo /\ \A i \in todo : i # id => i \in todo'
    BY <1>3
  <1> QED
    BY <1>2, <1>3, <1>4, <1>8, <1>9, <1>10, FoldKeeps

LEMMA LegacyActivateKeeps ==
  ASSUME DirInv, NEW id, LegacyActivate(id)
  PROVE  DirInv'
  <1> DEFINE h == handle.fns[id]
             v == [trees[id].ver EXCEPT ![h] = "ready"]
  <1>1. DirTypeOK
    BY DEF DirInv
  <1>2. UNCHANGED <<live, main, handle, link, proc, key, dl, archive, rs, builds, deleting, collector, lost, faults, work>>
    BY DEF LegacyActivate, dbVars, copyVars, reqVars, auxVars
  <1>3. proc = "fold" /\ id \in todo /\ ~trees[id].flat /\ todo' = todo \ {id}
    BY DEF LegacyActivate
  <1>4. id \in DOMAIN handle.fns /\ id \in Ids /\ h \in Codes \cup {None} /\ trees[id] \in Trees
    BY <1>1, <1>3, DirTypes, DatabaseFields
  <1>5. trees[id].ver \in [Codes -> {"absent", "scratch", "bare", "ready"}]
    BY <1>4, TreeFields
  <1>6. v \in Versions
    BY <1>5 DEF Versions
  <1>7. trees' = [trees EXCEPT ![id] = [trees[id] EXCEPT !.ver = v, !.cur = h]]
    <2>1. trees \in [Ids -> Trees]
      BY <1>1, DirTypes
    <2>2. trees' = [trees EXCEPT ![id].ver[h] = "ready", ![id].cur = h]
      BY DEF LegacyActivate
    <2> QED
      BY <1>4, <2>1, <2>2 DEF Trees
  <1>8. PICK t \in Trees : trees' = [trees EXCEPT ![id] = t] /\ ~t.flat /\ t.dir = trees[id].dir /\ t.ver = v
    <2> HIDE DEF v, h
    <2>1. LET t == [trees[id] EXCEPT !.ver = v, !.cur = h] IN t \in Trees /\ ~t.flat /\ t.dir = trees[id].dir /\ t.ver = v
      BY <1>3, <1>4, <1>6 DEF Trees
    <2> QED
      BY <1>7, <2>1
  <1>9. lost # Fns => /\ \A c \in Codes : t.ver[c] \in {"bare", "ready"} => t.dir
                      /\ h # None /\ HasCode(id, h) => t.ver[h] \in {"bare", "ready"}
    <2> SUFFICES ASSUME lost # Fns
                 PROVE  /\ \A c \in Codes : t.ver[c] \in {"bare", "ready"} => t.dir
                        /\ h # None /\ HasCode(id, h) => t.ver[h] \in {"bare", "ready"}
      OBVIOUS
    <2>1. t.dir
      BY <1>3, <1>4, <1>8 DEF DirInv, DirKnown, TreesKnown
    <2>2. h # None => t.ver[h] \in {"bare", "ready"}
      BY <1>4, <1>5, <1>8
    <2> QED
      BY <2>1, <2>2
  <1>10. todo' \subseteq todo /\ \A i \in todo : i # id => i \in todo'
    BY <1>3
  <1> QED
    BY <1>2, <1>3, <1>4, <1>8, <1>9, <1>10, FoldKeeps

LEMMA ServeUpKeeps ==
  ASSUME DirInv, ServeUp
  PROVE  DirInv'
  <1>1. DirTypeOK
    BY DEF DirInv
  <1>2. UNCHANGED <<live, main, handle, link, todo, trees, key, dl, archive, rs, builds, deleting, collector, lost, faults, work>>
    BY DEF ServeUp, dbVars, copyVars, reqVars, auxVars
  <1>3. proc = "fold" /\ todo = {} /\ proc' = "up"
    BY DEF ServeUp
  <1>4. DirTypeOK'
    BY <1>1, <1>2, <1>3, DirTypes, DirTypesNext
  <1>5. ASSUME lost' # Fns PROVE DirKnown'
    <2>1. DirKnown
      BY <1>2, <1>5 DEF DirInv
    <2>2. live = handle /\ ~Activating
      BY <1>1, <1>3, <2>1, BootKnows
    <2>3. WalKnown' /\ StagedKnown' /\ RequestsKnown' /\ ~Activating'
      BY <1>1, <1>2, <1>3, <2>1, <2>2, BootStays
    <2>4. PendingKnown'
      BY <1>2, <1>3, <2>1 DEF DirKnown, PendingKnown
    <2>5. CodeKnown'
      BY <1>2, <1>3, <2>1, <2>2 DEF DirKnown, CodeKnown, RowHasCode, HasCode
    <2>6. TreesKnown'
      BY <1>2, <1>3, <2>1 DEF DirKnown, TreesKnown, Serving
    <2> QED
      BY <2>3, <2>4, <2>5, <2>6 DEF DirKnown
  <1> QED
    BY <1>4, <1>5 DEF DirInv

\* A directory of an old or a new release, with any archive beside it.
LEMMA DirectoryStarts == DirInit => DirInv
  <1> SUFFICES ASSUME DirInit PROVE DirInv
    OBVIOUS
  <1>1. PICK d \in Database, t \in [Ids -> Trees], a \in Archives \cup {NoFile} :
          /\ d.pending = {} /\ CodeOnDisk(d, t) /\ \A id \in Ids : Wellformed(t[id])
          /\ a # NoFile => a.db.pending = {}
          /\ DirStart(d, t, a, 0, 0)
    BY DEF DirInit
  <1>2. /\ live = d /\ main = d /\ handle = d /\ link = "wal" /\ proc = "down" /\ todo = {} /\ key = d.sealed
        /\ trees = [id \in Ids |-> IF id \in DOMAIN t THEN t[id] ELSE NoTree] /\ archive = a
        /\ dl = Idle /\ rs = Idle /\ builds = {} /\ deleting = {} /\ collector = {} /\ lost = {}
        /\ faults = 0 /\ work = 0
    BY <1>1 DEF DirStart
  <1>3. trees = t
    BY <1>2
  <1>4. d.sealed \in {"old", "new"} /\ DOMAIN d.fns \subseteq Ids
    BY DatabaseFields
  <1>5. dl.pc = "idle" /\ rs.pc = "idle" /\ Idle \in Downloads /\ Idle \in Restores
    BY <1>2 DEF Idle, Downloads, Restores
  <1>6. faults \in 0 .. MaxFaults /\ work \in 0 .. MaxWork
    BY <1>2, DirAssumption
  <1>7. DirTypeOK
    BY <1>2, <1>3, <1>4, <1>5, <1>6 DEF DirTypeOK
  <1>8. WalKnown
    BY <1>2, <1>5 DEF WalKnown, Activating
  <1>9. PendingKnown
    BY <1>1, <1>2, <1>5 DEF PendingKnown
  <1>10. CodeKnown /\ StagedKnown
    BY <1>1, <1>2, <1>3, <1>4, <1>5 DEF CodeKnown, StagedKnown, RowHasCode, HasCode, CodeOnDisk
  <1>11. TreesKnown /\ RequestsKnown
    BY <1>1, <1>2, <1>3 DEF TreesKnown, RequestsKnown, Serving
  <1> QED
    BY <1>7, <1>8, <1>9, <1>10, <1>11 DEF DirInv, DirKnown

LEMMA DirectoryStutters ==
  ASSUME DirInv, UNCHANGED dirVars
  PROVE  DirInv'
  <1>1. UNCHANGED <<live, main, handle, link, proc, todo, trees, key, dl, archive, rs, builds, deleting, collector, lost, faults, work>>
    BY DEF dirVars
  <1>2. DirTypeOK'
    BY <1>1 DEF DirInv, DirTypeOK
  <1>3. lost # Fns => PendingKnown'
    BY <1>1 DEF DirInv, DirKnown, PendingKnown
  <1> QED
    BY <1>1, <1>2, <1>3, QuietServer

LEMMA DirectorySteps ==
  ASSUME DirInv, [DirNext]_dirVars
  PROVE  DirInv'
  <1>1. CASE UNCHANGED dirVars
    BY <1>1, DirectoryStutters
  <1>2. CASE BootNext
    <2>1. CASE Open \/ MigrateToUUIDv7 \/ MigrateRefused \/ ClearPendingFnRenames \/ ServeUp
      BY <2>1, OpenKeeps, MigrateKeeps, RefusedKeeps, ClearKeeps, ServeUpKeeps
    <2>2. CASE \E p \in todo : ReconcileFunctionDirs(p) \/ RenameFails(p)
      BY <2>2, ReconcileKeeps, RenameFailsKeeps
    <2>3. CASE \E id \in todo : MigrateLegacyCodeDirs(id) \/ LegacyActivate(id)
      BY <2>3, LegacyFoldKeeps, LegacyActivateKeeps
    <2> QED
      BY <1>2, <2>1, <2>2, <2>3 DEF BootNext
  <1>3. CASE BackupNext
    BY <1>3, SnapshotKeeps, ArchiveToKeeps, PlanKeeps, AddFileKeeps DEF BackupNext
  <1>4. CASE RestoreNext
    BY <1>4, RestoreVerifyKeeps, MoveAsideKeeps, InstallDBKeeps, InstallKeysKeeps, InstallTreeKeeps,
       RelinkKeeps, RestoreFailsKeeps DEF RestoreNext
  <1>5. CASE ServerNext
    <2>1. CASE \E id \in Ids, c \in Codes : BuildScratch(id, c) \/ Publish(id, c)
      BY <2>1, BuildScratchKeeps, VersionPublishedKeeps
    <2>2. CASE \E id \in Ids : DeleteRow(id) \/ PurgeFunctionFiles(id)
      BY <2>2, RowDeletedKeeps, FilesPurgedKeeps
    <2>3. CASE Checkpoint \/ GcList \/ SweepOrphanFunctionDirs \/ Aged
      BY <2>3, CheckpointKeeps, GcListKeeps, OrphanSweepKeeps, AgedKeeps
    <2> QED
      BY <1>5, <2>1, <2>2, <2>3 DEF ServerNext
  <1> QED
    BY <1>1, <1>2, <1>3, <1>4, <1>5, DirCrashKeeps, ExitKeeps DEF DirNext

LEMMA KnownCodeSurvives == DirInv => CodeSurvives
  <1> SUFFICES ASSUME DirInv, live # NoFile, ~Activating, NEW id \in DOMAIN live.fns, live.fns[id] # None, id[1] \notin lost
               PROVE  \/ HasCode(id, live.fns[id])
                      \/ \E p \in live.pending : p[2] = id /\ HasCode(p[1], live.fns[id])
    BY DEF CodeSurvives
  <1>1. live \in Database
    BY DirTypes DEF DirInv
  <1>2. id[1] \in Fns
    BY <1>1, DatabaseFields DEF Ids
  <1>3. RowHasCode(id)
    BY <1>2 DEF DirInv, DirKnown, CodeKnown
  <1> QED
    BY <1>3 DEF RowHasCode

\* The data directory keeps its types through every boot, backup and restore:
\* what is left to do names rows or recorded renames of the database that the
\* process reads, and a restore runs only under a server, with an archive.
THEOREM DirectoryTypesHold == DirSpec => []DirTypeOK
  <1>1. DirInit => DirInv
    BY DirectoryStarts
  <1>2. DirInv /\ [DirNext]_dirVars => DirInv'
    BY DirectorySteps
  <1>3. DirInv => DirTypeOK
    BY DEF DirInv
  <1> QED
    BY <1>1, <1>2, <1>3, PTL DEF DirSpec

\* The code that a row names is on disk, under the row's id or under the one a
\* recorded rename moves it from, whatever crash, sweep, delete, backup or
\* restore came before (serve.go, uuid_migration.go, gc.go, backup.go).
THEOREM CodeIsKept == DirSpec => []CodeSurvives
  <1>1. DirInit => DirInv
    BY DirectoryStarts
  <1>2. DirInv /\ [DirNext]_dirVars => DirInv'
    BY DirectorySteps
  <1>3. DirInv => CodeSurvives
    BY KnownCodeSurvives
  <1> QED
    BY <1>1, <1>2, <1>3, PTL DEF DirSpec

-----------------------------------------------------------------------------
(* The chat: what its turns and its rows know of each other.               *)

\* The lock is held by the one turn that is past it.
LockKnown ==
  /\ \A q, r \in ChatReqs : turn[q].pc \in Locked /\ turn[r].pc \in Locked => q = r
  /\ convBusy <=> \E r \in ChatReqs : turn[r].pc \in Locked

\* Rows are of a conversation, and a message keeps its number.
ConvKnown == conv = "none" => calls = <<>> /\ \A r \in ChatReqs : turn[r].pc \in {"new", "end"}
MessagesKnown ==
  /\ conv # "live" => messages = <<>>
  /\ \A i \in DOMAIN messages : messages[i].id <= inserted
  /\ \A i, j \in DOMAIN messages : messages[i].id = messages[j].id => i = j

\* Who asked for a call.
AskedBy(c, m) ==
  \E j \in DOMAIN messages : messages[j].id = m /\ messages[j].role = "assistant" /\ c \in Range(messages[j].calls)
Unanswered(c) == \A i \in DOMAIN messages : messages[i].role = "tool" => messages[i].calls # <<c>>

\* A call that waits has not run nor been answered, and one that has not gone
\* with its message is of a message that is there.
CallKnown(c) ==
  /\ calls[c].runs <= 1
  /\ calls[c].gated /\ calls[c].runs > 0 => calls[c].decided = "yes"
  /\ calls[c].st = "pending_approval" => calls[c].runs = 0 /\ Unanswered(c)
  /\ calls[c].st # "gone" => AskedBy(c, calls[c].msg)
CallsKnown == \A c \in DOMAIN calls : CallKnown(c)

\* A result is of a call asked for before it, and the only one of it.
ResultsKnown ==
  /\ \A i \in DOMAIN messages : messages[i].role = "tool" =>
       /\ \E c \in DOMAIN calls : messages[i].calls = <<c>>
       /\ \E j \in 1 .. i - 1 : messages[j].role = "assistant" /\ messages[i].calls[1] \in Range(messages[j].calls)
  /\ \A i, k \in DOMAIN messages :
       messages[i].role = "tool" /\ messages[k].role = "tool" /\ messages[i].calls = messages[k].calls => i = k

\* The call at hand is there, unanswered, and allowed to run.
CallAtHand(r) ==
  /\ turn[r].kind = "resume" /\ turn[r].pc \notin {"new", "end"} => turn[r].call \in DOMAIN calls
  /\ turn[r].pc \in {"decide", "check"} => turn[r].kind = "resume"
  /\ turn[r].pc \in {"run", "dispatch"} =>
       /\ turn[r].call \in DOMAIN calls /\ Unanswered(turn[r].call)
       /\ calls[turn[r].call].gated => calls[turn[r].call].decided = "yes"
       /\ conv = "live" => calls[turn[r].call].st # "gone"
  /\ turn[r].pc = "run" => calls[turn[r].call].runs = 0

\* The history in memory follows the rows from the moment it is loaded.
Mirrors(r) == turn[r].pc \in {"ask", "stream", "process"} \/ (turn[r].pc \in {"run", "dispatch"} /\ After(r) = "process")
HistoryKnown(r) == Mirrors(r) /\ conv = "live" => turn[r].hist = History

\* A stream writes to the last message, and the batch at hand is that of the
\* message it became.
Blank(m) == m.role = "assistant" /\ m.calls = <<>> /\ ~m.text
AnswerKnown(r) ==
  /\ turn[r].pc = "stream" /\ conv = "live" =>
       /\ Len(messages) > 0 /\ messages[Len(messages)].id = turn[r].at /\ Blank(messages[Len(messages)])
  /\ turn[r].pc \notin {"process", "run", "dispatch"} => turn[r].batch = <<>>
  /\ turn[r].iter = 0 => turn[r].batch = <<>>
  /\ turn[r].pc \in {"new", "lock", "build", "cut", "user", "decide", "check"} => turn[r].iter = 0
  /\ turn[r].pc \in {"stream", "process"} \/ (turn[r].pc \in {"run", "dispatch"} /\ turn[r].kind # "resume") => turn[r].iter > 0
  /\ conv = "live" => \A k \in 1 .. Len(turn[r].batch) : AskedBy(Len(calls) + k, turn[r].at)

TurnKnown(r) == CallAtHand(r) /\ HistoryKnown(r) /\ AnswerKnown(r)
TurnsKnown == \A r \in ChatReqs : TurnKnown(r)

\* The rows by themselves, the settings by themselves, and all of it.
RowsKnown == MessagesKnown /\ CallsKnown /\ ResultsKnown
RowsTyped == inserted \in Nat /\ messages \in Seq(ChatMessages) /\ calls \in Seq(ToolCalls)
AsideKnown ==
  /\ gateway \in [open : Nat, dirty : BOOLEAN, rows : Nat] /\ settings \in [policy : Policies, sel : Nat]
  /\ saving \in [Savers -> [on : BOOLEAN, policy : Policies \cup {""}, sel : Nat]]
  /\ \A w \in {"selection", "settings"} : saving[w].on => saving[w].policy \in Policies
  /\ saves \in 0 .. MaxSaves /\ GatewayFresh

ChatInv ==
  /\ conv \in {"none", "live", "gone"} /\ convBusy \in BOOLEAN /\ turn \in [ChatReqs -> Turns]
  /\ RowsTyped /\ AsideKnown /\ LockKnown /\ ConvKnown /\ RowsKnown /\ TurnsKnown

\* A function on an initial segment is a sequence.
LEMMA SegmentIsSeq ==
  ASSUME NEW S, NEW n \in Nat, NEW f \in [1 .. n -> S]
  PROVE  f \in Seq(S) /\ Len(f) = n /\ DOMAIN f = 1 .. n
  OBVIOUS

\* The k-th element of a set of numbers, for every k up to its size.
LEMMA NthElement ==
  ASSUME NEW n \in Nat, NEW S, S \subseteq 1 .. n, NEW k \in 1 .. Cardinality(S)
  PROVE  Nth(S, k) \in S /\ Cardinality({j \in S : j <= Nth(S, k)}) = k
  <1> DEFINE Below(i) == {j \in S : j <= i}
             G == {i \in 0 .. n : Cardinality(Below(i)) >= k}
  <1>0. \A j \in S : j \in Nat /\ 1 <= j /\ j <= n
    OBVIOUS
  <1>1. IsFiniteSet(S) /\ Cardinality(S) \in Nat
    <2>1. IsFiniteSet(1 .. n)
      BY FS_Interval
    <2> QED
      BY <2>1, FS_Subset, FS_CardinalityType
  <1>2. \A i : IsFiniteSet(Below(i)) /\ Cardinality(Below(i)) \in Nat
    <2> SUFFICES ASSUME NEW i PROVE IsFiniteSet(Below(i)) /\ Cardinality(Below(i)) \in Nat
      OBVIOUS
    <2>1. Below(i) \subseteq S
      OBVIOUS
    <2> QED
      BY <1>1, <2>1, FS_Subset, FS_CardinalityType
  <1>3. Below(n) = S
    BY <1>0
  <1>4. n \in G /\ G \subseteq Nat
    BY <1>1, <1>3
  <1>5. PICK i \in G : \A j \in G : i <= j
    BY <1>4, LeastIndex
  <1>6. Below(0) = {}
    <2>1. \A j \in S : ~(j <= 0)
      BY <1>0
    <2> QED
      BY <2>1
  <1>7. i # 0
    <2>1. Cardinality(Below(0)) = 0
      BY <1>6, FS_EmptySet
    <2> QED
      BY <2>1
  <1>8. i \in Nat /\ i <= n /\ i - 1 \in Nat /\ i - 1 <= n /\ i - 1 \notin G
    <2> HIDE DEF G
    <2>1. i \in Nat /\ i <= n
      BY DEF G
    <2>2. i - 1 \in Nat /\ i - 1 <= n /\ ~(i <= i - 1)
      BY <1>7, <2>1
    <2> QED
      BY <1>5, <2>1, <2>2
  <1>9. Cardinality(Below(i - 1)) < k /\ Cardinality(Below(i)) >= k
    <2>1. i - 1 \in 0 .. n
      BY <1>8
    <2> HIDE DEF Below
    <2>2. ~(Cardinality(Below(i - 1)) >= k) /\ Cardinality(Below(i)) >= k
      BY <1>8, <2>1
    <2>3. k \in Nat /\ Cardinality(Below(i - 1)) \in Nat
      BY <1>1, <1>2
    <2> QED
      BY <2>2, <2>3
  <1>10. i \in S
    <2> SUFFICES ASSUME i \notin S PROVE FALSE
      OBVIOUS
    <2>1. \A j \in S : j <= i <=> j <= i - 1
      BY <1>0, <1>8
    <2>2. Below(i) = Below(i - 1)
      BY <2>1
    <2> HIDE DEF Below
    <2>3. k \in Nat /\ Cardinality(Below(i)) \in Nat
      BY <1>1, <1>2
    <2> QED
      BY <1>9, <2>2, <2>3
  <1>11. Below(i) = Below(i - 1) \cup {i} /\ i \notin Below(i - 1)
    <2>1. \A j \in S : j <= i <=> j <= i - 1 \/ j = i
      BY <1>0, <1>8
    <2>2. ~(i <= i - 1)
      BY <1>8
    <2> QED
      BY <1>10, <2>1, <2>2
  <1>12. Cardinality(Below(i)) = Cardinality(Below(i - 1)) + 1
    <2> HIDE DEF Below
    <2> QED
      BY <1>2, <1>11, FS_AddElement
  <1>13. Cardinality(Below(i)) = k
    <2> HIDE DEF Below
    <2>1. k \in Nat
      BY <1>1
    <2>2. Cardinality(Below(i - 1)) \in Nat
      BY <1>2
    <2> QED
      BY <1>9, <1>12, <2>1, <2>2
  <1>14. \E x \in S : Cardinality({j \in S : j <= x}) = k
    BY <1>10, <1>13
  <1> QED
    BY <1>14 DEF Nth

LEMMA NthUnique ==
  ASSUME NEW n \in Nat, NEW S, S \subseteq 1 .. n, NEW a \in S, NEW b \in S,
         Cardinality({j \in S : j <= a}) = Cardinality({j \in S : j <= b})
  PROVE  a = b
  <1>0. \A j \in S : j \in Nat /\ 1 <= j /\ j <= n
    OBVIOUS
  <1>1. IsFiniteSet(S)
    <2>1. IsFiniteSet(1 .. n)
      BY FS_Interval
    <2> QED
      BY <2>1, FS_Subset
  <1>2. ASSUME NEW x \in S, NEW y \in S, x < y
        PROVE  Cardinality({j \in S : j <= x}) < Cardinality({j \in S : j <= y})
    <2> DEFINE X == {j \in S : j <= x}
               Y == {j \in S : j <= y}
    <2>1. x \in Nat /\ y \in Nat
      BY <1>0
    <2>2. X \subseteq Y /\ y \in Y /\ y \notin X
      <3>1. \A j \in S : j <= x => j <= y
        BY <1>0, <1>2, <2>1
      <3>2. y <= y /\ ~(y <= x)
        BY <1>2, <2>1
      <3> QED
        BY <3>1, <3>2
    <2>3. IsFiniteSet(Y)
      BY <1>1, FS_Subset
    <2>4. X # Y
      BY <2>2
    <2> HIDE DEF X, Y
    <2>5. Cardinality(X) < Cardinality(Y)
      <3>1. Cardinality(X) <= Cardinality(Y) /\ (Cardinality(X) = Cardinality(Y) => X = Y)
        BY <2>2, <2>3, FS_Subset
      <3>2. Cardinality(X) \in Nat /\ Cardinality(Y) \in Nat
        BY <2>2, <2>3, FS_Subset, FS_CardinalityType
      <3> QED
        BY <2>4, <3>1, <3>2
    <2> QED
      BY <2>5 DEF X, Y
  <1>3. a \in Nat /\ b \in Nat
    BY <1>0
  <1>4. \A x : Cardinality({j \in S : j <= x}) \in Nat
    BY <1>1, FS_Subset, FS_CardinalityType
  <1>5. CASE a < b
    BY <1>2, <1>4, <1>5
  <1>6. CASE b < a
    BY <1>2, <1>4, <1>6
  <1> QED
    BY <1>3, <1>5, <1>6

\* The k-th element is the only one with k elements up to it.
LEMMA NthIs ==
  ASSUME NEW n \in Nat, NEW S, S \subseteq 1 .. n, NEW a \in S, NEW k \in 1 .. Cardinality(S),
         Cardinality({j \in S : j <= a}) = k
  PROVE  Nth(S, k) = a
  <1>1. Nth(S, k) \in S /\ Cardinality({j \in S : j <= Nth(S, k)}) = k
    BY NthElement
  <1> DEFINE b == Nth(S, k)
  <1>2. b \in S /\ Cardinality({j \in S : j <= a}) = Cardinality({j \in S : j <= b})
    BY <1>1
  <1> HIDE DEF b
  <1>3. a = b
    BY <1>2, NthUnique
  <1> QED
    BY <1>3 DEF b

\* The history has one entry for each message that says something.
LEMMA HistoryType ==
  ASSUME NEW T, NEW s \in Seq(T)
  PROVE  /\ SaidAt(s) \subseteq 1 .. Len(s) /\ IsFiniteSet(SaidAt(s)) /\ Cardinality(SaidAt(s)) \in Nat
         /\ HistoryOf(s) \in Seq(T) /\ Len(HistoryOf(s)) = Cardinality(SaidAt(s))
  <1>1. SaidAt(s) \subseteq 1 .. Len(s) /\ Len(s) \in Nat
    BY DEF SaidAt
  <1>2. IsFiniteSet(1 .. Len(s))
    BY <1>1, FS_Interval
  <1>3. IsFiniteSet(SaidAt(s)) /\ Cardinality(SaidAt(s)) \in Nat
    BY <1>1, <1>2, FS_Subset, FS_CardinalityType
  <1>4. \A k \in 1 .. Cardinality(SaidAt(s)) : Nth(SaidAt(s), k) \in 1 .. Len(s)
    <2> TAKE k \in 1 .. Cardinality(SaidAt(s))
    <2>1. Nth(SaidAt(s), k) \in SaidAt(s)
      BY <1>1, NthElement
    <2> QED
      BY <1>1, <2>1
  <1>5. \A k \in 1 .. Cardinality(SaidAt(s)) : s[Nth(SaidAt(s), k)] \in T
    BY <1>4
  <1>6. HistoryOf(s) \in [1 .. Cardinality(SaidAt(s)) -> T]
    BY <1>5 DEF HistoryOf
  <1>7. HistoryOf(s) \in Seq(T) /\ Len(HistoryOf(s)) = Cardinality(SaidAt(s))
    BY <1>3, <1>6, SegmentIsSeq
  <1> QED
    BY <1>1, <1>3, <1>7

\* A message stored at the end is the last of the history, if it says something.
LEMMA HistoryAppend ==
  ASSUME NEW T, NEW s \in Seq(T), NEW m \in T
  PROVE  HistoryOf(Append(s, m)) = IF Said(m) THEN Append(HistoryOf(s), m) ELSE HistoryOf(s)
  <1> DEFINE u == Append(s, m)
             n == Len(s)
             S == SaidAt(s)
             U == SaidAt(u)
             c == Cardinality(S)
  <1>1. n \in Nat /\ u \in Seq(T) /\ Len(u) = n + 1 /\ u[n + 1] = m /\ \A i \in 1 .. n : u[i] = s[i]
    OBVIOUS
  <1>2. /\ S \subseteq 1 .. n /\ IsFiniteSet(S) /\ c \in Nat
        /\ HistoryOf(s) \in Seq(T) /\ Len(HistoryOf(s)) = c
    BY HistoryType
  <1>3. U = IF Said(m) THEN S \cup {n + 1} ELSE S
    <2>1. DOMAIN u = (DOMAIN s) \cup {n + 1} /\ DOMAIN s = 1 .. n
      BY <1>1
    <2>2. \A i \in DOMAIN s : i \in S <=> i \in U
      BY <1>1, <2>1 DEF SaidAt
    <2>3. n + 1 \in U <=> Said(m)
      BY <1>1, <2>1 DEF SaidAt
    <2>4. S \subseteq DOMAIN s /\ U \subseteq DOMAIN u /\ n + 1 \notin DOMAIN s
      BY <1>1, <2>1 DEF SaidAt
    <2> HIDE DEF u, n, S, U
    <2> QED
      BY <2>1, <2>2, <2>3, <2>4
  <1>4. CASE ~Said(m)
    <2>1. U = S
      BY <1>3, <1>4
    <2>2. \A k \in 1 .. c : u[Nth(S, k)] = s[Nth(S, k)]
      <3> TAKE k \in 1 .. c
      <3>1. Nth(S, k) \in S
        BY <1>1, <1>2, NthElement
      <3>2. Nth(S, k) \in 1 .. n
        BY <1>2, <3>1
      <3> QED
        BY <1>1, <3>2
    <2>3. HistoryOf(u) = [k \in 1 .. c |-> u[Nth(S, k)]]
      BY <2>1 DEF HistoryOf
    <2>4. HistoryOf(s) = [k \in 1 .. c |-> s[Nth(S, k)]]
      BY DEF HistoryOf
    <2>5. HistoryOf(u) = HistoryOf(s)
      BY <2>2, <2>3, <2>4
    <2> QED
      BY <1>4, <2>5
  <1>5. CASE Said(m)
    <2>1. U = S \cup {n + 1} /\ n + 1 \notin S
      <3>1. n + 1 \notin 1 .. n
        BY <1>1
      <3> QED
        BY <1>2, <1>3, <1>5, <3>1
    <2>2. Cardinality(U) = c + 1
      BY <1>2, <2>1, FS_AddElement
    <2>3. U \subseteq 1 .. n + 1 /\ n + 1 \in Nat
      <3>1. \A j \in S : j \in 1 .. n + 1
        BY <1>1, <1>2
      <3>2. n + 1 \in 1 .. n + 1
        BY <1>1
      <3> QED
        BY <1>1, <2>1, <3>1, <3>2
    <2>4. \A k \in 1 .. c : Nth(U, k) = Nth(S, k) /\ Nth(S, k) \in 1 .. n
      <3> TAKE k \in 1 .. c
      <3>1. Nth(S, k) \in S /\ Cardinality({j \in S : j <= Nth(S, k)}) = k
        BY <1>1, <1>2, NthElement
      <3>2. Nth(S, k) \in 1 .. n /\ ~(n + 1 <= Nth(S, k))
        BY <1>1, <1>2, <3>1
      <3>3. {j \in U : j <= Nth(S, k)} = {j \in S : j <= Nth(S, k)}
        BY <2>1, <3>2
      <3>4. Nth(S, k) \in U /\ k \in 1 .. Cardinality(U)
        BY <1>2, <2>1, <2>2, <3>1
      <3> HIDE DEF S, U, n, c
      <3>5. Nth(U, k) = Nth(S, k)
        BY <2>3, <3>1, <3>3, <3>4, NthIs
      <3> QED
        BY <3>2, <3>5
    <2>5. Nth(U, c + 1) = n + 1
      <3>1. \A j \in U : j <= n + 1
        BY <1>1, <2>3
      <3>2. {j \in U : j <= n + 1} = U
        BY <3>1
      <3>3. n + 1 \in U /\ c + 1 \in 1 .. Cardinality(U)
        BY <1>2, <2>1, <2>2
      <3> HIDE DEF S, U, n, c
      <3> QED
        BY <2>2, <2>3, <3>2, <3>3, NthIs
    <2>6. HistoryOf(u) = [k \in 1 .. c + 1 |-> u[Nth(U, k)]]
      BY <2>2 DEF HistoryOf
    <2>7. HistoryOf(s) = [k \in 1 .. c |-> s[Nth(S, k)]]
      BY DEF HistoryOf
    <2>8. \A k \in 1 .. c + 1 : u[Nth(U, k)] = IF k = c + 1 THEN m ELSE HistoryOf(s)[k]
      <3> TAKE k \in 1 .. c + 1
      <3>1. CASE k = c + 1
        BY <1>1, <2>5, <3>1
      <3>2. CASE k # c + 1
        <4>1. k \in 1 .. c
          BY <1>2, <3>2
        <4>2. HistoryOf(s)[k] = s[Nth(S, k)]
          BY <2>7, <4>1
        <4>3. u[Nth(U, k)] = s[Nth(S, k)]
          BY <1>1, <2>4, <4>1
        <4> QED
          BY <3>2, <4>2, <4>3
      <3> QED
        BY <3>1, <3>2
    <2>9. HistoryOf(u) \in Seq(T) /\ Len(HistoryOf(u)) = c + 1
      BY <1>1, <2>2, HistoryType
    <2>10. HistoryOf(u) = Append(HistoryOf(s), m)
      <3> DEFINE h == HistoryOf(s)
                 g == HistoryOf(u)
      <3>1. h \in Seq(T) /\ Len(h) = c /\ c \in Nat
        BY <1>2
      <3>2. \A k \in 1 .. c + 1 : g[k] = IF k = c + 1 THEN m ELSE h[k]
        BY <2>6, <2>8
      <3> HIDE DEF u, n, S, U, c, h, g
      <3>3. /\ Append(h, m) \in Seq(T) /\ Len(Append(h, m)) = c + 1
            /\ \A k \in 1 .. c + 1 : Append(h, m)[k] = IF k = c + 1 THEN m ELSE h[k]
        BY <3>1
      <3>4. g \in Seq(T) /\ Len(g) = c + 1
        BY <2>9 DEF g
      <3>5. g = Append(h, m)
        BY <3>2, <3>3, <3>4, SeqEqual
      <3> QED
        BY <3>5 DEF g, h
    <2> HIDE DEF u
    <2> QED
      BY <1>5, <2>10 DEF u
  <1> QED
    BY <1>4, <1>5

\* A turn that is moved is the only one.
LEMMA TurnSet ==
  ASSUME turn \in [ChatReqs -> Turns], NEW r \in ChatReqs, NEW t \in Turns, turn' = [turn EXCEPT ![r] = t]
  PROVE  /\ turn' \in [ChatReqs -> Turns] /\ turn'[r] = t
         /\ \A q \in ChatReqs : q # r => turn'[q] = turn[q]
  OBVIOUS

\* A turn that neither follows the rows nor has a call at hand knows little.
LEMMA PlainTurn ==
  ASSUME NEW r \in ChatReqs, turn'[r] \in Turns,
         turn'[r].pc \notin {"ask", "stream", "process", "run", "dispatch"}, turn'[r].batch = <<>>,
         turn'[r].pc \in {"new", "lock", "build", "cut", "user", "decide", "check"} => turn'[r].iter = 0,
         turn'[r].pc \in {"decide", "check"} => turn'[r].kind = "resume",
         turn'[r].kind = "resume" /\ turn'[r].pc \notin {"new", "end"} => turn'[r].call \in DOMAIN calls'
  PROVE  TurnKnown(r)'
  <1>1. CallAtHand(r)'
    BY DEF CallAtHand
  <1>2. HistoryKnown(r)'
    BY DEF HistoryKnown, Mirrors
  <1>3. AnswerKnown(r)'
    <2>1. \A k \in 1 .. Len(turn'[r].batch) : FALSE
      OBVIOUS
    <2> QED
      BY <2>1 DEF AnswerKnown
  <1> QED
    BY <1>1, <1>2, <1>3 DEF TurnKnown

\* A turn without the lock minds only that its call stays.
LEMMA OthersKnown ==
  ASSUME NEW r \in ChatReqs, turn[r] \in Turns, turn'[r] = turn[r], turn[r].pc \notin Locked, TurnKnown(r),
         DOMAIN calls \subseteq DOMAIN calls'
  PROVE  TurnKnown(r)'
  <1>1. turn[r].pc \in {"new", "lock", "end"}
    BY DEF Turns
  <1>2. turn[r].batch = <<>> /\ (turn[r].pc \in {"new", "lock"} => turn[r].iter = 0)
    BY <1>1 DEF TurnKnown, AnswerKnown
  <1>3. turn[r].kind = "resume" /\ turn[r].pc \notin {"new", "end"} => turn[r].call \in DOMAIN calls
    BY DEF TurnKnown, CallAtHand
  <1> QED
    BY <1>1, <1>2, <1>3, PlainTurn

\* What a turn knows is of its own and of the rows.
LEMMA TurnStays ==
  ASSUME NEW r \in ChatReqs, turn'[r] = turn[r], UNCHANGED rowsOfChat, TurnKnown(r)
  PROVE  TurnKnown(r)'
  BY DEF rowsOfChat, TurnKnown, CallAtHand, HistoryKnown, Mirrors, After, AnswerKnown, History, Unanswered, AskedBy, HistoryOf, SaidAt

LEMMA RowsStay ==
  ASSUME RowsTyped, RowsKnown, UNCHANGED rowsOfChat
  PROVE  RowsTyped' /\ RowsKnown' /\ DOMAIN calls \subseteq DOMAIN calls'
  <1>1. RowsTyped' /\ DOMAIN calls \subseteq DOMAIN calls'
    BY DEF rowsOfChat, RowsTyped
  <1>2. MessagesKnown' /\ CallsKnown' /\ ResultsKnown'
    BY DEF rowsOfChat, RowsKnown, MessagesKnown, CallsKnown, CallKnown, ResultsKnown, Unanswered, AskedBy
  <1> QED
    BY <1>1, <1>2 DEF RowsKnown

LEMMA AsideStays ==
  ASSUME AsideKnown, UNCHANGED aside
  PROVE  AsideKnown'
  BY DEF aside, AsideKnown, GatewayFresh

LEMMA LockStays ==
  ASSUME LockKnown, convBusy' = convBusy, \A q \in ChatReqs : turn'[q].pc \in Locked <=> turn[q].pc \in Locked
  PROVE  LockKnown'
  BY DEF LockKnown

\* A step of the turn that has the lock and keeps it.
LEMMA HolderSteps ==
  ASSUME ChatInv, NEW r \in ChatReqs, turn[r].pc \in Locked, NEW t \in Turns, t.pc \in Locked,
         turn' = [turn EXCEPT ![r] = t], UNCHANGED <<conv, convBusy>>,
         RowsTyped', RowsKnown', DOMAIN calls \subseteq DOMAIN calls', AsideKnown', TurnKnown(r)'
  PROVE  ChatInv'
  <1>0. turn \in [ChatReqs -> Turns] /\ LockKnown /\ ConvKnown /\ TurnsKnown
    BY DEF ChatInv
  <1>1. turn' \in [ChatReqs -> Turns] /\ turn'[r] = t /\ \A q \in ChatReqs : q # r => turn'[q] = turn[q]
    BY <1>0, TurnSet
  <1>2. LockKnown'
    <2>1. \A q \in ChatReqs : turn'[q].pc \in Locked <=> turn[q].pc \in Locked
      BY <1>1
    <2> QED
      BY <1>0, <2>1, LockStays
  <1>3. conv # "none"
    BY <1>0 DEF ConvKnown, Locked
  <1>4. ASSUME NEW q \in ChatReqs PROVE TurnKnown(q)'
    <2>1. CASE q = r
      BY <2>1
    <2>2. CASE q # r
      <3>1. turn[q].pc \notin Locked
        BY <1>0, <2>2 DEF LockKnown
      <3>2. turn'[q] = turn[q] /\ turn[q] \in Turns /\ TurnKnown(q)
        BY <1>0, <1>1, <2>2 DEF TurnsKnown
      <3> QED
        BY <3>1, <3>2, OthersKnown
    <2> QED
      BY <2>1, <2>2
  <1>5. TurnsKnown' /\ ConvKnown'
    BY <1>3, <1>4 DEF TurnsKnown, ConvKnown
  <1> QED
    BY <1>1, <1>2, <1>5 DEF ChatInv

\* A message stored at the end takes the next number.
LEMMA Stored ==
  ASSUME RowsTyped, RowsKnown, conv = "live", NEW m \in ChatMessages, m.id = inserted + 1,
         conv' = conv, inserted' = inserted + 1, messages' = Append(messages, m)
  PROVE  /\ messages' \in Seq(ChatMessages) /\ inserted' \in Nat /\ MessagesKnown'
         /\ Len(messages) \in Nat /\ Len(messages') = Len(messages) + 1 /\ messages'[Len(messages) + 1] = m
         /\ DOMAIN messages' = DOMAIN messages \cup {Len(messages) + 1} /\ Len(messages) + 1 \notin DOMAIN messages
         /\ DOMAIN messages = 1 .. Len(messages)
         /\ \A i \in DOMAIN messages : messages'[i] = messages[i] /\ messages[i] \in ChatMessages
  <1>1. messages \in Seq(ChatMessages) /\ inserted \in Nat
    BY DEF RowsTyped
  <1>2. /\ messages' \in Seq(ChatMessages) /\ inserted' \in Nat
        /\ Len(messages) \in Nat /\ Len(messages') = Len(messages) + 1 /\ messages'[Len(messages) + 1] = m
        /\ DOMAIN messages' = DOMAIN messages \cup {Len(messages) + 1} /\ Len(messages) + 1 \notin DOMAIN messages
        /\ DOMAIN messages = 1 .. Len(messages)
        /\ \A i \in DOMAIN messages : messages'[i] = messages[i] /\ messages[i] \in ChatMessages
    BY <1>1
  <1>3. \A i \in DOMAIN messages : messages[i].id \in Nat /\ messages[i].id <= inserted
    BY <1>2 DEF RowsKnown, MessagesKnown, ChatMessages
  <1>4. \A i \in DOMAIN messages' : messages'[i].id <= inserted'
    BY <1>1, <1>2, <1>3
  <1>5. \A i \in DOMAIN messages : messages'[i].id # m.id
    BY <1>1, <1>2, <1>3
  <1>6. \A i, j \in DOMAIN messages : messages[i].id = messages[j].id => i = j
    BY DEF RowsKnown, MessagesKnown
  <1>7. \A i, j \in DOMAIN messages' : messages'[i].id = messages'[j].id => i = j
    BY <1>2, <1>5, <1>6
  <1>8. MessagesKnown'
    BY <1>4, <1>7 DEF MessagesKnown
  <1> QED
    BY <1>2, <1>8

\* A message that is no result is stored at the end.
LEMMA SaidMore ==
  ASSUME RowsTyped, RowsKnown, conv = "live", NEW m \in ChatMessages, m.id = inserted + 1, m.role # "tool",
         UNCHANGED <<conv, calls>>, inserted' = inserted + 1, messages' = Append(messages, m)
  PROVE  RowsTyped' /\ RowsKnown'
  <1>1. /\ messages' \in Seq(ChatMessages) /\ inserted' \in Nat /\ MessagesKnown'
        /\ Len(messages) \in Nat /\ Len(messages') = Len(messages) + 1 /\ messages'[Len(messages) + 1] = m
        /\ DOMAIN messages' = DOMAIN messages \cup {Len(messages) + 1} /\ Len(messages) + 1 \notin DOMAIN messages
        /\ DOMAIN messages = 1 .. Len(messages)
        /\ \A i \in DOMAIN messages : messages'[i] = messages[i] /\ messages[i] \in ChatMessages
    BY Stored
  <1>2. RowsTyped'
    BY <1>1 DEF RowsTyped
  <1>3. \A i \in DOMAIN messages' : messages'[i].role = "tool" => i \in DOMAIN messages
    BY <1>1
  <1>4. CallsKnown'
    <2> SUFFICES ASSUME NEW c \in DOMAIN calls PROVE CallKnown(c)'
      BY DEF CallsKnown
    <2>1. /\ calls[c].runs <= 1
          /\ calls[c].gated /\ calls[c].runs > 0 => calls[c].decided = "yes"
          /\ calls[c].st = "pending_approval" => calls[c].runs = 0 /\ Unanswered(c)
          /\ calls[c].st # "gone" => AskedBy(c, calls[c].msg)
      BY DEF RowsKnown, CallsKnown, CallKnown
    <2>2. Unanswered(c) => Unanswered(c)'
      BY <1>1, <1>3 DEF Unanswered
    <2>3. AskedBy(c, calls[c].msg) => AskedBy(c, calls[c].msg)'
      BY <1>1 DEF AskedBy
    <2> QED
      BY <2>1, <2>2, <2>3 DEF CallKnown
  <1>5. ResultsKnown'
    <2>1. ASSUME NEW i \in DOMAIN messages', messages'[i].role = "tool"
          PROVE  /\ \E c \in DOMAIN calls' : messages'[i].calls = <<c>>
                 /\ \E j \in 1 .. i - 1 : messages'[j].role = "assistant" /\ messages'[i].calls[1] \in Range(messages'[j].calls)
      <3>1. i \in DOMAIN messages /\ messages'[i] = messages[i]
        BY <1>1, <1>3, <2>1
      <3>2. \E c \in DOMAIN calls : messages[i].calls = <<c>>
        BY <2>1, <3>1 DEF RowsKnown, ResultsKnown
      <3>3. PICK j \in 1 .. i - 1 : messages[j].role = "assistant" /\ messages[i].calls[1] \in Range(messages[j].calls)
        BY <2>1, <3>1 DEF RowsKnown, ResultsKnown
      <3>4. j \in DOMAIN messages
        BY <1>1, <3>1, <3>3
      <3>5. messages'[j] = messages[j]
        BY <1>1, <3>4
      <3> QED
        BY <3>1, <3>2, <3>3, <3>5
    <2>2. \A i, k \in DOMAIN messages' :
            messages'[i].role = "tool" /\ messages'[k].role = "tool" /\ messages'[i].calls = messages'[k].calls => i = k
      BY <1>1, <1>3 DEF RowsKnown, ResultsKnown
    <2> QED
      BY <2>1, <2>2 DEF ResultsKnown
  <1> QED
    BY <1>1, <1>2, <1>4, <1>5 DEF RowsKnown

\* A call that moves on is no longer one that waits; its result, if there is
\* one, is the first and follows the message that asked for it.
MayMove(c, row) ==
  /\ row.msg = calls[c].msg /\ row.gated = calls[c].gated /\ row.runs <= 1
  /\ row.gated /\ row.runs > 0 => row.decided = "yes"
  /\ row.st # "pending_approval" /\ (row.st # "gone" => calls[c].st # "gone")

LEMMA CallSet ==
  ASSUME RowsTyped, NEW c \in DOMAIN calls, NEW row \in ToolCalls, calls' = [calls EXCEPT ![c] = row]
  PROVE  /\ calls' \in Seq(ToolCalls) /\ DOMAIN calls' = DOMAIN calls /\ Len(calls') = Len(calls) /\ calls'[c] = row
         /\ \A d \in DOMAIN calls : d # c => calls'[d] = calls[d]
  BY DEF RowsTyped

LEMMA CallMoves ==
  ASSUME RowsTyped, RowsKnown, NEW c \in DOMAIN calls, NEW row \in ToolCalls, MayMove(c, row),
         calls' = [calls EXCEPT ![c] = row], UNCHANGED <<conv, messages, inserted>>
  PROVE  RowsTyped' /\ RowsKnown' /\ DOMAIN calls' = DOMAIN calls
  <1>1. /\ calls' \in Seq(ToolCalls) /\ DOMAIN calls' = DOMAIN calls /\ calls'[c] = row
        /\ \A d \in DOMAIN calls : d # c => calls'[d] = calls[d]
    BY CallSet
  <1>2. RowsTyped'
    BY <1>1 DEF RowsTyped
  <1>3. MessagesKnown' /\ ResultsKnown'
    BY <1>1 DEF RowsKnown, MessagesKnown, ResultsKnown
  <1>4. CallsKnown'
    <2>1. CallsKnown /\ (calls[c].st # "gone" => AskedBy(c, calls[c].msg))
      BY DEF RowsKnown, CallsKnown, CallKnown
    <2>2. ASSUME NEW d \in DOMAIN calls'
          PROVE  CallKnown(d)'
      <3>1. CASE d = c
        <4>1. calls[c].st # "gone" => AskedBy(c, calls[c].msg)'
          BY <1>1, <2>1 DEF MayMove, AskedBy
        <4> QED
          BY <1>1, <3>1, <4>1 DEF MayMove, CallKnown
      <3>2. CASE d # c
        <4>1. CallKnown(d) /\ calls'[d] = calls[d]
          BY <1>1, <2>1, <3>2 DEF CallsKnown
        <4> QED
          BY <4>1 DEF CallKnown, Unanswered, AskedBy
      <3> QED
        BY <3>1, <3>2
    <2> QED
      BY <2>2 DEF CallsKnown
  <1> QED
    BY <1>1, <1>2, <1>3, <1>4 DEF RowsKnown

LEMMA CallAnswered ==
  ASSUME RowsTyped, RowsKnown, conv = "live", NEW c \in DOMAIN calls, NEW row \in ToolCalls, MayMove(c, row),
         calls[c].st # "gone", Unanswered(c), conv' = conv, calls' = [calls EXCEPT ![c] = row],
         inserted' = inserted + 1, messages' = Append(messages, ToolMessage(c))
  PROVE  RowsTyped' /\ RowsKnown' /\ DOMAIN calls' = DOMAIN calls /\ ToolMessage(c) \in ChatMessages
  <1> DEFINE m == ToolMessage(c)
  <1>1. m \in ChatMessages /\ m.id = inserted + 1 /\ m.role = "tool" /\ m.calls = <<c>>
    BY DEF ToolMessage, ChatMessages, RowsTyped
  <1> HIDE DEF m
  <1>2. /\ messages' \in Seq(ChatMessages) /\ inserted' \in Nat /\ MessagesKnown'
        /\ Len(messages) \in Nat /\ Len(messages') = Len(messages) + 1 /\ messages'[Len(messages) + 1] = m
        /\ DOMAIN messages' = DOMAIN messages \cup {Len(messages) + 1} /\ Len(messages) + 1 \notin DOMAIN messages
        /\ DOMAIN messages = 1 .. Len(messages)
        /\ \A i \in DOMAIN messages : messages'[i] = messages[i] /\ messages[i] \in ChatMessages
    <2>1. messages' = Append(messages, m)
      BY DEF m
    <2> QED
      BY <1>1, <2>1, Stored
  <1>3. /\ calls' \in Seq(ToolCalls) /\ DOMAIN calls' = DOMAIN calls /\ calls'[c] = row
        /\ \A d \in DOMAIN calls : d # c => calls'[d] = calls[d]
    BY CallSet
  <1>4. RowsTyped'
    BY <1>2, <1>3 DEF RowsTyped
  <1>5. CallsKnown /\ ResultsKnown
    BY DEF RowsKnown
  <1>6. \A d : d # c /\ Unanswered(d) => Unanswered(d)'
    <2> SUFFICES ASSUME NEW d, d # c, Unanswered(d), NEW i \in DOMAIN messages', messages'[i].role = "tool"
                 PROVE  messages'[i].calls # <<d>>
      BY DEF Unanswered
    <2>1. CASE i \in DOMAIN messages
      BY <1>2, <2>1 DEF Unanswered
    <2>2. CASE i = Len(messages) + 1
      <3>1. <<c>> # <<d>>
        OBVIOUS
      <3> QED
        BY <1>1, <1>2, <2>2, <3>1
    <2> QED
      BY <1>2, <2>1, <2>2
  <1>7. CallsKnown'
    <2>1. ASSUME NEW d \in DOMAIN calls'
          PROVE  CallKnown(d)'
      <3>1. CASE d = c
        <4>1. AskedBy(c, calls[c].msg)
          BY <1>5 DEF CallsKnown, CallKnown
        <4>2. AskedBy(c, calls[c].msg)'
          BY <1>2, <1>3, <4>1 DEF MayMove, AskedBy
        <4> QED
          BY <1>3, <3>1, <4>2 DEF MayMove, CallKnown
      <3>2. CASE d # c
        <4>1. CallKnown(d) /\ calls'[d] = calls[d]
          BY <1>3, <1>5, <3>2 DEF CallsKnown
        <4>2. AskedBy(d, calls[d].msg) => AskedBy(d, calls[d].msg)'
          BY <1>2, <4>1 DEF AskedBy
        <4>3. Unanswered(d) => Unanswered(d)'
          BY <1>6, <3>2
        <4> QED
          BY <4>1, <4>2, <4>3 DEF CallKnown
      <3> QED
        BY <3>1, <3>2
    <2> QED
      BY <2>1 DEF CallsKnown
  <1>8. ResultsKnown'
    <2>1. ASSUME NEW i \in DOMAIN messages', messages'[i].role = "tool"
          PROVE  /\ \E d \in DOMAIN calls' : messages'[i].calls = <<d>>
                 /\ \E j \in 1 .. i - 1 : messages'[j].role = "assistant" /\ messages'[i].calls[1] \in Range(messages'[j].calls)
      <3>1. CASE i \in DOMAIN messages
        <4>1. messages'[i] = messages[i]
          BY <1>2, <3>1
        <4>2. \E d \in DOMAIN calls : messages[i].calls = <<d>>
          BY <1>5, <2>1, <3>1, <4>1 DEF ResultsKnown
        <4>3. PICK j \in 1 .. i - 1 : messages[j].role = "assistant" /\ messages[i].calls[1] \in Range(messages[j].calls)
          BY <1>5, <2>1, <3>1, <4>1 DEF ResultsKnown
        <4>4. j \in DOMAIN messages
          BY <1>2, <3>1, <4>3
        <4>5. messages'[j] = messages[j]
          BY <1>2, <4>4
        <4> QED
          BY <1>3, <4>1, <4>2, <4>3, <4>5
      <3>2. CASE i = Len(messages) + 1
        <4>1. messages'[i].calls = <<c>> /\ messages'[i].calls[1] = c
          BY <1>1, <1>2, <3>2
        <4>2. PICK j \in DOMAIN messages : messages[j].role = "assistant" /\ c \in Range(messages[j].calls)
          BY <1>5 DEF CallsKnown, CallKnown, AskedBy
        <4>3. j \in 1 .. i - 1 /\ messages'[j] = messages[j]
          BY <1>2, <3>2, <4>2
        <4> QED
          BY <1>3, <4>1, <4>2, <4>3
      <3> QED
        BY <1>2, <3>1, <3>2
    <2>2. ASSUME NEW i \in DOMAIN messages', NEW k \in DOMAIN messages',
                 messages'[i].role = "tool", messages'[k].role = "tool", messages'[i].calls = messages'[k].calls
          PROVE  i = k
      <3>1. \A x \in DOMAIN messages : messages'[x].role = "tool" => messages'[x].calls # <<c>>
        BY <1>2 DEF Unanswered
      <3>2. CASE i \in DOMAIN messages /\ k \in DOMAIN messages
        BY <1>2, <1>5, <2>2, <3>2 DEF ResultsKnown
      <3> QED
        BY <1>1, <1>2, <2>2, <3>1, <3>2
    <2> QED
      BY <2>1, <2>2 DEF ResultsKnown
  <1> QED
    BY <1>1, <1>2, <1>3, <1>4, <1>7, <1>8 DEF RowsKnown, m

\* The rows of the calls whose messages went.
LEMMA GoneCalls ==
  ASSUME RowsTyped, NEW S, calls' = Gone(S)
  PROVE  /\ calls' \in Seq(ToolCalls) /\ DOMAIN calls' = DOMAIN calls
         /\ \A c \in DOMAIN calls : calls'[c] = IF calls[c].msg \in S THEN [calls[c] EXCEPT !.st = "gone"] ELSE calls[c]
  <1>1. calls \in Seq(ToolCalls) /\ Len(calls) \in Nat /\ DOMAIN calls = 1 .. Len(calls)
    BY DEF RowsTyped
  <1>2. \A c \in DOMAIN calls : calls[c] \in ToolCalls /\ [calls[c] EXCEPT !.st = "gone"] \in ToolCalls
    <2> TAKE c \in DOMAIN calls
    <2>1. PICK x \in ToolCalls : x = calls[c]
      BY <1>1
    <2>2. [x EXCEPT !.st = "gone"] \in ToolCalls
      BY DEF ToolCalls, Statuses
    <2> QED
      BY <2>1, <2>2
  <1>3. calls' \in [1 .. Len(calls) -> ToolCalls]
    BY <1>1, <1>2 DEF Gone
  <1>4. calls' \in Seq(ToolCalls) /\ DOMAIN calls' = 1 .. Len(calls)
    BY <1>1, <1>3, SegmentIsSeq
  <1> QED
    BY <1>1, <1>4 DEF Gone

\* The messages from i on are deleted, with the calls they asked for.
LEMMA Truncated ==
  ASSUME RowsTyped, RowsKnown, NEW i \in DOMAIN messages, DeleteMessagesFromSeq(i), UNCHANGED <<conv, inserted>>
  PROVE  RowsTyped' /\ RowsKnown' /\ DOMAIN calls' = DOMAIN calls
  <1> DEFINE S == MsgIds(SubSeq(messages, i, Len(messages)))
             n == Len(messages)
  <1>1. messages \in Seq(ChatMessages) /\ n \in Nat /\ DOMAIN messages = 1 .. n /\ i \in 1 .. n
    BY DEF RowsTyped
  <1>2. /\ messages' \in Seq(ChatMessages) /\ DOMAIN messages' = 1 .. i - 1
        /\ \A k \in 1 .. i - 1 : messages'[k] = messages[k] /\ k \in 1 .. n
    <2>1. messages' = SubSeq(messages, 1, i - 1)
      BY DEF DeleteMessagesFromSeq
    <2> QED
      BY <1>1, <2>1
  <1>3. \A k \in i .. n : messages[k].id \in S
    <2> TAKE k \in i .. n
    <2> DEFINE s == SubSeq(messages, i, n)
    <2>1. s \in Seq(ChatMessages) /\ Len(s) = n - i + 1 /\ \A y \in 1 .. n - i + 1 : s[y] = messages[i + y - 1]
      BY <1>1
    <2> DEFINE x == k - i + 1
    <2>2. x \in 1 .. n - i + 1 /\ i + x - 1 = k
      BY <1>1
    <2>3. x \in DOMAIN s
      BY <2>1, <2>2
    <2> HIDE DEF s, x
    <2>4. s[x] = messages[k]
      BY <2>1, <2>2
    <2>5. messages[k] \in Range(s)
      BY <2>3, <2>4 DEF Range
    <2> QED
      BY <2>5 DEF MsgIds, s
  <1>4. /\ calls' \in Seq(ToolCalls) /\ DOMAIN calls' = DOMAIN calls
        /\ \A c \in DOMAIN calls : calls'[c] = IF calls[c].msg \in S THEN [calls[c] EXCEPT !.st = "gone"] ELSE calls[c]
    <2>1. calls' = Gone(S)
      BY DEF DeleteMessagesFromSeq
    <2> QED
      BY <2>1, GoneCalls
  <1>5. RowsTyped'
    BY <1>2, <1>4 DEF RowsTyped
  <1>6. MessagesKnown'
    <2>1. conv # "live" => FALSE
      BY <1>1 DEF RowsKnown, MessagesKnown
    <2>2. \A k \in DOMAIN messages' : messages'[k].id <= inserted'
      BY <1>1, <1>2 DEF RowsKnown, MessagesKnown
    <2>3. \A k, j \in DOMAIN messages' : messages'[k].id = messages'[j].id => k = j
      BY <1>1, <1>2 DEF RowsKnown, MessagesKnown
    <2> QED
      BY <2>1, <2>2, <2>3 DEF MessagesKnown
  <1>7. CallsKnown'
    <2> SUFFICES ASSUME NEW c \in DOMAIN calls PROVE CallKnown(c)'
      BY <1>4 DEF CallsKnown
    <2>1. CallKnown(c)
      BY DEF RowsKnown, CallsKnown
    <2>2. calls[c] \in ToolCalls
      BY DEF RowsTyped
    <2>3. Unanswered(c) => Unanswered(c)'
      BY <1>1, <1>2 DEF Unanswered
    <2>4. CASE calls[c].msg \in S
      <3>1. calls'[c] = [calls[c] EXCEPT !.st = "gone"]
        BY <1>4, <2>4
      <3>2. /\ calls'[c].st = "gone" /\ calls'[c].runs = calls[c].runs /\ calls'[c].gated = calls[c].gated
            /\ calls'[c].decided = calls[c].decided
        BY <2>2, <3>1 DEF ToolCalls
      <3> QED
        BY <2>1, <3>2 DEF CallKnown
    <2>5. CASE calls[c].msg \notin S
      <3>1. calls'[c] = calls[c]
        BY <1>4, <2>5
      <3>2. ASSUME AskedBy(c, calls[c].msg) PROVE AskedBy(c, calls[c].msg)'
        <4>1. PICK j \in DOMAIN messages :
                messages[j].id = calls[c].msg /\ messages[j].role = "assistant" /\ c \in Range(messages[j].calls)
          BY <3>2 DEF AskedBy
        <4>2. j \notin i .. n
          BY <1>3, <2>5, <4>1
        <4>3. j \in 1 .. i - 1
          BY <1>1, <4>1, <4>2
        <4> QED
          BY <1>2, <3>1, <4>1, <4>3 DEF AskedBy
      <3> QED
        BY <2>1, <2>3, <3>1, <3>2 DEF CallKnown
    <2> QED
      BY <2>4, <2>5
  <1>8. ResultsKnown'
    <2>1. ASSUME NEW k \in DOMAIN messages', messages'[k].role = "tool"
          PROVE  /\ \E c \in DOMAIN calls' : messages'[k].calls = <<c>>
                 /\ \E j \in 1 .. k - 1 : messages'[j].role = "assistant" /\ messages'[k].calls[1] \in Range(messages'[j].calls)
      <3>1. k \in DOMAIN messages /\ messages'[k] = messages[k] /\ k \in 1 .. i - 1
        BY <1>1, <1>2
      <3>2. \E c \in DOMAIN calls : messages[k].calls = <<c>>
        BY <2>1, <3>1 DEF RowsKnown, ResultsKnown
      <3>3. PICK j \in 1 .. k - 1 : messages[j].role = "assistant" /\ messages[k].calls[1] \in Range(messages[j].calls)
        BY <2>1, <3>1 DEF RowsKnown, ResultsKnown
      <3>4. j \in 1 .. i - 1
        BY <1>1, <3>1, <3>3
      <3>5. messages'[j] = messages[j]
        BY <1>2, <3>4
      <3> QED
        BY <1>4, <3>1, <3>2, <3>3, <3>5
    <2>2. \A x, k \in DOMAIN messages' :
            messages'[x].role = "tool" /\ messages'[k].role = "tool" /\ messages'[x].calls = messages'[k].calls => x = k
      BY <1>1, <1>2 DEF RowsKnown, ResultsKnown
    <2> QED
      BY <2>1, <2>2 DEF ResultsKnown
  <1> QED
    BY <1>4, <1>5, <1>6, <1>7, <1>8 DEF RowsKnown

\* The whole conversation is deleted.
LEMMA AllTruncated ==
  ASSUME RowsTyped, RowsKnown, DeleteConversation
  PROVE  RowsTyped' /\ RowsKnown' /\ DOMAIN calls' = DOMAIN calls
  <1>1. calls \in Seq(ToolCalls) /\ Len(calls) \in Nat /\ DOMAIN calls = 1 .. Len(calls)
    BY DEF RowsTyped
  <1>2. \A c \in DOMAIN calls :
          /\ [calls[c] EXCEPT !.st = "gone"] \in ToolCalls /\ [calls[c] EXCEPT !.st = "gone"].st = "gone"
          /\ [calls[c] EXCEPT !.st = "gone"].runs = calls[c].runs /\ [calls[c] EXCEPT !.st = "gone"].gated = calls[c].gated
          /\ [calls[c] EXCEPT !.st = "gone"].decided = calls[c].decided
    <2> TAKE c \in DOMAIN calls
    <2>1. PICK x \in ToolCalls : x = calls[c]
      BY <1>1
    <2>2. /\ [x EXCEPT !.st = "gone"] \in ToolCalls /\ [x EXCEPT !.st = "gone"].st = "gone"
          /\ [x EXCEPT !.st = "gone"].runs = x.runs /\ [x EXCEPT !.st = "gone"].gated = x.gated
          /\ [x EXCEPT !.st = "gone"].decided = x.decided
      BY DEF ToolCalls, Statuses
    <2> QED
      BY <2>1, <2>2
  <1>3. calls' = [c \in 1 .. Len(calls) |-> [calls[c] EXCEPT !.st = "gone"]]
    BY <1>1 DEF DeleteConversation
  <1>4. calls' \in [1 .. Len(calls) -> ToolCalls]
    BY <1>1, <1>2, <1>3
  <1>5. calls' \in Seq(ToolCalls) /\ DOMAIN calls' = DOMAIN calls
    BY <1>1, <1>4, SegmentIsSeq
  <1>6. messages' = <<>> /\ inserted' = inserted /\ conv' = "gone"
    BY DEF DeleteConversation
  <1>7. RowsTyped' /\ MessagesKnown' /\ ResultsKnown'
    BY <1>5, <1>6 DEF RowsTyped, MessagesKnown, ResultsKnown
  <1>8. CallsKnown'
    <2> SUFFICES ASSUME NEW c \in DOMAIN calls PROVE CallKnown(c)'
      BY <1>5 DEF CallsKnown
    <2>1. CallKnown(c)
      BY DEF RowsKnown, CallsKnown
    <2>2. /\ calls'[c].st = "gone" /\ calls'[c].runs = calls[c].runs /\ calls'[c].gated = calls[c].gated
          /\ calls'[c].decided = calls[c].decided
      BY <1>1, <1>2, <1>3
    <2> QED
      BY <2>1, <2>2 DEF CallKnown
  <1> QED
    BY <1>5, <1>7, <1>8 DEF RowsKnown

\* The row of a call that was asked for is stored.
LEMMA CallStored ==
  ASSUME RowsTyped, RowsKnown, NEW row \in ToolCalls, row.runs = 0,
         row.st # "gone" => AskedBy(Len(calls) + 1, row.msg),
         calls' = Append(calls, row), UNCHANGED <<conv, messages, inserted>>
  PROVE  /\ RowsTyped' /\ RowsKnown' /\ DOMAIN calls \subseteq DOMAIN calls'
         /\ Len(calls) \in Nat /\ Len(calls') = Len(calls) + 1 /\ Len(calls) + 1 \in DOMAIN calls'
         /\ calls'[Len(calls) + 1] = row /\ Unanswered(Len(calls) + 1)
  <1> DEFINE n == Len(calls) + 1
  <1>1. /\ calls' \in Seq(ToolCalls) /\ Len(calls) \in Nat /\ Len(calls') = n /\ calls'[n] = row
        /\ DOMAIN calls' = DOMAIN calls \cup {n} /\ n \notin DOMAIN calls
        /\ \A c \in DOMAIN calls : calls'[c] = calls[c]
    BY DEF RowsTyped
  <1>2. RowsTyped'
    BY <1>1 DEF RowsTyped
  <1>3. MessagesKnown' /\ ResultsKnown'
    BY <1>1 DEF RowsKnown, MessagesKnown, ResultsKnown
  <1>4. Unanswered(n)
    <2> SUFFICES ASSUME NEW i \in DOMAIN messages, messages[i].role = "tool", messages[i].calls = <<n>> PROVE FALSE
      BY DEF Unanswered
    <2>1. PICK c \in DOMAIN calls : messages[i].calls = <<c>>
      BY DEF RowsKnown, ResultsKnown
    <2>2. c = n
      BY <2>1
    <2> QED
      BY <1>1, <2>1, <2>2
  <1>5. CallsKnown'
    <2> SUFFICES ASSUME NEW c \in DOMAIN calls' PROVE CallKnown(c)'
      BY DEF CallsKnown
    <2>1. CASE c = n
      <3>1. row.st # "gone" => AskedBy(c, calls[c].msg)'
        BY <1>1, <2>1 DEF AskedBy
      <3>2. Unanswered(c)'
        BY <1>4, <2>1 DEF Unanswered
      <3> QED
        BY <1>1, <2>1, <3>1, <3>2 DEF CallKnown
    <2>2. CASE c \in DOMAIN calls
      <3>1. CallKnown(c) /\ calls'[c] = calls[c]
        BY <1>1, <2>2 DEF RowsKnown, CallsKnown
      <3> QED
        BY <3>1 DEF CallKnown, Unanswered, AskedBy
    <2> QED
      BY <1>1, <2>1, <2>2
  <1> QED
    BY <1>1, <1>2, <1>3, <1>4, <1>5 DEF RowsKnown

\* The answer is written over the last message, which said nothing.
LEMMA AnswerWritten ==
  ASSUME RowsTyped, RowsKnown, Len(messages) > 0, Blank(messages[Len(messages)]),
         NEW batch \in Seq(Nat \ {0}), NEW text \in BOOLEAN,
         UpdateMessage(messages[Len(messages)].id, batch, text), UNCHANGED <<conv, inserted, calls>>
  PROVE  /\ RowsTyped' /\ RowsKnown' /\ Len(messages') = Len(messages) /\ Len(messages) \in DOMAIN messages'
         /\ [messages[Len(messages)] EXCEPT !.calls = batch, !.text = text] \in ChatMessages
         /\ messages'[Len(messages)] = [messages[Len(messages)] EXCEPT !.calls = batch, !.text = text]
         /\ \A i \in 1 .. Len(messages) - 1 : messages'[i] = messages[i]
  <1> DEFINE n == Len(messages)
             m == [messages[n] EXCEPT !.calls = batch, !.text = text]
  <1>1. messages \in Seq(ChatMessages) /\ n \in Nat /\ DOMAIN messages = 1 .. n /\ n \in 1 .. n /\ messages[n] \in ChatMessages
    BY DEF RowsTyped
  <1>2. /\ m \in ChatMessages /\ m.id = messages[n].id /\ m.role = messages[n].role
        /\ m.calls = batch /\ m.text = text
    <2>1. PICK x \in ChatMessages : x = messages[n]
      BY <1>1
    <2>2. /\ [x EXCEPT !.calls = batch, !.text = text] \in ChatMessages
          /\ [x EXCEPT !.calls = batch, !.text = text].id = x.id /\ [x EXCEPT !.calls = batch, !.text = text].role = x.role
          /\ [x EXCEPT !.calls = batch, !.text = text].calls = batch /\ [x EXCEPT !.calls = batch, !.text = text].text = text
      BY DEF ChatMessages
    <2> QED
      BY <2>1, <2>2
  <1>3. \A i, j \in 1 .. n : messages[i].id = messages[j].id => i = j
    BY <1>1 DEF RowsKnown, MessagesKnown
  <1>4. messages' = [i \in 1 .. n |-> IF i = n THEN m ELSE messages[i]]
    <2>1. messages' = [i \in 1 .. n |-> IF messages[i].id = messages[n].id
                                        THEN [messages[i] EXCEPT !.calls = batch, !.text = text] ELSE messages[i]]
      BY <1>1 DEF UpdateMessage
    <2>2. \A i \in 1 .. n : messages[i].id = messages[n].id <=> i = n
      BY <1>1, <1>3
    <2> QED
      BY <2>1, <2>2
  <1> HIDE DEF m
  <1>5. messages' \in [1 .. n -> ChatMessages]
    <2>1. \A i \in 1 .. n : messages[i] \in ChatMessages
      BY <1>1
    <2>2. \A i \in 1 .. n : (IF i = n THEN m ELSE messages[i]) \in ChatMessages
      BY <1>2, <2>1
    <2> QED
      BY <1>4, <2>2
  <1>6. messages' \in Seq(ChatMessages) /\ Len(messages') = n /\ DOMAIN messages' = 1 .. n
    BY <1>1, <1>5, SegmentIsSeq
  <1>7. messages'[n] = m /\ \A i \in 1 .. n : i # n => messages'[i] = messages[i]
    BY <1>1, <1>4
  <1>8. \A i \in 1 .. n : messages'[i].id = messages[i].id /\ messages'[i].role = messages[i].role
    BY <1>2, <1>7
  <1>9. RowsTyped'
    BY <1>6 DEF RowsTyped
  <1>10. MessagesKnown'
    <2>1. conv' # "live" => FALSE
      BY <1>1 DEF RowsKnown, MessagesKnown
    <2>2. \A i \in 1 .. n : messages'[i].id <= inserted'
      BY <1>1, <1>8 DEF RowsKnown, MessagesKnown
    <2>3. \A i, j \in 1 .. n : messages'[i].id = messages'[j].id => i = j
      BY <1>3, <1>8
    <2> QED
      BY <1>6, <2>1, <2>2, <2>3 DEF MessagesKnown
  <1>11. messages[n].role = "assistant" /\ messages[n].calls = <<>>
    BY DEF Blank
  <1>12. \A c : c \notin Range(messages[n].calls)
    BY <1>11 DEF Range
  <1>13. CallsKnown'
    <2> SUFFICES ASSUME NEW c \in DOMAIN calls PROVE CallKnown(c)'
      BY DEF CallsKnown
    <2>1. CallKnown(c)
      BY DEF RowsKnown, CallsKnown
    <2>2. Unanswered(c) => Unanswered(c)'
      BY <1>1, <1>6, <1>7, <1>8, <1>11 DEF Unanswered
    <2>3. AskedBy(c, calls[c].msg) => AskedBy(c, calls[c].msg)'
      BY <1>1, <1>6, <1>7, <1>12 DEF AskedBy
    <2> QED
      BY <2>1, <2>2, <2>3 DEF CallKnown
  <1>14. ResultsKnown'
    <2>1. ASSUME NEW i \in 1 .. n, messages'[i].role = "tool"
          PROVE  /\ \E c \in DOMAIN calls' : messages'[i].calls = <<c>>
                 /\ \E j \in 1 .. i - 1 : messages'[j].role = "assistant" /\ messages'[i].calls[1] \in Range(messages'[j].calls)
      <3>1. i # n /\ messages'[i] = messages[i]
        BY <1>7, <1>8, <1>11, <2>1
      <3>2. \E c \in DOMAIN calls : messages[i].calls = <<c>>
        BY <1>1, <2>1, <3>1 DEF RowsKnown, ResultsKnown
      <3>3. PICK j \in 1 .. i - 1 : messages[j].role = "assistant" /\ messages[i].calls[1] \in Range(messages[j].calls)
        BY <1>1, <2>1, <3>1 DEF RowsKnown, ResultsKnown
      <3>4. j \in 1 .. n /\ j # n
        <4> HIDE DEF n
        <4> QED
          BY <1>1, <2>1, <3>3
      <3>5. messages'[j] = messages[j]
        BY <1>7, <3>4
      <3> QED
        BY <3>1, <3>2, <3>3, <3>5
    <2>2. \A i \in 1 .. n : messages'[i].role = "tool" => messages'[i] = messages[i]
      BY <1>7, <1>8, <1>11
    <2>3. \A i, k \in 1 .. n :
            messages'[i].role = "tool" /\ messages'[k].role = "tool" /\ messages'[i].calls = messages'[k].calls => i = k
      BY <1>1, <2>2 DEF RowsKnown, ResultsKnown
    <2> QED
      BY <1>6, <2>1, <2>3 DEF ResultsKnown
  <1>15. \A i \in 1 .. n - 1 : messages'[i] = messages[i]
    <2> HIDE DEF n
    <2>1. \A i \in 1 .. n - 1 : i \in 1 .. n /\ i # n
      BY <1>1
    <2> QED
      BY <1>7, <2>1
  <1> QED
    BY <1>1, <1>2, <1>6, <1>7, <1>9, <1>10, <1>13, <1>14, <1>15 DEF RowsKnown, m

\* What the history becomes when the answer is written.
LEMMA AnswerInHistory ==
  ASSUME NEW s \in Seq(ChatMessages), NEW u \in Seq(ChatMessages), Len(s) > 0, Len(u) = Len(s),
         \A i \in 1 .. Len(s) - 1 : u[i] = s[i], ~Said(s[Len(s)])
  PROVE  HistoryOf(u) = IF Said(u[Len(s)]) THEN Append(HistoryOf(s), u[Len(s)]) ELSE HistoryOf(s)
  <1> DEFINE n == Len(s)
             f == SubSeq(s, 1, n - 1)
  <1>1. n \in Nat /\ n > 0 /\ s[n] \in ChatMessages /\ u[n] \in ChatMessages
    OBVIOUS
  <1>2. f \in Seq(ChatMessages) /\ Len(f) = n - 1 /\ \A i \in 1 .. n - 1 : f[i] = s[i]
    OBVIOUS
  <1> HIDE DEF f
  <1>3. s = Append(f, s[n])
    <2>1. /\ Append(f, s[n]) \in Seq(ChatMessages) /\ Len(Append(f, s[n])) = n
          /\ \A i \in 1 .. n : Append(f, s[n])[i] = IF i = n THEN s[n] ELSE f[i]
      BY <1>1, <1>2
    <2>2. \A i \in 1 .. n : Append(f, s[n])[i] = s[i]
      BY <1>1, <1>2, <2>1
    <2> QED
      BY <2>1, <2>2, SeqEqual
  <1>4. u = Append(f, u[n])
    <2>1. /\ Append(f, u[n]) \in Seq(ChatMessages) /\ Len(Append(f, u[n])) = n
          /\ \A i \in 1 .. n : Append(f, u[n])[i] = IF i = n THEN u[n] ELSE f[i]
      BY <1>1, <1>2
    <2>2. \A i \in 1 .. n : Append(f, u[n])[i] = u[i]
      BY <1>1, <1>2, <2>1
    <2> QED
      BY <2>1, <2>2, SeqEqual
  <1>5. HistoryOf(Append(f, s[n])) = HistoryOf(f)
    BY <1>1, <1>2, HistoryAppend
  <1>6. HistoryOf(Append(f, u[n])) = IF Said(u[n]) THEN Append(HistoryOf(f), u[n]) ELSE HistoryOf(f)
    BY <1>1, <1>2, HistoryAppend
  <1> QED
    BY <1>3, <1>4, <1>5, <1>6

\* The greatest of some numbers up to n.
LEMMA GreatestIndex ==
  ASSUME NEW n \in Nat, NEW I, I \subseteq 1 .. n, I # {}
  PROVE  \E m \in I : \A j \in I : j <= m
  <1>0. \A j \in I : j \in Nat /\ 1 <= j /\ j <= n
    OBVIOUS
  <1> DEFINE J == {k \in Nat : n - k \in I}
  <1>1. \A j \in I : n - j \in Nat /\ n - (n - j) = j
    BY <1>0
  <1>2. \A j \in I : n - j \in J
    BY <1>1
  <1>3. J \subseteq Nat /\ J # {}
    BY <1>2
  <1>4. PICK k \in J : \A i \in J : k <= i
    BY <1>3, LeastIndex
  <1>5. k \in Nat /\ n - k \in I /\ \A j \in I : k <= n - j
    BY <1>2, <1>4
  <1>6. \A j \in I : j <= n - k
    BY <1>0, <1>5
  <1> QED
    BY <1>5, <1>6

\* The turn goes to another place and stays what it is.
LEMMA GotoTurn ==
  ASSUME turn \in [ChatReqs -> Turns], NEW r \in ChatReqs, NEW p \in Locked, Goto(r, p)
  PROVE  \E t \in Turns : /\ turn' = [turn EXCEPT ![r] = t] /\ t.pc = p /\ t.kind = turn[r].kind /\ t.call = turn[r].call
                          /\ t.batch = turn[r].batch /\ t.iter = turn[r].iter /\ t.hist = turn[r].hist /\ t.at = turn[r].at
                          /\ t.cancelled = turn[r].cancelled
  <1>1. PICK x \in Turns : x = turn[r]
    OBVIOUS
  <1> DEFINE t == [x EXCEPT !.pc = p]
  <1>2. /\ t \in Turns /\ t.pc = p /\ t.kind = x.kind /\ t.call = x.call /\ t.batch = x.batch /\ t.iter = x.iter
        /\ t.hist = x.hist /\ t.at = x.at /\ t.cancelled = x.cancelled
    BY DEF Turns
  <1>3. turn' = [turn EXCEPT ![r] = t]
    BY <1>1 DEF Goto
  <1> QED
    BY <1>1, <1>2, <1>3

\* A step of the holder to a place where nothing is at hand.
LEMMA PlainStep ==
  ASSUME ChatInv, NEW r \in ChatReqs, turn[r].pc \in Locked, NEW t \in Turns, turn' = [turn EXCEPT ![r] = t],
         t.pc \in Locked \ {"ask", "stream", "process", "run", "dispatch"},
         t.kind = turn[r].kind, t.call = turn[r].call, t.batch = <<>>,
         t.pc \in {"build", "cut", "user", "decide", "check"} => t.iter = 0,
         t.pc \in {"decide", "check"} => t.kind = "resume",
         UNCHANGED <<conv, convBusy>>, RowsTyped', RowsKnown', DOMAIN calls \subseteq DOMAIN calls', AsideKnown'
  PROVE  ChatInv'
  <1>0. turn \in [ChatReqs -> Turns] /\ TurnKnown(r)
    BY DEF ChatInv, TurnsKnown
  <1>1. turn'[r] = t
    BY <1>0, TurnSet
  <1>2. t.kind = "resume" => t.call \in DOMAIN calls
    BY <1>0 DEF TurnKnown, CallAtHand, Locked
  <1>3. t.pc \notin {"new", "lock", "end"}
    BY DEF Locked
  <1>4. TurnKnown(r)'
    BY <1>1, <1>2, <1>3, PlainTurn
  <1> QED
    BY <1>4, HolderSteps

\* The same, when the place is all that changes.
LEMMA PlainGoto ==
  ASSUME ChatInv, NEW r \in ChatReqs, turn[r].pc \in Locked, turn[r].batch = <<>>,
         NEW p \in {"build", "check", "load", "unlock"}, Goto(r, p), p \in {"build", "check"} => turn[r].iter = 0,
         p = "check" => turn[r].kind = "resume",
         UNCHANGED <<conv, convBusy>>, RowsTyped', RowsKnown', DOMAIN calls \subseteq DOMAIN calls', AsideKnown'
  PROVE  ChatInv'
  <1>1. turn \in [ChatReqs -> Turns] /\ p \in Locked \ {"ask", "stream", "process", "run", "dispatch"}
    BY DEF ChatInv, Locked
  <1>2. PICK t \in Turns : /\ turn' = [turn EXCEPT ![r] = t] /\ t.pc = p /\ t.kind = turn[r].kind
                           /\ t.call = turn[r].call /\ t.batch = turn[r].batch /\ t.iter = turn[r].iter
    BY <1>1, GotoTurn
  <1> QED
    BY <1>1, <1>2, PlainStep

LEMMA ChatParts ==
  ASSUME ChatInv, NEW r \in ChatReqs
  PROVE  /\ conv \in {"none", "live", "gone"} /\ convBusy \in BOOLEAN /\ turn \in [ChatReqs -> Turns] /\ turn[r] \in Turns
         /\ RowsTyped /\ RowsKnown /\ AsideKnown /\ CallAtHand(r) /\ HistoryKnown(r) /\ AnswerKnown(r)
  BY DEF ChatInv, TurnsKnown, TurnKnown

LEMMA KeepsRegenerateLast ==
  ASSUME ChatInv, NEW r \in ChatReqs, RegenerateLast(r)
  PROVE  ChatInv'
  <1>0. /\ turn \in [ChatReqs -> Turns] /\ RowsTyped /\ RowsKnown /\ AsideKnown /\ AnswerKnown(r)
    BY ChatParts
  <1>1. turn[r].pc = "cut" /\ UNCHANGED <<conv, convBusy, inserted, aside>>
    BY DEF RegenerateLast
  <1>2. turn[r].batch = <<>> /\ turn[r].iter = 0 /\ turn[r].pc \in Locked
    BY <1>0, <1>1 DEF AnswerKnown, Locked
  <1>3. AsideKnown'
    BY <1>0, <1>1, AsideStays
  <1> DEFINE U == {i \in DOMAIN messages : messages[i].role = "user"}
  <1>4. CASE U = {}
    <2>1. Goto(r, "unlock") /\ UNCHANGED rowsOfChat
      BY <1>1, <1>4 DEF RegenerateLast, rowsOfChat
    <2>2. RowsTyped' /\ RowsKnown' /\ DOMAIN calls \subseteq DOMAIN calls'
      BY <1>0, <2>1, RowsStay
    <2> QED
      BY <1>1, <1>2, <1>3, <2>1, <2>2, PlainGoto
  <1>5. CASE U # {}
    <2> DEFINE i == CHOOSE i \in U : \A j \in U : j <= i
    <2>1. DeleteMessagesFromSeq(i) /\ Goto(r, "build")
      BY <1>5 DEF RegenerateLast
    <2>2. i \in DOMAIN messages
      <3>1. messages \in Seq(ChatMessages) /\ Len(messages) \in Nat /\ DOMAIN messages = 1 .. Len(messages)
        BY <1>0 DEF RowsTyped
      <3>2. U \subseteq 1 .. Len(messages)
        BY <3>1
      <3>3. \E m \in U : \A j \in U : j <= m
        BY <1>5, <3>1, <3>2, GreatestIndex
      <3> QED
        BY <3>3
    <2> HIDE DEF i
    <2>3. RowsTyped' /\ RowsKnown' /\ DOMAIN calls \subseteq DOMAIN calls'
      BY <1>0, <1>1, <2>1, <2>2, Truncated
    <2> QED
      BY <1>1, <1>2, <1>3, <2>1, <2>3, PlainGoto
  <1> QED
    BY <1>4, <1>5

\* The two that name a message: the one they find is deleted with what follows.
LEMMA KeepsCut ==
  ASSUME ChatInv, NEW r \in ChatReqs, turn[r].pc = "cut", NEW p \in {"build", "unlock"}, Goto(r, p),
         UNCHANGED <<conv, convBusy, inserted, aside>>,
         (\E i \in DOMAIN messages : DeleteMessagesFromSeq(i)) \/ UNCHANGED <<messages, calls>>
  PROVE  ChatInv'
  <1>0. /\ turn \in [ChatReqs -> Turns] /\ RowsTyped /\ RowsKnown /\ AsideKnown /\ AnswerKnown(r)
    BY ChatParts
  <1>1. turn[r].batch = <<>> /\ turn[r].iter = 0 /\ turn[r].pc \in Locked
    BY <1>0 DEF AnswerKnown, Locked
  <1>2. AsideKnown'
    BY <1>0, AsideStays
  <1>3. RowsTyped' /\ RowsKnown' /\ DOMAIN calls \subseteq DOMAIN calls'
    <2>1. CASE \E i \in DOMAIN messages : DeleteMessagesFromSeq(i)
      BY <1>0, <2>1, Truncated
    <2>2. CASE UNCHANGED <<messages, calls>>
      <3>1. UNCHANGED rowsOfChat
        BY <2>2 DEF rowsOfChat
      <3> QED
        BY <1>0, <3>1, RowsStay
    <2> QED
      BY <2>1, <2>2
  <1> QED
    BY <1>1, <1>2, <1>3, PlainGoto

LEMMA KeepsEditAndResend ==
  ASSUME ChatInv, NEW r \in ChatReqs, EditAndResend(r)
  PROVE  ChatInv'
  <1>1. turn[r].pc = "cut" /\ UNCHANGED <<conv, convBusy, inserted, aside>>
    BY DEF EditAndResend
  <1>2. CASE \E i \in Position(turn[r].at) : messages[i].role = "user" /\ DeleteMessagesFromSeq(i) /\ Goto(r, "build")
    BY <1>1, <1>2, KeepsCut DEF Position
  <1>3. CASE Goto(r, "unlock") /\ UNCHANGED <<messages, calls>>
    BY <1>1, <1>3, KeepsCut
  <1> QED
    BY <1>2, <1>3 DEF EditAndResend

LEMMA KeepsDeleteMessageFrom ==
  ASSUME ChatInv, NEW r \in ChatReqs, DeleteMessageFrom(r)
  PROVE  ChatInv'
  <1>1. turn[r].pc = "cut" /\ UNCHANGED <<conv, convBusy, inserted, aside>> /\ Goto(r, "unlock")
    BY DEF DeleteMessageFrom
  <1>2. (\E i \in DOMAIN messages : DeleteMessagesFromSeq(i)) \/ UNCHANGED <<messages, calls>>
    BY DEF DeleteMessageFrom, Position
  <1> QED
    BY <1>1, <1>2, KeepsCut

\* A gateway that is built anew has the rows of now.
LEMMA KeepsBuildRunner ==
  ASSUME ChatInv, NEW r \in ChatReqs, NEW pol \in Policies \cup {""}, NEW p \in {"user", "decide"},
         p = "decide" => turn[r].kind = "resume", BuildRunner(r, pol, p)
  PROVE  ChatInv'
  <1>0. /\ turn \in [ChatReqs -> Turns] /\ turn[r] \in Turns /\ RowsTyped /\ RowsKnown /\ AsideKnown /\ AnswerKnown(r)
    BY ChatParts
  <1>1. turn[r].pc = "build" /\ UNCHANGED <<convBusy, rowsOfChat, settings, saving, saves>> /\ conv' = conv
    BY DEF BuildRunner, rowsOfChat
  <1>2. turn[r].batch = <<>> /\ turn[r].iter = 0 /\ turn[r].pc \in Locked
    BY <1>0, <1>1 DEF AnswerKnown, Locked
  <1>3. RowsTyped' /\ RowsKnown' /\ DOMAIN calls \subseteq DOMAIN calls'
    BY <1>0, <1>1, RowsStay
  <1>4. CASE Goto(r, "unlock") /\ UNCHANGED gateway
    <2>1. AsideKnown'
      BY <1>0, <1>1, <1>4 DEF AsideKnown, GatewayFresh
    <2> QED
      BY <1>1, <1>2, <1>3, <1>4, <2>1, PlainGoto
  <1>5. CASE gateway' = GetClient /\ turn' = [turn EXCEPT ![r].pc = p, ![r].policy = pol]
    <2>1. AsideKnown'
      <3>1. PICK g \in [open : Nat, dirty : BOOLEAN, rows : Nat] : g = gateway
        BY <1>0 DEF AsideKnown
      <3>2. gateway' = IF g.dirty \/ g.open = 0 THEN [g EXCEPT !.open = g.rows, !.dirty = FALSE] ELSE g
        BY <1>5, <3>1 DEF GetClient
      <3>3. /\ gateway' \in [open : Nat, dirty : BOOLEAN, rows : Nat]
            /\ gateway' = g \/ gateway'.open = gateway'.rows
        BY <3>2
      <3> QED
        BY <1>0, <1>1, <3>1, <3>3 DEF AsideKnown, GatewayFresh
    <2>2. PICK x \in Turns : x = turn[r]
      BY <1>0
    <2> DEFINE t == [x EXCEPT !.pc = p, !.policy = pol]
    <2>3. t \in Turns /\ t.pc = p /\ t.kind = x.kind /\ t.call = x.call /\ t.batch = x.batch /\ t.iter = x.iter
      BY DEF Turns, Locked
    <2>4. turn' = [turn EXCEPT ![r] = t]
      BY <1>5, <2>2
    <2>5. t.pc \in Locked \ {"ask", "stream", "process", "run", "dispatch"}
      BY <2>3 DEF Locked
    <2> HIDE DEF t
    <2> QED
      BY <1>1, <1>2, <1>3, <2>1, <2>2, <2>3, <2>4, <2>5, PlainStep
  <1> QED
    BY <1>4, <1>5 DEF BuildRunner

LEMMA KeepsRunners ==
  ASSUME ChatInv, NEW r \in ChatReqs, ChatRunner(r) \/ RunTurn(r) \/ Resume(r)
  PROVE  ChatInv'
  <1>0. turn[r] \in Turns /\ AsideKnown
    BY ChatParts
  <1>1. turn[r].policy \in Policies \cup {""} /\ settings.policy \in Policies
    BY <1>0 DEF Turns, AsideKnown
  <1>2. CASE ChatRunner(r)
    BY <1>1, <1>2, KeepsBuildRunner DEF ChatRunner
  <1>3. CASE RunTurn(r)
    BY <1>1, <1>3, KeepsBuildRunner DEF RunTurn
  <1>4. CASE Resume(r)
    BY <1>1, <1>4, KeepsBuildRunner DEF Resume
  <1> QED
    BY <1>2, <1>3, <1>4

LEMMA KeepsRun ==
  ASSUME ChatInv, NEW r \in ChatReqs, Run(r)
  PROVE  ChatInv'
  <1>0. turn \in [ChatReqs -> Turns] /\ RowsTyped /\ RowsKnown /\ AsideKnown /\ AnswerKnown(r)
    BY ChatParts
  <1>1. turn[r].pc = "user" /\ UNCHANGED <<conv, convBusy, calls, aside>> /\ InsertMessage(User)
    BY DEF Run
  <1>2. turn[r].batch = <<>> /\ turn[r].pc \in Locked
    BY <1>0, <1>1 DEF AnswerKnown, Locked
  <1>3. AsideKnown'
    BY <1>0, <1>1, AsideStays
  <1>4. RowsTyped' /\ RowsKnown'
    <2>1. CASE conv = "live"
      <3>1. User \in ChatMessages /\ User.id = inserted + 1 /\ User.role = "user"
        BY <1>0 DEF RowsTyped, User, ChatMessages
      <3> QED
        BY <1>0, <1>1, <2>1, <3>1, SaidMore DEF InsertMessage
    <2>2. CASE conv # "live"
      <3>1. UNCHANGED rowsOfChat
        BY <1>1, <2>2 DEF InsertMessage, rowsOfChat
      <3> QED
        BY <1>0, <3>1, RowsStay
    <2> QED
      BY <2>1, <2>2
  <1>5. PICK p \in {"load", "unlock"} : Goto(r, p)
    BY DEF Run
  <1>6. DOMAIN calls \subseteq DOMAIN calls'
    BY <1>1
  <1> QED
    BY <1>1, <1>2, <1>3, <1>4, <1>5, <1>6, PlainGoto

LEMMA KeepsResumeCheck ==
  ASSUME ChatInv, NEW r \in ChatReqs, ResumeCheck(r)
  PROVE  ChatInv'
  <1>0. turn \in [ChatReqs -> Turns] /\ RowsTyped /\ RowsKnown /\ AsideKnown /\ AnswerKnown(r)
    BY ChatParts
  <1>1. turn[r].pc = "check" /\ UNCHANGED <<convBusy, rowsOfChat, aside>> /\ conv' = conv
    BY DEF ResumeCheck, rowsOfChat
  <1>2. turn[r].batch = <<>> /\ turn[r].pc \in Locked
    BY <1>0, <1>1 DEF AnswerKnown, Locked
  <1>3. AsideKnown' /\ RowsTyped' /\ RowsKnown' /\ DOMAIN calls \subseteq DOMAIN calls'
    BY <1>0, <1>1, AsideStays, RowsStay
  <1>4. PICK p \in {"load", "unlock"} : Goto(r, p)
    BY DEF ResumeCheck
  <1> QED
    BY <1>1, <1>2, <1>3, <1>4, PlainGoto

\* A turn about to ask the model follows the rows, and has nothing at hand.
LEMMA AskTurn ==
  ASSUME ChatInv, NEW r \in ChatReqs, turn[r].pc \in Locked, NEW t \in Turns, turn' = [turn EXCEPT ![r] = t],
         t.pc = "ask", t.kind = turn[r].kind, t.call = turn[r].call, t.batch = <<>>,
         conv = "live" => t.hist = History, UNCHANGED <<convBusy, rowsOfChat, aside>>
  PROVE  ChatInv'
  <1>0. turn \in [ChatReqs -> Turns] /\ RowsTyped /\ RowsKnown /\ AsideKnown /\ CallAtHand(r)
    BY ChatParts
  <1>1. turn'[r] = t /\ t.pc \in Locked
    BY <1>0, TurnSet DEF Locked
  <1>2. UNCHANGED <<conv, messages, inserted, calls>>
    BY DEF rowsOfChat
  <1>3. AsideKnown' /\ RowsTyped' /\ RowsKnown' /\ DOMAIN calls \subseteq DOMAIN calls'
    BY <1>0, AsideStays, RowsStay
  <1>4. CallAtHand(r)'
    <2>1. t.kind = "resume" => t.call \in DOMAIN calls
      BY <1>0 DEF CallAtHand, Locked
    <2> QED
      BY <1>1, <1>2, <2>1 DEF CallAtHand
  <1>5. HistoryKnown(r)'
    BY <1>1, <1>2 DEF HistoryKnown, History
  <1>6. AnswerKnown(r)'
    <2>1. \A k \in 1 .. Len(t.batch) : FALSE
      OBVIOUS
    <2> QED
      BY <1>1, <2>1 DEF AnswerKnown
  <1>7. TurnKnown(r)' /\ UNCHANGED <<conv, convBusy>>
    BY <1>2, <1>4, <1>5, <1>6 DEF TurnKnown
  <1> QED
    BY <1>1, <1>3, <1>7, HolderSteps

LEMMA KeepsLoadHistory ==
  ASSUME ChatInv, NEW r \in ChatReqs, LoadHistory(r)
  PROVE  ChatInv'
  <1>0. turn \in [ChatReqs -> Turns] /\ turn[r] \in Turns /\ RowsTyped /\ AnswerKnown(r)
    BY ChatParts
  <1>1. turn[r].pc = "load" /\ UNCHANGED <<convBusy, rowsOfChat, aside>>
    BY DEF LoadHistory
  <1>2. turn[r].batch = <<>> /\ turn[r].pc \in Locked
    BY <1>0, <1>1 DEF AnswerKnown, Locked
  <1> DEFINE h == History
  <1>3. h \in Seq(ChatMessages)
    BY <1>0, HistoryType DEF RowsTyped, History
  <1>4. turn' = [turn EXCEPT ![r].hist = h, ![r].pc = "ask", ![r].failed = {}]
    BY DEF LoadHistory
  <1>5. h = History
    OBVIOUS
  <1> HIDE DEF h
  <1>6. PICK x \in Turns : x = turn[r]
    BY <1>0
  <1> DEFINE t == [x EXCEPT !.hist = h, !.pc = "ask", !.failed = {}]
  <1>7. t \in Turns /\ t.pc = "ask" /\ t.kind = x.kind /\ t.call = x.call /\ t.batch = x.batch /\ t.hist = h
    BY <1>3 DEF Turns, Locked
  <1>8. turn' = [turn EXCEPT ![r] = t]
    BY <1>4, <1>6
  <1> HIDE DEF t
  <1> QED
    BY <1>1, <1>2, <1>5, <1>6, <1>7, <1>8, AskTurn

LEMMA KeepsBatchEnds ==
  ASSUME ChatInv, NEW r \in ChatReqs, BatchEnds(r)
  PROVE  ChatInv'
  <1>0. turn \in [ChatReqs -> Turns] /\ turn[r] \in Turns /\ RowsTyped /\ RowsKnown /\ AsideKnown /\ HistoryKnown(r)
    BY ChatParts
  <1>1. turn[r].pc = "process" /\ turn[r].batch = <<>> /\ turn[r].pc \in Locked /\ UNCHANGED <<convBusy, rowsOfChat, aside>>
    BY DEF BatchEnds, Locked
  <1>2. conv = "live" => turn[r].hist = History
    BY <1>0, <1>1 DEF HistoryKnown, Mirrors
  <1>3. PICK x \in Turns : x = turn[r]
    BY <1>0
  <1> DEFINE s == Streaks(r)
  <1>4. s \in [Tools -> Nat]
    <2>1. turn[r].streak \in [Tools -> Nat]
      BY <1>0 DEF Turns
    <2>2. \A t \in Tools : turn[r].streak[t] \in Nat
      BY <2>1
    <2>3. \A t \in Tools : (IF t \in turn[r].failed THEN turn[r].streak[t] + 1 ELSE 0) \in Nat
      BY <2>2
    <2> QED
      BY <2>3 DEF Streaks
  <1>5. turn' = [turn EXCEPT ![r] = [@ EXCEPT !.pc = "unlock"]] \/ turn' = [turn EXCEPT ![r] = [@ EXCEPT !.pc = "ask", !.streak = s]]
    BY DEF BatchEnds
  <1> HIDE DEF s
  <1>6. CASE turn' = [turn EXCEPT ![r] = [@ EXCEPT !.pc = "unlock"]]
    <2>1. AsideKnown' /\ RowsTyped' /\ RowsKnown' /\ DOMAIN calls \subseteq DOMAIN calls' /\ conv' = conv
      BY <1>0, <1>1, AsideStays, RowsStay DEF rowsOfChat
    <2>2. Goto(r, "unlock")
      BY <1>6 DEF Goto
    <2> QED
      BY <1>1, <2>1, <2>2, PlainGoto
  <1>7. CASE turn' = [turn EXCEPT ![r] = [@ EXCEPT !.pc = "ask", !.streak = s]]
    <2> DEFINE t == [x EXCEPT !.pc = "ask", !.streak = s]
    <2>1. t \in Turns /\ t.pc = "ask" /\ t.kind = x.kind /\ t.call = x.call /\ t.batch = x.batch /\ t.hist = x.hist
      BY <1>4 DEF Turns, Locked
    <2>2. turn' = [turn EXCEPT ![r] = t]
      BY <1>3, <1>7
    <2> HIDE DEF t
    <2> QED
      BY <1>1, <1>2, <1>3, <2>1, <2>2, AskTurn
  <1> QED
    BY <1>5, <1>6, <1>7

LEMMA KeepsAsk ==
  ASSUME ChatInv, NEW r \in ChatReqs, Ask(r)
  PROVE  ChatInv'
  <1>0. /\ turn \in [ChatReqs -> Turns] /\ turn[r] \in Turns /\ RowsTyped /\ RowsKnown /\ AsideKnown
        /\ CallAtHand(r) /\ AnswerKnown(r) /\ HistoryKnown(r)
    BY ChatParts
  <1>1. turn[r].pc = "ask" /\ UNCHANGED <<conv, convBusy, calls, aside>>
    BY DEF Ask
  <1>2. turn[r].batch = <<>> /\ turn[r].pc \in Locked
    BY <1>0, <1>1 DEF AnswerKnown, Locked
  <1>3. AsideKnown' /\ DOMAIN calls \subseteq DOMAIN calls'
    BY <1>0, <1>1, AsideStays
  <1>4. CASE Goto(r, "unlock") /\ UNCHANGED <<messages, inserted>>
    <2>1. UNCHANGED rowsOfChat
      BY <1>1, <1>4 DEF rowsOfChat
    <2>2. RowsTyped' /\ RowsKnown'
      BY <1>0, <2>1, RowsStay
    <2> QED
      BY <1>1, <1>2, <1>3, <1>4, <2>2, PlainGoto
  <1>5. CASE /\ MayAsk(r) /\ InsertMessage(Placeholder) /\ conv # "live"
             /\ turn' = [turn EXCEPT ![r] = [@ EXCEPT !.pc = "unlock"]]
    <2>1. UNCHANGED rowsOfChat
      BY <1>1, <1>5 DEF rowsOfChat, InsertMessage
    <2>2. RowsTyped' /\ RowsKnown'
      BY <1>0, <2>1, RowsStay
    <2>3. Goto(r, "unlock")
      BY <1>5 DEF Goto
    <2> QED
      BY <1>1, <1>2, <1>3, <2>2, <2>3, PlainGoto
  <1>6. CASE /\ MayAsk(r) /\ InsertMessage(Placeholder) /\ conv = "live"
             /\ turn' = [turn EXCEPT ![r] = [turn[r] EXCEPT !.pc = "stream", !.iter = turn[r].iter + 1, !.at = inserted + 1]]
    <2> DEFINE m == Placeholder
               n == Len(messages)
    <2>1. m \in ChatMessages /\ m.id = inserted + 1 /\ m.role = "assistant" /\ Blank(m) /\ ~Said(m)
      BY <1>0 DEF RowsTyped, Placeholder, ChatMessages, Blank, Said
    <2>2. messages' = Append(messages, m) /\ inserted' = inserted + 1
      BY <1>6 DEF InsertMessage
    <2> HIDE DEF m
    <2>3. RowsTyped' /\ RowsKnown'
      BY <1>0, <1>1, <1>6, <2>1, <2>2, SaidMore
    <2>4. messages \in Seq(ChatMessages) /\ n \in Nat /\ Len(messages') = n + 1 /\ messages'[n + 1] = m /\ inserted \in Nat
      BY <1>0, <2>1, <2>2 DEF RowsTyped
    <2>5. History' = History
      BY <2>1, <2>2, <2>4, HistoryAppend DEF History
    <2>6. PICK x \in Turns : x = turn[r]
      BY <1>0
    <2> DEFINE k == x.iter + 1
    <2>7. k \in 0 .. MaxIterations /\ k > 0
      <3>1. MaxIterations \in Nat
        BY ChatAssumption
      <3>2. x.iter \in 0 .. MaxIterations
        BY DEF Turns
      <3>3. x.iter < MaxIterations
        BY <1>6, <2>6 DEF MayAsk
      <3> QED
        BY <3>1, <3>2, <3>3
    <2> DEFINE a == inserted + 1
    <2>8. turn' = [turn EXCEPT ![r] = [x EXCEPT !.pc = "stream", !.iter = k, !.at = a]]
      BY <1>6, <2>6
    <2>9. a \in Nat /\ a = inserted + 1
      BY <2>4
    <2> HIDE DEF k, a
    <2> DEFINE t == [x EXCEPT !.pc = "stream", !.iter = k, !.at = a]
    <2>10. /\ t \in Turns /\ t.pc = "stream" /\ t.kind = x.kind /\ t.call = x.call /\ t.batch = x.batch /\ t.hist = x.hist
          /\ t.iter = k /\ t.at = a
      BY <2>7, <2>9 DEF Turns, Locked
    <2>11. turn' = [turn EXCEPT ![r] = t]
      BY <2>8
    <2> HIDE DEF t
    <2>12. turn'[r] = t /\ t.pc \in Locked
      BY <1>0, <2>10, <2>11, TurnSet DEF Locked
    <2>13. CallAtHand(r)'
      <3>1. t.kind = "resume" => t.call \in DOMAIN calls
        BY <1>0, <1>1, <2>6, <2>10 DEF CallAtHand, Locked
      <3> QED
        BY <1>1, <2>10, <2>12, <3>1 DEF CallAtHand
    <2>14. HistoryKnown(r)'
      <3>1. t.hist = History
        BY <1>0, <1>1, <1>6, <2>6, <2>10 DEF HistoryKnown, Mirrors
      <3> QED
        BY <2>5, <2>12, <3>1 DEF HistoryKnown
    <2>15. AnswerKnown(r)'
      <3>1. \A j \in 1 .. Len(t.batch) : FALSE
        BY <1>2, <2>6, <2>10
      <3>2. Len(messages') > 0 /\ messages'[Len(messages')].id = t.at /\ Blank(messages'[Len(messages')])
        BY <2>1, <2>4, <2>10, <2>9
      <3>3. (Len(messages) > 0 /\ messages[Len(messages)].id = turn[r].at /\ Blank(messages[Len(messages)]))'
        BY <2>12, <3>2 DEF Blank
      <3> QED
        BY <1>2, <2>6, <2>7, <2>10, <2>12, <3>1, <3>3 DEF AnswerKnown
    <2>16. TurnKnown(r)'
      BY <2>13, <2>14, <2>15 DEF TurnKnown
    <2> QED
      BY <1>1, <1>2, <1>3, <2>3, <2>10, <2>11, <2>12, <2>16, HolderSteps
  <1>7. \/ Goto(r, "unlock") /\ UNCHANGED <<messages, inserted>>
        \/ /\ MayAsk(r) /\ InsertMessage(Placeholder) /\ conv = "live"
           /\ turn' = [turn EXCEPT ![r] = [turn[r] EXCEPT !.pc = "stream", !.iter = turn[r].iter + 1, !.at = inserted + 1]]
        \/ /\ MayAsk(r) /\ InsertMessage(Placeholder) /\ conv # "live"
           /\ turn' = [turn EXCEPT ![r] = [@ EXCEPT !.pc = "unlock"]]
    <2>1. \/ Goto(r, "unlock") /\ UNCHANGED <<messages, inserted>>
          \/ /\ MayAsk(r) /\ InsertMessage(Placeholder)
             /\ turn' = [turn EXCEPT ![r] = IF conv = "live"
                            THEN [turn[r] EXCEPT !.pc = "stream", !.iter = turn[r].iter + 1, !.at = inserted + 1]
                            ELSE [turn[r] EXCEPT !.pc = "unlock"]]
      BY <1>0 DEF Ask
    <2>2. CASE conv = "live"
      BY <2>1, <2>2
    <2>3. CASE conv # "live"
      BY <2>1, <2>3
    <2> QED
      BY <2>2, <2>3
  <1> QED
    BY <1>4, <1>5, <1>6, <1>7

\* A message is its four fields.
LEMMA SameMessage ==
  ASSUME NEW a \in ChatMessages, NEW b \in ChatMessages, a.id = b.id, a.role = b.role, a.calls = b.calls, a.text = b.text
  PROVE  a = b
  BY DEF ChatMessages

\* The end of a stream: the last message has the answer, if it is there.
LEMMA StreamRows ==
  ASSUME ChatInv, NEW r \in ChatReqs, turn[r].pc = "stream", NEW batch \in Seq(Nat \ {0}), NEW text \in BOOLEAN,
         UpdateMessage(turn[r].at, batch, text), UNCHANGED <<conv, inserted, calls>>
  PROVE  /\ RowsTyped' /\ RowsKnown'
         /\ conv = "live" =>
              LET m == [id |-> turn[r].at, role |-> "assistant", calls |-> batch, text |-> text]
              IN  /\ m \in ChatMessages /\ Len(messages) \in DOMAIN messages' /\ messages'[Len(messages)] = m
                  /\ History' = IF Said(m) THEN Append(History, m) ELSE History
  <1>0. RowsTyped /\ RowsKnown /\ AnswerKnown(r)
    BY ChatParts
  <1>1. CASE conv = "live"
    <2> DEFINE n == Len(messages)
               m == [id |-> turn[r].at, role |-> "assistant", calls |-> batch, text |-> text]
    <2>1. n > 0 /\ messages[n].id = turn[r].at /\ Blank(messages[n])
      BY <1>0, <1>1 DEF AnswerKnown
    <2>2. UpdateMessage(messages[n].id, batch, text)
      BY <2>1
    <2>3. /\ RowsTyped' /\ RowsKnown' /\ Len(messages') = n /\ n \in DOMAIN messages'
          /\ [messages[n] EXCEPT !.calls = batch, !.text = text] \in ChatMessages
          /\ messages'[n] = [messages[n] EXCEPT !.calls = batch, !.text = text]
          /\ \A i \in 1 .. n - 1 : messages'[i] = messages[i]
      BY <1>0, <2>1, <2>2, AnswerWritten
    <2>4. messages \in Seq(ChatMessages) /\ messages' \in Seq(ChatMessages) /\ n \in Nat
      BY <1>0, <2>3 DEF RowsTyped
    <2>5. messages[n] \in ChatMessages
      BY <2>1, <2>4
    <2>6. [messages[n] EXCEPT !.calls = batch, !.text = text] = m
      <3>1. PICK x \in ChatMessages : x = messages[n]
        BY <2>5
      <3>2. x.id = turn[r].at /\ x.role = "assistant"
        BY <2>1, <3>1 DEF Blank
      <3> DEFINE y == [x EXCEPT !.calls = batch, !.text = text]
      <3>3. y \in ChatMessages /\ y.id = x.id /\ y.role = x.role /\ y.calls = batch /\ y.text = text
        BY DEF ChatMessages
      <3>4. m \in ChatMessages /\ m.id = x.id /\ m.role = x.role /\ m.calls = batch /\ m.text = text
        BY <3>2 DEF ChatMessages
      <3> HIDE DEF y, m
      <3>5. y = m
        BY <3>3, <3>4, SameMessage
      <3> QED
        BY <3>1, <3>5 DEF y
    <2>7. ~Said(messages[n])
      BY <2>1 DEF Blank, Said
    <2>8. HistoryOf(messages') = IF Said(messages'[n]) THEN Append(HistoryOf(messages), messages'[n]) ELSE HistoryOf(messages)
      BY <2>1, <2>3, <2>4, <2>7, AnswerInHistory
    <2> HIDE DEF m
    <2>9. History' = IF Said(m) THEN Append(History, m) ELSE History
      BY <2>3, <2>6, <2>8 DEF History
    <2> QED
      BY <2>3, <2>6, <2>9 DEF m
  <1>2. CASE conv # "live"
    <2>1. messages = <<>>
      BY <1>0, <1>2 DEF RowsKnown, MessagesKnown
    <2>2. messages' = <<>>
      BY <2>1 DEF UpdateMessage
    <2>3. UNCHANGED rowsOfChat
      BY <2>1, <2>2 DEF rowsOfChat
    <2> QED
      BY <1>0, <1>2, <2>3, RowsStay
  <1> QED
    BY <1>1, <1>2

LEMMA KeepsStreamBreaks ==
  ASSUME ChatInv, NEW r \in ChatReqs, StreamBreaks(r)
  PROVE  ChatInv'
  <1>0. AsideKnown /\ AnswerKnown(r)
    BY ChatParts
  <1>1. turn[r].pc = "stream" /\ UpdateMessage(turn[r].at, <<>>, FALSE) /\ UNCHANGED <<conv, convBusy, inserted, calls, aside>>
    BY DEF StreamBreaks
  <1>2. turn[r].batch = <<>> /\ turn[r].pc \in Locked
    BY <1>0, <1>1 DEF AnswerKnown, Locked
  <1>3. AsideKnown' /\ DOMAIN calls \subseteq DOMAIN calls'
    BY <1>0, <1>1, AsideStays
  <1>4. RowsTyped' /\ RowsKnown'
    <2>1. <<>> \in Seq(Nat \ {0})
      OBVIOUS
    <2> QED
      BY <1>1, <2>1, StreamRows
  <1>5. Goto(r, "unlock")
    BY DEF StreamBreaks
  <1> QED
    BY <1>1, <1>2, <1>3, <1>4, <1>5, PlainGoto

LEMMA KeepsStreamEnds ==
  ASSUME ChatInv, NEW r \in ChatReqs, NEW b \in Batches, StreamEnds(r, b)
  PROVE  ChatInv'
  <1>0. /\ turn \in [ChatReqs -> Turns] /\ turn[r] \in Turns /\ RowsTyped /\ RowsKnown /\ AsideKnown
        /\ CallAtHand(r) /\ AnswerKnown(r) /\ HistoryKnown(r)
    BY ChatParts
  <1> DEFINE ns == [k \in DOMAIN b |-> Len(calls) + k]
             text == b = <<>>
             m == [id |-> turn[r].at, role |-> "assistant", calls |-> ns, text |-> text]
             p == IF b = <<>> THEN "unlock" ELSE "process"
  <1>1. turn[r].pc = "stream" /\ UpdateMessage(turn[r].at, ns, text) /\ UNCHANGED <<conv, convBusy, inserted, calls, aside>>
    BY DEF StreamEnds
  <1>2. turn[r].pc \in Locked
    BY <1>1 DEF Locked
  <1>3. AsideKnown' /\ DOMAIN calls \subseteq DOMAIN calls'
    BY <1>0, <1>1, AsideStays
  <1>4. b \in Seq(Tools) /\ Len(b) \in Nat /\ DOMAIN b = 1 .. Len(b) /\ Len(calls) \in Nat
    BY <1>0, ChatAssumption DEF RowsTyped
  <1>5. ns \in Seq(Nat \ {0}) /\ Len(ns) = Len(b) /\ DOMAIN ns = 1 .. Len(b) /\ \A k \in 1 .. Len(b) : ns[k] = Len(calls) + k
    <2>1. \A k \in 1 .. Len(b) : Len(calls) + k \in Nat \ {0}
      BY <1>4
    <2>2. ns \in [1 .. Len(b) -> Nat \ {0}]
      BY <1>4, <2>1
    <2> QED
      BY <1>4, <2>2, SegmentIsSeq
  <1>6. turn' = [turn EXCEPT ![r] = [turn[r] EXCEPT !.pc = p, !.batch = b, !.paused = FALSE, !.failed = {},
                                                    !.hist = Append(turn[r].hist, m)]]
    BY DEF StreamEnds
  <1>7. text \in BOOLEAN
    OBVIOUS
  <1>8. Said(m)
    <2> HIDE DEF ns
    <2>1. b # <<>> => Len(b) # 0
      BY <1>4
    <2>2. b # <<>> => ns # <<>>
      BY <1>4, <1>5, <2>1
    <2> QED
      BY <2>2 DEF Said
  <1> HIDE DEF ns, text
  <1>9. /\ RowsTyped' /\ RowsKnown'
        /\ conv = "live" => /\ m \in ChatMessages /\ Len(messages) \in DOMAIN messages' /\ messages'[Len(messages)] = m
                            /\ History' = Append(History, m)
    BY <1>1, <1>5, <1>7, <1>8, StreamRows
  <1>10. m \in ChatMessages /\ m.id = turn[r].at /\ m.role = "assistant" /\ m.calls = ns
    BY <1>0, <1>5, <1>7 DEF Turns, ChatMessages
  <1> HIDE DEF m
  <1>11. PICK x \in Turns : x = turn[r]
    BY <1>0
  <1> DEFINE h == Append(x.hist, m)
  <1>12. h \in Seq(ChatMessages) /\ p \in Locked /\ p \in {"unlock", "process"} /\ (p = "unlock" => b = <<>>)
    <2>1. x.hist \in Seq(ChatMessages)
      BY DEF Turns
    <2>2. h \in Seq(ChatMessages)
      BY <1>10, <2>1
    <2>3. p \in Locked /\ p \in {"unlock", "process"} /\ (p = "unlock" => b = <<>>)
      BY DEF Locked
    <2> QED
      BY <2>2, <2>3
  <1>13. turn' = [turn EXCEPT ![r] = [x EXCEPT !.pc = p, !.batch = b, !.paused = FALSE, !.failed = {}, !.hist = h]]
    BY <1>6, <1>11
  <1>14. h = Append(turn[r].hist, m)
    BY <1>11
  <1> HIDE DEF h, p
  <1> DEFINE t == [x EXCEPT !.pc = p, !.batch = b, !.paused = FALSE, !.failed = {}, !.hist = h]
  <1>15. /\ t \in Turns /\ t.pc = p /\ t.kind = x.kind /\ t.call = x.call /\ t.batch = b /\ t.hist = h /\ t.iter = x.iter
         /\ t.at = x.at
    BY <1>4, <1>12 DEF Turns
  <1>16. turn' = [turn EXCEPT ![r] = t]
    BY <1>13
  <1> HIDE DEF t
  <1>17. turn'[r] = t
    BY <1>0, <1>15, <1>16, TurnSet
  <1>18. CASE p = "unlock"
    <2>1. t.pc \in Locked \ {"ask", "stream", "process", "run", "dispatch"} /\ t.batch = <<>>
          /\ t.pc \notin {"build", "cut", "user", "decide", "check"}
      BY <1>12, <1>15, <1>18
    <2> QED
      BY <1>1, <1>2, <1>3, <1>9, <1>11, <1>15, <1>16, <2>1, PlainStep
  <1>19. CASE p = "process"
    <2>1. CallAtHand(r)'
      <3>1. t.kind = "resume" => t.call \in DOMAIN calls
        BY <1>0, <1>1, <1>11, <1>15 DEF CallAtHand
      <3> QED
        BY <1>1, <1>15, <1>17, <1>19, <3>1 DEF CallAtHand
    <2>2. HistoryKnown(r)'
      <3>1. conv = "live" => turn[r].hist = History
        BY <1>0, <1>1 DEF HistoryKnown, Mirrors
      <3>2. conv = "live" => t.hist = History'
        BY <1>9, <1>15, <1>14, <3>1
      <3> QED
        BY <1>1, <1>17, <3>2 DEF HistoryKnown
    <2>3. AnswerKnown(r)'
      <3>1. x.iter > 0
        BY <1>0, <1>1, <1>11 DEF AnswerKnown
      <3>2. ASSUME conv = "live", NEW k \in 1 .. Len(b) PROVE AskedBy(Len(calls) + k, turn[r].at)'
        <4> DEFINE n == Len(messages)
        <4>1. n \in DOMAIN messages' /\ messages'[n].id = turn'[r].at /\ messages'[n].role = "assistant" /\ messages'[n].calls = ns
          BY <1>9, <1>10, <1>11, <1>15, <1>17, <3>2
        <4>2. Len(calls) + k \in Range(ns)
          BY <1>5 DEF Range
        <4>3. Len(calls') + k \in Range(messages'[n].calls)
          BY <1>1, <4>1, <4>2
        <4> QED
          BY <4>1, <4>3 DEF AskedBy
      <3>3. conv' = "live" => \A k \in 1 .. Len(turn'[r].batch) : AskedBy(Len(calls) + k, turn[r].at)'
        BY <1>1, <1>15, <1>17, <3>2
      <3>4. (conv = "live" => \A k \in 1 .. Len(turn[r].batch) : AskedBy(Len(calls) + k, turn[r].at))'
        BY <3>3
      <3>5. t.iter > 0 /\ t.iter # 0
        <4>1. t.iter \in 0 .. MaxIterations
          BY <1>15 DEF Turns
        <4> QED
          BY <1>15, <3>1, <4>1
      <3> QED
        BY <1>15, <1>17, <1>19, <3>4, <3>5 DEF AnswerKnown
    <2>4. TurnKnown(r)'
      BY <2>1, <2>2, <2>3 DEF TurnKnown
    <2>5. t.pc \in Locked
      BY <1>12, <1>15
    <2> QED
      BY <1>1, <1>2, <1>3, <1>9, <1>15, <1>16, <2>4, <2>5, HolderSteps
  <1> QED
    BY <1>12, <1>18, <1>19

\* A call of the batch gets its row: it waits, or it is at hand.
LEMMA KeepsProcessCall ==
  ASSUME ChatInv, NEW r \in ChatReqs, ProcessCall(r)
  PROVE  ChatInv'
  <1>0. /\ turn \in [ChatReqs -> Turns] /\ turn[r] \in Turns /\ RowsTyped /\ RowsKnown /\ AsideKnown
        /\ CallAtHand(r) /\ AnswerKnown(r) /\ HistoryKnown(r)
    BY ChatParts
  <1> DEFINE tool == Head(turn[r].batch)
             g == ApprovalNeeded(tool, turn[r].policy)
             row == CallRow(turn[r].at, tool, g)
             row2 == IF conv = "live" THEN row ELSE [row EXCEPT !.st = "gone"]
             b == Tail(turn[r].batch)
             p == IF g THEN "process" ELSE "run"
             n == Len(calls) + 1
             y == turn[r].paused \/ g
  <1>1. /\ turn[r].pc = "process" /\ turn[r].batch # <<>> /\ UNCHANGED <<conv, convBusy, messages, inserted, aside>>
        /\ calls' = Append(calls, row2)
        /\ turn' = [turn EXCEPT ![r] = [turn[r] EXCEPT !.batch = b, !.call = n, !.paused = y, !.pc = p]]
    BY DEF ProcessCall
  <1>2. turn[r].pc \in Locked
    BY <1>1 DEF Locked
  <1>3. AsideKnown'
    BY <1>0, <1>1, AsideStays
  <1>4. /\ turn[r].batch \in Seq(Tools) /\ turn[r].at \in Nat /\ turn[r].paused \in BOOLEAN /\ Len(calls) \in Nat
        /\ turn[r].iter \in 0 .. MaxIterations
    <2>1. /\ turn[r].batch \in Seq(Tools) /\ turn[r].at \in Nat /\ turn[r].paused \in BOOLEAN
          /\ turn[r].iter \in 0 .. MaxIterations
      BY <1>0 DEF Turns
    <2>2. Len(calls) \in Nat
      BY <1>0 DEF RowsTyped
    <2> QED
      BY <2>1, <2>2
  <1>5. /\ tool \in Tools /\ b \in Seq(Tools) /\ Len(turn[r].batch) \in Nat /\ Len(turn[r].batch) > 0
        /\ Len(b) = Len(turn[r].batch) - 1
    BY <1>1, <1>4
  <1>6. g \in BOOLEAN
    BY DEF ApprovalNeeded
  <1> HIDE DEF tool, g, b
  <1>7. p \in {"process", "run"} /\ (p = "run" => ~g) /\ y \in BOOLEAN
    BY <1>4, <1>6
  <1>8. row \in ToolCalls /\ row.msg = turn[r].at /\ row.gated = g /\ row.runs = 0 /\ row.st # "gone"
    BY <1>4, <1>5, <1>6 DEF CallRow, ToolCalls, Statuses
  <1>9. /\ row2 \in ToolCalls /\ row2.msg = turn[r].at /\ row2.gated = g /\ row2.runs = 0
        /\ (row2.st # "gone" => conv = "live") /\ (conv = "live" => row2.st # "gone")
    <2>1. CASE conv = "live"
      BY <1>8, <2>1
    <2>2. CASE conv # "live"
      <3> HIDE DEF row
      <3>1. PICK z \in ToolCalls : z = row
        BY <1>8
      <3>2. [z EXCEPT !.st = "gone"] \in ToolCalls /\ [z EXCEPT !.st = "gone"].msg = z.msg /\ [z EXCEPT !.st = "gone"].gated = z.gated
            /\ [z EXCEPT !.st = "gone"].runs = z.runs /\ [z EXCEPT !.st = "gone"].st = "gone"
        BY DEF ToolCalls, Statuses
      <3> QED
        BY <1>8, <2>2, <3>1, <3>2
    <2> QED
      BY <2>1, <2>2
  <1> HIDE DEF row, row2, p, y
  <1>10. conv = "live" => \A k \in 1 .. Len(turn[r].batch) : AskedBy(Len(calls) + k, turn[r].at)
    BY <1>0 DEF AnswerKnown
  <1>11. row2.st # "gone" => AskedBy(n, row2.msg)
    <2>1. 1 \in 1 .. Len(turn[r].batch)
      BY <1>5
    <2> QED
      BY <1>9, <1>10, <2>1
  <1>12. /\ RowsTyped' /\ RowsKnown' /\ DOMAIN calls \subseteq DOMAIN calls'
         /\ Len(calls') = n /\ n \in DOMAIN calls' /\ calls'[n] = row2 /\ Unanswered(n)
    BY <1>0, <1>1, <1>9, <1>11, CallStored
  <1>13. PICK x \in Turns : x = turn[r]
    BY <1>0
  <1>14. n \in Nat
    BY <1>4
  <1> HIDE DEF n
  <1> DEFINE t == [x EXCEPT !.batch = b, !.call = n, !.paused = y, !.pc = p]
  <1>15. /\ t \in Turns /\ t.pc = p /\ t.kind = x.kind /\ t.call = n /\ t.batch = b /\ t.hist = x.hist /\ t.iter = x.iter
         /\ t.at = x.at
    BY <1>5, <1>7, <1>14 DEF Turns, Locked
  <1>16. turn' = [turn EXCEPT ![r] = t]
    BY <1>1, <1>13
  <1> HIDE DEF t
  <1>17. turn'[r] = t
    BY <1>0, <1>15, <1>16, TurnSet
  <1>18. CallAtHand(r)'
    <2>1. \A i \in DOMAIN messages : messages[i].role = "tool" => messages[i].calls # <<n>>
      BY <1>12 DEF Unanswered
    <2>2. Unanswered(turn[r].call)'
      BY <1>1, <1>15, <1>17, <2>1 DEF Unanswered
    <2> QED
      BY <1>1, <1>7, <1>9, <1>12, <1>15, <1>17, <2>2 DEF CallAtHand
  <1>19. HistoryKnown(r)'
    <2>1. conv = "live" => t.hist = History
      BY <1>0, <1>1, <1>13, <1>15 DEF HistoryKnown, Mirrors
    <2> QED
      BY <1>1, <1>17, <2>1 DEF HistoryKnown, History
  <1>20. AnswerKnown(r)'
    <2>1. t.iter > 0 /\ t.iter # 0
      <3>1. turn[r].iter > 0
        BY <1>0, <1>1 DEF AnswerKnown
      <3> QED
        BY <1>4, <1>13, <1>15, <3>1
    <2>2. ASSUME conv = "live", NEW k \in 1 .. Len(b) PROVE AskedBy(Len(calls) + k, turn[r].at)'
      <3>1. k + 1 \in 1 .. Len(turn[r].batch) /\ Len(calls) + (k + 1) = Len(calls') + k
        BY <1>4, <1>5, <1>12 DEF n
      <3>2. AskedBy(Len(calls) + (k + 1), turn[r].at)
        BY <1>10, <2>2, <3>1
      <3>3. turn'[r].at = turn[r].at
        BY <1>13, <1>15, <1>17
      <3> QED
        BY <1>1, <3>1, <3>2, <3>3 DEF AskedBy
    <2>3. conv' = "live" => \A k \in 1 .. Len(turn'[r].batch) : AskedBy(Len(calls) + k, turn[r].at)'
      BY <1>1, <1>15, <1>17, <2>2
    <2>4. (conv = "live" => \A k \in 1 .. Len(turn[r].batch) : AskedBy(Len(calls) + k, turn[r].at))'
      BY <2>3
    <2> QED
      BY <1>7, <1>15, <1>17, <2>1, <2>4 DEF AnswerKnown
  <1>21. TurnKnown(r)' /\ t.pc \in Locked
    BY <1>7, <1>15, <1>18, <1>19, <1>20 DEF TurnKnown, Locked
  <1> QED
    BY <1>1, <1>2, <1>3, <1>12, <1>15, <1>16, <1>21, HolderSteps

\* A turn with a call at hand, at its new place.
LEMMA AtHandTurn ==
  ASSUME ChatInv, NEW r \in ChatReqs, turn[r].pc \in {"decide", "run"}, NEW p \in {"run", "dispatch"}, Goto(r, p),
         UNCHANGED <<conv, convBusy, messages, inserted, aside>>, RowsTyped', RowsKnown', DOMAIN calls' = DOMAIN calls,
         turn[r].call \in DOMAIN calls, Unanswered(turn[r].call), turn[r].pc = "decide" => p = "run",
         calls'[turn[r].call].gated => calls'[turn[r].call].decided = "yes",
         conv = "live" => calls'[turn[r].call].st # "gone",
         p = "run" => calls'[turn[r].call].runs = 0
  PROVE  ChatInv'
  <1>0. turn \in [ChatReqs -> Turns] /\ turn[r] \in Turns /\ AsideKnown /\ CallAtHand(r) /\ AnswerKnown(r) /\ HistoryKnown(r)
        /\ RowsTyped
    BY ChatParts
  <1>1. p \in Locked /\ turn[r].pc \in Locked
    BY DEF Locked
  <1>2. PICK t \in Turns : /\ turn' = [turn EXCEPT ![r] = t] /\ t.pc = p /\ t.kind = turn[r].kind /\ t.call = turn[r].call
                           /\ t.batch = turn[r].batch /\ t.iter = turn[r].iter /\ t.hist = turn[r].hist /\ t.at = turn[r].at
    BY <1>0, <1>1, GotoTurn
  <1>3. turn'[r] = t
    BY <1>0, <1>2, TurnSet
  <1>4. AsideKnown'
    BY <1>0, AsideStays
  <1>5. CallAtHand(r)'
    <2>1. Unanswered(turn[r].call)'
      BY <1>2, <1>3 DEF Unanswered
    <2> QED
      BY <1>2, <1>3, <2>1 DEF CallAtHand
  <1>6. turn[r].pc = "decide" => turn[r].kind = "resume" /\ turn[r].iter = 0
    BY <1>0 DEF CallAtHand, AnswerKnown
  <1>7. HistoryKnown(r)'
    BY <1>0, <1>2, <1>3, <1>6 DEF HistoryKnown, Mirrors, After, History
  <1>8. AnswerKnown(r)'
    <2>1. Len(calls') = Len(calls)
      <3>1. DOMAIN calls = 1 .. Len(calls) /\ DOMAIN calls' = 1 .. Len(calls') /\ Len(calls) \in Nat /\ Len(calls') \in Nat
        BY <1>0 DEF RowsTyped
      <3> QED
        BY <3>1
    <2>2. (conv = "live" => \A k \in 1 .. Len(turn[r].batch) : AskedBy(Len(calls) + k, turn[r].at))'
      BY <1>0, <1>2, <1>3, <2>1 DEF AnswerKnown, AskedBy
    <2>3. turn[r].kind # "resume" => turn[r].iter > 0
      BY <1>0, <1>6 DEF AnswerKnown
    <2> QED
      BY <1>0, <1>2, <1>3, <2>2, <2>3 DEF AnswerKnown
  <1>9. TurnKnown(r)'
    BY <1>5, <1>7, <1>8 DEF TurnKnown
  <1> QED
    BY <1>1, <1>2, <1>4, <1>9, HolderSteps

\* The row UpdateToolCall leaves.
LEMMA RowUpdated ==
  ASSUME RowsTyped, NEW c \in DOMAIN calls, NEW st \in Statuses
  PROVE  \E row \in ToolCalls : /\ UpdateToolCall(c, st) = [calls EXCEPT ![c] = row]
                                /\ row.st = IF calls[c].st = "gone" THEN "gone" ELSE st
                                /\ row.msg = calls[c].msg /\ row.gated = calls[c].gated /\ row.runs = calls[c].runs
                                /\ row.decided = calls[c].decided
  <1>1. calls \in Seq(ToolCalls) /\ calls[c] \in ToolCalls
    BY DEF RowsTyped
  <1>2. PICK x \in ToolCalls : x = calls[c]
    BY <1>1
  <1> DEFINE s == IF x.st = "gone" THEN "gone" ELSE st
             row == [x EXCEPT !.st = s]
  <1>3. s \in Statuses
    BY DEF Statuses
  <1>4. UpdateToolCall(c, st) = [calls EXCEPT ![c] = row]
    BY <1>2 DEF UpdateToolCall
  <1>5. s = IF calls[c].st = "gone" THEN "gone" ELSE st
    BY <1>2
  <1> HIDE DEF s
  <1>6. /\ row \in ToolCalls /\ row.st = s /\ row.msg = x.msg /\ row.gated = x.gated /\ row.runs = x.runs
        /\ row.decided = x.decided
    BY <1>3 DEF ToolCalls
  <1> QED
    BY <1>2, <1>4, <1>5, <1>6

\* The same, with what the human said.
LEMMA RowDecided ==
  ASSUME RowsTyped, NEW c \in DOMAIN calls, NEW st \in Statuses, NEW word \in {"yes", "no"}
  PROVE  \E row \in ToolCalls : /\ [UpdateToolCall(c, st) EXCEPT ![c].decided = word] = [calls EXCEPT ![c] = row]
                                /\ row.st = IF calls[c].st = "gone" THEN "gone" ELSE st
                                /\ row.msg = calls[c].msg /\ row.gated = calls[c].gated /\ row.runs = calls[c].runs
                                /\ row.decided = word
  <1>1. PICK x \in ToolCalls : /\ UpdateToolCall(c, st) = [calls EXCEPT ![c] = x]
                               /\ x.st = IF calls[c].st = "gone" THEN "gone" ELSE st
                               /\ x.msg = calls[c].msg /\ x.gated = calls[c].gated /\ x.runs = calls[c].runs
    BY RowUpdated
  <1> DEFINE row == [x EXCEPT !.decided = word]
  <1>2. /\ row \in ToolCalls /\ row.st = x.st /\ row.msg = x.msg /\ row.gated = x.gated /\ row.runs = x.runs
        /\ row.decided = word
    BY DEF ToolCalls
  <1>3. [[calls EXCEPT ![c] = x] EXCEPT ![c].decided = word] = [calls EXCEPT ![c] = row]
    BY DEF RowsTyped
  <1> QED
    BY <1>1, <1>2, <1>3

\* The same, when the tool is called.
LEMMA RowRuns ==
  ASSUME RowsTyped, NEW c \in DOMAIN calls, NEW st \in Statuses
  PROVE  \E row \in ToolCalls : /\ [UpdateToolCall(c, st) EXCEPT ![c].runs = @ + 1] = [calls EXCEPT ![c] = row]
                                /\ row.st = IF calls[c].st = "gone" THEN "gone" ELSE st
                                /\ row.msg = calls[c].msg /\ row.gated = calls[c].gated /\ row.runs = calls[c].runs + 1
                                /\ row.decided = calls[c].decided
  <1>1. PICK x \in ToolCalls : /\ UpdateToolCall(c, st) = [calls EXCEPT ![c] = x]
                               /\ x.st = IF calls[c].st = "gone" THEN "gone" ELSE st
                               /\ x.msg = calls[c].msg /\ x.gated = calls[c].gated /\ x.runs = calls[c].runs
                               /\ x.decided = calls[c].decided
    BY RowUpdated
  <1> DEFINE row == [x EXCEPT !.runs = x.runs + 1]
  <1>2. /\ row \in ToolCalls /\ row.st = x.st /\ row.msg = x.msg /\ row.gated = x.gated /\ row.runs = x.runs + 1
        /\ row.decided = x.decided
    BY DEF ToolCalls
  <1>3. [[calls EXCEPT ![c] = x] EXCEPT ![c].runs = @ + 1] = [calls EXCEPT ![c] = row]
    BY DEF RowsTyped
  <1> QED
    BY <1>1, <1>2, <1>3

LEMMA KeepsResumeDecide ==
  ASSUME ChatInv, NEW r \in ChatReqs, ResumeDecide(r)
  PROVE  ChatInv'
  <1>0. /\ turn \in [ChatReqs -> Turns] /\ turn[r] \in Turns /\ RowsTyped /\ RowsKnown /\ AsideKnown
        /\ CallAtHand(r) /\ AnswerKnown(r)
    BY ChatParts
  <1> DEFINE c == turn[r].call
  <1>1. turn[r].pc = "decide" /\ UNCHANGED <<conv, convBusy, aside>>
    BY DEF ResumeDecide
  <1>2. turn[r].batch = <<>> /\ turn[r].iter = 0 /\ turn[r].pc \in Locked
    BY <1>0, <1>1 DEF AnswerKnown, Locked
  <1>3. turn[r].kind = "resume" /\ c \in DOMAIN calls
    BY <1>0, <1>1 DEF CallAtHand
  <1>4. AsideKnown'
    BY <1>0, <1>1, AsideStays
  <1>5. CASE Goto(r, "unlock") /\ UNCHANGED <<messages, inserted, calls>>
    <2>1. UNCHANGED rowsOfChat
      BY <1>1, <1>5 DEF rowsOfChat
    <2>2. RowsTyped' /\ RowsKnown' /\ DOMAIN calls \subseteq DOMAIN calls'
      BY <1>0, <2>1, RowsStay
    <2> QED
      BY <1>1, <1>2, <1>4, <1>5, <2>2, PlainGoto
  <1>6. calls[c].st = "pending_approval" => /\ calls[c].runs = 0 /\ Unanswered(c)
    BY <1>0, <1>3 DEF RowsKnown, CallsKnown, CallKnown
  <1>7. CASE /\ calls[c].st = "pending_approval" /\ calls' = [UpdateToolCall(c, "approved") EXCEPT ![c].decided = "yes"]
             /\ Goto(r, "run") /\ UNCHANGED <<messages, inserted>>
    <2>1. PICK row \in ToolCalls :
            /\ calls' = [calls EXCEPT ![c] = row] /\ row.st = "approved" /\ row.msg = calls[c].msg /\ row.gated = calls[c].gated
            /\ row.runs = calls[c].runs /\ row.decided = "yes"
      <3>1. "approved" \in Statuses
        BY DEF Statuses
      <3>2. PICK row \in ToolCalls :
              /\ [UpdateToolCall(c, "approved") EXCEPT ![c].decided = "yes"] = [calls EXCEPT ![c] = row]
              /\ row.st = IF calls[c].st = "gone" THEN "gone" ELSE "approved"
              /\ row.msg = calls[c].msg /\ row.gated = calls[c].gated /\ row.runs = calls[c].runs /\ row.decided = "yes"
        BY <1>0, <1>3, <3>1, RowDecided
      <3>3. calls' = [calls EXCEPT ![c] = row] /\ row.st = "approved"
        BY <1>7, <3>2
      <3> QED
        BY <3>2, <3>3
    <2> HIDE DEF c
    <2>2. MayMove(c, row)
      BY <1>6, <1>7, <2>1 DEF MayMove
    <2>3. RowsTyped' /\ RowsKnown' /\ DOMAIN calls' = DOMAIN calls
      BY <1>0, <1>1, <1>3, <1>7, <2>1, <2>2, CallMoves
    <2>4. calls'[c] = row
      BY <1>0, <1>3, <2>1, CallSet
    <2>5. Unanswered(c) /\ calls'[c].decided = "yes" /\ calls'[c].st # "gone" /\ calls'[c].runs = 0
      BY <1>6, <1>7, <2>1, <2>4
    <2>6. Goto(r, "run") /\ UNCHANGED <<conv, convBusy, messages, inserted, aside>>
      BY <1>1, <1>7
    <2> QED
      BY <1>1, <1>3, <2>3, <2>5, <2>6, AtHandTurn DEF c
  <1>8. CASE /\ calls[c].st = "pending_approval" /\ calls' = [UpdateToolCall(c, "rejected") EXCEPT ![c].decided = "no"]
             /\ InsertMessage(ToolMessage(c)) /\ Goto(r, "check")
    <2>1. PICK row \in ToolCalls :
            /\ calls' = [calls EXCEPT ![c] = row] /\ row.st = "rejected" /\ row.msg = calls[c].msg /\ row.gated = calls[c].gated
            /\ row.runs = calls[c].runs
      <3>1. "rejected" \in Statuses
        BY DEF Statuses
      <3>2. PICK row \in ToolCalls :
              /\ [UpdateToolCall(c, "rejected") EXCEPT ![c].decided = "no"] = [calls EXCEPT ![c] = row]
              /\ row.st = IF calls[c].st = "gone" THEN "gone" ELSE "rejected"
              /\ row.msg = calls[c].msg /\ row.gated = calls[c].gated /\ row.runs = calls[c].runs /\ row.decided = "no"
        BY <1>0, <1>3, <3>1, RowDecided
      <3>3. calls' = [calls EXCEPT ![c] = row] /\ row.st = "rejected"
        BY <1>8, <3>2
      <3> QED
        BY <3>2, <3>3
    <2> HIDE DEF c
    <2>2. MayMove(c, row)
      BY <1>6, <1>8, <2>1 DEF MayMove
    <2>3. RowsTyped' /\ RowsKnown' /\ DOMAIN calls \subseteq DOMAIN calls'
      <3>1. CASE conv = "live"
        <4>1. messages' = Append(messages, ToolMessage(c)) /\ inserted' = inserted + 1
          BY <1>8, <3>1 DEF InsertMessage
        <4> QED
          BY <1>0, <1>1, <1>3, <1>6, <1>8, <2>1, <2>2, <3>1, <4>1, CallAnswered
      <3>2. CASE conv # "live"
        <4>1. UNCHANGED <<conv, messages, inserted>>
          BY <1>1, <1>8, <3>2 DEF InsertMessage
        <4> QED
          BY <1>0, <1>3, <2>1, <2>2, <4>1, CallMoves
      <3> QED
        BY <3>1, <3>2
    <2>4. Goto(r, "check")
      BY <1>8
    <2> QED
      BY <1>1, <1>2, <1>3, <1>4, <2>3, <2>4, PlainGoto
  <1>9. \/ Goto(r, "unlock") /\ UNCHANGED <<messages, inserted, calls>>
        \/ /\ calls[c].st = "pending_approval" /\ calls' = [UpdateToolCall(c, "approved") EXCEPT ![c].decided = "yes"]
           /\ Goto(r, "run") /\ UNCHANGED <<messages, inserted>>
        \/ /\ calls[c].st = "pending_approval" /\ calls' = [UpdateToolCall(c, "rejected") EXCEPT ![c].decided = "no"]
           /\ InsertMessage(ToolMessage(c)) /\ Goto(r, "check")
    BY DEF ResumeDecide, AwaitsApproval
  <1> QED
    BY <1>5, <1>7, <1>8, <1>9

\* What holds of the call at hand.
LEMMA AtHand ==
  ASSUME ChatInv, NEW r \in ChatReqs, turn[r].pc \in {"run", "dispatch"}
  PROVE  /\ turn[r].call \in DOMAIN calls /\ Unanswered(turn[r].call) /\ turn[r].pc \in Locked
         /\ calls[turn[r].call] \in ToolCalls /\ calls[turn[r].call].runs <= 1
         /\ calls[turn[r].call].gated => calls[turn[r].call].decided = "yes"
         /\ conv = "live" => calls[turn[r].call].st # "gone"
         /\ turn[r].pc = "run" => calls[turn[r].call].runs = 0
         /\ After(r) = "check" => turn[r].kind = "resume" /\ turn[r].iter = 0 /\ turn[r].batch = <<>>
         /\ After(r) = "process" => turn[r].iter > 0 /\ turn[r].iter # 0 /\ (conv = "live" => turn[r].hist = History)
         /\ After(r) \in {"check", "process"}
  <1>0. /\ turn[r] \in Turns /\ RowsTyped /\ RowsKnown /\ CallAtHand(r) /\ AnswerKnown(r) /\ HistoryKnown(r)
    BY ChatParts
  <1>1. /\ turn[r].call \in DOMAIN calls /\ Unanswered(turn[r].call) /\ turn[r].pc \in Locked
        /\ calls[turn[r].call].gated => calls[turn[r].call].decided = "yes"
        /\ conv = "live" => calls[turn[r].call].st # "gone"
        /\ turn[r].pc = "run" => calls[turn[r].call].runs = 0
    BY <1>0 DEF CallAtHand, Locked
  <1>2. calls[turn[r].call] \in ToolCalls /\ calls[turn[r].call].runs <= 1
    BY <1>0, <1>1 DEF RowsTyped, RowsKnown, CallsKnown, CallKnown
  <1>3. turn[r].iter \in 0 .. MaxIterations
    BY <1>0 DEF Turns
  <1>4. After(r) = "check" => turn[r].kind = "resume" /\ turn[r].iter = 0 /\ turn[r].batch = <<>>
    BY <1>0 DEF After, AnswerKnown
  <1>5. After(r) = "process" => turn[r].iter > 0 /\ turn[r].iter # 0
    <2>1. turn[r].kind # "resume" => turn[r].iter > 0
      BY <1>0 DEF AnswerKnown
    <2>2. After(r) = "process" => turn[r].kind # "resume" \/ turn[r].iter # 0
      BY DEF After
    <2> QED
      BY <1>3, <2>1, <2>2
  <1>6. After(r) = "process" /\ conv = "live" => turn[r].hist = History
    BY <1>0 DEF HistoryKnown, Mirrors
  <1>7. After(r) \in {"check", "process"}
    BY DEF After
  <1> QED
    BY <1>1, <1>2, <1>4, <1>5, <1>6, <1>7

\* The batch goes on after a call, with the history that the rows have.
LEMMA BackToBatch ==
  ASSUME ChatInv, NEW r \in ChatReqs, turn[r].pc \in {"run", "dispatch"}, NEW t \in Turns, turn' = [turn EXCEPT ![r] = t],
         t.pc = "process", t.kind = turn[r].kind, t.call = turn[r].call, t.batch = turn[r].batch, t.iter = turn[r].iter,
         t.at = turn[r].at, t.iter > 0, t.iter # 0, conv = "live" => t.hist = History',
         UNCHANGED <<conv, convBusy>>, RowsTyped', RowsKnown', DOMAIN calls' = DOMAIN calls, AsideKnown',
         \A j \in DOMAIN messages : j \in DOMAIN messages' /\ messages'[j] = messages[j]
  PROVE  ChatInv'
  <1>0. turn \in [ChatReqs -> Turns] /\ RowsTyped /\ CallAtHand(r) /\ AnswerKnown(r)
    BY ChatParts
  <1>1. turn'[r] = t /\ t.pc \in Locked /\ turn[r].pc \in Locked
    BY <1>0, TurnSet DEF Locked
  <1>2. CallAtHand(r)'
    <2>1. turn[r].call \in DOMAIN calls
      BY <1>0 DEF CallAtHand
    <2> QED
      BY <1>1, <2>1 DEF CallAtHand
  <1>3. HistoryKnown(r)'
    BY <1>1 DEF HistoryKnown
  <1>4. AnswerKnown(r)'
    <2>1. Len(calls') = Len(calls)
      <3>1. DOMAIN calls = 1 .. Len(calls) /\ DOMAIN calls' = 1 .. Len(calls') /\ Len(calls) \in Nat /\ Len(calls') \in Nat
        BY <1>0 DEF RowsTyped
      <3> QED
        BY <3>1
    <2>2. (conv = "live" => \A k \in 1 .. Len(turn[r].batch) : AskedBy(Len(calls) + k, turn[r].at))'
      BY <1>0, <1>1, <2>1 DEF AnswerKnown, AskedBy
    <2> QED
      BY <1>1, <2>2 DEF AnswerKnown
  <1>5. TurnKnown(r)'
    BY <1>2, <1>3, <1>4 DEF TurnKnown
  <1> QED
    BY <1>1, <1>5, HolderSteps

LEMMA KeepsFinish ==
  ASSUME ChatInv, NEW r \in ChatReqs, turn[r].pc \in {"run", "dispatch"}, NEW st \in {"succeeded", "failed"},
         Finish(r, turn[r].call, st), UNCHANGED <<conv, convBusy, aside>>
  PROVE  ChatInv'
  <1>0. turn \in [ChatReqs -> Turns] /\ turn[r] \in Turns /\ RowsTyped /\ RowsKnown /\ AsideKnown
    BY ChatParts
  <1> DEFINE c == turn[r].call
             m == ToolMessage(c)
             p == After(r)
             h == IF p = "check" THEN turn[r].hist ELSE Append(turn[r].hist, m)
             f == turn[r].failed \cup (IF st = "failed" THEN {calls[c].tool} ELSE {})
  <1>1. /\ c \in DOMAIN calls /\ Unanswered(c) /\ turn[r].pc \in Locked
        /\ calls[c] \in ToolCalls /\ calls[c].runs <= 1
        /\ (calls[c].gated => calls[c].decided = "yes") /\ (conv = "live" => calls[c].st # "gone")
        /\ p = "check" => turn[r].kind = "resume" /\ turn[r].iter = 0 /\ turn[r].batch = <<>>
        /\ p = "process" => turn[r].iter > 0 /\ turn[r].iter # 0 /\ (conv = "live" => turn[r].hist = History)
        /\ p \in {"check", "process"}
    BY AtHand
  <1>2. AsideKnown'
    BY <1>0, AsideStays
  <1>3. PICK row \in ToolCalls : /\ UpdateToolCall(c, st) = [calls EXCEPT ![c] = row]
                                 /\ row.st = IF calls[c].st = "gone" THEN "gone" ELSE st
                                 /\ row.msg = calls[c].msg /\ row.gated = calls[c].gated /\ row.runs = calls[c].runs
                                 /\ row.decided = calls[c].decided
    <2>1. st \in Statuses
      BY DEF Statuses
    <2> QED
      BY <1>0, <1>1, <2>1, RowUpdated
  <1>4. /\ calls' = [calls EXCEPT ![c] = row] /\ InsertMessage(m)
        /\ turn' = [turn EXCEPT ![r] = [turn[r] EXCEPT !.pc = p, !.failed = f, !.hist = h]]
    BY <1>3 DEF Finish
  <1>5. m \in ChatMessages /\ Said(m)
    BY <1>0, <1>1 DEF RowsTyped, ToolMessage, ChatMessages, Said
  <1>6. h \in Seq(ChatMessages) /\ f \in SUBSET Tools
    <2>1. turn[r].hist \in Seq(ChatMessages) /\ turn[r].failed \in SUBSET Tools /\ calls[c].tool \in Tools
      BY <1>0, <1>1 DEF Turns, ToolCalls
    <2> HIDE DEF m, c, p
    <2>2. h \in Seq(ChatMessages)
      BY <1>5, <2>1
    <2>3. f \in SUBSET Tools
      BY <2>1
    <2> QED
      BY <2>2, <2>3
  <1>7. p = "process" => h = Append(turn[r].hist, m)
    OBVIOUS
  <1>8. MayMove(c, row)
    <2> HIDE DEF c
    <2> QED
      BY <1>1, <1>3 DEF MayMove
  <1>9. /\ RowsTyped' /\ RowsKnown' /\ DOMAIN calls' = DOMAIN calls
        /\ \A j \in DOMAIN messages : j \in DOMAIN messages' /\ messages'[j] = messages[j]
        /\ conv = "live" => History' = Append(History, m)
    <2>1. CASE conv = "live"
      <3>1. messages' = Append(messages, m) /\ inserted' = inserted + 1
        BY <1>4, <2>1 DEF InsertMessage
      <3>2. RowsTyped' /\ RowsKnown' /\ DOMAIN calls' = DOMAIN calls
        BY <1>0, <1>1, <1>4, <1>8, <2>1, <3>1, CallAnswered
      <3>3. messages \in Seq(ChatMessages)
        BY <1>0 DEF RowsTyped
      <3> HIDE DEF m
      <3>4. \A j \in DOMAIN messages : j \in DOMAIN messages' /\ messages'[j] = messages[j]
        BY <1>5, <3>1, <3>3
      <3>5. History' = Append(History, m)
        BY <1>5, <3>1, <3>3, HistoryAppend DEF History
      <3> QED
        BY <3>2, <3>4, <3>5
    <2>2. CASE conv # "live"
      <3>1. UNCHANGED <<messages, inserted>>
        BY <1>4, <2>2 DEF InsertMessage
      <3>2. RowsTyped' /\ RowsKnown' /\ DOMAIN calls' = DOMAIN calls
        BY <1>0, <1>1, <1>4, <1>8, <3>1, CallMoves
      <3> QED
        BY <2>2, <3>1, <3>2
    <2> QED
      BY <2>1, <2>2
  <1>10. PICK x \in Turns : x = turn[r]
    BY <1>0
  <1>11. p \in Locked /\ turn' = [turn EXCEPT ![r] = [x EXCEPT !.pc = p, !.failed = f, !.hist = h]]
    BY <1>1, <1>4, <1>10 DEF Locked
  <1> HIDE DEF f, h, p, m, c
  <1> DEFINE t == [x EXCEPT !.pc = p, !.failed = f, !.hist = h]
  <1>12. /\ t \in Turns /\ t.pc = p /\ t.kind = x.kind /\ t.call = x.call /\ t.batch = x.batch /\ t.iter = x.iter
         /\ t.at = x.at /\ t.hist = h
    BY <1>6, <1>11 DEF Turns
  <1>13. turn' = [turn EXCEPT ![r] = t]
    BY <1>11
  <1> HIDE DEF t
  <1>14. CASE p = "check"
    <2>1. t.pc \in Locked \ {"ask", "stream", "process", "run", "dispatch"} /\ t.batch = <<>> /\ t.iter = 0 /\ t.kind = "resume"
      BY <1>1, <1>10, <1>11, <1>12, <1>14
    <2> QED
      BY <1>1, <1>2, <1>9, <1>10, <1>12, <1>13, <2>1, PlainStep
  <1>15. CASE p = "process"
    <2>1. t.iter > 0 /\ t.iter # 0 /\ (conv = "live" => t.hist = History')
      BY <1>1, <1>7, <1>9, <1>10, <1>12, <1>15
    <2> QED
      BY <1>2, <1>9, <1>10, <1>12, <1>13, <1>15, <2>1, BackToBatch
  <1> QED
    BY <1>1, <1>14, <1>15

LEMMA KeepsDispatched ==
  ASSUME ChatInv, NEW r \in ChatReqs, Dispatched(r)
  PROVE  ChatInv'
  BY KeepsFinish DEF Dispatched

LEMMA KeepsRunToolCall ==
  ASSUME ChatInv, NEW r \in ChatReqs, RunToolCall(r)
  PROVE  ChatInv'
  <1>0. turn \in [ChatReqs -> Turns] /\ turn[r] \in Turns /\ RowsTyped /\ RowsKnown /\ AsideKnown
    BY ChatParts
  <1> DEFINE c == turn[r].call
             p == After(r)
  <1>1. turn[r].pc = "run" /\ UNCHANGED <<conv, convBusy, aside>>
    BY DEF RunToolCall
  <1>2. /\ c \in DOMAIN calls /\ Unanswered(c) /\ turn[r].pc \in Locked
        /\ calls[c] \in ToolCalls /\ calls[c].runs = 0
        /\ (calls[c].gated => calls[c].decided = "yes") /\ (conv = "live" => calls[c].st # "gone")
        /\ p = "check" => turn[r].kind = "resume" /\ turn[r].iter = 0 /\ turn[r].batch = <<>>
        /\ p = "process" => turn[r].iter > 0 /\ turn[r].iter # 0 /\ (conv = "live" => turn[r].hist = History)
        /\ p \in {"check", "process"}
    BY <1>1, AtHand
  <1>3. AsideKnown'
    BY <1>0, <1>1, AsideStays
  <1>4. CASE Goto(r, After(r)) /\ UNCHANGED <<messages, inserted, calls>>
    <2>1. UNCHANGED rowsOfChat /\ Goto(r, p)
      BY <1>1, <1>4 DEF rowsOfChat
    <2>2. RowsTyped' /\ RowsKnown' /\ DOMAIN calls \subseteq DOMAIN calls'
      BY <1>0, <2>1, RowsStay
    <2> HIDE DEF p
    <2>3. CASE p = "check"
      BY <1>1, <1>2, <1>3, <2>1, <2>2, <2>3, PlainGoto
    <2>4. CASE p = "process"
      <3>1. "process" \in Locked /\ Goto(r, "process")
        BY <2>1, <2>4 DEF Locked
      <3>2. PICK t \in Turns :
              /\ turn' = [turn EXCEPT ![r] = t] /\ t.pc = "process" /\ t.kind = turn[r].kind /\ t.call = turn[r].call
              /\ t.batch = turn[r].batch /\ t.iter = turn[r].iter /\ t.hist = turn[r].hist /\ t.at = turn[r].at
        BY <1>0, <3>1, GotoTurn
      <3>3. t.iter > 0 /\ t.iter # 0 /\ (conv = "live" => t.hist = History')
        BY <1>2, <1>4, <2>4, <3>2 DEF History
      <3>4. /\ DOMAIN calls' = DOMAIN calls
            /\ \A j \in DOMAIN messages : j \in DOMAIN messages' /\ messages'[j] = messages[j]
        BY <1>4
      <3> QED
        BY <1>1, <1>3, <2>2, <3>2, <3>3, <3>4, BackToBatch
    <2> QED
      BY <1>2, <2>3, <2>4
  <1>5. CASE Finish(r, c, "failed")
    BY <1>1, <1>5, KeepsFinish
  <1>6. CASE /\ calls' = [UpdateToolCall(c, "running") EXCEPT ![c].runs = @ + 1]
             /\ Goto(r, "dispatch") /\ UNCHANGED <<messages, inserted>>
    <2>1. "running" \in Statuses
      BY DEF Statuses
    <2>2. PICK row \in ToolCalls :
            /\ [UpdateToolCall(c, "running") EXCEPT ![c].runs = @ + 1] = [calls EXCEPT ![c] = row]
            /\ row.st = IF calls[c].st = "gone" THEN "gone" ELSE "running"
            /\ row.msg = calls[c].msg /\ row.gated = calls[c].gated /\ row.runs = calls[c].runs + 1
            /\ row.decided = calls[c].decided
      BY <1>0, <1>2, <2>1, RowRuns
    <2>3. calls' = [calls EXCEPT ![c] = row]
      BY <1>6, <2>2
    <2> HIDE DEF c
    <2>4. MayMove(c, row)
      BY <1>2, <2>2 DEF MayMove
    <2>5. RowsTyped' /\ RowsKnown' /\ DOMAIN calls' = DOMAIN calls
      BY <1>0, <1>1, <1>2, <1>6, <2>3, <2>4, CallMoves
    <2>6. calls'[c] = row
      BY <1>0, <1>2, <2>3, CallSet
    <2>7. (calls'[c].gated => calls'[c].decided = "yes") /\ (conv = "live" => calls'[c].st # "gone")
      BY <1>2, <2>2, <2>6
    <2>8. Goto(r, "dispatch") /\ UNCHANGED <<conv, convBusy, messages, inserted, aside>>
      BY <1>1, <1>6
    <2> QED
      BY <1>1, <1>2, <2>5, <2>7, <2>8, AtHandTurn DEF c
  <1> QED
    BY <1>4, <1>5, <1>6 DEF RunToolCall

\* A step of one turn that leaves the rows alone.
LEMMA OneSteps ==
  ASSUME ChatInv, NEW r \in ChatReqs, NEW t \in Turns, turn' = [turn EXCEPT ![r] = t],
         UNCHANGED <<rowsOfChat, aside>>, convBusy' \in BOOLEAN, LockKnown', conv # "none", TurnKnown(r)'
  PROVE  ChatInv'
  <1>0. /\ turn \in [ChatReqs -> Turns] /\ RowsTyped /\ RowsKnown /\ AsideKnown /\ TurnsKnown
        /\ conv \in {"none", "live", "gone"}
    BY DEF ChatInv
  <1>1. turn' \in [ChatReqs -> Turns] /\ \A q \in ChatReqs : q # r => turn'[q] = turn[q]
    BY <1>0, TurnSet
  <1>2. AsideKnown' /\ RowsTyped' /\ RowsKnown' /\ conv' = conv
    BY <1>0, AsideStays, RowsStay DEF rowsOfChat
  <1>3. ASSUME NEW q \in ChatReqs PROVE TurnKnown(q)'
    <2>1. CASE q = r
      BY <2>1
    <2>2. CASE q # r
      BY <1>0, <1>1, <2>2, TurnStays DEF TurnsKnown
    <2> QED
      BY <2>1, <2>2
  <1>4. ConvKnown' /\ TurnsKnown'
    BY <1>2, <1>3 DEF ConvKnown, TurnsKnown
  <1> QED
    BY <1>0, <1>1, <1>2, <1>4 DEF ChatInv

\* Conversations of turns past their arrival exist.
LEMMA Exists ==
  ASSUME ChatInv, NEW r \in ChatReqs, turn[r].pc \notin {"new", "end"}
  PROVE  conv # "none"
  BY DEF ChatInv, ConvKnown

LEMMA KeepsDisconnect ==
  ASSUME ChatInv, NEW r \in ChatReqs, Disconnect(r)
  PROVE  ChatInv'
  <1>0. /\ turn \in [ChatReqs -> Turns] /\ turn[r] \in Turns /\ LockKnown /\ convBusy \in BOOLEAN
        /\ CallAtHand(r) /\ AnswerKnown(r) /\ HistoryKnown(r)
    BY ChatParts DEF ChatInv
  <1>1. turn[r].pc \in Locked /\ UNCHANGED <<convBusy, rowsOfChat, aside>> /\ turn' = [turn EXCEPT ![r].cancelled = TRUE]
    BY DEF Disconnect
  <1>2. PICK x \in Turns : x = turn[r]
    BY <1>0
  <1> DEFINE t == [x EXCEPT !.cancelled = TRUE]
  <1>3. /\ t \in Turns /\ t.pc = x.pc /\ t.kind = x.kind /\ t.call = x.call /\ t.batch = x.batch /\ t.iter = x.iter
        /\ t.at = x.at /\ t.hist = x.hist
    BY DEF Turns
  <1>4. turn' = [turn EXCEPT ![r] = t]
    BY <1>1, <1>2
  <1> HIDE DEF t
  <1>5. turn'[r] = t /\ \A q \in ChatReqs : q # r => turn'[q] = turn[q]
    BY <1>0, <1>3, <1>4, TurnSet
  <1>6. LockKnown'
    <2>1. \A q \in ChatReqs : turn'[q].pc \in Locked <=> turn[q].pc \in Locked
      BY <1>2, <1>3, <1>5
    <2> QED
      BY <1>0, <1>1, <2>1, LockStays
  <1>7. UNCHANGED <<conv, messages, inserted, calls>>
    BY <1>1 DEF rowsOfChat
  <1>8. CallAtHand(r)'
    BY <1>0, <1>2, <1>3, <1>5, <1>7 DEF CallAtHand, Unanswered
  <1>9. HistoryKnown(r)'
    BY <1>0, <1>2, <1>3, <1>5, <1>7 DEF HistoryKnown, Mirrors, After, History
  <1>10. AnswerKnown(r)'
    <2>1. (conv = "live" => \A k \in 1 .. Len(turn[r].batch) : AskedBy(Len(calls) + k, turn[r].at))'
      BY <1>0, <1>2, <1>3, <1>5, <1>7 DEF AnswerKnown, AskedBy
    <2>2. (turn[r].pc = "stream" /\ conv = "live" =>
             Len(messages) > 0 /\ messages[Len(messages)].id = turn[r].at /\ Blank(messages[Len(messages)]))'
      BY <1>0, <1>2, <1>3, <1>5, <1>7 DEF AnswerKnown, Blank
    <2> QED
      BY <1>0, <1>2, <1>3, <1>5, <2>1, <2>2 DEF AnswerKnown
  <1>11. TurnKnown(r)'
    BY <1>8, <1>9, <1>10 DEF TurnKnown
  <1>12. conv # "none"
    BY <1>1, Exists DEF Locked
  <1> QED
    BY <1>0, <1>1, <1>3, <1>4, <1>6, <1>11, <1>12, OneSteps

\* A turn that has not begun.
LEMMA FreshTurn == NewTurn \in Turns /\ NewTurn.pc = "new" /\ NewTurn.kind = "" /\ NewTurn.batch = <<>> /\ NewTurn.iter = 0
  <1> DEFINE s == [t \in Tools |-> 0]
  <1>1. 0 \in 0 .. MaxIterations /\ s \in [Tools -> Nat]
    BY ChatAssumption
  <1>2. <<>> \in Seq(Tools) /\ <<>> \in Seq(ChatMessages)
    OBVIOUS
  <1>3. NewTurn = [pc |-> "new", kind |-> "", cancelled |-> FALSE, deadline |-> FALSE, policy |-> "", call |-> 0,
                   yes |-> FALSE, at |-> 0, batch |-> <<>>, hist |-> <<>>, iter |-> 0, paused |-> FALSE, failed |-> {},
                   streak |-> s, may |-> {}]
    BY DEF NewTurn
  <1> HIDE DEF s
  <1> QED
    BY <1>1, <1>2, <1>3 DEF Turns

\* A turn that is over.
LEMMA EndedTurn ==
  ASSUME NEW r \in ChatReqs, turn[r] \in Turns
  PROVE  /\ Ended(r) \in Turns /\ Ended(r).pc = "end" /\ Ended(r).batch = <<>> /\ Ended(r).kind = turn[r].kind
  <1>1. turn[r].kind \in Kinds \cup {""}
    BY DEF Turns
  <1>2. PICK y \in Turns : y = NewTurn
    BY FreshTurn
  <1>3. /\ NeverTurn \in Turns /\ NeverTurn.pc = "end" /\ NeverTurn.batch = <<>>
    <2>1. [y EXCEPT !.pc = "end"] \in Turns /\ [y EXCEPT !.pc = "end"].pc = "end" /\ [y EXCEPT !.pc = "end"].batch = y.batch
      BY DEF Turns
    <2> QED
      BY <1>2, <2>1, FreshTurn DEF NeverTurn
  <1>4. PICK x \in Turns : x = NeverTurn
    BY <1>3
  <1>5. [x EXCEPT !.kind = turn[r].kind] \in Turns
    BY <1>1 DEF Turns
  <1>6. [x EXCEPT !.kind = turn[r].kind].pc = x.pc /\ [x EXCEPT !.kind = turn[r].kind].batch = x.batch
        /\ [x EXCEPT !.kind = turn[r].kind].kind = turn[r].kind
    BY DEF Turns
  <1> QED
    BY <1>3, <1>4, <1>5, <1>6 DEF Ended

LEMMA KeepsUnlockConv ==
  ASSUME ChatInv, NEW r \in ChatReqs, UnlockConv(r)
  PROVE  ChatInv'
  <1>0. /\ turn \in [ChatReqs -> Turns] /\ turn[r] \in Turns /\ LockKnown
    BY ChatParts DEF ChatInv
  <1>1. turn[r].pc = "unlock" /\ UNCHANGED <<rowsOfChat, aside>> /\ convBusy' = FALSE /\ turn' = [turn EXCEPT ![r] = Ended(r)]
    BY DEF UnlockConv
  <1>2. Ended(r) \in Turns /\ Ended(r).pc = "end" /\ Ended(r).batch = <<>>
    BY <1>0, EndedTurn
  <1>3. turn'[r] = Ended(r) /\ \A q \in ChatReqs : q # r => turn'[q] = turn[q]
    BY <1>0, <1>1, <1>2, TurnSet
  <1>4. LockKnown'
    <2>1. "unlock" \in Locked /\ "end" \notin Locked
      BY DEF Locked
    <2>2. \A q \in ChatReqs : turn'[q].pc \notin Locked
      BY <1>0, <1>1, <1>2, <1>3, <2>1 DEF LockKnown
    <2> QED
      BY <1>1, <2>2 DEF LockKnown
  <1>5. TurnKnown(r)'
    BY <1>2, <1>3, PlainTurn
  <1>6. conv # "none"
    BY <1>1, Exists
  <1> QED
    BY <1>1, <1>2, <1>4, <1>5, <1>6, OneSteps

LEMMA KeepsTryLockConv ==
  ASSUME ChatInv, NEW r \in ChatReqs, TryLockConv(r)
  PROVE  ChatInv'
  <1>0. /\ turn \in [ChatReqs -> Turns] /\ turn[r] \in Turns /\ LockKnown /\ convBusy \in BOOLEAN
        /\ CallAtHand(r) /\ AnswerKnown(r)
    BY ChatParts DEF ChatInv
  <1>1. turn[r].pc = "lock" /\ UNCHANGED <<rowsOfChat, aside>> /\ turn[r].pc \notin Locked
    BY DEF TryLockConv, Locked
  <1>2. conv # "none"
    BY <1>1, Exists
  <1>3. CASE convBusy
    <2>1. turn' = [turn EXCEPT ![r] = Ended(r)] /\ convBusy' = convBusy
      BY <1>3 DEF TryLockConv
    <2>2. Ended(r) \in Turns /\ Ended(r).pc = "end" /\ Ended(r).batch = <<>>
      BY <1>0, EndedTurn
    <2>3. turn'[r] = Ended(r) /\ \A q \in ChatReqs : q # r => turn'[q] = turn[q]
      BY <1>0, <2>1, <2>2, TurnSet
    <2>4. LockKnown'
      <3>1. \A q \in ChatReqs : turn'[q].pc \in Locked <=> turn[q].pc \in Locked
        BY <1>1, <2>2, <2>3 DEF Locked
      <3> QED
        BY <1>0, <2>1, <3>1, LockStays
    <2>5. TurnKnown(r)'
      BY <2>2, <2>3, PlainTurn
    <2> QED
      BY <1>0, <1>1, <1>2, <2>1, <2>2, <2>4, <2>5, OneSteps
  <1>4. CASE ~convBusy
    <2> DEFINE p == IF turn[r].kind \in {"chat", "resume"} THEN "build" ELSE "cut"
               d == Bounded(turn[r].kind)
    <2>1. turn' = [turn EXCEPT ![r].pc = p, ![r].deadline = d] /\ convBusy' = TRUE
      BY <1>4 DEF TryLockConv
    <2>2. p \in {"build", "cut"} /\ d \in BOOLEAN
      BY DEF Bounded
    <2> HIDE DEF p, d
    <2>3. PICK x \in Turns : x = turn[r]
      BY <1>0
    <2> DEFINE t == [x EXCEPT !.pc = p, !.deadline = d]
    <2>4. t \in Turns /\ t.pc = p /\ t.kind = x.kind /\ t.call = x.call /\ t.batch = x.batch /\ t.iter = x.iter
      BY <2>2 DEF Turns, Locked
    <2>5. turn' = [turn EXCEPT ![r] = t]
      BY <2>1, <2>3
    <2> HIDE DEF t
    <2>6. turn'[r] = t /\ \A q \in ChatReqs : q # r => turn'[q] = turn[q]
      BY <1>0, <2>4, <2>5, TurnSet
    <2>7. LockKnown'
      <3>1. \A q \in ChatReqs : turn[q].pc \notin Locked
        BY <1>0, <1>4 DEF LockKnown
      <3>2. t.pc \in Locked
        BY <2>2, <2>4 DEF Locked
      <3>3. \A q \in ChatReqs : turn'[q].pc \in Locked <=> q = r
        BY <2>6, <3>1, <3>2
      <3> QED
        BY <2>1, <3>3 DEF LockKnown
    <2>8. TurnKnown(r)'
      <3>1. t.batch = <<>> /\ t.iter = 0
        BY <1>0, <1>1, <2>3, <2>4 DEF AnswerKnown
      <3>2. t.kind = "resume" => t.call \in DOMAIN calls
        BY <1>0, <1>1, <2>3, <2>4 DEF CallAtHand
      <3>3. calls' = calls
        BY <1>1 DEF rowsOfChat
      <3> QED
        BY <2>2, <2>4, <2>6, <3>1, <3>2, <3>3, PlainTurn
    <2> QED
      BY <1>1, <1>2, <2>1, <2>4, <2>5, <2>7, <2>8, OneSteps
  <1> QED
    BY <1>0, <1>3, <1>4

\* A request that asks for a turn of a conversation that is there.
LEMMA Arrives ==
  ASSUME ChatInv, NEW r \in ChatReqs, NEW t \in Turns, turn' = [turn EXCEPT ![r] = t], turn[r].pc = "new", t.pc = "lock",
         t.batch = turn[r].batch, t.iter = turn[r].iter, t.kind = "resume" => t.call \in DOMAIN calls,
         UNCHANGED <<convBusy, rowsOfChat, aside>>, conv # "none"
  PROVE  ChatInv'
  <1>0. turn \in [ChatReqs -> Turns] /\ LockKnown /\ convBusy \in BOOLEAN /\ AnswerKnown(r)
    BY ChatParts DEF ChatInv
  <1>1. turn'[r] = t /\ \A q \in ChatReqs : q # r => turn'[q] = turn[q]
    BY <1>0, TurnSet
  <1>2. LockKnown'
    <2>1. \A q \in ChatReqs : turn'[q].pc \in Locked <=> turn[q].pc \in Locked
      BY <1>1 DEF Locked
    <2> QED
      BY <1>0, <2>1, LockStays
  <1>3. t.batch = <<>> /\ t.iter = 0 /\ calls' = calls
    BY <1>0 DEF AnswerKnown, rowsOfChat
  <1>4. TurnKnown(r)'
    BY <1>1, <1>3, PlainTurn
  <1> QED
    BY <1>0, <1>2, <1>4, OneSteps

LEMMA KeepsResumeTurn ==
  ASSUME ChatInv, NEW r \in ChatReqs, NEW c \in DOMAIN calls, NEW yes \in BOOLEAN, ResumeTurn(r, c, yes)
  PROVE  ChatInv'
  <1>0. turn[r] \in Turns /\ RowsTyped
    BY ChatParts
  <1>1. /\ turn[r].pc = "new" /\ UNCHANGED <<convBusy, rowsOfChat, aside>>
        /\ turn' = [turn EXCEPT ![r] = [turn[r] EXCEPT !.pc = "lock", !.kind = "resume", !.call = c, !.yes = yes]]
    BY DEF ResumeTurn
  <1>2. PICK x \in Turns : x = turn[r]
    BY <1>0
  <1>3. c \in Nat
    BY <1>0 DEF RowsTyped
  <1> DEFINE t == [x EXCEPT !.pc = "lock", !.kind = "resume", !.call = c, !.yes = yes]
  <1>4. t \in Turns /\ t.pc = "lock" /\ t.kind = "resume" /\ t.call = c /\ t.batch = x.batch /\ t.iter = x.iter
    BY <1>3 DEF Turns, Kinds
  <1>5. turn' = [turn EXCEPT ![r] = t]
    BY <1>1, <1>2
  <1> HIDE DEF t
  <1>6. conv # "none"
    <2>1. conv = "none" => calls = <<>>
      BY DEF ChatInv, ConvKnown
    <2> QED
      BY <2>1
  <1> QED
    BY <1>1, <1>2, <1>4, <1>5, <1>6, Arrives

LEMMA KeepsTruncation ==
  ASSUME ChatInv, NEW r \in ChatReqs, NEW kind \in {"regenerate", "edit", "delete"}, NEW i \in Nat, Truncation(r, kind, i)
  PROVE  ChatInv'
  <1>0. turn[r] \in Turns
    BY ChatParts
  <1>1. /\ turn[r].pc = "new" /\ UNCHANGED <<convBusy, rowsOfChat, aside>> /\ conv # "none"
        /\ turn' = [turn EXCEPT ![r] = [turn[r] EXCEPT !.pc = "lock", !.kind = kind, !.at = i]]
    BY DEF Truncation
  <1>2. PICK x \in Turns : x = turn[r]
    BY <1>0
  <1> DEFINE t == [x EXCEPT !.pc = "lock", !.kind = kind, !.at = i]
  <1>3. t \in Turns /\ t.pc = "lock" /\ t.kind = kind /\ t.batch = x.batch /\ t.iter = x.iter
    BY DEF Turns, Kinds
  <1>4. turn' = [turn EXCEPT ![r] = t]
    BY <1>1, <1>2
  <1> HIDE DEF t
  <1> QED
    BY <1>1, <1>2, <1>3, <1>4, Arrives

LEMMA KeepsChat ==
  ASSUME ChatInv, NEW r \in ChatReqs, Chat(r)
  PROVE  ChatInv'
  <1>0. /\ turn \in [ChatReqs -> Turns] /\ turn[r] \in Turns /\ RowsTyped /\ RowsKnown /\ AsideKnown /\ LockKnown
        /\ convBusy \in BOOLEAN /\ AnswerKnown(r) /\ conv \in {"none", "live", "gone"}
    BY ChatParts DEF ChatInv
  <1> DEFINE w == settings.policy
  <1>1. /\ turn[r].pc = "new" /\ UNCHANGED <<convBusy, messages, inserted, calls, aside>>
        /\ conv' = IF conv = "none" THEN "live" ELSE conv
        /\ turn' = [turn EXCEPT ![r] = [turn[r] EXCEPT !.pc = "lock", !.kind = "chat", !.policy = w]]
    BY DEF Chat
  <1>2. PICK x \in Turns : x = turn[r]
    BY <1>0
  <1>3. w \in Policies
    BY <1>0 DEF AsideKnown
  <1> HIDE DEF w
  <1> DEFINE t == [x EXCEPT !.pc = "lock", !.kind = "chat", !.policy = w]
  <1>4. t \in Turns /\ t.pc = "lock" /\ t.kind = "chat" /\ t.batch = x.batch /\ t.iter = x.iter
    BY <1>3 DEF Turns, Kinds
  <1>5. turn' = [turn EXCEPT ![r] = t]
    BY <1>1, <1>2
  <1> HIDE DEF t
  <1>6. CASE conv # "none"
    <2>1. UNCHANGED <<convBusy, rowsOfChat, aside>>
      BY <1>1, <1>6 DEF rowsOfChat
    <2> QED
      BY <1>1, <1>2, <1>4, <1>5, <1>6, <2>1, Arrives
  <1>7. CASE conv = "none"
    <2>1. calls = <<>> /\ messages = <<>> /\ conv' = "live" /\ \A q \in ChatReqs : turn[q].pc \in {"new", "end"}
      BY <1>0, <1>1, <1>7 DEF ChatInv, ConvKnown, RowsKnown, MessagesKnown
    <2>2. calls' = <<>> /\ messages' = <<>> /\ inserted' = inserted
      BY <1>1, <2>1
    <2>3. RowsTyped'
      BY <1>0, <2>2 DEF RowsTyped
    <2>4. RowsKnown'
      BY <2>2 DEF RowsKnown, MessagesKnown, CallsKnown, ResultsKnown
    <2>5. AsideKnown'
      BY <1>0, <1>1, AsideStays
    <2>6. turn' \in [ChatReqs -> Turns] /\ turn'[r] = t /\ \A q \in ChatReqs : q # r => turn'[q] = turn[q]
      BY <1>0, <1>4, <1>5, TurnSet
    <2>7. LockKnown'
      <3>1. \A q \in ChatReqs : turn'[q].pc \in Locked <=> turn[q].pc \in Locked
        BY <1>1, <1>4, <2>6 DEF Locked
      <3> QED
        BY <1>0, <1>1, <3>1, LockStays
    <2>8. ASSUME NEW q \in ChatReqs PROVE TurnKnown(q)'
      <3>1. CASE q = r
        <4>1. t.batch = <<>> /\ t.iter = 0
          BY <1>0, <1>1, <1>2, <1>4 DEF AnswerKnown
        <4> QED
          BY <1>4, <2>6, <3>1, <4>1, PlainTurn
      <3>2. CASE q # r
        <4>1. turn[q].pc \notin Locked
          BY <2>1 DEF Locked
        <4>2. TurnKnown(q) /\ turn[q] \in Turns /\ turn'[q] = turn[q] /\ DOMAIN calls \subseteq DOMAIN calls'
          BY <1>0, <1>1, <2>6, <3>2 DEF ChatInv, TurnsKnown
        <4> QED
          BY <4>1, <4>2, OthersKnown
      <3> QED
        BY <3>1, <3>2
    <2>9. TurnsKnown' /\ ConvKnown'
      BY <2>1, <2>8 DEF TurnsKnown, ConvKnown
    <2> QED
      BY <1>0, <1>1, <2>1, <2>3, <2>4, <2>5, <2>6, <2>7, <2>9 DEF ChatInv
  <1> QED
    BY <1>6, <1>7

LEMMA KeepsArrive ==
  ASSUME ChatInv, NEW r \in ChatReqs, Arrive(r)
  PROVE  ChatInv'
  <1>1. CASE Chat(r)
    BY <1>1, KeepsChat
  <1>2. CASE \E c \in DOMAIN calls, yes \in BOOLEAN : ResumeTurn(r, c, yes)
    BY <1>2, KeepsResumeTurn
  <1>3. CASE Truncation(r, "regenerate", 0)
    BY <1>3, KeepsTruncation
  <1>4. CASE \E m \in MsgIds(messages), kind \in {"edit", "delete"} : Truncation(r, kind, m)
    <2>1. MsgIds(messages) \subseteq Nat
      <3>1. messages \in Seq(ChatMessages)
        BY DEF ChatInv, RowsTyped
      <3>2. \A i \in DOMAIN messages : messages[i].id \in Nat
        <4>1. \A i \in DOMAIN messages : messages[i] \in ChatMessages
          BY <3>1
        <4> QED
          BY <4>1 DEF ChatMessages
      <3> QED
        BY <3>2 DEF MsgIds, Range
    <2> QED
      BY <1>4, <2>1, KeepsTruncation
  <1> QED
    BY <1>1, <1>2, <1>3, <1>4 DEF Arrive

\* A conversation that is deleted under a turn leaves it nothing to rely on.
LEMMA KeepsDeleteConversation ==
  ASSUME ChatInv, DeleteConversation
  PROVE  ChatInv'
  <1>0. /\ turn \in [ChatReqs -> Turns] /\ RowsTyped /\ RowsKnown /\ AsideKnown /\ LockKnown /\ convBusy \in BOOLEAN /\ TurnsKnown
    BY DEF ChatInv
  <1>1. RowsTyped' /\ RowsKnown' /\ DOMAIN calls' = DOMAIN calls
    BY <1>0, AllTruncated
  <1>2. conv' = "gone" /\ messages' = <<>> /\ UNCHANGED <<convBusy, inserted, turn, aside>>
    BY DEF DeleteConversation
  <1>3. AsideKnown' /\ LockKnown'
    BY <1>0, <1>2, AsideStays, LockStays
  <1>4. \A c \in DOMAIN calls : /\ calls'[c].runs = calls[c].runs /\ calls'[c].gated = calls[c].gated
                                /\ calls'[c].decided = calls[c].decided
    <2> TAKE c \in DOMAIN calls
    <2>1. calls[c] \in ToolCalls
      BY <1>0 DEF RowsTyped
    <2>2. calls'[c] = [calls[c] EXCEPT !.st = "gone"]
      BY DEF DeleteConversation
    <2> QED
      BY <2>1, <2>2 DEF ToolCalls
  <1>5. ASSUME NEW r \in ChatReqs PROVE TurnKnown(r)'
    <2>0. CallAtHand(r) /\ AnswerKnown(r) /\ turn'[r] = turn[r]
      BY <1>0, <1>2 DEF TurnsKnown, TurnKnown
    <2>1. CallAtHand(r)'
      <3>1. Unanswered(turn[r].call)'
        BY <1>2 DEF Unanswered
      <3> QED
        BY <1>1, <1>2, <1>4, <2>0, <3>1 DEF CallAtHand
    <2>2. HistoryKnown(r)'
      BY <1>2 DEF HistoryKnown
    <2>3. AnswerKnown(r)'
      BY <1>2, <2>0 DEF AnswerKnown
    <2> QED
      BY <2>1, <2>2, <2>3 DEF TurnKnown
  <1>6. TurnsKnown' /\ ConvKnown'
    BY <1>2, <1>5 DEF TurnsKnown, ConvKnown
  <1> QED
    BY <1>0, <1>1, <1>2, <1>3, <1>6 DEF ChatInv

\* Writes of settings and providers leave turns and rows alone.
LEMMA BesideTurns ==
  ASSUME ChatInv, UNCHANGED <<convBusy, rowsOfChat, turn>>, AsideKnown'
  PROVE  ChatInv'
  <1>0. /\ turn \in [ChatReqs -> Turns] /\ RowsTyped /\ RowsKnown /\ LockKnown /\ TurnsKnown /\ ConvKnown
    BY DEF ChatInv
  <1>1. RowsTyped' /\ RowsKnown'
    BY <1>0, RowsStay
  <1>2. LockKnown' /\ ConvKnown' /\ conv' = conv /\ turn' = turn /\ convBusy' = convBusy
    BY <1>0 DEF LockKnown, ConvKnown, rowsOfChat
  <1>3. TurnsKnown'
    <2> SUFFICES ASSUME NEW r \in ChatReqs PROVE TurnKnown(r)'
      BY DEF TurnsKnown
    <2> QED
      BY <1>0, <1>2, TurnStays DEF TurnsKnown
  <1> QED
    BY <1>1, <1>2, <1>3 DEF ChatInv

LEMMA OneMoreSave ==
  ASSUME saves \in 0 .. MaxSaves, saves < MaxSaves, saves' = saves + 1
  PROVE  saves' \in 0 .. MaxSaves
  <1>1. MaxSaves \in Nat
    BY ChatAssumption
  <1> QED
    BY <1>1

\* What the gateway, the settings and the writes under way are after each.
LEMMA KeepsBegin ==
  ASSUME ChatInv, NEW w \in Savers, NEW pol \in Policies \cup {""}, NEW sel \in Nat, Begin(w, pol, sel),
         w \in {"selection", "settings"} => pol \in Policies,
         gateway' \in [open : Nat, dirty : BOOLEAN, rows : Nat], w # "provider" => gateway' = gateway
  PROVE  ChatInv'
  <1>0. AsideKnown
    BY DEF ChatInv
  <1>1. /\ ~saving[w].on /\ saves < MaxSaves /\ saves' = saves + 1
        /\ saving' = [saving EXCEPT ![w] = [on |-> TRUE, policy |-> pol, sel |-> sel]]
        /\ UNCHANGED <<convBusy, rowsOfChat, turn, settings>>
    BY DEF Begin
  <1>2. /\ saving' \in [Savers -> [on : BOOLEAN, policy : Policies \cup {""}, sel : Nat]]
        /\ saving'[w].on /\ saving'[w].policy = pol /\ \A v \in Savers : v # w => saving'[v] = saving[v]
    BY <1>0, <1>1 DEF AsideKnown
  <1>3. \A v \in {"selection", "settings"} : saving'[v].on => saving'[v].policy \in Policies
    BY <1>0, <1>2 DEF AsideKnown, Savers
  <1>4. saves' \in 0 .. MaxSaves
    BY <1>0, <1>1, OneMoreSave DEF AsideKnown
  <1>5. GatewayFresh'
    <2>1. CASE w = "provider"
      BY <1>2, <2>1 DEF GatewayFresh
    <2>2. CASE w # "provider"
      <3>1. saving'["provider"] = saving["provider"] /\ gateway' = gateway
        BY <1>2, <2>2 DEF Savers
      <3> QED
        BY <1>0, <3>1 DEF AsideKnown, GatewayFresh
    <2> QED
      BY <2>1, <2>2
  <1>6. AsideKnown'
    BY <1>0, <1>1, <1>2, <1>3, <1>4, <1>5 DEF AsideKnown
  <1> QED
    BY <1>1, <1>6, BesideTurns

LEMMA KeepsSaved ==
  ASSUME ChatInv, NEW w \in Savers, Saved(w),
         \/ w = "provider" /\ InvalidateClient /\ UNCHANGED settings
         \/ w \in {"selection", "settings"} /\ UpsertSettings(w)
  PROVE  ChatInv'
  <1>0. AsideKnown
    BY DEF ChatInv
  <1>1. saving[w].on /\ saving' = [saving EXCEPT ![w] = NoSave] /\ UNCHANGED <<convBusy, rowsOfChat, turn, saves>>
    BY DEF Saved
  <1>2. /\ saving' \in [Savers -> [on : BOOLEAN, policy : Policies \cup {""}, sel : Nat]]
        /\ ~saving'[w].on /\ \A v \in Savers : v # w => saving'[v] = saving[v]
    BY <1>0, <1>1 DEF AsideKnown, NoSave
  <1>3. \A v \in {"selection", "settings"} : saving'[v].on => saving'[v].policy \in Policies
    BY <1>0, <1>2 DEF AsideKnown, Savers
  <1>4. settings' \in [policy : Policies, sel : Nat]
    <2>1. CASE UNCHANGED settings
      BY <1>0, <2>1 DEF AsideKnown
    <2>2. CASE w \in {"selection", "settings"} /\ UpsertSettings(w)
      <3>1. saving[w].policy \in Policies /\ saving[w].sel \in Nat
        BY <1>0, <1>1, <2>2 DEF AsideKnown
      <3> QED
        BY <2>2, <3>1 DEF UpsertSettings
    <2> QED
      BY <2>1, <2>2
  <1>5. gateway' \in [open : Nat, dirty : BOOLEAN, rows : Nat] /\ (w = "provider" => gateway'.dirty) /\ (w # "provider" => gateway' = gateway)
    <2>1. PICK g \in [open : Nat, dirty : BOOLEAN, rows : Nat] : g = gateway
      BY <1>0 DEF AsideKnown
    <2>2. [g EXCEPT !.dirty = TRUE] \in [open : Nat, dirty : BOOLEAN, rows : Nat] /\ [g EXCEPT !.dirty = TRUE].dirty
      OBVIOUS
    <2> QED
      BY <2>1, <2>2 DEF InvalidateClient, UpsertSettings
  <1>6. GatewayFresh'
    <2>1. CASE w = "provider"
      BY <1>5, <2>1 DEF GatewayFresh
    <2>2. CASE w # "provider"
      <3>1. saving'["provider"] = saving["provider"] /\ gateway' = gateway
        BY <1>2, <1>5, <2>2 DEF Savers
      <3> QED
        BY <1>0, <3>1 DEF AsideKnown, GatewayFresh
    <2> QED
      BY <2>1, <2>2
  <1>7. AsideKnown'
    BY <1>0, <1>1, <1>2, <1>3, <1>4, <1>5, <1>6 DEF AsideKnown
  <1> QED
    BY <1>1, <1>7, BesideTurns

\* After a restart nobody has the lock, and no write is under way.
LEMMA KeepsChatRestart ==
  ASSUME ChatInv, ChatRestart
  PROVE  ChatInv'
  <1>0. /\ turn \in [ChatReqs -> Turns] /\ RowsTyped /\ RowsKnown /\ AsideKnown /\ TurnsKnown /\ ConvKnown
        /\ conv \in {"none", "live", "gone"}
    BY DEF ChatInv
  <1>1. /\ saves < MaxSaves /\ saves' = saves + 1 /\ convBusy' = FALSE /\ saving' = NoSaves
        /\ gateway' = [gateway EXCEPT !.open = 0, !.dirty = TRUE] /\ UNCHANGED <<rowsOfChat, settings>>
        /\ turn' = [r \in ChatReqs |-> IF turn[r].pc = "new" THEN turn[r] ELSE Ended(r)]
    BY DEF ChatRestart
  <1>2. RowsTyped' /\ RowsKnown' /\ DOMAIN calls \subseteq DOMAIN calls' /\ conv' = conv /\ calls' = calls
    BY <1>0, <1>1, RowsStay DEF rowsOfChat
  <1>3. \A r \in ChatReqs : Ended(r) \in Turns /\ Ended(r).pc = "end" /\ Ended(r).batch = <<>>
    BY <1>0, EndedTurn
  <1>4. \A r \in ChatReqs : turn'[r] = IF turn[r].pc = "new" THEN turn[r] ELSE Ended(r)
    BY <1>1
  <1>5. \A r \in ChatReqs : turn'[r] \in Turns /\ turn'[r].pc \in {"new", "end"}
    BY <1>0, <1>3, <1>4
  <1>6. turn' \in [ChatReqs -> Turns]
    BY <1>1, <1>4, <1>5
  <1>7. LockKnown' /\ ConvKnown'
    BY <1>0, <1>1, <1>2, <1>5 DEF LockKnown, ConvKnown, Locked
  <1>8. ASSUME NEW r \in ChatReqs PROVE TurnKnown(r)'
    <2>1. CASE turn[r].pc = "new"
      <3>1. turn'[r] = turn[r] /\ turn[r].pc \notin Locked /\ TurnKnown(r) /\ turn[r] \in Turns
        BY <1>0, <1>4, <2>1 DEF TurnsKnown, Locked
      <3> QED
        BY <1>2, <3>1, OthersKnown
    <2>2. CASE turn[r].pc # "new"
      <3>1. turn'[r] = Ended(r)
        BY <1>4, <2>2
      <3> QED
        BY <1>3, <3>1, PlainTurn
    <2> QED
      BY <2>1, <2>2
  <1>9. AsideKnown'
    <2>1. PICK g \in [open : Nat, dirty : BOOLEAN, rows : Nat] : g = gateway
      BY <1>0 DEF AsideKnown
    <2>2. [g EXCEPT !.open = 0, !.dirty = TRUE] \in [open : Nat, dirty : BOOLEAN, rows : Nat] /\ [g EXCEPT !.open = 0, !.dirty = TRUE].dirty
      OBVIOUS
    <2>3. gateway' \in [open : Nat, dirty : BOOLEAN, rows : Nat] /\ gateway'.dirty
      BY <1>1, <2>1, <2>2
    <2>4. saving' \in [Savers -> [on : BOOLEAN, policy : Policies \cup {""}, sel : Nat]] /\ \A w \in Savers : ~saving'[w].on
      BY <1>1 DEF NoSaves, NoSave
    <2>5. saves' \in 0 .. MaxSaves
      BY <1>0, <1>1, OneMoreSave DEF AsideKnown
    <2>6. GatewayFresh'
      BY <2>3 DEF GatewayFresh
    <2>7. \A w \in {"selection", "settings"} : saving'[w].on => saving'[w].policy \in Policies
      BY <2>4 DEF Savers
    <2> QED
      BY <1>0, <1>1, <2>3, <2>4, <2>5, <2>6, <2>7 DEF AsideKnown
  <1> QED
    BY <1>0, <1>1, <1>2, <1>6, <1>7, <1>8, <1>9 DEF ChatInv, TurnsKnown

\* What is saved beside the turns.
LEMMA KeepsAside ==
  ASSUME ChatInv,
         \/ SaveProvider \/ ProviderSaved \/ SelectionRead \/ SetAISelection \/ (\E p \in Policies : SettingsRead(p)) \/ SaveSettings
  PROVE  ChatInv'
  <1>0. /\ gateway \in [open : Nat, dirty : BOOLEAN, rows : Nat] /\ settings.policy \in Policies
        /\ settings.sel \in Nat
    BY DEF ChatInv, AsideKnown
  <1>1. CASE SaveProvider
    <2>1. Begin("provider", "", 0) /\ gateway' = [gateway EXCEPT !.rows = gateway.rows + 1]
      BY <1>1 DEF SaveProvider
    <2>2. gateway' \in [open : Nat, dirty : BOOLEAN, rows : Nat]
      <3>1. gateway.rows + 1 \in Nat
        BY <1>0
      <3> QED
        BY <1>0, <2>1, <3>1
    <2>3. "provider" \in Savers /\ "provider" \notin {"selection", "settings"}
      BY DEF Savers
    <2> QED
      BY <2>1, <2>2, <2>3, KeepsBegin
  <1>2. CASE ProviderSaved
    BY <1>2, KeepsSaved DEF ProviderSaved, Savers
  <1>3. CASE SelectionRead
    <2>1. Begin("selection", settings.policy, settings.sel + 1) /\ gateway' = gateway
      BY <1>3 DEF SelectionRead
    <2>2. settings.sel + 1 \in Nat /\ "selection" \in Savers
      BY <1>0 DEF Savers
    <2> QED
      BY <1>0, <2>1, <2>2, KeepsBegin
  <1>4. CASE SetAISelection
    BY <1>4, KeepsSaved DEF SetAISelection, Savers
  <1>5. CASE \E p \in Policies : SettingsRead(p)
    <2>1. PICK p \in Policies : Begin("settings", p, settings.sel) /\ gateway' = gateway
      BY <1>5 DEF SettingsRead
    <2>2. "settings" \in Savers
      BY DEF Savers
    <2> QED
      BY <1>0, <2>1, <2>2, KeepsBegin
  <1>6. CASE SaveSettings
    BY <1>6, KeepsSaved DEF SaveSettings, Savers
  <1> QED
    BY <1>1, <1>2, <1>3, <1>4, <1>5, <1>6

LEMMA KeepsTurnStep ==
  ASSUME ChatInv, NEW r \in ChatReqs, TurnStep(r)
  PROVE  ChatInv'
  BY KeepsTryLockConv, KeepsUnlockConv, KeepsRegenerateLast, KeepsEditAndResend, KeepsDeleteMessageFrom, KeepsRunners, KeepsRun,
     KeepsResumeDecide, KeepsRunToolCall, KeepsDispatched, KeepsResumeCheck, KeepsLoadHistory, KeepsAsk, KeepsProcessCall,
     KeepsBatchEnds DEF TurnStep

\* Every step keeps the invariant.
LEMMA ChatInvNext ==
  ASSUME ChatInv, [ChatNext]_chatVars
  PROVE  ChatInv'
  <1>1. CASE UNCHANGED chatVars
    <2>1. UNCHANGED <<convBusy, rowsOfChat, turn>> /\ UNCHANGED aside
      BY <1>1 DEF chatVars, rowsOfChat, aside
    <2>2. AsideKnown'
      BY <2>1, AsideStays DEF ChatInv
    <2> QED
      BY <2>1, <2>2, BesideTurns
  <1>2. ASSUME NEW r \in ChatReqs,
               \/ Arrive(r) \/ TurnStep(r) \/ StreamBreaks(r) \/ (\E b \in Batches : StreamEnds(r, b))
               \/ Disconnect(r) \/ DeadlinePasses(r)
        PROVE  ChatInv'
    BY <1>2, KeepsArrive, KeepsTurnStep, KeepsStreamBreaks, KeepsStreamEnds, KeepsDisconnect DEF DeadlinePasses
  <1>3. CASE DeleteConversation \/ DeleteAllConversations
    BY <1>3, KeepsDeleteConversation DEF DeleteAllConversations
  <1>4. CASE \/ SaveProvider \/ ProviderSaved \/ SelectionRead \/ SetAISelection
             \/ (\E p \in Policies : SettingsRead(p)) \/ SaveSettings
    BY <1>4, KeepsAside
  <1>5. CASE ChatRestart
    BY <1>5, KeepsChatRestart
  <1> QED
    BY <1>1, <1>2, <1>3, <1>4, <1>5 DEF ChatNext

LEMMA ChatInvInit ==
  ASSUME ChatInit
  PROVE  ChatInv
  <1>1. PICK p \in Policies : ChatStart(<<>>, <<>>, p, [r \in ChatReqs |-> Kinds], 0)
    BY DEF ChatInit
  <1>2. /\ conv = "none" /\ convBusy = FALSE /\ messages = <<>> /\ inserted = 0 /\ calls = <<>>
        /\ gateway = [open |-> 0, dirty |-> TRUE, rows |-> 1] /\ settings = [policy |-> p, sel |-> 0]
        /\ saving = NoSaves /\ saves = 0
    BY <1>1 DEF ChatStart
  <1>3. turn = [r \in ChatReqs |-> [NewTurn EXCEPT !.may = Kinds]]
    <2>1. Kinds # {}
      BY DEF Kinds
    <2>2. turn = [r \in ChatReqs |-> IF [q \in ChatReqs |-> Kinds][r] = {} THEN NeverTurn
                                     ELSE [NewTurn EXCEPT !.may = [q \in ChatReqs |-> Kinds][r]]]
      BY <1>1 DEF ChatStart
    <2> QED
      BY <2>1, <2>2
  <1> DEFINE t == [NewTurn EXCEPT !.may = Kinds]
  <1>4. t \in Turns /\ t.pc = "new" /\ t.kind = "" /\ t.batch = <<>> /\ t.iter = 0
    <2>1. PICK x \in Turns : x = NewTurn
      BY FreshTurn
    <2>2. [x EXCEPT !.may = Kinds] \in Turns /\ [x EXCEPT !.may = Kinds].pc = x.pc /\ [x EXCEPT !.may = Kinds].kind = x.kind
          /\ [x EXCEPT !.may = Kinds].batch = x.batch /\ [x EXCEPT !.may = Kinds].iter = x.iter
      BY DEF Turns
    <2> QED
      BY <2>1, <2>2, FreshTurn
  <1> HIDE DEF t
  <1>5. turn \in [ChatReqs -> Turns] /\ \A r \in ChatReqs : turn[r] = t
    BY <1>3, <1>4 DEF t
  <1>6. RowsTyped
    BY <1>2 DEF RowsTyped
  <1>7. RowsKnown
    BY <1>2 DEF RowsKnown, MessagesKnown, CallsKnown, ResultsKnown
  <1>8. LockKnown /\ ConvKnown
    BY <1>2, <1>4, <1>5 DEF LockKnown, ConvKnown, Locked
  <1>9. AsideKnown
    <2>1. saving \in [Savers -> [on : BOOLEAN, policy : Policies \cup {""}, sel : Nat]] /\ \A w \in Savers : ~saving[w].on
      BY <1>2 DEF NoSaves, NoSave
    <2>2. saves \in 0 .. MaxSaves
      BY <1>2, ChatAssumption
    <2>3. \A w \in {"selection", "settings"} : saving[w].on => saving[w].policy \in Policies
      BY <2>1 DEF Savers
    <2>4. gateway \in [open : Nat, dirty : BOOLEAN, rows : Nat] /\ settings \in [policy : Policies, sel : Nat] /\ GatewayFresh
      BY <1>2 DEF GatewayFresh
    <2> QED
      BY <2>1, <2>2, <2>3, <2>4 DEF AsideKnown
  <1>10. TurnsKnown
    <2> SUFFICES ASSUME NEW r \in ChatReqs PROVE CallAtHand(r) /\ HistoryKnown(r) /\ AnswerKnown(r)
      BY DEF TurnsKnown, TurnKnown
    <2>1. CallAtHand(r) /\ HistoryKnown(r)
      BY <1>4, <1>5 DEF CallAtHand, HistoryKnown, Mirrors
    <2>2. \A k \in 1 .. Len(turn[r].batch) : FALSE
      <3>1. turn[r].batch = <<>>
        BY <1>4, <1>5
      <3> QED
        BY <3>1
    <2>3. AnswerKnown(r)
      BY <1>4, <1>5, <2>2 DEF AnswerKnown
    <2> QED
      BY <2>1, <2>3
  <1> QED
    BY <1>2, <1>5, <1>6, <1>7, <1>8, <1>9, <1>10 DEF ChatInv

\* The invariant says what the run checks.
LEMMA ChatInvSafe ==
  ASSUME ChatInv
  PROVE  ChatSafe /\ ChatTypeOK
  <1>1. OneTurn
    <2> DEFINE L == {r \in ChatReqs : turn[r].pc \in Locked}
    <2>0. LockKnown /\ convBusy \in BOOLEAN
      BY DEF ChatInv
    <2>1. CASE convBusy
      <3>1. PICK r \in ChatReqs : turn[r].pc \in Locked
        BY <2>0, <2>1 DEF LockKnown
      <3>2. L = {r}
        BY <2>0, <3>1 DEF LockKnown
      <3>3. Cardinality(L) = 1
        BY <3>2, FS_Singleton
      <3> QED
        BY <2>1, <3>3 DEF OneTurn
    <2>2. CASE ~convBusy
      <3>1. L = {}
        BY <2>0, <2>2 DEF LockKnown
      <3>2. Cardinality(L) = 0
        BY <3>1, FS_EmptySet
      <3> QED
        BY <2>2, <3>2 DEF OneTurn
    <2> QED
      BY <2>0, <2>1, <2>2
  <1>2. RunsOnceWithConsent
    BY DEF ChatInv, RowsKnown, CallsKnown, CallKnown, RunsOnceWithConsent
  <1>3. MirrorExact
    BY DEF ChatInv, TurnsKnown, TurnKnown, HistoryKnown, Mirrors, MirrorExact
  <1>4. ResultsHaveCalls
    BY DEF ChatInv, RowsKnown, ResultsKnown, ResultsHaveCalls
  <1>5. GatewayFresh /\ ChatTypeOK
    BY DEF ChatInv, AsideKnown, RowsTyped, ChatTypeOK
  <1> QED
    BY <1>1, <1>2, <1>3, <1>4, <1>5 DEF ChatSafe

\* The variables of the chat keep their types, for any requests, batches and
\* bounds.
THEOREM ChatTypesHold == ChatSpec => []ChatTypeOK
  <1>1. ChatInit => ChatInv
    BY ChatInvInit
  <1>2. ChatInv /\ [ChatNext]_chatVars => ChatInv'
    BY ChatInvNext
  <1>3. ChatInv => ChatTypeOK
    BY ChatInvSafe
  <1> QED
    BY <1>1, <1>2, <1>3, PTL DEF ChatSpec

\* The assistant keeps its promises whatever the requests, the model and the
\* operator do: one turn at a time, no gated tool without consent or twice, a
\* history in memory that is the stored one, results of calls that were made,
\* and a gateway with the credentials of now (ai/manager.go, ai/agent/agent.go).
THEOREM AssistantKeepsItsWord == ChatSpec => []ChatSafe
  <1>1. ChatInit => ChatInv
    BY ChatInvInit
  <1>2. ChatInv /\ [ChatNext]_chatVars => ChatInv'
    BY ChatInvNext
  <1>3. ChatInv => ChatSafe
    BY ChatInvSafe
  <1> QED
    BY <1>1, <1>2, <1>3, PTL DEF ChatSpec
=============================================================================
