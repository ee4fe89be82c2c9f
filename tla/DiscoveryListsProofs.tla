------------------------- MODULE DiscoveryListsProofs -------------------------
(***************************************************************************)
(* Theorems of DiscoveryLists, for every list of mounts, set of disks,     *)
(* list of running workers and set of used letters:                        *)
(*                                                                         *)
(*   TablesComputed    the loops over lists compute the functions on       *)
(*                     tables that the model of the service is built from  *)
(*   PassesSettle      a second pass over the same disks changes nothing   *)
(*   RegionsListedOnce aliases of a region collapse to one entry           *)
(*                                                                         *)
(* The first loop is described by Collected: what it has gathered from the *)
(* entries it has seen.  The second is described by the table the pass     *)
(* will end with, of which the regions still to do are missing, and by the *)
(* letters it has handed out, which are the largest free ones.  Settled    *)
(* says what a pass leaves that makes the next one idle.                   *)
(***************************************************************************)
EXTENDS DiscoveryLists, MountPolicyProofs, SequenceTheorems, WellFoundedInduction

-----------------------------------------------------------------------------
(* Types.                                                                  *)

Candidate ==
  [target : Target, entry : Entry, exact : BOOLEAN, identity : Region \cup {None}]

TypeInv ==
  /\ IsMountList(mounts)
  /\ pc \in {"idle", "aliases", "volumes"}
  /\ pc = "idle" => work = <<>> /\ next = 1 /\ todo = {}
  /\ pc = "aliases" => work \in Seq(Candidate)
  /\ pc = "volumes" => IsMountList(work)
  /\ next \in 1..(Len(mounts) + 1)
  /\ media \in SUBSET Region
  /\ todo \in SUBSET Discovered(media)
  /\ used \in SUBSET Letter
  /\ fresh \in BOOLEAN
  /\ IsMountList(preferred)
  /\ inUse \in SUBSET Letter
  /\ passes \in Nat

-----------------------------------------------------------------------------
(* The loop over the entries.                                              *)

(* Two candidates the loop takes for one region. *)
Same(a, b) == a.target = b.target \/ (a.identity # None /\ a.identity = b.identity)

(* What the loop has kept of the first n entries: each candidate is that   *)
(* of an entry, each entry has one for its region, the entry of a          *)
(* partition its own, and no region has two.                               *)
Collected(normalized, list, n, present) ==
  /\ \A j \in DOMAIN normalized : \E i \in 1..n : normalized[j] = Normalize(list[i], present)
  /\ \A i \in 1..n : \E j \in DOMAIN normalized :
       /\ Same(normalized[j], Normalize(list[i], present))
       /\ list[i].target \in Partition => normalized[j] = Normalize(list[i], present)
  /\ \A j, k \in DOMAIN normalized : Same(normalized[j], normalized[k]) => j = k

AliasInv == pc = "aliases" => Collected(work, mounts, next - 1, media)

-----------------------------------------------------------------------------
(* The loop over the volumes.                                              *)

(* Every entry has the name the scan gives its region, no region that is   *)
(* there has two, and every volume that has been done is listed, unless    *)
(* no worker has a letter for it and none was left.                        *)
Resolved(list, volumes, letters) ==
  /\ \A i \in DOMAIN list : ~RenamedByScan(list[i].target, media)
  /\ \A i, j \in DOMAIN list :
       SameRawRegion(list[i].target, list[j].target, media) => i = j
  /\ \A r \in volumes :
       \/ Listed(list, ScanName[r], media)
       \/ WorkerOf(preferred, ScanName[r]) = {} /\ Letter \subseteq letters

VolumeInv ==
  pc = "volumes" =>
    /\ Resolved(work, Discovered(media) \ todo, used)
    /\ used \subseteq UsedDriveLetters(work, inUse)
    /\ next \notin DOMAIN mounts

(* The table before the loop, and the free letters it may hand out. *)
Canonical == CanonicalizeAliases(Table(mounts), media)

Free == Letter \ (inUse \cup ConfigLetters(Canonical))

(* The volumes done that have asked for a letter. *)
Served == {r \in NewRegions(Canonical, media) \ todo : Table(preferred)[ScanName[r]] = None}

Final == MergeDiscovered(Canonical, media, Table(preferred), inUse)

TableInv ==
  pc = "volumes" =>
    /\ Table(work) = [t \in Target |-> IF RegionOf[t] \in todo /\ Canonical[t] = None
                                       THEN None ELSE Final[t]]
    /\ \A q \in Discovered(media) \ todo, r \in todo : ScanRank[q] < ScanRank[r]
    /\ Letter \ Free \subseteq used
    /\ \A x \in Free \cap used, y \in Free : y > x => y \in used
    /\ \/ Cardinality(Free \cap used) = Cardinality(Served)
       \/ Free \subseteq used /\ Cardinality(Free) <= Cardinality(Served)

-----------------------------------------------------------------------------
(* What a pass leaves.                                                     *)

Settled(list) == Resolved(list, Discovered(media), UsedDriveLetters(list, inUse))

(* A pass over disks that the last one has seen finds everything as it is. *)
FreshInv ==
  fresh =>
    /\ Settled(mounts)
    /\ pc = "aliases" => /\ Len(work) = next - 1
                         /\ \A i \in DOMAIN work : work[i] = Normalize(mounts[i], media)
    /\ pc = "volumes" => work = mounts /\ used = UsedDriveLetters(mounts, inUse)

-----------------------------------------------------------------------------
(* Regions and candidates.                                                 *)

LEMMA NormalizeType ==
  ASSUME NEW m \in Mount, NEW present \in SUBSET Region
  PROVE  /\ Normalize(m, present) \in Candidate
         /\ CanonicalDiscoveredTarget(m.target, present) \in Target
<1>1. m.target \in Target /\ m.entry \in Entry
  BY DEF Mount
<1>2. CanonicalDiscoveredTarget(m.target, present) \in Target
  BY <1>1, MountPolicyAssumption DEF CanonicalDiscoveredTarget, RenamedByScan
<1>3. \A t \in Target : RawTargetIdentity(t, present) \in Region \cup {None}
  BY MountPolicyAssumption DEF RawTargetIdentity
<1> QED
  BY <1>1, <1>2, <1>3 DEF Normalize, Candidate

(* What canonical names are: the region stays, a name the scan would       *)
(* replace does not occur.                                                 *)
LEMMA CanonicalTarget ==
  ASSUME NEW t \in Target, NEW present \in SUBSET Region
  PROVE  /\ CanonicalDiscoveredTarget(t, present) \in Target
         /\ RegionOf[CanonicalDiscoveredTarget(t, present)] = RegionOf[t]
         /\ ~RenamedByScan(CanonicalDiscoveredTarget(t, present), present)
         /\ ~RenamedByScan(t, present) => CanonicalDiscoveredTarget(t, present) = t
         /\ RenamedByScan(t, present) =>
              /\ CanonicalDiscoveredTarget(t, present) = ScanName[RegionOf[t]]
              /\ CanonicalDiscoveredTarget(t, present) \in Partition
              /\ t \notin Partition
              /\ RegionOf[t] \in present
<1>1. CASE ~RenamedByScan(t, present)
  BY <1>1 DEF CanonicalDiscoveredTarget
<1>2. CASE RenamedByScan(t, present)
  <2> DEFINE p == ScanName[RegionOf[t]]
  <2>1. p \in Partition /\ t \notin Partition /\ RegionOf[t] \in present
    BY <1>2 DEF RenamedByScan
  <2>2. p \in Target /\ p # None /\ RegionOf[t] \in Region
    BY <2>1, MountPolicyAssumption
  <2>3. RegionOf[p] = RegionOf[t]
    BY <2>2, MountPolicyAssumption
  <2> QED
    BY <1>2, <2>1, <2>2, <2>3 DEF CanonicalDiscoveredTarget, RenamedByScan
<1> QED
  BY <1>1, <1>2

LEMMA SameRegionTransitive ==
  ASSUME NEW t \in Target, NEW u \in Target, NEW v \in Target, NEW present,
         SameRawRegion(t, u, present), SameRawRegion(u, v, present)
  PROVE  SameRawRegion(t, v, present) /\ SameRawRegion(u, t, present)
BY DEF SameRawRegion

(* The identity of a name is its region if it can be recognised.           *)
LEMMA IdentitySame ==
  ASSUME NEW t \in Target, NEW u \in Target, NEW present \in SUBSET Region
  PROVE  /\ RawTargetIdentity(t, present) # None
              /\ RawTargetIdentity(t, present) = RawTargetIdentity(u, present)
            => SameRawRegion(t, u, present)
         /\ SameRawRegion(t, u, present) /\ t # u
            => /\ RawTargetIdentity(t, present) # None
               /\ RawTargetIdentity(t, present) = RawTargetIdentity(u, present)
<1>1. RegionOf[t] # None /\ RegionOf[u] # None
  BY MountPolicyAssumption, ListsAssumption
<1>2. SameRawRegion(t, u, present) /\ t # u => t \notin Image /\ u \notin Image
  BY MountPolicyAssumption DEF SameRawRegion
<1> QED
  BY <1>1, <1>2 DEF RawTargetIdentity, SameRawRegion

(* The loop takes two entries for one region when they are names of one    *)
(* region that is there.                                                   *)
LEMMA SameIsSameRegion ==
  ASSUME NEW m \in Mount, NEW k \in Mount, NEW present \in SUBSET Region
  PROVE  Same(Normalize(m, present), Normalize(k, present))
           <=> SameRawRegion(m.target, k.target, present)
<1> DEFINE t == m.target
           u == k.target
           ct == CanonicalDiscoveredTarget(t, present)
           cu == CanonicalDiscoveredTarget(u, present)
<1>1. t \in Target /\ u \in Target
  BY DEF Mount
<1>2. /\ ct \in Target /\ cu \in Target
      /\ RegionOf[ct] = RegionOf[t] /\ RegionOf[cu] = RegionOf[u]
      /\ ct # t => RegionOf[t] \in present
      /\ cu # u => RegionOf[u] \in present
  BY <1>1, CanonicalTarget
<1>3. Same(Normalize(m, present), Normalize(k, present)) <=> SameRawRegion(ct, cu, present)
  <2>1. Same(Normalize(m, present), Normalize(k, present)) <=>
          \/ ct = cu
          \/ /\ RawTargetIdentity(ct, present) # None
             /\ RawTargetIdentity(ct, present) = RawTargetIdentity(cu, present)
    BY DEF Same, Normalize
  <2> HIDE DEF t, u, ct, cu
  <2>2. SameRawRegion(ct, ct, present)
    BY DEF SameRawRegion
  <2> QED
    BY <1>2, <2>1, <2>2, IdentitySame
<1> HIDE DEF t, u, ct, cu
<1>4. SameRawRegion(ct, t, present) /\ SameRawRegion(t, ct, present)
  BY <1>2 DEF SameRawRegion, Recognised
<1>5. SameRawRegion(cu, u, present) /\ SameRawRegion(u, cu, present)
  BY <1>2 DEF SameRawRegion, Recognised
<1>6. SameRawRegion(ct, cu, present) <=> SameRawRegion(t, u, present)
  BY <1>1, <1>2, <1>4, <1>5, SameRegionTransitive
<1> QED
  BY <1>3, <1>6 DEF t, u

-----------------------------------------------------------------------------
(* One round of the loop over the entries.                                 *)

LEMMA MountListFacts ==
  ASSUME NEW list, IsMountList(list)
  PROVE  /\ Len(list) \in Nat /\ DOMAIN list = 1..Len(list)
         /\ \A i \in DOMAIN list : /\ list[i] \in Mount
                                   /\ list[i].target \in Target
                                   /\ list[i].entry \in Entry
         /\ \A i, j \in DOMAIN list : list[i].target = list[j].target => i = j
<1>1. list \in Seq(Mount)
  BY DEF IsMountList
<1>2. Len(list) \in Nat /\ DOMAIN list = 1..Len(list)
  BY <1>1, LenProperties
<1>3. \A i \in DOMAIN list : list[i] \in Mount
  BY <1>1, <1>2, ElementOfSeq
<1>4. \A m \in Mount : m.target \in Target /\ m.entry \in Entry
  BY DEF Mount
<1> QED
  BY <1>2, <1>3, <1>4 DEF IsMountList

(* Of a candidate's duplicates there is one at most. *)
LEMMA KeepCollects ==
  ASSUME NEW list, IsMountList(list), NEW present \in SUBSET Region,
         NEW n \in DOMAIN list,
         NEW normalized \in Seq(Candidate), Collected(normalized, list, n - 1, present)
  PROVE  /\ Keep(normalized, Normalize(list[n], present)) \in Seq(Candidate)
         /\ Collected(Keep(normalized, Normalize(list[n], present)), list, n, present)
<1> DEFINE N == normalized
           C(i) == Normalize(list[i], present)
           c == C(n)
           dup == Duplicates(N, c)
           K == Keep(N, c)
<1>1. /\ n \in Nat /\ n >= 1 /\ 1..n = (1..(n - 1)) \cup {n}
      /\ \A i \in 1..n : i \in DOMAIN list /\ list[i] \in Mount /\ list[i].target \in Target
      /\ \A i, j \in 1..n : list[i].target = list[j].target => i = j
  BY MountListFacts
<1>2. \A i \in 1..n : C(i) \in Candidate /\ (C(i).exact <=> list[i].target \in Partition)
  BY <1>1, NormalizeType DEF Normalize, RenamedByScan
<1>3. \A i, j \in 1..n : Same(C(i), C(j)) <=>
         SameRawRegion(list[i].target, list[j].target, present)
  BY <1>1, SameIsSameRegion
<1>4. \A i, j \in 1..n : Same(C(i), C(j)) => Same(C(j), C(i))
  BY DEF Same
<1>5. \A i, j, k \in 1..n : Same(C(i), C(j)) /\ Same(C(j), C(k)) => Same(C(i), C(k))
  BY <1>1, <1>3, SameRegionTransitive
<1>6. \A i \in 1..n : Same(C(i), C(i))
  BY DEF Same
<1>7. \A i, j \in 1..n : Same(C(i), C(j)) /\ list[i].target \in Partition
                           /\ list[j].target \in Partition => i = j
  BY <1>1, <1>3, MountPolicyAssumption DEF SameRawRegion
<1>8. DOMAIN N = 1..Len(N) /\ Len(N) \in Nat
  BY LenProperties
<1>9. \A j \in DOMAIN N : \E i \in 1..(n - 1) : N[j] = C(i)
  BY DEF Collected
<1>10. \A i \in 1..(n - 1) : \E j \in DOMAIN N :
         Same(N[j], C(i)) /\ (list[i].target \in Partition => N[j] = C(i))
  BY DEF Collected
<1>11. \A j, k \in DOMAIN N : Same(N[j], N[k]) => j = k
  BY DEF Collected
<1>12. dup = {j \in DOMAIN N : Same(c, N[j])}
  BY DEF Duplicates, Same
<1>13. \A j \in DOMAIN N : Same(c, N[j]) <=> Same(N[j], c)
  BY <1>1, <1>4, <1>9
<1> HIDE DEF c, C, K, dup
<1>14. CASE dup = {}
  <2>1. K = Append(N, c)
    BY <1>14 DEF K, Keep, dup
  <2>2. /\ K \in Seq(Candidate) /\ DOMAIN K = (DOMAIN N) \cup {Len(N) + 1}
        /\ \A j \in DOMAIN N : K[j] = N[j]
        /\ K[Len(N) + 1] = c
        /\ Len(N) + 1 \notin DOMAIN N
    BY <1>1, <1>2, <1>8, <2>1, AppendProperties, LenProperties DEF c
  <2>3. \A j \in DOMAIN K : \E i \in 1..n : K[j] = C(i)
    BY <1>1, <1>9, <2>2 DEF c
  <2>4. \A i \in 1..n : \E j \in DOMAIN K :
         Same(K[j], C(i)) /\ (list[i].target \in Partition => K[j] = C(i))
    <3>1. SUFFICES ASSUME NEW i \in 1..n
                   PROVE \E j \in DOMAIN K :
                     Same(K[j], C(i)) /\ (list[i].target \in Partition => K[j] = C(i))
      OBVIOUS
    <3>2. CASE i = n
      BY <1>1, <1>6, <2>2, <3>2 DEF c
    <3>3. CASE i \in 1..(n - 1)
      BY <1>10, <2>2, <3>3
    <3> QED
      BY <1>1, <3>2, <3>3
  <2>5. \A j, k \in DOMAIN K : Same(K[j], K[k]) => j = k
    BY <1>11, <1>12, <1>13, <1>14, <2>2
  <2> QED
    BY <2>2, <2>3, <2>4, <2>5 DEF Collected, C, c, K
<1>15. CASE dup # {}
  <2> DEFINE d == Min(dup)
  <2>1. PICK e \in dup : TRUE
    BY <1>15
  <2>2. \A j \in dup : j = e
    <3>1. SUFFICES ASSUME NEW j \in dup PROVE j = e
      OBVIOUS
    <3>2. PICK a \in 1..(n - 1) : N[j] = C(a)
      BY <1>9, <1>12
    <3>3. PICK b \in 1..(n - 1) : N[e] = C(b)
      BY <1>9, <1>12, <2>1
    <3>4. Same(C(a), C(n)) /\ Same(C(n), C(b))
      BY <1>1, <1>4, <1>12, <2>1, <3>2, <3>3 DEF c
    <3>5. Same(N[j], N[e])
      BY <1>1, <1>5, <3>2, <3>3, <3>4
    <3> QED
      BY <1>11, <1>12, <2>1, <3>5
  <2>3. d = e /\ e \in DOMAIN N /\ Same(c, N[e])
    <3>1. dup = {e} /\ e \in Nat
      BY <1>8, <1>12, <2>1, <2>2
    <3> QED
      BY <1>12, <3>1 DEF Min
  <2>4. K = IF c.exact /\ ~N[e].exact THEN [N EXCEPT ![e] = c] ELSE N
    BY <1>15, <2>3 DEF K, Keep, dup
  <2> HIDE DEF d
  <2>5. CASE c.exact /\ ~N[e].exact
    <3>1. K = [N EXCEPT ![e] = c]
      BY <2>4, <2>5
    <3>2. /\ K \in Seq(Candidate) /\ DOMAIN K = DOMAIN N
          /\ \A j \in DOMAIN N : K[j] = IF j = e THEN c ELSE N[j]
      BY <1>1, <1>2, <2>3, <3>1, ExceptSeq DEF c
    <3>3. \A j \in DOMAIN K : \E i \in 1..n : K[j] = C(i)
      BY <1>1, <1>9, <3>2 DEF c
    <3>4. \A i \in 1..n : \E j \in DOMAIN K :
           Same(K[j], C(i)) /\ (list[i].target \in Partition => K[j] = C(i))
      <4>1. SUFFICES ASSUME NEW i \in 1..n
                     PROVE \E j \in DOMAIN K :
                       Same(K[j], C(i)) /\ (list[i].target \in Partition => K[j] = C(i))
        OBVIOUS
      <4>2. CASE i = n
        BY <1>1, <1>6, <2>3, <3>2, <4>2 DEF c
      <4>3. CASE i \in 1..(n - 1)
        <5>1. PICK j \in DOMAIN N :
                Same(N[j], C(i)) /\ (list[i].target \in Partition => N[j] = C(i))
          BY <1>10, <4>3
        <5>2. CASE j # e
          BY <3>2, <5>1, <5>2
        <5>3. CASE j = e
          <6>1. list[i].target \notin Partition
            BY <1>2, <2>5, <5>1, <5>3
          <6>2. PICK a \in 1..(n - 1) : N[e] = C(a)
            BY <1>9, <2>3
          <6>3. Same(C(n), C(a)) /\ Same(C(a), C(i))
            BY <2>3, <5>1, <5>3, <6>2 DEF c
          <6>4. Same(K[e], C(i))
            BY <1>1, <1>5, <2>3, <3>2, <6>3 DEF c
          <6> QED
            BY <2>3, <3>2, <6>1, <6>4
        <5> QED
          BY <5>2, <5>3
      <4> QED
        BY <1>1, <4>2, <4>3
    <3>5. \A j, k \in DOMAIN K : Same(K[j], K[k]) => j = k
      <4>1. \A j \in DOMAIN N : Same(c, N[j]) => j = e
        BY <1>12, <2>2
      <4> QED
        BY <1>11, <1>13, <3>2, <4>1
    <3> QED
      BY <3>2, <3>3, <3>4, <3>5 DEF Collected, C, c, K
  <2>6. CASE ~(c.exact /\ ~N[e].exact)
    <3>1. K = N
      BY <2>4, <2>6
    <3>2. PICK a \in 1..(n - 1) : N[e] = C(a)
      BY <1>9, <2>3
    <3>3. Same(C(n), C(a)) /\ a # n
      BY <1>1, <2>3, <3>2 DEF c
    <3>4. list[n].target \notin Partition
      BY <1>1, <1>2, <1>7, <2>6, <3>2, <3>3 DEF c
    <3>5. \A i \in 1..n : \E j \in DOMAIN K :
           Same(K[j], C(i)) /\ (list[i].target \in Partition => K[j] = C(i))
      BY <1>1, <1>10, <1>13, <2>3, <3>1, <3>4 DEF c
    <3>6. \A j \in DOMAIN K : \E i \in 1..n : K[j] = C(i)
      BY <1>1, <1>9, <3>1
    <3> QED
      BY <1>11, <3>1, <3>5, <3>6 DEF Collected, C, c, K
  <2> QED
    BY <2>5, <2>6
<1> QED
  BY <1>14, <1>15

-----------------------------------------------------------------------------
(* Lists and tables.                                                       *)

LEMMA TableOfList ==
  ASSUME NEW list, IsMountList(list)
  PROVE  /\ Table(list) \in Mounts
         /\ \A i \in DOMAIN list : Table(list)[list[i].target] = list[i].entry
         /\ Configured(Table(list)) = {list[i].target : i \in DOMAIN list}
         /\ ConfigLetters(Table(list)) = {list[i].entry.mount : i \in DOMAIN list}
         /\ ConfigLetters(Table(list)) \subseteq Letter
<1>1. /\ \A i \in DOMAIN list : /\ list[i].target \in Target
                                /\ list[i].entry \in Entry
      /\ \A i, j \in DOMAIN list : list[i].target = list[j].target => i = j
  BY MountListFacts
<1>2. \A e \in Entry : e # None /\ e.mount \in Letter
  BY NoneIsNoRecord DEF Entry
<1>3. \A i \in DOMAIN list : Table(list)[list[i].target] = list[i].entry
  <2>1. SUFFICES ASSUME NEW i \in DOMAIN list
                 PROVE  Table(list)[list[i].target] = list[i].entry
    OBVIOUS
  <2> DEFINE k == CHOOSE k \in DOMAIN list : list[k].target = list[i].target
  <2>2. k \in DOMAIN list /\ list[k].target = list[i].target
    OBVIOUS
  <2>3. k = i
    BY <1>1, <2>2
  <2> QED
    BY <1>1, <2>3 DEF Table
<1>4. \A t \in Target : (\A i \in DOMAIN list : list[i].target # t) => Table(list)[t] = None
  BY DEF Table
<1>5. Table(list) \in Mounts
  <2>1. \A t \in Target : Table(list)[t] \in Entry \cup {None}
    BY <1>1, <1>3, <1>4
  <2>2. Table(list) = [t \in Target |-> Table(list)[t]]
    BY DEF Table
  <2> QED
    BY <2>1, <2>2 DEF Mounts
<1>6. Configured(Table(list)) = {list[i].target : i \in DOMAIN list}
  BY <1>1, <1>2, <1>3, <1>4 DEF Configured
<1>7. ConfigLetters(Table(list)) = {list[i].entry.mount : i \in DOMAIN list}
  BY <1>3, <1>6 DEF ConfigLetters
<1> QED
  BY <1>1, <1>2, <1>3, <1>5, <1>6, <1>7

LEMMA TableOfAppend ==
  ASSUME NEW list, IsMountList(list), NEW m \in Mount,
         m.target \notin Configured(Table(list))
  PROVE  /\ IsMountList(Append(list, m))
         /\ Table(Append(list, m)) = [Table(list) EXCEPT ![m.target] = m.entry]
<1> DEFINE L == Append(list, m)
<1>1. /\ list \in Seq(Mount) /\ Len(list) \in Nat /\ DOMAIN list = 1..Len(list)
      /\ \A i, j \in DOMAIN list : list[i].target = list[j].target => i = j
  BY MountListFacts DEF IsMountList
<1>2. /\ L \in Seq(Mount) /\ DOMAIN L = (DOMAIN list) \cup {Len(list) + 1}
      /\ \A i \in DOMAIN list : L[i] = list[i]
      /\ L[Len(list) + 1] = m
  <2>1. L \in Seq(Mount) /\ Len(L) = Len(list) + 1 /\ L[Len(list) + 1] = m
        /\ \A i \in 1..Len(list) : L[i] = list[i]
    BY <1>1, AppendProperties
  <2>2. DOMAIN L = 1..(Len(list) + 1)
    BY <2>1, LenProperties
  <2> QED
    BY <1>1, <2>1, <2>2
<1> HIDE DEF L
<1>3. \A i \in DOMAIN list : list[i].target # m.target
  BY TableOfList
<1>4. IsMountList(L)
  BY <1>1, <1>2, <1>3 DEF IsMountList
<1>5. m.target \in Target /\ m.entry \in Entry
  BY DEF Mount
<1>6. Table(L) \in Mounts /\ Table(list) \in Mounts
  BY <1>4, TableOfList
<1>7. \A t \in Target : Table(L)[t] = IF t = m.target THEN m.entry ELSE Table(list)[t]
  <2>1. SUFFICES ASSUME NEW t \in Target
                 PROVE  Table(L)[t] = IF t = m.target THEN m.entry ELSE Table(list)[t]
    OBVIOUS
  <2>2. CASE t = m.target
    BY <1>2, <1>4, <2>2, TableOfList
  <2>3. CASE t # m.target /\ \E i \in DOMAIN list : list[i].target = t
    BY <1>2, <1>4, <2>3, TableOfList
  <2>4. CASE t # m.target /\ \A i \in DOMAIN list : list[i].target # t
    BY <1>2, <2>4 DEF Table
  <2> QED
    BY <2>2, <2>3, <2>4
<1> QED
  BY <1>4, <1>5, <1>6, <1>7 DEF Mounts, L

(* A volume is listed when an entry is recognised as one of its region.    *)
LEMMA ListedVolume ==
  ASSUME NEW list, IsMountList(list), NEW present \in SUBSET Region,
         NEW r \in Discovered(present)
  PROVE  /\ ScanName[r] \in Target /\ RegionOf[ScanName[r]] = r
         /\ ~RenamedByScan(ScanName[r], present)
         /\ Listed(list, ScanName[r], present) <=>
              \E i \in DOMAIN list : SameRawRegion(list[i].target, ScanName[r], present)
<1> DEFINE v == ScanName[r]
<1>1. r \in Region /\ r \in present /\ v # None
  BY DEF Discovered
<1>2. v \in Target \ Image /\ RegionOf[v] = r
  BY <1>1, MountPolicyAssumption
<1>3. ~RenamedByScan(v, present)
  BY <1>2 DEF RenamedByScan
<1>4. RawTargetIdentity(v, present) # None
  BY <1>1, <1>2, ListsAssumption DEF RawTargetIdentity, Recognised
<1>5. \A i \in DOMAIN list : list[i].target \in Target
  BY MountListFacts
<1> HIDE DEF v
<1>6. \A i \in DOMAIN list :
        \/ list[i].target = v
        \/ /\ RawTargetIdentity(v, present) # None
           /\ RawTargetIdentity(list[i].target, present) = RawTargetIdentity(v, present)
        <=> SameRawRegion(list[i].target, v, present)
  <2>1. SameRawRegion(v, v, present)
    BY DEF SameRawRegion
  <2> QED
    BY <1>2, <1>4, <1>5, <2>1, IdentitySame
<1> QED
  BY <1>2, <1>3, <1>6 DEF Listed, v

(* The entries of the candidates. *)
Plain(normalized) ==
  [i \in DOMAIN normalized |-> [target |-> normalized[i].target, entry |-> normalized[i].entry]]

(* What the loop over the entries has kept when it ends is the canonical   *)
(* table: one entry for each region, the partition's if there is one,      *)
(* whatever the order of the entries.                                      *)
LEMMA CollectedIsCanonical ==
  ASSUME NEW list, IsMountList(list), NEW present \in SUBSET Region,
         NEW normalized \in Seq(Candidate),
         Collected(normalized, list, Len(list), present)
  PROVE  /\ IsMountList(Plain(normalized))
         /\ Table(Plain(normalized)) = CanonicalizeAliases(Table(list), present)
         /\ \A i \in DOMAIN Plain(normalized) :
              ~RenamedByScan(Plain(normalized)[i].target, present)
         /\ \A i, j \in DOMAIN Plain(normalized) :
              SameRawRegion(Plain(normalized)[i].target, Plain(normalized)[j].target, present)
                => i = j
<1> DEFINE N == normalized
           W == Plain(normalized)
           M == Table(list)
           A == CanonicalizeAliases(M, present)
<1>1. /\ Len(list) \in Nat /\ DOMAIN list = 1..Len(list)
      /\ \A i \in DOMAIN list : list[i] \in Mount /\ list[i].target \in Target
      /\ \A i, j \in DOMAIN list : list[i].target = list[j].target => i = j
  BY MountListFacts
<1>2. /\ M \in Mounts
      /\ \A i \in DOMAIN list : M[list[i].target] = list[i].entry /\ list[i].entry # None
      /\ Configured(M) = {list[i].target : i \in DOMAIN list}
  BY TableOfList, MountListFacts, NoneIsNoRecord
<1>3. /\ DOMAIN N = 1..Len(N) /\ Len(N) \in Nat
      /\ \A j \in DOMAIN N : N[j] \in Candidate
      /\ DOMAIN W = DOMAIN N
      /\ \A j \in DOMAIN N : W[j].target = N[j].target /\ W[j].entry = N[j].entry
  BY LenProperties, ElementOfSeq DEF Plain
<1>4. \A j \in DOMAIN N : \E i \in DOMAIN list : N[j] = Normalize(list[i], present)
  BY <1>1 DEF Collected
<1>5. \A i \in DOMAIN list : \E j \in DOMAIN N :
         /\ Same(N[j], Normalize(list[i], present))
         /\ list[i].target \in Partition => N[j] = Normalize(list[i], present)
  BY <1>1 DEF Collected
<1>6. \A j, k \in DOMAIN N : Same(N[j], N[k]) => j = k
  BY DEF Collected
<1>7. W \in Seq(Mount)
  <2>1. \A j \in DOMAIN N : W[j] \in Mount
    BY <1>3 DEF Candidate, Mount, Plain
  <2>2. W \in [1..Len(N) -> Mount]
    BY <1>3, <2>1 DEF Plain
  <2> QED
    BY <1>3, <2>2, SeqDef
<1>8. IsMountList(W)
  BY <1>3, <1>6, <1>7 DEF IsMountList, Same
<1>9. \A i \in DOMAIN W : ~RenamedByScan(W[i].target, present)
  BY <1>1, <1>3, <1>4, CanonicalTarget DEF Normalize
<1>10. \A i, j \in DOMAIN W : SameRawRegion(W[i].target, W[j].target, present) => i = j
  <2>1. SUFFICES ASSUME NEW i \in DOMAIN N, NEW j \in DOMAIN N,
                        SameRawRegion(N[i].target, N[j].target, present)
                 PROVE  i = j
    BY <1>3
  <2>2. /\ N[i].target \in Target /\ N[i].identity = RawTargetIdentity(N[i].target, present)
        /\ N[j].target \in Target /\ N[j].identity = RawTargetIdentity(N[j].target, present)
    BY <1>1, <1>4, CanonicalTarget DEF Normalize
  <2>3. Same(N[i], N[j])
    BY <2>1, <2>2, IdentitySame DEF Same
  <2> QED
    BY <1>6, <2>3
<1> HIDE DEF N, M, A
(* A kept entry is where canonicalization puts it. *)
<1>11. ASSUME NEW j \in DOMAIN W
       PROVE  A[W[j].target] = W[j].entry
  <2>1. PICK i \in DOMAIN list : N[j] = Normalize(list[i], present)
    BY <1>3, <1>4
  <2> DEFINE s == list[i].target
             t == W[j].target
  <2>2. /\ s \in Target /\ s \in Configured(M) /\ M[s] = W[j].entry /\ M[s] # None
        /\ t = CanonicalDiscoveredTarget(s, present)
    BY <1>1, <1>2, <1>3, <2>1 DEF Normalize
  <2>3. \A k \in DOMAIN list :
          SameRawRegion(list[k].target, s, present) /\ list[k].target \in Partition
          => k = i
    <3>1. SUFFICES ASSUME NEW k \in DOMAIN list,
                          SameRawRegion(list[k].target, s, present),
                          list[k].target \in Partition
                   PROVE  k = i
      OBVIOUS
    <3>2. PICK l \in DOMAIN N : N[l] = Normalize(list[k], present)
      BY <1>5, <3>1
    <3>3. Same(N[l], N[j])
      BY <1>1, <2>1, <3>1, <3>2, SameIsSameRegion
    <3>4. l = j
      BY <1>3, <1>6, <3>3
    <3>5. Normalize(list[k], present) = Normalize(list[i], present)
      BY <2>1, <3>2, <3>4
    <3>6. (list[k].target \in Partition) <=> (list[i].target \in Partition)
      BY <3>5 DEF Normalize, RenamedByScan
    <3>7. list[k].target = list[i].target
      BY <1>1, <3>1, <3>6, MountPolicyAssumption DEF SameRawRegion
    <3> QED
      BY <1>1, <3>7
  <2> HIDE DEF s, t
  <2>4. CASE ~RenamedByScan(s, present)
    <3>1. t = s
      BY <2>2, <2>4, CanonicalTarget
    <3>2. ~ShadowedByPartition(M, s, present)
      <4>1. SUFFICES ASSUME NEW p \in Configured(M) \cap Partition, s \notin Partition,
                            RegionOf[s] \in present, RegionOf[p] = RegionOf[s]
                     PROVE  FALSE
        BY DEF ShadowedByPartition
      <4>2. PICK k \in DOMAIN list : list[k].target = p
        BY <1>2, <4>1
      <4>3. SameRawRegion(p, s, present)
        BY <4>1 DEF SameRawRegion, Recognised
      <4>4. k = i
        BY <2>3, <4>1, <4>2, <4>3
      <4> QED
        BY <4>1, <4>2, <4>4 DEF s
    <3> QED
      BY <2>2, <2>4, <3>1, <3>2 DEF A, CanonicalizeAliases, t
  <2>5. CASE RenamedByScan(s, present)
    <3>1. /\ t = ScanName[RegionOf[s]] /\ t \in Partition /\ s \notin Partition
          /\ RegionOf[s] \in present /\ RegionOf[t] = RegionOf[s] /\ t \in Target
      BY <2>2, <2>5, CanonicalTarget
    <3>2. M[t] = None
      <4>1. SUFFICES ASSUME t \in Configured(M) PROVE FALSE
        BY <3>1 DEF Configured
      <4>2. PICK k \in DOMAIN list : list[k].target = t
        BY <1>2, <4>1
      <4>3. SameRawRegion(t, s, present)
        BY <3>1 DEF SameRawRegion, Recognised
      <4>4. k = i
        BY <2>3, <3>1, <4>2, <4>3
      <4> QED
        BY <3>1, <4>2, <4>4 DEF s
    <3>3. s \in AliasesOf(M, t, present)
      BY <2>2, <2>5, <3>1 DEF AliasesOf
    <3>4. \A w \in AliasesOf(M, t, present) : w = s
      <4>1. SUFFICES ASSUME NEW w \in AliasesOf(M, t, present) PROVE w = s
        OBVIOUS
      <4>2. /\ w \in Target /\ w \notin Partition /\ ScanName[RegionOf[w]] = t
        BY <4>1 DEF AliasesOf, Configured, RenamedByScan
      <4>3. RegionOf[w] \in Region /\ t # None
        BY <3>1, <4>2, MountPolicyAssumption
      <4>4. RegionOf[w] = RegionOf[t]
        BY <4>2, <4>3, MountPolicyAssumption
      <4> QED
        BY <2>2, <3>1, <4>2, <4>4, MountPolicyAssumption
    <3>5. A[t] = M[CHOOSE w \in AliasesOf(M, t, present) : TRUE]
      BY <3>1, <3>2, <3>3 DEF A, CanonicalizeAliases
    <3> QED
      BY <2>2, <3>3, <3>4, <3>5 DEF t
  <2> QED
    BY <2>4, <2>5
(* And there is no other entry in the canonical table. *)
<1>12. ASSUME NEW t \in Configured(A)
       PROVE  \E j \in DOMAIN W : W[j].target = t
  <2>1. t \in Target
    BY DEF Configured
  <2>2. PICK s \in Target : ComesFrom(M, present, s, t)
    BY <1>2, CanonicalEntry DEF A
  <2>3. PICK i \in DOMAIN list : list[i].target = s
    BY <1>2, <2>2 DEF ComesFrom
  <2>4. PICK j \in DOMAIN N :
         /\ Same(N[j], Normalize(list[i], present))
         /\ list[i].target \in Partition => N[j] = Normalize(list[i], present)
    BY <1>5
  <2>5. PICK k \in DOMAIN list : N[j] = Normalize(list[k], present)
    BY <1>4
  <2> DEFINE u == list[k].target
  <2>6. u \in Target /\ SameRawRegion(u, s, present) /\ u \in Configured(M)
    BY <1>1, <1>2, <2>3, <2>4, <2>5, SameIsSameRegion
  <2>7. N[j].target = CanonicalDiscoveredTarget(u, present)
    BY <2>5 DEF Normalize
  <2>8. s \in Partition => N[j].target = CanonicalDiscoveredTarget(s, present)
    BY <2>3, <2>4 DEF Normalize
  <2> HIDE DEF u
  <2>9. CASE s = t /\ ~RenamedByScan(t, present) /\ ~ShadowedByPartition(M, t, present)
    <3>1. CASE s \in Partition
      BY <1>3, <2>1, <2>8, <2>9, <3>1, CanonicalTarget
    <3>2. CASE s \notin Partition
      <4>1. u = s
        <5>1. SUFFICES ASSUME u # s PROVE FALSE
          OBVIOUS
        <5>2. RegionOf[u] = RegionOf[s] /\ Recognised(u, present) /\ u \in Partition
          BY <2>6, <3>2, <5>1, MountPolicyAssumption DEF SameRawRegion
        <5> QED
          BY <2>6, <2>9, <3>2, <5>2 DEF ShadowedByPartition, Recognised
      <4> QED
        BY <1>3, <2>1, <2>7, <2>9, <4>1, CanonicalTarget
    <3> QED
      BY <3>1, <3>2
  <2>10. CASE RenamedByScan(s, present) /\ t = ScanName[RegionOf[s]] /\ M[t] = None
    <3>1. /\ CanonicalDiscoveredTarget(s, present) = t /\ t \in Partition /\ s \notin Partition
          /\ RegionOf[t] = RegionOf[s]
      BY <2>10, CanonicalTarget
    <3>2. u = s
      <4>1. SUFFICES ASSUME u # s PROVE FALSE
        OBVIOUS
      <4>2. RegionOf[u] = RegionOf[s] /\ u \in Partition
        BY <2>6, <3>1, <4>1, MountPolicyAssumption DEF SameRawRegion
      <4>3. u = t
        BY <2>1, <2>6, <3>1, <4>2, MountPolicyAssumption
      <4> QED
        BY <2>6, <2>10, <4>3 DEF Configured
    <3> QED
      BY <1>3, <2>7, <3>1, <3>2
  <2> QED
    BY <2>2, <2>9, <2>10 DEF ComesFrom
<1>13. Table(W) = A
  <2>1. Table(W) \in Mounts /\ A \in Mounts
    BY <1>2, <1>8, TableOfList, CanonicalizeType DEF A
  <2>2. \A t \in Target : Table(W)[t] = A[t]
    <3>1. SUFFICES ASSUME NEW t \in Target PROVE Table(W)[t] = A[t]
      OBVIOUS
    <3>2. CASE \E j \in DOMAIN W : W[j].target = t
      BY <1>8, <1>11, <3>2, TableOfList
    <3>3. CASE \A j \in DOMAIN W : W[j].target # t
      BY <1>12, <3>3 DEF Table, Configured
    <3> QED
      BY <3>2, <3>3
  <2> QED
    BY <2>1, <2>2 DEF Mounts
<1> QED
  BY <1>8, <1>9, <1>10, <1>13 DEF A, M

-----------------------------------------------------------------------------
(* Letters.                                                                *)

(* Of some letters one is the largest: the one with the fewest above it.   *)
LEMMA LargestLetter ==
  ASSUME NEW S \in SUBSET Letter, S # {}
  PROVE  Max(S) \in S /\ \A x \in S : x <= Max(S)
<1> DEFINE above(x) == {y \in S : y > x}
           counts == {Cardinality(above(x)) : x \in S}
           R == OpToRel(<, Nat)
<1>1. IsFiniteSet(S) /\ S \subseteq Nat
  BY FS_Subset, MountPolicyAssumption
<1>2. \A x \in S : IsFiniteSet(above(x)) /\ Cardinality(above(x)) \in Nat
  BY <1>1, FS_Subset, FS_CardinalityType
<1>3. IsWellFoundedOn(R, Nat)
  BY NatLessThanWellFounded
<1>4. \A x, y \in Nat : x < y => <<x, y>> \in R
  BY DEF OpToRel
<1>5. counts \subseteq Nat /\ counts # {}
  BY <1>2
<1> HIDE DEF R
<1>6. \E n \in counts : \A k \in counts : ~(<<k, n>> \in R)
  <2> HIDE DEF counts, above
  <2>1. PICK n \in counts : \A k \in counts : ~(<<k, n>> \in R)
    BY <1>3, <1>5, WFMin
  <2> QED
    BY <2>1
<1>7. PICK m \in S : \A x \in S : ~(<<Cardinality(above(x)), Cardinality(above(m))>> \in R)
  BY <1>6
<1>8. \A x \in S : ~(Cardinality(above(x)) < Cardinality(above(m)))
  BY <1>2, <1>4, <1>7
<1>9. ASSUME NEW x \in S, x > m
      PROVE  FALSE
  <2>1. above(x) \subseteq above(m) /\ x \in above(m) /\ x \notin above(x)
    <3>1. x \in Nat /\ m \in Nat /\ \A y \in S : y \in Nat
      BY <1>1
    <3>2. ~(x > x) /\ \A y \in S : y > x => y > m
      BY <1>9, <3>1
    <3> QED
      BY <1>9, <3>2
  <2>2. /\ IsFiniteSet(above(m)) /\ Cardinality(above(m)) \in Nat
        /\ Cardinality(above(x)) \in Nat
        /\ ~(Cardinality(above(x)) < Cardinality(above(m)))
    BY <1>2, <1>8
  <2> HIDE DEF above
  <2>3. /\ Cardinality(above(x)) <= Cardinality(above(m))
        /\ Cardinality(above(m)) = Cardinality(above(x)) => above(m) = above(x)
    BY <2>1, <2>2, FS_Subset
  <2> QED
    BY <2>1, <2>2, <2>3
<1>10. \A x \in S : m >= x
  BY <1>1, <1>9
<1> QED
  BY <1>1, <1>10 DEF Max

(* If the letters of F that are used are the largest ones, the largest     *)
(* other one is the only letter of F with as many above it as are used.    *)
LEMMA NextLetter ==
  ASSUME NEW F \in SUBSET Letter, NEW U, F \ U # {},
         \A x \in F \cap U, y \in F : y > x => y \in U
  PROVE  LET l == Max(F \ U)
         IN  /\ l \in F \ U
             /\ {k \in F : Cardinality({x \in F : x > k}) = Cardinality(F \cap U)} = {l}
             /\ \A x \in F \cap (U \cup {l}), y \in F : y > x => y \in U \cup {l}
             /\ Cardinality(F \cap (U \cup {l})) = Cardinality(F \cap U) + 1
<1> DEFINE l == Max(F \ U)
           above(k) == {x \in F : x > k}
<1>1. l \in F \ U /\ \A x \in F \ U : x <= l
  BY LargestLetter
<1> HIDE DEF l
<1>2. IsFiniteSet(F) /\ F \subseteq Nat
  BY FS_Subset, MountPolicyAssumption
<1>3. above(l) = F \cap U
  <2>1. \A x \in F : x \in Nat
    BY <1>2
  <2>2. \A x \in F : x > l <=> x \in U
    BY <1>1, <2>1
  <2> QED
    BY <2>2
<1>4. \A k \in F : IsFiniteSet(above(k))
  BY <1>2, FS_Subset
<1>5. ASSUME NEW k \in F, NEW m \in F, k < m
      PROVE  Cardinality(above(k)) # Cardinality(above(m))
  <2>1. above(m) \subseteq above(k) /\ m \in above(k) /\ m \notin above(m)
    <3>1. k \in Nat /\ m \in Nat /\ \A y \in F : y \in Nat
      BY <1>2
    <3>2. ~(m > m) /\ m > k /\ \A y \in F : y > m => y > k
      BY <1>5, <3>1
    <3> QED
      BY <3>2
  <2>2. IsFiniteSet(above(k))
    BY <1>4
  <2> HIDE DEF above
  <2>3. Cardinality(above(k)) = Cardinality(above(m)) => above(k) = above(m)
    BY <2>1, <2>2, FS_Subset
  <2> QED
    BY <2>1, <2>3
<1>6. \A k \in F : Cardinality(above(k)) = Cardinality(above(l)) => k = l
  <2>1. \A k \in F : k # l => k < l \/ l < k
    BY <1>1, <1>2
  <2>2. l \in F
    BY <1>1
  <2> HIDE DEF above
  <2>3. ASSUME NEW k \in F, Cardinality(above(k)) = Cardinality(above(l)), k # l
        PROVE  FALSE
    <3>1. CASE k < l
      BY <1>5, <2>2, <2>3, <3>1
    <3>2. CASE l < k
      BY <1>5, <2>2, <2>3, <3>2
    <3> QED
      BY <2>1, <2>3, <3>1, <3>2
  <2> QED
    BY <2>3
<1>7. {k \in F : Cardinality(above(k)) = Cardinality(F \cap U)} = {l}
  BY <1>1, <1>3, <1>6
<1>8. \A x \in F \cap (U \cup {l}), y \in F : y > x => y \in U \cup {l}
  BY <1>1, <1>3
<1>9. Cardinality(F \cap (U \cup {l})) = Cardinality(F \cap U) + 1
  <2>1. F \cap (U \cup {l}) = (F \cap U) \cup {l} /\ l \notin F \cap U
    BY <1>1
  <2>2. IsFiniteSet(F \cap U)
    BY <1>2, FS_Subset
  <2> QED
    BY <2>1, <2>2, FS_AddElement
<1> QED
  BY <1>1, <1>7, <1>8, <1>9 DEF l

(* No letter of F has all letters of F above it. *)
LEMMA NoLetterLeft ==
  ASSUME NEW F \in SUBSET Letter, NEW n \in Nat, Cardinality(F) <= n
  PROVE  {k \in F : Cardinality({x \in F : x > k}) = n} = {}
<1>1. IsFiniteSet(F) /\ F \subseteq Nat /\ Cardinality(F) \in Nat
  BY FS_Subset, FS_CardinalityType, MountPolicyAssumption
<1>2. SUFFICES ASSUME NEW k \in F, Cardinality({x \in F : x > k}) = n
               PROVE  FALSE
  OBVIOUS
<1> DEFINE above == {x \in F : x > k}
<1>3. above \subseteq F /\ k \notin above /\ k \in F
  BY <1>1
<1>4. Cardinality(above) = n
  BY <1>2
<1> HIDE DEF above
<1>5. Cardinality(above) <= Cardinality(F) /\ (Cardinality(F) = Cardinality(above) => F = above)
  BY <1>1, <1>3, FS_Subset
<1>6. n = Cardinality(F)
  BY <1>1, <1>4, <1>5
<1> QED
  BY <1>3, <1>4, <1>5, <1>6

-----------------------------------------------------------------------------
(* One round of the loop over the volumes.                                 *)

(* The writable default for a new volume. *)
NewMount(t, l) ==
  [target |-> t, entry |-> [mount |-> l, read_only |-> FALSE,
                            allow_raw_writes |-> TRUE, enabled |-> TRUE]]

(* What a round does for the volume of region r: nothing if it is listed,  *)
(* else append the configuration of its worker, or a default if a letter   *)
(* is left.                                                                *)
MergeRound(r) ==
  /\ r \in Discovered(media) /\ \A q \in todo : ScanRank[r] <= ScanRank[q]
  /\ todo' = todo \ {r}
  /\ \/ /\ Listed(work, ScanName[r], media)
        /\ work' = work /\ used' = used
     \/ /\ ~Listed(work, ScanName[r], media)
        /\ \E i \in WorkerOf(preferred, ScanName[r]) : work' = Append(work, preferred[i])
        /\ used' = used
     \/ /\ ~Listed(work, ScanName[r], media)
        /\ WorkerOf(preferred, ScanName[r]) = {}
        /\ Letter \subseteq used
        /\ work' = work /\ used' = used
     \/ /\ ~Listed(work, ScanName[r], media)
        /\ WorkerOf(preferred, ScanName[r]) = {}
        /\ Letter \ used # {}
        /\ work' = Append(work, NewMount(ScanName[r], Max(Letter \ used)))
        /\ used' = used \cup {Max(Letter \ used)}

LEMMA MergeNextCases ==
  ASSUME TypeInv, MergeNext
  PROVE  \E r \in todo : MergeRound(r)
<1> DEFINE merged(r) ==
             MergeVolume([list |-> work, used |-> used], ScanName[r], media, preferred)
<1>1. PICK r \in todo : /\ \A q \in todo : ScanRank[r] <= ScanRank[q]
                        /\ work' = merged(r).list
                        /\ used' = merged(r).used
                        /\ todo' = todo \ {r}
  BY DEF MergeNext
<1> DEFINE t == ScanName[r]
           i == Min(WorkerOf(preferred, t))
<1>2. r \in Discovered(media)
  BY DEF TypeInv
<1>3. CASE Listed(work, t, media)
  <2>1. merged(r) = [list |-> work, used |-> used]
    BY <1>3 DEF MergeVolume
  <2> QED
    BY <1>1, <1>2, <1>3, <2>1 DEF MergeRound
<1>4. CASE ~Listed(work, t, media) /\ WorkerOf(preferred, t) # {}
  <2>1. merged(r) = [list |-> Append(work, preferred[i]), used |-> used]
    BY <1>4 DEF MergeVolume
  <2>2. i \in WorkerOf(preferred, t)
    <3>1. PICK k \in WorkerOf(preferred, t) : TRUE
      BY <1>4
    <3>2. WorkerOf(preferred, t) = {k} /\ k \in Nat
      BY <3>1, MountListFacts DEF WorkerOf, TypeInv
    <3> QED
      BY <3>2 DEF Min
  <2> HIDE DEF i
  <2> QED
    BY <1>1, <1>2, <1>4, <2>1, <2>2 DEF MergeRound
<1>5. CASE ~Listed(work, t, media) /\ WorkerOf(preferred, t) = {} /\ Letter \ used = {}
  <2>1. merged(r) = [list |-> work, used |-> used]
    BY <1>5 DEF MergeVolume
  <2> QED
    BY <1>1, <1>2, <1>5, <2>1 DEF MergeRound
<1>6. CASE ~Listed(work, t, media) /\ WorkerOf(preferred, t) = {} /\ Letter \ used # {}
  <2>1. merged(r) = [list |-> Append(work, NewMount(t, Max(Letter \ used))),
                     used |-> used \cup {Max(Letter \ used)}]
    <3> DEFINE before == [list |-> work, used |-> used]
    <3>1. before.list = work /\ before.used = used
      OBVIOUS
    <3>2. merged(r) = [list |-> Append(before.list, NewMount(t, Max(Letter \ before.used))),
                       used |-> before.used \cup {Max(Letter \ before.used)}]
      <4>1. ~Listed(before.list, t, media) /\ Letter \ before.used # {}
        BY <1>6, <3>1
      <4> HIDE DEF before
      <4>2. MergeVolume(before, t, media, preferred)
              = [list |-> Append(before.list, NewMount(t, Max(Letter \ before.used))),
                 used |-> before.used \cup {Max(Letter \ before.used)}]
        BY <1>6, <4>1 DEF MergeVolume, NewMount
      <4> QED
        BY <4>2 DEF before
    <3> QED
      BY <3>1, <3>2
  <2> HIDE DEF merged
  <2>2. /\ work' = Append(work, NewMount(t, Max(Letter \ used)))
        /\ used' = used \cup {Max(Letter \ used)}
    BY <1>1, <2>1
  <2> QED
    BY <1>1, <1>2, <1>6, <2>2 DEF MergeRound
<1> QED
  BY <1>3, <1>4, <1>5, <1>6

(* What a round appends is for the volume and no other entry is. *)
LEMMA AppendedEntry ==
  ASSUME TypeInv, pc = "volumes", NEW r \in Discovered(media),
         ~Listed(work, ScanName[r], media),
         NEW m \in Mount, m.target = ScanName[r]
  PROVE  /\ IsMountList(Append(work, m))
         /\ Table(Append(work, m)) = [Table(work) EXCEPT ![ScanName[r]] = m.entry]
         /\ DOMAIN Append(work, m) = (DOMAIN work) \cup {Len(work) + 1}
         /\ Len(work) + 1 \notin DOMAIN work
         /\ \A i \in DOMAIN work : Append(work, m)[i] = work[i]
         /\ Append(work, m)[Len(work) + 1] = m
<1>1. IsMountList(work) /\ media \in SUBSET Region
  BY DEF TypeInv
<1>2. work \in Seq(Mount) /\ Len(work) \in Nat /\ DOMAIN work = 1..Len(work)
  BY <1>1, MountListFacts DEF IsMountList
<1>3. m.target \notin Configured(Table(work))
  BY <1>1, TableOfList DEF Listed
<1>4. IsMountList(Append(work, m))
      /\ Table(Append(work, m)) = [Table(work) EXCEPT ![ScanName[r]] = m.entry]
  BY <1>1, <1>3, TableOfAppend
<1>5. /\ Append(work, m) \in Seq(Mount) /\ Len(Append(work, m)) = Len(work) + 1
      /\ \A i \in 1..Len(work) : Append(work, m)[i] = work[i]
      /\ Append(work, m)[Len(work) + 1] = m
  BY <1>2, AppendProperties
<1>6. DOMAIN Append(work, m) = 1..(Len(work) + 1)
  BY <1>5, LenProperties
<1> QED
  BY <1>2, <1>4, <1>5, <1>6

LEMMA WorkerEntry ==
  ASSUME TypeInv, NEW t \in Target
  PROVE  /\ \A i \in WorkerOf(preferred, t) :
              /\ preferred[i] \in Mount /\ preferred[i].target = t
              /\ Table(preferred)[t] = preferred[i].entry /\ Table(preferred)[t] # None
         /\ WorkerOf(preferred, t) = {} => Table(preferred)[t] = None
<1>1. IsMountList(preferred)
  BY DEF TypeInv
<1>2. \A i \in DOMAIN preferred : /\ preferred[i] \in Mount /\ preferred[i].entry \in Entry
                                  /\ Table(preferred)[preferred[i].target] = preferred[i].entry
  BY <1>1, MountListFacts, TableOfList
<1>3. \A e \in Entry : e # None
  BY NoneIsNoRecord
<1> QED
  BY <1>2, <1>3 DEF WorkerOf, Table

LEMMA NewMountType ==
  ASSUME NEW t \in Target, NEW l \in Letter
  PROVE  NewMount(t, l) \in Mount /\ NewMount(t, l).target = t
         /\ NewMount(t, l).entry = [mount |-> l, read_only |-> FALSE,
                                    allow_raw_writes |-> TRUE, enabled |-> TRUE]
         /\ NewMount(t, l).entry.mount = l
BY DEF NewMount, Mount, Entry

LEMMA MergeNextType ==
  ASSUME TypeInv, MergeNext
  PROVE  TypeInv'
<1>1. pc = "volumes" /\ UNCHANGED <<mounts, pc, next, media, fresh, preferred, inUse, passes>>
  BY DEF MergeNext, worldVars
<1>2. PICK r \in todo : MergeRound(r)
  BY MergeNextCases
<1>3. ScanName[r] \in Target
  BY <1>1, <1>2, ListedVolume DEF TypeInv, MergeRound
<1>4. Letter \ used # {} => Max(Letter \ used) \in Letter
  BY LargestLetter
<1>5. IsMountList(work') /\ used' \in SUBSET Letter
  <2>1. CASE work' = work /\ used' = used
    BY <1>1, <2>1 DEF TypeInv
  <2>2. CASE /\ ~Listed(work, ScanName[r], media)
             /\ \E i \in WorkerOf(preferred, ScanName[r]) : work' = Append(work, preferred[i])
             /\ used' = used
    BY <1>1, <1>2, <1>3, <2>2, AppendedEntry, WorkerEntry DEF TypeInv, MergeRound
  <2>3. CASE /\ ~Listed(work, ScanName[r], media)
             /\ Letter \ used # {}
             /\ work' = Append(work, NewMount(ScanName[r], Max(Letter \ used)))
             /\ used' = used \cup {Max(Letter \ used)}
    <3> DEFINE l == Max(Letter \ used)
               m == NewMount(ScanName[r], l)
    <3>1. l \in Letter
      BY <1>4, <2>3
    <3>2. m \in Mount /\ m.target = ScanName[r]
      BY <1>3, <3>1, NewMountType
    <3>3. work' = Append(work, m) /\ used' = used \cup {l}
      BY <2>3
    <3> HIDE DEF l, m
    <3>4. IsMountList(Append(work, m))
      BY <1>1, <1>2, <2>3, <3>2, AppendedEntry DEF MergeRound
    <3>5. used \in SUBSET Letter
      BY DEF TypeInv
    <3> QED
      BY <3>1, <3>3, <3>4, <3>5
  <2> QED
    BY <1>2, <2>1, <2>2, <2>3 DEF MergeRound
<1> QED
  BY <1>1, <1>2, <1>5 DEF TypeInv, MergeRound

LEMMA MergeNextResolves ==
  ASSUME TypeInv, VolumeInv, MergeNext
  PROVE  VolumeInv'
<1>1. /\ pc = "volumes"
      /\ UNCHANGED <<mounts, pc, next, media, fresh, preferred, inUse, passes>>
      /\ IsMountList(work) /\ media \in SUBSET Region
  BY DEF MergeNext, worldVars, TypeInv
<1>2. PICK r \in todo : MergeRound(r)
  BY MergeNextCases
<1> DEFINE t == ScanName[r]
           done == Discovered(media) \ todo
<1>3. /\ t \in Target /\ ~RenamedByScan(t, media)
      /\ Listed(work, t, media) <=>
           \E i \in DOMAIN work : SameRawRegion(work[i].target, t, media)
      /\ r \in Discovered(media) /\ Discovered(media) \ todo' = done \cup {r}
  BY <1>1, <1>2, ListedVolume DEF MergeRound
<1>4. /\ Resolved(work, done, used) /\ used \subseteq UsedDriveLetters(work, inUse)
      /\ next \notin DOMAIN mounts
  BY <1>1 DEF VolumeInv
<1> SUFFICES /\ Resolved(work', done \cup {r}, used')
             /\ used' \subseteq UsedDriveLetters(work', inUse)
  BY <1>1, <1>3, <1>4 DEF VolumeInv, Resolved, Listed
<1> HIDE DEF t, done
<1>5. CASE /\ work' = work /\ used' = used
           /\ \/ Listed(work, t, media)
              \/ WorkerOf(preferred, t) = {} /\ Letter \subseteq used
  BY <1>4, <1>5 DEF Resolved, t
<1>6. ASSUME ~Listed(work, t, media),
             NEW m \in Mount, m.target = t, work' = Append(work, m),
             used \subseteq used', used' \subseteq used \cup {m.entry.mount}
      PROVE  /\ Resolved(work', done \cup {r}, used')
             /\ used' \subseteq UsedDriveLetters(work', inUse)
  <2> DEFINE n == Len(work) + 1
  <2>1. /\ DOMAIN work' = (DOMAIN work) \cup {n} /\ n \notin DOMAIN work
        /\ \A i \in DOMAIN work : work'[i] = work[i]
        /\ work'[n] = m
    BY <1>1, <1>3, <1>6, AppendedEntry DEF t
  <2> HIDE DEF n
  <2>2. \A i \in DOMAIN work' : ~RenamedByScan(work'[i].target, media)
    BY <1>3, <1>4, <1>6, <2>1 DEF Resolved
  <2>3. \A i, j \in DOMAIN work' :
          SameRawRegion(work'[i].target, work'[j].target, media) => i = j
    <3>1. \A i \in DOMAIN work :
            /\ ~SameRawRegion(work[i].target, t, media)
            /\ ~SameRawRegion(t, work[i].target, media)
      BY <1>3, <1>6 DEF SameRawRegion
    <3> QED
      BY <1>4, <1>6, <2>1, <3>1 DEF Resolved
  <2>4. \A q : Listed(work, q, media) => Listed(work', q, media)
    BY <2>1 DEF Listed
  <2>5. Listed(work', t, media)
    BY <1>6, <2>1 DEF Listed
  <2>6. Resolved(work', done \cup {r}, used')
    <3>1. \A q \in done \cup {r} :
            \/ Listed(work', ScanName[q], media)
            \/ WorkerOf(preferred, ScanName[q]) = {} /\ Letter \subseteq used'
      <4>1. SUFFICES ASSUME NEW q \in done
                     PROVE  \/ Listed(work', ScanName[q], media)
                            \/ /\ WorkerOf(preferred, ScanName[q]) = {}
                               /\ Letter \subseteq used'
        BY <2>5 DEF t
      <4>2. \/ Listed(work, ScanName[q], media)
            \/ WorkerOf(preferred, ScanName[q]) = {} /\ Letter \subseteq used
        BY <1>4 DEF Resolved
      <4>3. Letter \subseteq used => Letter \subseteq used'
        BY <1>6
      <4> QED
        BY <2>4, <4>2, <4>3
    <3> QED
      BY <2>2, <2>3, <3>1 DEF Resolved
  <2>7. used' \subseteq UsedDriveLetters(work', inUse)
    <3>1. UsedDriveLetters(work, inUse) \subseteq UsedDriveLetters(work', inUse)
      BY <2>1 DEF UsedDriveLetters
    <3>2. m.entry.mount \in UsedDriveLetters(work', inUse)
      BY <2>1 DEF UsedDriveLetters
    <3> QED
      BY <1>4, <1>6, <3>1, <3>2
  <2> QED
    BY <2>6, <2>7
<1>7. CASE /\ ~Listed(work, t, media)
           /\ \E i \in WorkerOf(preferred, t) : work' = Append(work, preferred[i])
           /\ used' = used
  <2>1. PICK i \in WorkerOf(preferred, t) : work' = Append(work, preferred[i])
    BY <1>7
  <2>2. preferred[i] \in Mount /\ preferred[i].target = t
    BY <1>3, WorkerEntry
  <2> QED
    BY <1>6, <1>7, <2>1, <2>2
<1>8. CASE /\ ~Listed(work, t, media)
           /\ Letter \ used # {}
           /\ work' = Append(work, NewMount(t, Max(Letter \ used)))
           /\ used' = used \cup {Max(Letter \ used)}
  <2> DEFINE l == Max(Letter \ used)
  <2>1. l \in Letter
    BY <1>8, LargestLetter
  <2>2. NewMount(t, l) \in Mount /\ NewMount(t, l).target = t /\ NewMount(t, l).entry.mount = l
    <3>1. t \in Target
      BY <1>3
    <3>2. \A k \in Letter : /\ NewMount(t, k) \in Mount /\ NewMount(t, k).target = t
                            /\ NewMount(t, k).entry.mount = k
      BY <3>1, NewMountType
    <3> QED
      BY <2>1, <3>2
  <2> HIDE DEF l
  <2>3. used \subseteq used' /\ used' \subseteq used \cup {l} /\ work' = Append(work, NewMount(t, l))
    BY <1>8 DEF l
  <2> QED
    BY <1>6, <1>8, <2>2, <2>3
<1> QED
  BY <1>2, <1>5, <1>7, <1>8 DEF MergeRound, t

(* What counts as new when the loop comes to it is what is new to the      *)
(* canonical table: what the loop has added is for other regions.          *)
LEMMA NewIsNotListed ==
  ASSUME TypeInv, TableInv, pc = "volumes", NEW r \in todo
  PROVE  /\ r \in NewRegions(Canonical, media) <=> ~Listed(work, ScanName[r], media)
         /\ Canonical \in Mounts
         /\ Table(preferred) \in Mounts
         /\ \A x \in Target : Canonical[x] # None => Final[x] = Canonical[x]
         /\ \A x \in Target : Canonical[x] = None /\ Final[x] # None =>
              RegionOf[x] \in NewRegions(Canonical, media) /\ x = ScanName[RegionOf[x]]
<1> DEFINE t == ScanName[r]
           c == Canonical
           new == NewRegions(c, media)
<1>1. /\ IsMountList(work) /\ IsMountList(mounts) /\ IsMountList(preferred)
      /\ media \in SUBSET Region
      /\ r \in Discovered(media)
  BY DEF TypeInv
<1>2. c \in Mounts /\ Table(preferred) \in Mounts
  BY <1>1, TableOfList, CanonicalizeType DEF Canonical
<1>3. /\ t \in Target /\ RegionOf[t] = r
      /\ Listed(work, t, media) <=>
           \E i \in DOMAIN work : SameRawRegion(work[i].target, t, media)
  BY <1>1, ListedVolume
<1> HIDE DEF c, t
<1>4. \A x \in Target : c[x] # None => Final[x] = c[x]
  BY <1>1, <1>2, MergeKeepsEntries DEF Final, c, Configured
<1>5. \A x \in Target : c[x] = None /\ Final[x] # None =>
        RegionOf[x] \in new /\ x = ScanName[RegionOf[x]]
  BY <1>1, <1>2, MergedEntry DEF Final, c, Configured
<1>6. \A x \in Target : Table(work)[x] = IF RegionOf[x] \in todo /\ c[x] = None
                                         THEN None ELSE Final[x]
  BY DEF TableInv, c
<1>7. Configured(Table(work)) = {work[i].target : i \in DOMAIN work}
  BY <1>1, TableOfList
<1>8. ASSUME r \in new, Listed(work, t, media)
      PROVE  FALSE
  <2>1. PICK i \in DOMAIN work : SameRawRegion(work[i].target, t, media)
    BY <1>3, <1>8
  <2> DEFINE x == work[i].target
  <2>2. x \in Target /\ Table(work)[x] # None /\ RegionOf[x] = r
    BY <1>3, <1>7, <2>1 DEF Configured, SameRawRegion
  <2>3. c[x] # None
    BY <1>6, <2>2
  <2> QED
    BY <1>8, <2>1, <2>2, <2>3 DEF NewRegions, Configured, t
<1>9. ASSUME ~Listed(work, t, media)
      PROVE  r \in new
  <2>1. SUFFICES ASSUME NEW x \in Configured(c), SameRawRegion(x, t, media)
                 PROVE  FALSE
    BY <1>1 DEF NewRegions, t
  <2>2. x \in Target /\ Table(work)[x] # None
    BY <1>4, <1>6 DEF Configured
  <2>3. PICK i \in DOMAIN work : work[i].target = x
    BY <1>7, <2>2 DEF Configured
  <2> QED
    BY <1>3, <1>9, <2>1, <2>3
<1> QED
  BY <1>2, <1>4, <1>5, <1>8, <1>9 DEF c, t

(* A round adds to the list what the merge of tables has for the region. *)
LEMMA MergeNextKeepsTable ==
  ASSUME TypeInv, TableInv, MergeNext
  PROVE  TableInv'
<1>1. /\ pc = "volumes"
      /\ UNCHANGED <<mounts, pc, next, media, fresh, preferred, inUse, passes>>
      /\ IsMountList(work) /\ media \in SUBSET Region
  BY DEF MergeNext, worldVars, TypeInv
<1>2. PICK r \in todo : MergeRound(r)
  BY MergeNextCases
<1> DEFINE t == ScanName[r]
           c == Canonical
           F == Free
           T == Table(work)
           P == Table(preferred)
           new == NewRegions(c, media)
<1>3. /\ t \in Target /\ RegionOf[t] = r /\ r \in Discovered(media) /\ todo' = todo \ {r}
      /\ \A q \in todo : ScanRank[r] <= ScanRank[q]
  BY <1>1, <1>2, ListedVolume DEF MergeRound
<1>4. /\ r \in new <=> ~Listed(work, t, media)
      /\ c \in Mounts /\ P \in Mounts
      /\ \A x \in Target : c[x] # None => Final[x] = c[x]
      /\ \A x \in Target : c[x] = None /\ Final[x] # None =>
           RegionOf[x] \in new /\ x = ScanName[RegionOf[x]]
  BY <1>1, NewIsNotListed
<1>5. Canonical' = c /\ Free' = F /\ Final' = Final /\ Table(preferred)' = P
  BY <1>1 DEF Canonical, Free, Final, Table
<1>6. /\ T = [x \in Target |-> IF RegionOf[x] \in todo /\ c[x] = None THEN None ELSE Final[x]]
      /\ \A q \in Discovered(media) \ todo, s \in todo : ScanRank[q] < ScanRank[s]
      /\ Letter \ F \subseteq used
      /\ \A x \in F \cap used, y \in F : y > x => y \in used
      /\ \/ Cardinality(F \cap used) = Cardinality(Served)
         \/ F \subseteq used /\ Cardinality(F) <= Cardinality(Served)
  BY <1>1 DEF TableInv
<1>7. \A q \in Discovered(media) : q \in Region /\ ScanRank[q] \in Nat
  BY <1>1, MountPolicyAssumption DEF Discovered
<1>8. todo \subseteq Discovered(media) /\ new \subseteq Discovered(media) /\ F \subseteq Letter
  BY DEF TypeInv, NewRegions, Free
<1>9. Served = {q \in new \ todo : P[ScanName[q]] = None}
  BY DEF Served
<1>10. Served' = {q \in new \ todo' : P[ScanName[q]] = None}
  BY <1>1, <1>5 DEF Served
<1>11. IsFiniteSet(F) /\ Cardinality(F) \in Nat /\ F \subseteq Nat
  BY <1>8, FS_Subset, FS_CardinalityType, MountPolicyAssumption
<1>12. IsFiniteSet(Served) /\ Cardinality(Served) \in Nat
  <2>1. Served \subseteq Region
    BY <1>7, <1>8, <1>9
  <2> QED
    BY <2>1, FS_Subset, FS_CardinalityType, MountPolicyAssumption
<1> HIDE DEF t, c, F, T, P, new
<1>13. \A q \in Discovered(media) \ todo', s \in todo' : ScanRank[q] < ScanRank[s]
  <2>1. SUFFICES ASSUME NEW s \in todo' PROVE ScanRank[r] < ScanRank[s]
    BY <1>3, <1>6
  <2>2. s \in Region /\ r \in Region /\ s # r /\ ScanRank[r] <= ScanRank[s]
        /\ ScanRank[r] \in Nat /\ ScanRank[s] \in Nat
    BY <1>3, <1>7, <1>8
  <2>3. ScanRank[r] # ScanRank[s]
    BY <2>2, MountPolicyAssumption
  <2> QED
    BY <2>2, <2>3
(* It is enough that the entry of the region comes in, and that letters    *)
(* and volumes are counted.                                                *)
<1>14. SUFFICES
        /\ \/ work' = work /\ Final[t] = T[t]
           \/ work' = work /\ r \notin new
           \/ Table(work)' = [T EXCEPT ![t] = Final[t]]
        /\ used \subseteq used'
        /\ \A x \in F \cap used', y \in F : y > x => y \in used'
        /\ \/ Cardinality(F \cap used') = Cardinality(Served')
           \/ F \subseteq used' /\ Cardinality(F) <= Cardinality(Served')
  <2>1. ASSUME \/ work' = work /\ Final[t] = T[t]
               \/ work' = work /\ r \notin new
               \/ Table(work)' = [T EXCEPT ![t] = Final[t]]
        PROVE  Table(work)' = [x \in Target |->
                 IF RegionOf[x] \in todo' /\ c[x] = None THEN None ELSE Final[x]]
    <3>1. \A x \in Target : RegionOf[x] = r /\ x # t /\ c[x] = None => Final[x] = None
      BY <1>4 DEF t
    <3>2. r \notin new => \A x \in Target : RegionOf[x] = r /\ c[x] = None => Final[x] = None
      BY <1>4
    <3>3. \A x \in Target : T[x] = IF RegionOf[x] \in todo /\ c[x] = None
                                   THEN None ELSE Final[x]
      BY <1>6
    <3>4. DOMAIN T = Target /\ T = [x \in Target |-> T[x]]
      BY <1>6
    <3>5. CASE work' = work /\ (Final[t] = T[t] \/ r \notin new)
      <4>1. Table(work)' = T
        BY <3>5 DEF T, Table
      <4>2. \A x \in Target : T[x] = IF RegionOf[x] \in todo' /\ c[x] = None
                                     THEN None ELSE Final[x]
        BY <1>3, <3>1, <3>2, <3>3, <3>5
      <4> QED
        BY <3>4, <4>1, <4>2
    <3>6. CASE Table(work)' = [T EXCEPT ![t] = Final[t]]
      <4>1. \A x \in Target : Table(work)'[x] = IF x = t THEN Final[t] ELSE T[x]
        BY <1>3, <3>4, <3>6
      <4>2. \A x \in Target : Table(work)'[x] = IF RegionOf[x] \in todo' /\ c[x] = None
                                                THEN None ELSE Final[x]
        BY <1>3, <3>1, <3>3, <4>1
      <4>3. Table(work)' = [x \in Target |-> Table(work)'[x]]
        BY <3>4, <3>6
      <4> QED
        BY <4>2, <4>3
    <3> QED
      BY <2>1, <3>5, <3>6
  <2> QED
    BY <1>1, <1>5, <1>6, <1>13, <2>1 DEF TableInv
<1>15. r \notin new \/ P[t] # None => Served' = Served
  BY <1>3, <1>9, <1>10 DEF t
<1>16. r \in new /\ P[t] = None =>
         /\ Cardinality(Served') = Cardinality(Served) + 1
         /\ AheadOf(c, media, P, r) = Served
  <2>1. SUFFICES ASSUME r \in new, P[t] = None
                 PROVE  /\ Cardinality(Served') = Cardinality(Served) + 1
                        /\ AheadOf(c, media, P, r) = Served
    OBVIOUS
  <2>2. Served' = Served \cup {r} /\ r \notin Served
    BY <1>3, <1>9, <1>10, <2>1 DEF t
  <2>3. Cardinality(Served') = Cardinality(Served) + 1
    BY <1>12, <2>2, FS_AddElement
  <2>4. \A q \in new : ScanRank[q] < ScanRank[r] <=> q \notin todo
    <3>1. SUFFICES ASSUME NEW q \in new
                   PROVE  ScanRank[q] < ScanRank[r] <=> q \notin todo
      OBVIOUS
    <3>2. ScanRank[q] \in Nat /\ ScanRank[r] \in Nat /\ q \in Discovered(media)
      BY <1>3, <1>7, <1>8
    <3> QED
      BY <1>3, <1>6, <3>2
  <2>5. AheadOf(c, media, P, r) = {q \in new : P[ScanName[q]] = None /\ ScanRank[q] < ScanRank[r]}
    BY DEF AheadOf, new
  <2>6. AheadOf(c, media, P, r) = Served
    BY <1>9, <2>4, <2>5
  <2> QED
    BY <2>3, <2>6
<1>17. CASE Listed(work, t, media) /\ work' = work /\ used' = used
  BY <1>4, <1>6, <1>15, <1>17
<1>18. Final[t] = IF r \in new /\ MergedEntries(c, media, P, inUse, r) # {}
                  THEN CHOOSE e \in MergedEntries(c, media, P, inUse, r) : TRUE
                  ELSE c[t]
  <2>1. Final = MergeDiscovered(c, media, P, inUse)
    BY DEF Final, c, P
  <2>2. MergeDiscovered(c, media, P, inUse)[t] =
          IF /\ RegionOf[t] \in NewRegions(c, media)
             /\ ScanName[RegionOf[t]] = t
             /\ MergedEntries(c, media, P, inUse, RegionOf[t]) # {}
          THEN CHOOSE e \in MergedEntries(c, media, P, inUse, RegionOf[t]) : TRUE
          ELSE c[t]
    BY <1>3 DEF MergeDiscovered
  <2>3. RegionOf[t] = r /\ ScanName[r] = t
    BY <1>3 DEF t
  <2> QED
    BY <2>1, <2>2, <2>3 DEF new
<1>19. CASE /\ ~Listed(work, t, media)
            /\ \E i \in WorkerOf(preferred, t) : work' = Append(work, preferred[i])
            /\ used' = used
  <2>1. PICK i \in WorkerOf(preferred, t) : work' = Append(work, preferred[i])
    BY <1>19
  <2>2. /\ preferred[i] \in Mount /\ preferred[i].target = t
        /\ P[t] = preferred[i].entry /\ P[t] # None
    BY <1>3, WorkerEntry DEF P
  <2>3. MergedEntries(c, media, P, inUse, r) = {P[t]}
    BY <2>2 DEF MergedEntries, t
  <2>4. Final[t] = preferred[i].entry
    BY <1>4, <1>18, <1>19, <2>2, <2>3
  <2>5. Table(Append(work, preferred[i])) = [T EXCEPT ![t] = preferred[i].entry]
    BY <1>1, <1>3, <1>19, <2>2, AppendedEntry DEF T, t
  <2>6. Table(work)' = [T EXCEPT ![t] = Final[t]]
    <3>1. Table(work)' = Table(work')
      BY DEF Table
    <3> QED
      BY <2>1, <2>4, <2>5, <3>1
  <2> QED
    BY <1>6, <1>15, <1>19, <2>2, <2>6
<1>20. ASSUME ~Listed(work, t, media), WorkerOf(preferred, t) = {}
       PROVE  /\ P[t] = None /\ r \in new /\ c[t] = None /\ T[t] = None
              /\ Cardinality(Served') = Cardinality(Served) + 1
              /\ MergedEntries(c, media, P, inUse, r) =
                   {[mount |-> l, read_only |-> FALSE, allow_raw_writes |-> TRUE,
                     enabled |-> TRUE] :
                      l \in {k \in F : Cardinality({x \in F : x > k}) = Cardinality(Served)}}
  <2>1. P[t] = None
    BY <1>3, <1>20, WorkerEntry DEF P
  <2>2. r \in new
    BY <1>4, <1>20
  <2>3. c[t] = None
    BY <1>1, <1>3, <1>4, <2>2, NewRegionHasNoEntry DEF new, RegionsOf, Configured
  <2>4. T[t] = None
    BY <1>3, <1>6, <2>3
  <2>5. LetterChoice(c, media, P, inUse, r)
          = {k \in F : Cardinality({x \in F : x > k}) = Cardinality(Served)}
    BY <1>16, <2>1, <2>2 DEF LetterChoice, F, Free, c
  <2> QED
    BY <1>16, <2>1, <2>2, <2>3, <2>4, <2>5 DEF MergedEntries, t
<1>21. CASE /\ ~Listed(work, t, media)
            /\ WorkerOf(preferred, t) = {}
            /\ Letter \subseteq used
            /\ work' = work /\ used' = used
  <2>1. F \cap used = F /\ F \subseteq used
    BY <1>8, <1>21
  <2>2. Cardinality(F) <= Cardinality(Served)
    BY <1>6, <1>11, <1>12, <2>1
  <2>3. {k \in F : Cardinality({x \in F : x > k}) = Cardinality(Served)} = {}
    BY <1>8, <1>12, <2>2, NoLetterLeft
  <2>4. MergedEntries(c, media, P, inUse, r) = {}
    BY <1>20, <1>21, <2>3
  <2>5. Final[t] = T[t]
    BY <1>18, <1>20, <1>21, <2>4
  <2>6. Cardinality(F) <= Cardinality(Served')
    BY <1>11, <1>12, <1>20, <1>21, <2>2
  <2> QED
    BY <1>6, <1>21, <2>1, <2>5, <2>6
<1>22. CASE /\ ~Listed(work, t, media)
            /\ WorkerOf(preferred, t) = {}
            /\ Letter \ used # {}
            /\ work' = Append(work, NewMount(t, Max(Letter \ used)))
            /\ used' = used \cup {Max(Letter \ used)}
  <2> DEFINE l == Max(Letter \ used)
             m == NewMount(t, l)
  <2>1. Letter \ used = F \ used
    BY <1>6, <1>8
  <2>2. F \ used # {} /\ ~(F \subseteq used) /\ l = Max(F \ used)
    BY <1>22, <2>1
  <2>3. Cardinality(F \cap used) = Cardinality(Served)
    BY <1>6, <2>2
  <2>4. \A x \in F \cap used, y \in F : y > x => y \in used
    BY <1>6
  <2>5. \A k \in Letter : /\ NewMount(t, k) \in Mount /\ NewMount(t, k).target = t
                          /\ NewMount(t, k).entry = [mount |-> k, read_only |-> FALSE,
                                                     allow_raw_writes |-> TRUE, enabled |-> TRUE]
    BY <1>3, NewMountType
  <2>6. work' = Append(work, m) /\ used' = used \cup {l}
    BY <1>22
  <2> HIDE DEF l
  <2>7. /\ l \in F
        /\ {k \in F : Cardinality({x \in F : x > k}) = Cardinality(F \cap used)} = {l}
        /\ \A x \in F \cap (used \cup {l}), y \in F : y > x => y \in used \cup {l}
        /\ Cardinality(F \cap (used \cup {l})) = Cardinality(F \cap used) + 1
    <3>1. /\ Max(F \ used) \in F
          /\ {k \in F : Cardinality({x \in F : x > k}) = Cardinality(F \cap used)}
               = {Max(F \ used)}
          /\ \A x \in F \cap (used \cup {Max(F \ used)}), y \in F :
               y > x => y \in used \cup {Max(F \ used)}
          /\ Cardinality(F \cap (used \cup {Max(F \ used)})) = Cardinality(F \cap used) + 1
      BY <1>8, <2>2, <2>4, NextLetter
    <3> QED
      BY <2>2, <3>1
  <2>8. m \in Mount /\ m.target = t
        /\ m.entry = [mount |-> l, read_only |-> FALSE, allow_raw_writes |-> TRUE,
                      enabled |-> TRUE]
    BY <1>8, <2>5, <2>7
  <2> HIDE DEF m
  <2>9. MergedEntries(c, media, P, inUse, r) = {m.entry}
    <3>1. {k \in F : Cardinality({x \in F : x > k}) = Cardinality(Served)} = {l}
      BY <2>3, <2>7
    <3>2. MergedEntries(c, media, P, inUse, r) =
            {[mount |-> k, read_only |-> FALSE, allow_raw_writes |-> TRUE, enabled |-> TRUE] :
               k \in {l}}
      BY <1>20, <1>22, <3>1
    <3> QED
      BY <2>8, <3>2
  <2>10. Final[t] = m.entry
    BY <1>18, <1>20, <1>22, <2>9
  <2>11. Table(Append(work, m)) = [T EXCEPT ![t] = m.entry]
    BY <1>1, <1>3, <1>22, <2>8, AppendedEntry DEF T, t
  <2>12. Table(work)' = [T EXCEPT ![t] = Final[t]]
    <3>1. Table(work)' = Table(work')
      BY DEF Table
    <3> QED
      BY <2>6, <2>10, <2>11, <3>1
  <2>13. Cardinality(F \cap used') = Cardinality(Served')
    BY <1>12, <1>20, <1>22, <2>3, <2>6, <2>7
  <2> QED
    BY <2>6, <2>7, <2>12, <2>13
<1> QED
  BY <1>2, <1>17, <1>19, <1>21, <1>22 DEF MergeRound, t

-----------------------------------------------------------------------------
(* The invariant.                                                          *)

IInv == TypeInv /\ AliasInv /\ VolumeInv /\ TableInv /\ FreshInv

LEMMA InvInit == Init => IInv
<1> SUFFICES ASSUME Init PROVE IInv
  OBVIOUS
<1>1. IsMountList(mounts) /\ IsMountList(preferred)
  BY ListsAssumption DEF Init
<1>2. 1 \in 1..(Len(mounts) + 1)
  BY <1>1, MountListFacts
<1>3. inUse \in SUBSET Letter
  BY ListsAssumption DEF Init
<1>4. TypeInv
  BY <1>1, <1>2, <1>3 DEF Init, TypeInv
<1> QED
  BY <1>4 DEF Init, IInv, AliasInv, VolumeInv, TableInv, FreshInv

(* The candidates' letters are those of the entries. *)
LEMMA EndAliasesFacts ==
  ASSUME IInv, EndAliases
  PROVE  /\ IsMountList(work')
         /\ Table(work') = Canonical
         /\ \A i \in DOMAIN work' : ~RenamedByScan(work'[i].target, media)
         /\ \A i, j \in DOMAIN work' :
              SameRawRegion(work'[i].target, work'[j].target, media) => i = j
         /\ used' = inUse \cup ConfigLetters(Canonical)
         /\ used' = UsedDriveLetters(work', inUse)
         /\ next = Len(mounts) + 1
<1>1. /\ pc = "aliases" /\ next \notin DOMAIN mounts
      /\ work' = [i \in DOMAIN work |-> [target |-> work[i].target, entry |-> work[i].entry]]
      /\ used' = UsedDriveLetters(work, inUse)
  BY DEF EndAliases
<1>2. /\ IsMountList(mounts) /\ work \in Seq(Candidate) /\ media \in SUBSET Region
      /\ next \in 1..(Len(mounts) + 1)
      /\ Collected(work, mounts, next - 1, media)
  BY <1>1 DEF IInv, TypeInv, AliasInv
<1>3. Len(mounts) \in Nat /\ DOMAIN mounts = 1..Len(mounts)
  BY <1>2, MountListFacts
<1>4. next = Len(mounts) + 1 /\ next - 1 = Len(mounts)
  BY <1>1, <1>2, <1>3
<1>5. /\ IsMountList(work')
      /\ Table(work') = Canonical
      /\ \A i \in DOMAIN work' : ~RenamedByScan(work'[i].target, media)
      /\ \A i, j \in DOMAIN work' :
           SameRawRegion(work'[i].target, work'[j].target, media) => i = j
  <2>1. Collected(work, mounts, Len(mounts), media)
    BY <1>2, <1>4
  <2>2. /\ IsMountList(Plain(work))
        /\ Table(Plain(work)) = CanonicalizeAliases(Table(mounts), media)
        /\ \A i \in DOMAIN Plain(work) : ~RenamedByScan(Plain(work)[i].target, media)
        /\ \A i, j \in DOMAIN Plain(work) :
             SameRawRegion(Plain(work)[i].target, Plain(work)[j].target, media) => i = j
    BY <1>2, <2>1, CollectedIsCanonical
  <2>3. work' = Plain(work)
    BY <1>1 DEF Plain
  <2> QED
    BY <2>2, <2>3 DEF Canonical
<1>6. used' = UsedDriveLetters(work', inUse)
  BY <1>1 DEF UsedDriveLetters
<1>7. ConfigLetters(Table(work')) = {work'[i].entry.mount : i \in DOMAIN work'}
  BY <1>5, TableOfList
<1>8. used' = inUse \cup ConfigLetters(Canonical)
  BY <1>5, <1>6, <1>7 DEF UsedDriveLetters
<1> QED
  BY <1>4, <1>5, <1>6, <1>8

LEMMA TypeInvStep == IInv /\ [Next]_vars => TypeInv'
<1> SUFFICES ASSUME IInv, [Next]_vars PROVE TypeInv'
  OBVIOUS
<1>1. TypeInv /\ IsMountList(mounts) /\ Len(mounts) \in Nat /\ DOMAIN mounts = 1..Len(mounts)
  BY MountListFacts DEF IInv, TypeInv
<1> USE DEF passVars, worldVars
<1>2. CASE BeginPass
  <2>1. <<>> \in Seq(Candidate)
    OBVIOUS
  <2> QED
    BY <1>1, <1>2, <2>1 DEF BeginPass, TypeInv
<1>3. CASE NormalizeEntry
  <2>1. work' \in Seq(Candidate)
    <3>1. pc = "aliases" /\ next \in DOMAIN mounts /\ work \in Seq(Candidate)
          /\ media \in SUBSET Region
      BY <1>1, <1>3 DEF NormalizeEntry, TypeInv
    <3>2. Collected(work, mounts, next - 1, media)
      BY <3>1 DEF IInv, AliasInv
    <3> QED
      BY <1>1, <1>3, <3>1, <3>2, KeepCollects DEF NormalizeEntry
  <2>2. next + 1 \in 1..(Len(mounts) + 1)
    BY <1>1, <1>3 DEF NormalizeEntry
  <2> QED
    BY <1>1, <1>3, <2>1, <2>2 DEF NormalizeEntry, TypeInv
<1>4. CASE EndAliases
  <2>1. IsMountList(work') /\ used' = inUse \cup ConfigLetters(Table(work'))
    BY <1>4, EndAliasesFacts
  <2>2. used' \in SUBSET Letter
    BY <1>1, <2>1, TableOfList DEF TypeInv
  <2> QED
    BY <1>1, <1>4, <2>1, <2>2 DEF EndAliases, TypeInv
<1>5. CASE MergeNext
  BY <1>1, <1>5, MergeNextType
<1>6. CASE EndPass
  <2>1. IsMountList(work)
    BY <1>1, <1>6 DEF EndPass, TypeInv
  <2>2. 1 \in 1..(Len(work) + 1)
    BY <2>1, MountListFacts
  <2> QED
    BY <1>1, <1>6, <2>1, <2>2 DEF EndPass, TypeInv
<1>7. CASE MediaChanges
  <2>1. todo = {}
    BY <1>1, <1>7 DEF MediaChanges, TypeInv
  <2>2. media' \in SUBSET Region
    BY <1>1, <1>7 DEF MediaChanges, TypeInv
  <2> QED
    BY <1>1, <1>7, <2>1, <2>2 DEF MediaChanges, TypeInv
<1>8. CASE UNCHANGED vars
  BY <1>1, <1>8 DEF vars, TypeInv
<1> QED
  BY <1>2, <1>3, <1>4, <1>5, <1>6, <1>7, <1>8 DEF Next, Done

LEMMA AliasInvStep == IInv /\ [Next]_vars => AliasInv'
<1> SUFFICES ASSUME IInv, [Next]_vars, pc' = "aliases"
             PROVE  Collected(work', mounts', next' - 1, media')
  BY DEF AliasInv
<1>1. IsMountList(mounts) /\ media \in SUBSET Region /\ DOMAIN mounts = 1..Len(mounts)
  BY MountListFacts DEF IInv, TypeInv
<1> USE DEF passVars, worldVars
<1>2. CASE BeginPass
  <2>1. work' = <<>> /\ next' = 1 /\ mounts' = mounts /\ media' = media
    BY <1>2 DEF BeginPass, IInv, TypeInv
  <2>2. Collected(<<>>, mounts, 0, media)
    BY DEF Collected
  <2> QED
    BY <2>1, <2>2
<1>3. CASE NormalizeEntry
  <2>1. /\ pc = "aliases" /\ next \in DOMAIN mounts
        /\ work' = Keep(work, Normalize(mounts[next], media))
        /\ next' = next + 1 /\ mounts' = mounts /\ media' = media
    BY <1>3 DEF NormalizeEntry
  <2>2. work \in Seq(Candidate) /\ Collected(work, mounts, next - 1, media)
    BY <2>1 DEF IInv, TypeInv, AliasInv
  <2>3. Collected(Keep(work, Normalize(mounts[next], media)), mounts, next, media)
    BY <1>1, <2>1, <2>2, KeepCollects
  <2>4. next' - 1 = next
    BY <1>1, <2>1
  <2> QED
    BY <2>1, <2>3, <2>4
<1>4. CASE UNCHANGED vars
  <2>1. pc = "aliases" /\ UNCHANGED <<work, mounts, next, media>>
    BY <1>4 DEF vars
  <2> QED
    BY <2>1 DEF IInv, AliasInv
<1>5. CASE EndAliases \/ MergeNext \/ EndPass \/ MediaChanges
  BY <1>5 DEF EndAliases, MergeNext, EndPass, MediaChanges
<1> QED
  BY <1>2, <1>3, <1>4, <1>5 DEF Next, Done

LEMMA VolumeInvStep == IInv /\ [Next]_vars => VolumeInv'
<1> SUFFICES ASSUME IInv, [Next]_vars PROVE VolumeInv'
  OBVIOUS
<1> USE DEF passVars, worldVars
<1>1. CASE EndAliases
  <2>1. /\ UNCHANGED <<mounts, next, media, preferred, inUse>>
        /\ todo' = Discovered(media) /\ next \notin DOMAIN mounts
    BY <1>1 DEF EndAliases
  <2>2. /\ \A i \in DOMAIN work' : ~RenamedByScan(work'[i].target, media)
        /\ \A i, j \in DOMAIN work' :
             SameRawRegion(work'[i].target, work'[j].target, media) => i = j
        /\ used' = UsedDriveLetters(work', inUse)
    BY <1>1, EndAliasesFacts
  <2>3. Discovered(media') \ todo' = {}
    BY <2>1
  <2>4. Resolved(work, Discovered(media) \ todo, used)'
    BY <2>1, <2>2, <2>3 DEF Resolved
  <2>5. UsedDriveLetters(work, inUse)' = UsedDriveLetters(work', inUse)
    BY <2>1 DEF UsedDriveLetters
  <2> QED
    BY <2>1, <2>2, <2>4, <2>5 DEF VolumeInv
<1>2. CASE MergeNext
  BY <1>2, MergeNextResolves DEF IInv
<1>3. CASE UNCHANGED vars
  <2>1. UNCHANGED <<mounts, pc, work, next, todo, used, media, preferred, inUse>>
    BY <1>3 DEF vars
  <2> QED
    BY <2>1 DEF IInv, VolumeInv, Resolved, Listed, UsedDriveLetters
<1>4. CASE BeginPass \/ NormalizeEntry \/ EndPass \/ MediaChanges
  BY <1>4 DEF BeginPass, NormalizeEntry, EndPass, MediaChanges, VolumeInv
<1> QED
  BY <1>1, <1>2, <1>3, <1>4 DEF Next, Done

LEMMA TableInvStep == IInv /\ [Next]_vars => TableInv'
<1> SUFFICES ASSUME IInv, [Next]_vars PROVE TableInv'
  OBVIOUS
<1> USE DEF passVars, worldVars
<1>1. CASE EndAliases
  <2>1. /\ UNCHANGED <<mounts, media, preferred, inUse>>
        /\ todo' = Discovered(media)
    BY <1>1 DEF EndAliases
  <2>2. Table(work') = Canonical /\ used' = inUse \cup ConfigLetters(Canonical)
    BY <1>1, EndAliasesFacts
  <2>3. Canonical' = Canonical /\ Free' = Free /\ Final' = Final
        /\ Table(work)' = Table(work') /\ Table(preferred)' = Table(preferred)
    BY <2>1 DEF Canonical, Free, Final, Table
  <2>4. Canonical = [t \in Target |-> IF RegionOf[t] \in Discovered(media) /\ Canonical[t] = None
                                     THEN None ELSE Final[t]]
    <3>1. /\ IsMountList(mounts) /\ IsMountList(preferred) /\ media \in SUBSET Region
      BY DEF IInv, TypeInv
    <3>2. Canonical \in Mounts /\ Table(preferred) \in Mounts
      BY <3>1, TableOfList, CanonicalizeType DEF Canonical
    <3>3. \A t \in Target : Canonical[t] # None => Final[t] = Canonical[t]
      BY <3>1, <3>2, MergeKeepsEntries DEF Final, Configured
    <3>4. \A t \in Target : RegionOf[t] \notin Discovered(media) => Final[t] = Canonical[t]
      BY DEF Final, MergeDiscovered, NewRegions
    <3> HIDE DEF Canonical, Final
    <3> QED
      BY <3>2, <3>3, <3>4 DEF Mounts
  <2>5. Discovered(media') \ todo' = {} /\ Free \cap used' = {} /\ Letter \ Free \subseteq used'
    BY <2>1, <2>2 DEF Free
  <2>6. Served' = {}
    BY <2>1, <2>3 DEF Served, NewRegions
  <2>7. Table(work)' = [t \in Target |-> IF RegionOf[t] \in todo' /\ Canonical'[t] = None
                                        THEN None ELSE Final'[t]]
    BY <2>1, <2>2, <2>3, <2>4
  <2>8. Cardinality(Free' \cap used') = Cardinality(Served')
    BY <2>3, <2>5, <2>6
  <2> QED
    BY <2>3, <2>5, <2>7, <2>8 DEF TableInv
<1>2. CASE MergeNext
  BY <1>2, MergeNextKeepsTable DEF IInv
<1>3. CASE UNCHANGED vars
  <2>1. UNCHANGED <<mounts, pc, work, todo, used, media, preferred, inUse>>
    BY <1>3 DEF vars
  <2>2. /\ Canonical' = Canonical /\ Free' = Free /\ Final' = Final /\ Served' = Served
        /\ Table(work)' = Table(work)
    BY <2>1 DEF Canonical, Free, Final, Served, Table
  <2> QED
    BY <2>1, <2>2 DEF IInv, TableInv
<1>4. CASE BeginPass \/ NormalizeEntry \/ EndPass \/ MediaChanges
  BY <1>4 DEF BeginPass, NormalizeEntry, EndPass, MediaChanges, TableInv
<1> QED
  BY <1>1, <1>2, <1>3, <1>4 DEF Next, Done

(* A pass over disks that an earlier one has seen: the loop over the       *)
(* entries keeps each, the loop over the volumes finds each listed.        *)
LEMMA FreshInvStep == IInv /\ [Next]_vars => FreshInv'
<1> SUFFICES ASSUME IInv, [Next]_vars, fresh' PROVE FreshInv'
  BY DEF FreshInv
<1>1. /\ IsMountList(mounts) /\ media \in SUBSET Region
      /\ DOMAIN mounts = 1..Len(mounts) /\ Len(mounts) \in Nat
      /\ \A i \in DOMAIN mounts : mounts[i] \in Mount /\ mounts[i].target \in Target
  BY MountListFacts DEF IInv, TypeInv
<1> USE DEF passVars, worldVars
<1>2. UNCHANGED <<mounts, media, preferred, inUse>> => Settled(mounts)' = Settled(mounts)
  BY DEF Settled, Resolved, Listed, UsedDriveLetters
<1>3. CASE BeginPass
  <2>1. /\ fresh /\ pc' = "aliases" /\ UNCHANGED <<mounts, media, preferred, inUse>>
        /\ work' = <<>> /\ next' = 1
    BY <1>3 DEF BeginPass, IInv, TypeInv
  <2>2. Settled(mounts)'
    BY <1>2, <2>1 DEF IInv, FreshInv
  <2>3. Len(work') = next' - 1 /\ DOMAIN work' = {}
    BY <2>1
  <2> QED
    BY <2>1, <2>2, <2>3 DEF FreshInv
<1>4. CASE NormalizeEntry
  <2> DEFINE c == Normalize(mounts[next], media)
  <2>1. /\ fresh /\ pc = "aliases" /\ pc' = pc /\ next \in DOMAIN mounts /\ next' = next + 1
        /\ UNCHANGED <<mounts, media, preferred, inUse>>
        /\ work' = Keep(work, c)
    BY <1>4 DEF NormalizeEntry
  <2>2. /\ work \in Seq(Candidate) /\ Len(work) = next - 1
        /\ \A i \in DOMAIN work : work[i] = Normalize(mounts[i], media)
        /\ Settled(mounts)
    BY <2>1 DEF IInv, TypeInv, FreshInv
  <2>3. DOMAIN work = 1..(next - 1) /\ next \in Nat
    BY <1>1, <2>1, <2>2, LenProperties
  <2>4. c \in Candidate
    BY <1>1, <2>1, NormalizeType
  <2>5. Duplicates(work, c) = {}
    <3>1. SUFFICES ASSUME NEW i \in Duplicates(work, c) PROVE FALSE
      OBVIOUS
    <3>2. i \in DOMAIN work /\ Same(work[i], c)
      BY DEF Duplicates, Same
    <3>3. i \in DOMAIN mounts /\ i # next
      BY <1>1, <2>1, <2>3, <3>2
    <3>4. Same(Normalize(mounts[i], media), Normalize(mounts[next], media))
      BY <2>2, <3>2
    <3>5. SameRawRegion(mounts[i].target, mounts[next].target, media)
      BY <1>1, <2>1, <3>3, <3>4, SameIsSameRegion
    <3> QED
      BY <2>1, <2>2, <3>3, <3>5 DEF Settled, Resolved
  <2>6. work' = Append(work, c)
    BY <2>1, <2>5 DEF Keep
  <2> HIDE DEF c
  <2>7. Len(work') = Len(work) + 1 /\ work'[Len(work) + 1] = c
        /\ \A i \in 1..Len(work) : work'[i] = work[i]
        /\ work' \in Seq(Candidate)
    BY <2>2, <2>4, <2>6, AppendProperties
  <2>8. DOMAIN work' = (DOMAIN work) \cup {next} /\ Len(work') = next' - 1
    BY <2>1, <2>2, <2>3, <2>7, LenProperties
  <2>9. \A i \in DOMAIN work' : work'[i] = Normalize(mounts[i], media)
    BY <2>2, <2>3, <2>7, <2>8 DEF c
  <2> QED
    BY <1>2, <2>1, <2>2, <2>8, <2>9 DEF FreshInv
<1>5. CASE EndAliases
  <2>1. /\ fresh /\ pc = "aliases" /\ pc' = "volumes"
        /\ UNCHANGED <<mounts, media, preferred, inUse>>
        /\ work' = [i \in DOMAIN work |-> [target |-> work[i].target, entry |-> work[i].entry]]
    BY <1>5 DEF EndAliases
  <2>2. /\ work \in Seq(Candidate) /\ Len(work) = next - 1
        /\ \A i \in DOMAIN work : work[i] = Normalize(mounts[i], media)
        /\ Settled(mounts)
    BY <2>1 DEF IInv, TypeInv, FreshInv
  <2>3. IsMountList(work') /\ used' = UsedDriveLetters(work', inUse) /\ next = Len(mounts) + 1
    BY <1>5, EndAliasesFacts
  <2>4. DOMAIN work' = DOMAIN mounts /\ DOMAIN work = DOMAIN mounts
    BY <1>1, <2>1, <2>2, <2>3, LenProperties
  <2>5. \A i \in DOMAIN mounts : work'[i] = mounts[i]
    <3>1. SUFFICES ASSUME NEW i \in DOMAIN mounts PROVE work'[i] = mounts[i]
      OBVIOUS
    <3>2. ~RenamedByScan(mounts[i].target, media)
      BY <2>2 DEF Settled, Resolved
    <3>3. work[i].target = mounts[i].target /\ work[i].entry = mounts[i].entry
      <4>1. work[i] = Normalize(mounts[i], media)
        BY <2>2, <2>4
      <4>2. /\ Normalize(mounts[i], media).entry = mounts[i].entry
            /\ Normalize(mounts[i], media).target
                 = CanonicalDiscoveredTarget(mounts[i].target, media)
        BY DEF Normalize
      <4>3. CanonicalDiscoveredTarget(mounts[i].target, media) = mounts[i].target
        BY <3>2 DEF CanonicalDiscoveredTarget
      <4> QED
        BY <4>1, <4>2, <4>3
    <3>4. \A m \in Mount : m = [target |-> m.target, entry |-> m.entry]
      BY DEF Mount
    <3> QED
      BY <1>1, <2>1, <2>4, <3>3, <3>4
  <2>6. work' = mounts
    <3>1. work' \in Seq(Mount) /\ mounts \in Seq(Mount)
      BY <1>1, <2>3 DEF IsMountList
    <3>2. Len(work') = Len(mounts)
      BY <1>1, <2>4, <3>1, LenProperties
    <3> DEFINE list == work'
    <3>3. \A i \in 1..Len(list) : list[i] = mounts[i]
      BY <1>1, <2>5, <3>2
    <3>4. list \in Seq(Mount) /\ Len(list) = Len(mounts)
      BY <3>1, <3>2
    <3> HIDE DEF list
    <3>5. list = mounts
      BY <3>1, <3>3, <3>4, SeqEqual
    <3> QED
      BY <3>5 DEF list
  <2>7. UsedDriveLetters(mounts, inUse)' = UsedDriveLetters(mounts, inUse)
    BY <2>1 DEF UsedDriveLetters
  <2> QED
    BY <1>2, <2>1, <2>2, <2>3, <2>6, <2>7 DEF FreshInv
<1>6. CASE MergeNext
  <2>1. /\ fresh /\ pc = "volumes" /\ pc' = pc /\ UNCHANGED <<mounts, media, preferred, inUse>>
    BY <1>6 DEF MergeNext
  <2>2. Settled(mounts) /\ work = mounts /\ used = UsedDriveLetters(mounts, inUse)
    BY <2>1 DEF IInv, FreshInv
  <2>3. PICK r \in todo : MergeRound(r)
    BY <1>6, MergeNextCases DEF IInv
  <2>4. \/ Listed(work, ScanName[r], media)
        \/ WorkerOf(preferred, ScanName[r]) = {} /\ Letter \subseteq used
    BY <2>2, <2>3 DEF Settled, Resolved, MergeRound
  <2>5. work' = work /\ used' = used
    BY <2>3, <2>4 DEF MergeRound
  <2>6. UsedDriveLetters(mounts, inUse)' = UsedDriveLetters(mounts, inUse)
    BY <2>1 DEF UsedDriveLetters
  <2> QED
    BY <1>2, <2>1, <2>2, <2>5, <2>6 DEF FreshInv
<1>7. CASE EndPass
  <2>1. /\ pc = "volumes" /\ todo = {} /\ pc' = "idle" /\ mounts' = work
        /\ UNCHANGED <<media, preferred, inUse>>
    BY <1>7 DEF EndPass
  <2>2. Resolved(work, Discovered(media) \ {}, used) /\ used \subseteq UsedDriveLetters(work, inUse)
    BY <2>1 DEF IInv, VolumeInv
  <2>3. Resolved(work, Discovered(media), UsedDriveLetters(work, inUse))
    BY <2>2 DEF Resolved
  <2>4. Settled(mounts)'
    BY <2>1, <2>3 DEF Settled, Resolved, Listed, UsedDriveLetters
  <2> QED
    BY <2>1, <2>4 DEF FreshInv
<1>8. CASE MediaChanges
  BY <1>8 DEF MediaChanges
<1>9. CASE UNCHANGED vars
  <2>1. UNCHANGED <<mounts, pc, work, next, used, fresh, media, preferred, inUse>>
    BY <1>9 DEF vars
  <2>2. UsedDriveLetters(mounts, inUse)' = UsedDriveLetters(mounts, inUse)
    BY <2>1 DEF UsedDriveLetters
  <2> QED
    BY <1>2, <2>1, <2>2 DEF IInv, FreshInv
<1> QED
  BY <1>3, <1>4, <1>5, <1>6, <1>7, <1>8, <1>9 DEF Next, Done

LEMMA InvStep == IInv /\ [Next]_vars => IInv'
BY TypeInvStep, AliasInvStep, VolumeInvStep, TableInvStep, FreshInvStep DEF IInv

LEMMA InvHolds == Spec => []IInv
BY InvInit, InvStep, PTL DEF Spec

-----------------------------------------------------------------------------
(* The theorems.                                                           *)

(* canonicalizeDiscoveredMountAliases and mergeDiscoveredMounts turn a     *)
(* list of mounts into the list of the table that MountPolicy computes,    *)
(* whatever the order of the list: the entry of a region that survives     *)
(* and the letters that new volumes get are those of the model of the      *)
(* service.                                                                *)
THEOREM TablesComputed == Spec => ListsComputeTables
<1>1. ASSUME IInv, EndPass
      PROVE  Table(mounts') = AutoDiscovery(Table(mounts), media, Table(preferred), inUse)
  <2>1. pc = "volumes" /\ todo = {} /\ mounts' = work
    BY <1>1 DEF EndPass
  <2>2. /\ Table(work) = [t \in Target |-> Final[t]]
        /\ Final = AutoDiscovery(Table(mounts), media, Table(preferred), inUse)
    <3>1. Table(work) = [t \in Target |-> IF RegionOf[t] \in todo /\ Canonical[t] = None
                                         THEN None ELSE Final[t]]
      BY <1>1, <2>1 DEF IInv, TableInv
    <3> QED
      BY <2>1, <3>1 DEF Final, AutoDiscovery, Canonical
  <2>3. Final = [t \in Target |-> Final[t]]
    BY DEF Final, MergeDiscovered
  <2> QED
    BY <2>1, <2>2, <2>3
<1> QED
  BY <1>1, InvHolds, PTL DEF ListsComputeTables

(* A pass over disks that an earlier pass has seen ends with the list it   *)
(* began with, so the loop of the service does not rewrite mounts.json.    *)
THEOREM PassesSettle == Spec => SecondPassIsIdle
<1>1. ASSUME IInv, EndPass, fresh
      PROVE  mounts' = mounts
  BY <1>1 DEF EndPass, IInv, FreshInv
<1> QED
  BY <1>1, InvHolds, PTL DEF SecondPassIsIdle

(* Whatever names were saved for a region while its disk was away, the     *)
(* pass that finds the disk leaves one entry for it.                       *)
THEOREM RegionsListedOnce == Spec => []OneEntryPerRegion
<1>1. IInv => OneEntryPerRegion
  <2>1. SUFFICES ASSUME IInv, fresh,
                        NEW i \in DOMAIN mounts, NEW j \in DOMAIN mounts,
                        RegionOf[mounts[i].target] = RegionOf[mounts[j].target],
                        RegionOf[mounts[i].target] \in media
                 PROVE  i = j
    BY DEF OneEntryPerRegion
  <2>2. SameRawRegion(mounts[i].target, mounts[j].target, media)
    BY <2>1 DEF SameRawRegion, Recognised
  <2> QED
    BY <2>1, <2>2 DEF IInv, FreshInv, Settled, Resolved
<1> QED
  BY <1>1, InvHolds, PTL

=============================================================================
