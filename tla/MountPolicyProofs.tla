--------------------------- MODULE MountPolicyProofs ---------------------------
(***************************************************************************)
(* What the functions of MountPolicy return, for every table, request and  *)
(* set of disks: discovery and the requests map mount tables to mount      *)
(* tables.  A discovery pass leaves one entry for each region that is      *)
(* there, loses no region and no entry that had its region for itself, and *)
(* gives no letter out twice; the requests keep names and letters apart.   *)
(***************************************************************************)
EXTENDS MountPolicy, FiniteSetTheorems, TLAPS

(* Canonicalization maps mount tables to mount tables. *)
LEMMA CanonicalizeType ==
  ASSUME NEW m \in Mounts, NEW present
  PROVE  CanonicalizeAliases(m, present) \in Mounts
<1>1. SUFFICES ASSUME NEW t \in Target
               PROVE  CanonicalizeAliases(m, present)[t] \in Entry \cup {None}
  BY DEF CanonicalizeAliases, Mounts
<1>2. CASE m[t] = None /\ AliasesOf(m, t, present) # {}
  <2> DEFINE w == CHOOSE w \in AliasesOf(m, t, present) : TRUE
  <2>1. w \in AliasesOf(m, t, present)
    BY <1>2
  <2>2. w \in Target
    BY <2>1 DEF AliasesOf, Configured
  <2>3. CanonicalizeAliases(m, present)[t] = m[w]
    BY <1>2 DEF CanonicalizeAliases
  <2> QED
    BY <2>2, <2>3 DEF Mounts
<1>3. CASE ~(m[t] = None /\ AliasesOf(m, t, present) # {})
  <2>1. CanonicalizeAliases(m, present)[t] \in {None, m[t]}
    BY <1>3 DEF CanonicalizeAliases
  <2> QED
    BY <2>1 DEF Mounts
<1> QED
  BY <1>2, <1>3

(* The merge of discovered volumes maps mount tables to mount tables: a new *)
(* entry is the configuration of a running worker or has a free letter.    *)
LEMMA MergeType ==
  ASSUME NEW m \in Mounts, NEW present, NEW preferred \in Mounts, NEW inUse
  PROVE  MergeDiscovered(m, present, preferred, inUse) \in Mounts
<1>1. SUFFICES ASSUME NEW t \in Target
               PROVE  MergeDiscovered(m, present, preferred, inUse)[t] \in Entry \cup {None}
  BY DEF MergeDiscovered, Mounts
<1> DEFINE new == /\ RegionOf[t] \in NewRegions(m, present)
                  /\ ScanName[RegionOf[t]] = t
                  /\ MergedEntries(m, present, preferred, inUse, RegionOf[t]) # {}
           E == MergedEntries(m, present, preferred, inUse, RegionOf[t])
<1>2. CASE new
  <2>1. E \subseteq Entry
    <3>1. CASE preferred[t] # None
      <4>1. E = {preferred[t]}
        BY <1>2, <3>1 DEF MergedEntries
      <4> QED
        BY <3>1, <4>1 DEF Mounts
    <3>2. CASE preferred[t] = None
      <4>1. LetterChoice(m, present, preferred, inUse, RegionOf[t]) \subseteq Letter
        BY DEF LetterChoice
      <4>2. E = {[mount |-> l, read_only |-> FALSE, allow_raw_writes |-> TRUE,
                  enabled |-> TRUE] :
                   l \in LetterChoice(m, present, preferred, inUse, RegionOf[t])}
        BY <1>2, <3>2 DEF MergedEntries
      <4>3. ASSUME NEW l \in Letter
            PROVE  [mount |-> l, read_only |-> FALSE, allow_raw_writes |-> TRUE,
                    enabled |-> TRUE] \in Entry
        BY DEF Entry
      <4> HIDE DEF E
      <4> QED
        BY <4>1, <4>2, <4>3
    <3> QED
      BY <3>1, <3>2
  <2>2. (CHOOSE e \in E : TRUE) \in E
    BY <1>2
  <2>3. MergeDiscovered(m, present, preferred, inUse)[t] = CHOOSE e \in E : TRUE
    BY <1>2 DEF MergeDiscovered
  <2> QED
    BY <2>1, <2>2, <2>3
<1>3. CASE ~new
  <2>1. MergeDiscovered(m, present, preferred, inUse)[t] = m[t]
    BY <1>3 DEF MergeDiscovered
  <2> QED
    BY <2>1 DEF Mounts
<1> QED
  BY <1>2, <1>3

(* A whole discovery pass maps mount tables to mount tables. *)
LEMMA DiscoveryType ==
  ASSUME NEW m \in Mounts, NEW present, NEW preferred \in Mounts, NEW inUse
  PROVE  AutoDiscovery(m, present, preferred, inUse) \in Mounts
BY CanonicalizeType, MergeType DEF AutoDiscovery

(* A request that is not refused maps mount tables to mount tables: the    *)
(* ones that change an entry are refused when there is none.               *)
LEMMA AppliedType ==
  ASSUME NEW m \in Mounts, NEW q \in Request, NEW viaService, NEW present, NEW inUse,
         ~Refused(m, q, viaService, present, inUse)
  PROVE  Applied(m, q) \in Mounts
<1>0. NoMounts \in Mounts
  BY DEF NoMounts, Mounts
<1>1. CASE q.op = "add_mount"
  <2>1. q \in [op : {"add_mount"}, target : Target, mount : Letter,
               read_only : BOOLEAN, allow_raw_writes : BOOLEAN]
    BY <1>1 DEF Request
  <2>2. AddMount(m, q) \in Mounts
    BY <2>1 DEF AddMount, Mounts, Entry
  <2> QED
    BY <1>1, <2>2 DEF Applied
<1>2. CASE q.op = "remove_mount"
  <2>1. q \in [op : {"remove_mount"}, target : Target]
    BY <1>2 DEF Request
  <2>2. RemoveMount(m, q) \in Mounts
    BY <2>1 DEF RemoveMount, Mounts
  <2> QED
    BY <1>2, <2>2 DEF Applied
<1>3. CASE q.op = "set_mount"
  <2>1. q \in [op : {"set_mount"}, target : Target, mount : Letter]
    BY <1>3 DEF Request
  <2>2. m[q.target] \in Entry
    BY <1>3, <2>1 DEF Refused, SetMountRefused, Mounts
  <2>3. [m[q.target] EXCEPT !.mount = q.mount] \in Entry
    BY <2>1, <2>2 DEF Entry
  <2>4. SetMount(m, q) \in Mounts
    BY <2>1, <2>3 DEF SetMount, Mounts
  <2> QED
    BY <1>3, <2>4 DEF Applied
<1>4. CASE q.op = "set_enabled"
  <2>1. q \in [op : {"set_enabled"}, target : Target, enabled : BOOLEAN]
    BY <1>4 DEF Request
  <2>2. m[q.target] \in Entry
    BY <1>4, <2>1 DEF Refused, SetEnabledRefused, Mounts
  <2>3. [m[q.target] EXCEPT !.enabled = q.enabled] \in Entry
    BY <2>1, <2>2 DEF Entry
  <2>4. SetEnabled(m, q) \in Mounts
    BY <2>1, <2>3 DEF SetEnabled, Mounts
  <2> QED
    BY <1>4, <2>4 DEF Applied
<1>5. CASE q.op = "set_policy"
  <2>1. q \in [op : {"set_policy"}, target : Target,
               read_only : BOOLEAN, allow_raw_writes : BOOLEAN]
    BY <1>5 DEF Request
  <2>2. m[q.target] \in Entry
    BY <1>5, <2>1 DEF Refused, SetPolicyRefused, Mounts
  <2> DEFINE raw == ~q.read_only /\ q.allow_raw_writes
             e == [m[q.target] EXCEPT !.read_only = q.read_only, !.allow_raw_writes = raw]
  <2>3. raw \in BOOLEAN
    OBVIOUS
  <2> HIDE DEF raw
  <2>4. e \in Entry
    BY <2>1, <2>2, <2>3 DEF Entry
  <2>5. SetPolicy(m, q) = [m EXCEPT ![q.target] = e]
    BY <2>1, <2>2 DEF SetPolicy, Mounts, Entry, raw
  <2> HIDE DEF e
  <2>6. SetPolicy(m, q) \in Mounts
    BY <2>1, <2>4, <2>5 DEF Mounts
  <2> QED
    BY <1>5, <2>6 DEF Applied
<1>6. CASE q.op = "clear_mounts"
  BY <1>0, <1>6 DEF Applied
<1> QED
  BY <1>1, <1>2, <1>3, <1>4, <1>5, <1>6 DEF Request


-----------------------------------------------------------------------------
(* Names of one region.                                                    *)

(* At most one entry for each region of S. *)
OnePerRegion(m, S) ==
  \A t, u \in Configured(m) :
    RegionOf[t] = RegionOf[u] /\ RegionOf[t] \in S => t = u

RegionsOf(m) == {RegionOf[t] : t \in Configured(m)}

(* A region whose drive is renamed has no other name than that drive and   *)
(* the partition the scan reports.                                         *)
LEMMA NamesOfRenamed ==
  ASSUME NEW d \in Target, NEW present, RenamedByScan(d, present),
         NEW t \in Target, RegionOf[t] = RegionOf[d]
  PROVE  /\ t = d \/ t = ScanName[RegionOf[d]]
         /\ ScanName[RegionOf[d]] \in Partition
         /\ RegionOf[ScanName[RegionOf[d]]] = RegionOf[d]
<1> DEFINE p == ScanName[RegionOf[d]]
<1>1. d \notin Partition /\ p \in Partition
  BY DEF RenamedByScan
<1>2. RegionOf[d] \in Region /\ p # None /\ p \in Target
  BY <1>1, MountPolicyAssumption
<1>3. RegionOf[p] = RegionOf[d]
  BY <1>2, MountPolicyAssumption
<1>4. CASE t \in Partition
  BY <1>1, <1>2, <1>3, <1>4, MountPolicyAssumption
<1>5. CASE t \notin Partition
  BY <1>1, <1>5, MountPolicyAssumption
<1> QED
  BY <1>1, <1>3, <1>4, <1>5

(* Where an entry of the canonical table comes from: it is an old entry    *)
(* under the same name, or one whose name the scan has replaced.           *)
ComesFrom(m, present, s, t) ==
  /\ s \in Configured(m)
  /\ RegionOf[s] = RegionOf[t]
  /\ CanonicalizeAliases(m, present)[t] = m[s]
  /\ \/ s = t /\ ~RenamedByScan(t, present) /\ ~ShadowedByPartition(m, t, present)
     \/ RenamedByScan(s, present) /\ t = ScanName[RegionOf[s]] /\ m[t] = None

LEMMA CanonicalEntry ==
  ASSUME NEW m \in Mounts, NEW present,
         NEW t \in Configured(CanonicalizeAliases(m, present))
  PROVE  \E s \in Target : ComesFrom(m, present, s, t)
<1> DEFINE c == CanonicalizeAliases(m, present)
<1>0. t \in Target /\ c[t] # None
  BY DEF Configured
<1>1. CASE m[t] = None /\ AliasesOf(m, t, present) # {}
  <2> DEFINE w == CHOOSE w \in AliasesOf(m, t, present) : TRUE
  <2>1. w \in AliasesOf(m, t, present)
    BY <1>1
  <2>2. c[t] = m[w]
    BY <1>0, <1>1 DEF CanonicalizeAliases
  <2> HIDE DEF w, c
  <2>3. w \in Configured(m) /\ w \in Target /\ RenamedByScan(w, present) /\ ScanName[RegionOf[w]] = t
    BY <2>1 DEF AliasesOf, Configured
  <2>4. RegionOf[t] = RegionOf[w]
    BY <2>3, NamesOfRenamed
  <2> QED
    BY <1>1, <2>2, <2>3, <2>4 DEF ComesFrom, c
<1>2. CASE ~(m[t] = None /\ AliasesOf(m, t, present) # {})
  <2>1. /\ ~RenamedByScan(t, present)
        /\ ~ShadowedByPartition(m, t, present)
        /\ c[t] = m[t]
    BY <1>0, <1>2 DEF CanonicalizeAliases
  <2> QED
    BY <1>0, <2>1 DEF ComesFrom, Configured
<1> QED
  BY <1>1, <1>2

(* No old entry is taken twice. *)
LEMMA CanonicalEntriesApart ==
  ASSUME NEW m \in Mounts, NEW present, NEW s, NEW t \in Target, NEW u \in Target,
         ComesFrom(m, present, s, t), ComesFrom(m, present, s, u)
  PROVE  t = u
<1>1. s \in Target /\ m[s] # None
  BY DEF ComesFrom, Configured
<1>2. CASE RenamedByScan(s, present)
  <2>1. s \notin Partition
    BY <1>2 DEF RenamedByScan
  <2> QED
    BY <1>2, <2>1 DEF ComesFrom
<1>3. CASE ~RenamedByScan(s, present)
  BY <1>3 DEF ComesFrom
<1> QED
  BY <1>2, <1>3

(* Canonicalization leaves at most one entry for a region that is there. *)
LEMMA CanonicalizeResolves ==
  ASSUME NEW m \in Mounts, NEW present
  PROVE  OnePerRegion(CanonicalizeAliases(m, present), present)
<1> DEFINE c == CanonicalizeAliases(m, present)
<1>1. ASSUME NEW p \in Configured(c), NEW d \in Configured(c),
             RegionOf[p] = RegionOf[d], RegionOf[p] \in present,
             p \in Partition, d \notin Partition
      PROVE  FALSE
  <2>1. p \in Target /\ d \in Target
    BY DEF Configured
  <2>2. PICK a \in Target : ComesFrom(m, present, a, p)
    BY CanonicalEntry
  <2>3. PICK b \in Target : ComesFrom(m, present, b, d)
    BY CanonicalEntry
  <2>4. /\ b = d /\ d \in Configured(m)
        /\ ~RenamedByScan(d, present) /\ ~ShadowedByPartition(m, d, present)
    <3>1. ~RenamedByScan(b, present) \/ d # ScanName[RegionOf[b]]
      BY <1>1 DEF RenamedByScan
    <3> QED
      BY <1>1, <2>3, <3>1 DEF ComesFrom
  <2>5. CASE a = p
    BY <1>1, <2>1, <2>2, <2>4, <2>5 DEF ComesFrom, ShadowedByPartition
  <2>6. CASE a # p
    <3>1. RenamedByScan(a, present) /\ RegionOf[a] = RegionOf[d] /\ a \notin Partition
      BY <1>1, <2>2, <2>6 DEF ComesFrom, RenamedByScan
    <3>2. a = d
      BY <1>1, <2>1, <3>1, MountPolicyAssumption
    <3> QED
      BY <2>4, <3>1, <3>2
  <2> QED
    BY <2>5, <2>6
<1>2. ASSUME NEW t \in Configured(c), NEW u \in Configured(c),
             RegionOf[t] = RegionOf[u], RegionOf[t] \in present
      PROVE  t = u
  <2>1. t \in Target /\ u \in Target
    BY DEF Configured
  <2>2. t \in Partition <=> u \in Partition
    BY <1>1, <1>2
  <2> QED
    BY <1>2, <2>1, <2>2, MountPolicyAssumption
<1> QED
  BY <1>2 DEF OnePerRegion

(* It adds no second entry to a region, whether it is there or not. *)
LEMMA CanonicalizeKeepsOne ==
  ASSUME NEW m \in Mounts, NEW present, NEW S, OnePerRegion(m, S)
  PROVE  OnePerRegion(CanonicalizeAliases(m, present), S)
<1> DEFINE c == CanonicalizeAliases(m, present)
<1>1. ASSUME NEW t \in Configured(c), NEW u \in Configured(c),
             RegionOf[t] = RegionOf[u], RegionOf[t] \in S
      PROVE  t = u
  <2>1. t \in Target /\ u \in Target
    BY DEF Configured
  <2>2. PICK a \in Target : ComesFrom(m, present, a, t)
    BY CanonicalEntry
  <2>3. PICK b \in Target : ComesFrom(m, present, b, u)
    BY CanonicalEntry
  <2>4. a = b
    BY <1>1, <2>2, <2>3 DEF ComesFrom, OnePerRegion
  <2> QED
    BY <2>1, <2>2, <2>3, <2>4, CanonicalEntriesApart
<1> QED
  BY <1>1 DEF OnePerRegion

(* An old entry that had its region for itself is kept, under some name. *)
LEMMA CanonicalizeKeepsEntry ==
  ASSUME NEW m \in Mounts, NEW present, NEW s \in Configured(m),
         \A u \in Configured(m) : RegionOf[u] = RegionOf[s] => u = s
  PROVE  \E t \in Configured(CanonicalizeAliases(m, present)) :
           RegionOf[t] = RegionOf[s] /\ CanonicalizeAliases(m, present)[t] = m[s]
<1> DEFINE c == CanonicalizeAliases(m, present)
<1>0. s \in Target /\ m[s] # None
  BY DEF Configured
<1>1. CASE RenamedByScan(s, present)
  <2> DEFINE p == ScanName[RegionOf[s]]
  <2>1. p \in Partition /\ s \notin Partition /\ RegionOf[p] = RegionOf[s]
    BY <1>0, <1>1, NamesOfRenamed DEF RenamedByScan
  <2>2. p \in Target
    BY <2>1, MountPolicyAssumption
  <2>3. m[p] = None
    BY <2>1, <2>2 DEF Configured
  <2>4. AliasesOf(m, p, present) = {s}
    <3>1. s \in AliasesOf(m, p, present)
      BY <1>1 DEF AliasesOf
    <3>2. ASSUME NEW w \in AliasesOf(m, p, present) PROVE w = s
      <4>1. w \in Configured(m) /\ w \in Target /\ RenamedByScan(w, present)
            /\ ScanName[RegionOf[w]] = p
        BY DEF AliasesOf, Configured
      <4>2. RegionOf[p] = RegionOf[w]
        BY <4>1, NamesOfRenamed
      <4> QED
        BY <2>1, <4>1, <4>2
    <3> QED
      BY <3>1, <3>2
  <2>5. c[p] = m[s]
    BY <2>2, <2>3, <2>4 DEF CanonicalizeAliases
  <2> QED
    BY <1>0, <2>1, <2>2, <2>5 DEF Configured
<1>2. CASE ~RenamedByScan(s, present)
  <2>1. ~ShadowedByPartition(m, s, present)
    BY DEF ShadowedByPartition
  <2>2. c[s] = m[s]
    BY <1>0, <1>2, <2>1 DEF CanonicalizeAliases
  <2> QED
    BY <1>0, <2>2 DEF Configured
<1> QED
  BY <1>1, <1>2

(* The regions with an entry stay the same. *)
LEMMA CanonicalizeKeepsRegions ==
  ASSUME NEW m \in Mounts, NEW present
  PROVE  RegionsOf(CanonicalizeAliases(m, present)) = RegionsOf(m)
<1> DEFINE c == CanonicalizeAliases(m, present)
<1>1. ASSUME NEW t \in Configured(c) PROVE RegionOf[t] \in RegionsOf(m)
  <2>1. PICK s \in Target : ComesFrom(m, present, s, t)
    BY CanonicalEntry
  <2> QED
    BY <2>1 DEF ComesFrom, RegionsOf
<1>2. ASSUME NEW p \in Configured(m) \cap Partition PROVE p \in Configured(c)
  <2>1. p \in Target /\ m[p] # None /\ c[p] = m[p]
    BY DEF Configured, CanonicalizeAliases, RenamedByScan, ShadowedByPartition
  <2> QED
    BY <2>1 DEF Configured
<1>3. ASSUME NEW s \in Configured(m) PROVE RegionOf[s] \in RegionsOf(c)
  <2>0. s \in Target /\ m[s] # None
    BY DEF Configured
  <2>1. CASE \E p \in Configured(m) \cap Partition : RegionOf[p] = RegionOf[s]
    BY <1>2, <2>1 DEF RegionsOf
  <2>2. CASE ~\E p \in Configured(m) \cap Partition : RegionOf[p] = RegionOf[s]
    <3>1. \A u \in Configured(m) : RegionOf[u] = RegionOf[s] => u = s
      <4>1. s \notin Partition
        BY <2>2
      <4>2. ASSUME NEW u \in Configured(m), RegionOf[u] = RegionOf[s] PROVE u = s
        <5>1. u \in Target /\ u \notin Partition
          BY <2>2, <4>2 DEF Configured
        <5> QED
          BY <2>0, <4>1, <4>2, <5>1, MountPolicyAssumption
      <4> QED
        BY <4>2
    <3> QED
      BY <3>1, CanonicalizeKeepsEntry DEF RegionsOf
  <2> QED
    BY <2>1, <2>2
<1> QED
  BY <1>1, <1>3 DEF RegionsOf

-----------------------------------------------------------------------------
(* The merge of discovered volumes.                                        *)

(* A region that counts as new has no entry under any name. *)
LEMMA NewRegionHasNoEntry ==
  ASSUME NEW c \in Mounts, NEW present \in SUBSET Region, NEW r \in NewRegions(c, present)
  PROVE  r \in Region /\ r \notin RegionsOf(c)
<1>1. r \in present /\ ScanName[r] # None /\ RegionOf[ScanName[r]] = r /\ ScanName[r] \in Target
  BY MountPolicyAssumption DEF NewRegions, Discovered
<1>2. ASSUME NEW u \in Configured(c), RegionOf[u] = r PROVE FALSE
  <2>1. SameRawRegion(u, ScanName[r], present)
    BY <1>1, <1>2 DEF SameRawRegion, Recognised
  <2> QED
    BY <2>1 DEF NewRegions
<1> QED
  BY <1>1, <1>2 DEF RegionsOf

(* An entry of the merged table is an old one, or the only one of a region *)
(* that had none.                                                          *)
LEMMA MergedEntry ==
  ASSUME NEW c \in Mounts, NEW present \in SUBSET Region, NEW preferred \in Mounts, NEW inUse,
         NEW t \in Configured(MergeDiscovered(c, present, preferred, inUse))
  PROVE  \/ /\ t \in Configured(c)
            /\ MergeDiscovered(c, present, preferred, inUse)[t] = c[t]
         \/ /\ RegionOf[t] \in NewRegions(c, present)
            /\ t = ScanName[RegionOf[t]]
            /\ MergeDiscovered(c, present, preferred, inUse)[t]
                 \in MergedEntries(c, present, preferred, inUse, RegionOf[t])
BY DEF MergeDiscovered, Configured

(* The merge leaves the old entries alone. *)
LEMMA MergeKeepsEntries ==
  ASSUME NEW c \in Mounts, NEW present \in SUBSET Region, NEW preferred \in Mounts, NEW inUse,
         NEW t \in Configured(c)
  PROVE  /\ t \in Configured(MergeDiscovered(c, present, preferred, inUse))
         /\ MergeDiscovered(c, present, preferred, inUse)[t] = c[t]
<1>1. t \in Target /\ c[t] # None /\ RegionOf[t] \in RegionsOf(c)
  BY DEF Configured, RegionsOf
<1>2. RegionOf[t] \notin NewRegions(c, present)
  BY <1>1, NewRegionHasNoEntry
<1>3. MergeDiscovered(c, present, preferred, inUse)[t] = c[t]
  BY <1>1, <1>2 DEF MergeDiscovered
<1> QED
  BY <1>1, <1>3 DEF Configured

LEMMA MergeKeepsOne ==
  ASSUME NEW c \in Mounts, NEW present \in SUBSET Region, NEW preferred \in Mounts, NEW inUse,
         NEW S, OnePerRegion(c, S)
  PROVE  OnePerRegion(MergeDiscovered(c, present, preferred, inUse), S)
<1> DEFINE d == MergeDiscovered(c, present, preferred, inUse)
<1>1. ASSUME NEW t \in Configured(d), NEW u \in Configured(d),
             RegionOf[t] = RegionOf[u], RegionOf[t] \in S
      PROVE  t = u
  <2>1. CASE RegionOf[t] \in NewRegions(c, present)
    <3>1. RegionOf[t] \notin RegionsOf(c)
      BY <2>1, NewRegionHasNoEntry
    <3>2. t = ScanName[RegionOf[t]] /\ u = ScanName[RegionOf[t]]
      BY <1>1, <3>1, MergedEntry DEF RegionsOf
    <3> QED
      BY <3>2
  <2>2. CASE RegionOf[t] \notin NewRegions(c, present)
    <3>1. t \in Configured(c) /\ u \in Configured(c)
      BY <1>1, <2>2, MergedEntry
    <3> QED
      BY <1>1, <3>1 DEF OnePerRegion
  <2> QED
    BY <2>1, <2>2
<1> QED
  BY <1>1 DEF OnePerRegion

-----------------------------------------------------------------------------
(* A whole discovery pass.                                                 *)

(* After a pass no region that is there has two entries, whatever names    *)
(* the table held for it: aliases are resolved.                            *)
LEMMA DiscoveryResolves ==
  ASSUME NEW m \in Mounts, NEW present \in SUBSET Region, NEW preferred \in Mounts, NEW inUse
  PROVE  OnePerRegion(AutoDiscovery(m, present, preferred, inUse), present)
BY CanonicalizeType, CanonicalizeResolves, MergeKeepsOne DEF AutoDiscovery

(* A table with one entry for each region stays one. *)
LEMMA DiscoveryKeepsOne ==
  ASSUME NEW m \in Mounts, NEW present \in SUBSET Region, NEW preferred \in Mounts, NEW inUse,
         NEW S, OnePerRegion(m, S)
  PROVE  OnePerRegion(AutoDiscovery(m, present, preferred, inUse), S)
BY CanonicalizeType, CanonicalizeKeepsOne, MergeKeepsOne DEF AutoDiscovery

(* An entry that has its region for itself survives a pass unchanged,      *)
(* under the name the scan gives the region.                               *)
LEMMA DiscoveryKeepsEntry ==
  ASSUME NEW m \in Mounts, NEW present \in SUBSET Region, NEW preferred \in Mounts, NEW inUse,
         NEW s \in Configured(m),
         \A u \in Configured(m) : RegionOf[u] = RegionOf[s] => u = s
  PROVE  \E t \in Configured(AutoDiscovery(m, present, preferred, inUse)) :
           /\ RegionOf[t] = RegionOf[s]
           /\ AutoDiscovery(m, present, preferred, inUse)[t] = m[s]
<1> DEFINE c == CanonicalizeAliases(m, present)
<1>1. PICK t \in Configured(c) : RegionOf[t] = RegionOf[s] /\ c[t] = m[s]
  BY CanonicalizeKeepsEntry
<1>2. c \in Mounts
  BY CanonicalizeType
<1> QED
  BY <1>1, <1>2, MergeKeepsEntries DEF AutoDiscovery

(* No region loses all its entries in a pass. *)
LEMMA DiscoveryKeepsRegions ==
  ASSUME NEW m \in Mounts, NEW present \in SUBSET Region, NEW preferred \in Mounts, NEW inUse
  PROVE  RegionsOf(m) \subseteq RegionsOf(AutoDiscovery(m, present, preferred, inUse))
<1> DEFINE c == CanonicalizeAliases(m, present)
<1>1. c \in Mounts /\ RegionsOf(c) = RegionsOf(m)
  BY CanonicalizeType, CanonicalizeKeepsRegions
<1>2. ASSUME NEW t \in Configured(c)
      PROVE  RegionOf[t] \in RegionsOf(AutoDiscovery(m, present, preferred, inUse))
  BY <1>1, MergeKeepsEntries DEF AutoDiscovery, RegionsOf
<1> QED
  BY <1>1, <1>2 DEF RegionsOf

-----------------------------------------------------------------------------
(* Drive letters.                                                          *)

LettersApart(m) ==
  \A t, u \in Configured(m) : m[t].mount = m[u].mount => t = u

(* Two volumes that the merge gives letters to get two letters, because    *)
(* each skips as many free letters as there are volumes ahead of it.       *)
LEMMA ChoicesDiffer ==
  ASSUME NEW c \in Mounts, NEW present \in SUBSET Region, NEW preferred \in Mounts, NEW inUse,
         NEW r \in NewRegions(c, present), NEW s \in NewRegions(c, present),
         preferred[ScanName[r]] = None, preferred[ScanName[s]] = None,
         NEW l \in LetterChoice(c, present, preferred, inUse, r),
         l \in LetterChoice(c, present, preferred, inUse, s)
  PROVE  r = s
<1> DEFINE ahead(q) == AheadOf(c, present, preferred, q)
<1>1. r \in Region /\ s \in Region
  BY NewRegionHasNoEntry
<1>2. ASSUME NEW a \in NewRegions(c, present), NEW b \in NewRegions(c, present),
             preferred[ScanName[a]] = None,
             ScanRank[a] < ScanRank[b],
             Cardinality(ahead(a)) = Cardinality(ahead(b))
      PROVE  FALSE
  <2>1. a \in Region /\ b \in Region
    BY NewRegionHasNoEntry
  <2>2. ScanRank[a] \in Nat /\ ScanRank[b] \in Nat
    BY <2>1, MountPolicyAssumption
  <2>3. \A q \in NewRegions(c, present) : ScanRank[q] \in Nat
    BY NewRegionHasNoEntry, MountPolicyAssumption
  <2>4. ahead(a) \subseteq ahead(b) /\ a \in ahead(b) /\ a \notin ahead(a)
    BY <1>2, <2>2, <2>3 DEF AheadOf
  <2>5. ahead(b) \subseteq Region
    BY NewRegionHasNoEntry DEF AheadOf
  <2>6. IsFiniteSet(ahead(b))
    BY <2>5, FS_Subset, MountPolicyAssumption
  <2>7. ahead(a) = ahead(b)
    BY <1>2, <2>4, <2>6, FS_Subset
  <2> QED
    BY <2>4, <2>7
<1>3. Cardinality(ahead(r)) = Cardinality(ahead(s))
  BY DEF LetterChoice
<1>4. ScanRank[r] \in Nat /\ ScanRank[s] \in Nat
  BY <1>1, MountPolicyAssumption
<1>5. ~(ScanRank[r] < ScanRank[s]) /\ ~(ScanRank[s] < ScanRank[r])
  BY <1>2, <1>3
<1> QED
  BY <1>1, <1>4, <1>5, MountPolicyAssumption

(* A pass gives no letter out twice, when no new volume brings the letter  *)
(* of a worker along.                                                      *)
LEMMA DiscoveryKeepsLettersApart ==
  ASSUME NEW m \in Mounts, NEW present \in SUBSET Region, NEW preferred \in Mounts, NEW inUse,
         LettersApart(m),
         \A t \in Configured(preferred) : RegionOf[t] \in RegionsOf(m)
  PROVE  LettersApart(AutoDiscovery(m, present, preferred, inUse))
<1> DEFINE c == CanonicalizeAliases(m, present)
           d == MergeDiscovered(c, present, preferred, inUse)
<1>1. c \in Mounts /\ RegionsOf(c) = RegionsOf(m)
  BY CanonicalizeType, CanonicalizeKeepsRegions
<1>2. LettersApart(c)
  <2>1. ASSUME NEW t \in Configured(c), NEW u \in Configured(c), c[t].mount = c[u].mount
        PROVE  t = u
    <3>1. t \in Target /\ u \in Target
      BY DEF Configured
    <3>2. PICK a \in Target : ComesFrom(m, present, a, t)
      BY CanonicalEntry
    <3>3. PICK b \in Target : ComesFrom(m, present, b, u)
      BY CanonicalEntry
    <3>4. a = b
      BY <2>1, <3>2, <3>3 DEF ComesFrom, LettersApart
    <3> QED
      BY <3>1, <3>2, <3>3, <3>4, CanonicalEntriesApart
  <2> QED
    BY <2>1 DEF LettersApart
<1> HIDE DEF c, d
<1>3. ASSUME NEW t \in Configured(d), t \notin Configured(c)
      PROVE  /\ RegionOf[t] \in NewRegions(c, present)
             /\ t = ScanName[RegionOf[t]]
             /\ preferred[t] = None
             /\ d[t].mount \in LetterChoice(c, present, preferred, inUse, RegionOf[t])
  <2>1. /\ RegionOf[t] \in NewRegions(c, present)
        /\ t = ScanName[RegionOf[t]]
        /\ d[t] \in MergedEntries(c, present, preferred, inUse, RegionOf[t])
    BY <1>1, <1>3, MergedEntry DEF d
  <2>2. RegionOf[t] \notin RegionsOf(m)
    BY <1>1, <2>1, NewRegionHasNoEntry
  <2>3. t \in Target /\ preferred[t] = None
    BY <2>2 DEF Configured
  <2> QED
    BY <2>1, <2>3 DEF MergedEntries
<1>4. ASSUME NEW t \in Configured(d), NEW u \in Configured(d), d[t].mount = d[u].mount,
             t \in Configured(c), u \notin Configured(c)
      PROVE  FALSE
  <2>1. d[t] = c[t]
    BY <1>1, <1>4, MergeKeepsEntries DEF d
  <2>2. d[u].mount \notin ConfigLetters(c)
    BY <1>3, <1>4 DEF LetterChoice
  <2> QED
    BY <1>4, <2>1, <2>2 DEF ConfigLetters
<1>5. ASSUME NEW t \in Configured(d), NEW u \in Configured(d), d[t].mount = d[u].mount
      PROVE  t = u
  <2>1. CASE t \in Configured(c) /\ u \in Configured(c)
    <3>1. d[t] = c[t] /\ d[u] = c[u]
      BY <1>1, <2>1, MergeKeepsEntries DEF d
    <3> QED
      BY <1>2, <1>5, <2>1, <3>1 DEF LettersApart
  <2>2. CASE t \notin Configured(c) /\ u \notin Configured(c)
    BY <1>1, <1>3, <1>5, <2>2, ChoicesDiffer
  <2>3. CASE t \in Configured(c) /\ u \notin Configured(c)
    BY <1>4, <1>5, <2>3
  <2>4. CASE t \notin Configured(c) /\ u \in Configured(c)
    BY <1>4, <1>5, <2>4
  <2> QED
    BY <2>1, <2>2, <2>3, <2>4
<1> QED
  BY <1>5 DEF LettersApart, AutoDiscovery, c, d

-----------------------------------------------------------------------------
(* Requests.                                                               *)

(* What an applied request leaves of the names: only add_mount adds one,   *)
(* and the requests that set a letter, a policy or the enabled flag keep   *)
(* the names there are.                                                    *)
SetOps == {"set_mount", "set_enabled", "set_policy"}

LEMMA AppliedNames ==
  ASSUME NEW m \in Mounts, NEW q \in Request, NEW viaService, NEW present, NEW inUse,
         ~Refused(m, q, viaService, present, inUse)
  PROVE  /\ Configured(Applied(m, q)) \subseteq
              Configured(m) \cup (IF q.op = "add_mount" THEN {q.target} ELSE {})
         /\ q.op \in SetOps => Configured(Applied(m, q)) = Configured(m)
<1>1. CASE q.op = "add_mount"
  <2>1. Applied(m, q) = AddMount(m, q)
    BY <1>1 DEF Applied
  <2> QED
    BY <1>1, <2>1 DEF AddMount, Configured, SetOps
<1>2. CASE q.op = "remove_mount"
  <2>1. Applied(m, q) = RemoveMount(m, q)
    BY <1>2 DEF Applied
  <2> QED
    BY <1>2, <2>1 DEF RemoveMount, Configured, SetOps, Mounts
<1>3. CASE q.op \in SetOps
  <2>1. q.target \in Target
    BY <1>3 DEF Request, SetOps
  <2>2. m[q.target] \in Entry
    BY <1>3, <2>1 DEF Refused, SetMountRefused, SetEnabledRefused, SetPolicyRefused,
                      Mounts, SetOps
  <2>3. \A t \in Target \ {q.target} : Applied(m, q)[t] = m[t]
    BY <1>3, <2>1 DEF Applied, SetMount, SetEnabled, SetPolicy, Mounts, SetOps
  <2>4. Applied(m, q)[q.target] \in Entry
    BY <2>1, AppliedType, <1>3, <2>2 DEF Applied, SetMount, SetEnabled, SetPolicy, Mounts,
                                          SetOps, Entry, Request
  <2>5. q.target \in Configured(m) /\ q.target \in Configured(Applied(m, q))
    BY <2>1, <2>2, <2>4, NoneIsNoRecord DEF Configured
  <2> QED
    BY <2>3, <2>5 DEF Configured
<1>4. CASE q.op = "clear_mounts"
  <2>1. Applied(m, q) = NoMounts
    BY <1>4 DEF Applied
  <2> QED
    BY <1>4, <2>1 DEF NoMounts, Configured, SetOps
<1> QED
  BY <1>1, <1>2, <1>3, <1>4 DEF Request, SetOps

(* No request gives a letter to two entries: add_mount drops the entries   *)
(* that hold the letter and set_mount is refused.                          *)
LEMMA AppliedKeepsLettersApart ==
  ASSUME NEW m \in Mounts, NEW q \in Request, NEW viaService, NEW present, NEW inUse,
         ~Refused(m, q, viaService, present, inUse),
         LettersApart(m)
  PROVE  LettersApart(Applied(m, q))
<1>1. CASE q.op = "add_mount"
  <2>1. q.target \in Target /\ q.mount \in Letter
    BY <1>1 DEF Request
  <2>2. Applied(m, q) = AddMount(m, q)
    BY <1>1 DEF Applied
  <2>3. /\ AddMount(m, q)[q.target].mount = q.mount
        /\ \A t \in Target \ {q.target} :
             t \in Configured(AddMount(m, q)) =>
               /\ t \in Configured(m)
               /\ AddMount(m, q)[t] = m[t]
               /\ m[t].mount # q.mount
    BY <2>1 DEF AddMount, Configured
  <2>4. Configured(AddMount(m, q)) \subseteq Target
    BY DEF Configured
  <2> QED
    BY <2>2, <2>3, <2>4 DEF LettersApart
<1>2. CASE q.op = "set_mount"
  <2>1. q.target \in Target /\ m[q.target] \in Entry
    BY <1>2 DEF Request, Refused, SetMountRefused, Mounts
  <2>2. Applied(m, q) = [m EXCEPT ![q.target] = [m[q.target] EXCEPT !.mount = q.mount]]
    BY <1>2 DEF Applied, SetMount
  <2>3. /\ Applied(m, q)[q.target].mount = q.mount
        /\ \A t \in Target \ {q.target} : Applied(m, q)[t] = m[t]
    BY <2>1, <2>2 DEF Mounts, Entry
  <2>4. \A t \in Configured(m) \ {q.target} : m[t].mount # q.mount
    BY <1>2 DEF Refused, SetMountRefused
  <2>5. Configured(Applied(m, q)) = Configured(m) /\ Configured(m) \subseteq Target
    BY <1>2, AppliedNames DEF SetOps, Configured
  <2> QED
    BY <2>3, <2>4, <2>5 DEF LettersApart
<1>3. CASE q.op \in {"remove_mount", "set_enabled", "set_policy", "clear_mounts"}
  <2>1. \A t \in Configured(Applied(m, q)) :
           t \in Configured(m) /\ Applied(m, q)[t].mount = m[t].mount
    <3>1. CASE q.op = "remove_mount"
      BY <3>1 DEF Applied, RemoveMount, Configured, Mounts
    <3>2. CASE q.op = "clear_mounts"
      BY <3>2 DEF Applied, NoMounts, Configured
    <3>3. CASE q.op \in {"set_enabled", "set_policy"}
      <4>1. q.target \in Target /\ m[q.target] \in Entry
        BY <3>3 DEF Request, Refused, SetEnabledRefused, SetPolicyRefused, Mounts
      <4>2. \A t \in Target : Applied(m, q)[t].mount = m[t].mount
        <5>1. CASE q.op = "set_enabled"
          <6>1. Applied(m, q) = [m EXCEPT ![q.target] = [m[q.target] EXCEPT !.enabled = q.enabled]]
            BY <5>1 DEF Applied, SetEnabled
          <6> QED
            BY <4>1, <6>1 DEF Mounts, Entry
        <5>2. CASE q.op = "set_policy"
          <6>1. Applied(m, q) =
                  [m EXCEPT ![q.target] =
                     [m[q.target] EXCEPT !.read_only = q.read_only,
                                         !.allow_raw_writes = ~q.read_only /\ q.allow_raw_writes]]
            BY <4>1, <5>2 DEF Applied, SetPolicy, Mounts
          <6> QED
            BY <4>1, <6>1 DEF Mounts, Entry
        <5> QED
          BY <3>3, <5>1, <5>2
      <4> QED
        BY <3>3, <4>2, AppliedNames DEF SetOps, Configured
    <3> QED
      BY <1>3, <3>1, <3>2, <3>3
  <2> QED
    BY <2>1 DEF LettersApart
<1> QED
  BY <1>1, <1>2, <1>3 DEF Request

(* A request gives a region a second entry only if it adds a second name.  *)
LEMMA AppliedKeepsOne ==
  ASSUME NEW m \in Mounts, NEW q \in Request, NEW viaService, NEW present, NEW inUse,
         ~Refused(m, q, viaService, present, inUse),
         OnePerRegion(m, Region),
         q.op = "add_mount" =>
           \A t \in Target : RegionOf[t] = RegionOf[q.target] => t = q.target
  PROVE  OnePerRegion(Applied(m, q), Region)
<1>1. Configured(Applied(m, q)) \subseteq
        Configured(m) \cup (IF q.op = "add_mount" THEN {q.target} ELSE {})
  BY AppliedNames
<1>2. Configured(Applied(m, q)) \subseteq Target
  BY DEF Configured
<1> QED
  BY <1>1, <1>2 DEF OnePerRegion

=============================================================================
