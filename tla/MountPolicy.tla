----------------------------- MODULE MountPolicy -----------------------------
(***************************************************************************)
(* The mount table that apfs_mount_service keeps in mounts.json and the    *)
(* pure functions over it: the five control requests, the removal of       *)
(* duplicate names of one raw region, the merge of freshly discovered      *)
(* volumes and the choice of drive letters.                                *)
(*                                                                         *)
(* A mount table is a function from target names to entries.  The code     *)
(* keeps a list, but add_mount and canonicalization keep target names      *)
(* unique and no decision depends on the order of the list: module         *)
(* DiscoveryLists models the list code and checks that it computes the     *)
(* functions defined here.                                                 *)
(*                                                                         *)
(* A region is a range of bytes of a disk (disk index and offset) that     *)
(* holds APFS.  A region has up to two raw names: the physical drive       *)
(* (no partition index) and a partition of it.  An image file is a region  *)
(* with one name that discovery never scans.                               *)
(***************************************************************************)
EXTENDS Naturals, FiniteSets

CONSTANTS
  Target,     (* names a mount can be configured for                       *)
  Partition,  (* the raw names that carry a partition index                *)
  Image,      (* the names of image files                                  *)
  Region,     (* ranges of bytes that can hold APFS                        *)
  RegionOf,   (* the region a name stands for                              *)
  ScanName,   (* the name discovery reports for a region, None for images  *)
  ScanRank,   (* the position of a region in the discovery scan            *)
  Letter,     (* drive letters, a later letter of the alphabet is larger   *)
  None

ASSUME MountPolicyAssumption ==
  /\ Partition \subseteq Target
  /\ Image \subseteq Target \ Partition
  /\ RegionOf \in [Target -> Region]
  /\ ScanName \in [Region -> Target \cup {None}]
  /\ ScanRank \in [Region -> Nat]
  /\ Letter \subseteq Nat
  /\ IsFiniteSet(Letter)
  /\ IsFiniteSet(Region)
  /\ None \notin Target
  /\ None \notin Letter
  /\ \A r \in Region : ScanName[r] # None =>
       ScanName[r] \in Target \ Image /\ RegionOf[ScanName[r]] = r
  /\ \A r, s \in Region : ScanRank[r] = ScanRank[s] => r = s
  /\ \A t \in Image : ScanName[RegionOf[t]] = None
  /\ \A t \in Image, u \in Target : RegionOf[t] = RegionOf[u] => t = u
  (* A region has at most one name of each kind. *)
  /\ \A t, u \in Target :
       RegionOf[t] = RegionOf[u] /\ (t \in Partition <=> u \in Partition)
         => t = u

Entry == [mount            : Letter,
          read_only        : BOOLEAN,
          allow_raw_writes : BOOLEAN,
          enabled          : BOOLEAN]

(* The part of an entry that the documentation calls its policy. *)
PolicySet == [read_only : BOOLEAN, allow_raw_writes : BOOLEAN, enabled : BOOLEAN]

Policy(e) == [read_only |-> e.read_only, allow_raw_writes |-> e.allow_raw_writes,
              enabled |-> e.enabled]

ASSUME NoneIsNoRecord == None \notin Entry /\ None \notin PolicySet

Mounts == [Target -> Entry \cup {None}]

NoMounts == [t \in Target |-> None]

Configured(m) == {t \in Target : m[t] # None}

ConfigLetters(m) == {m[t].mount : t \in Configured(m)}

(* Two names of one region are recognised as such only while the device is *)
(* there: a partition's offset comes from the scan or from an ioctl.       *)
Recognised(t, present) == t \notin Partition \/ RegionOf[t] \in present

SameRawRegion(t, u, present) ==
  \/ t = u
  \/ /\ RegionOf[t] = RegionOf[u]
     /\ Recognised(t, present)
     /\ Recognised(u, present)

-----------------------------------------------------------------------------
(* Discovery.                                                              *)

Discovered(present) == {r \in present : ScanName[r] # None}

(* A physical-drive name of a region whose scan reports a partition at      *)
(* offset 0 stands for that partition.                                     *)
RenamedByScan(t, present) ==
  /\ t \notin Partition
  /\ RegionOf[t] \in present
  /\ ScanName[RegionOf[t]] \in Partition

AliasesOf(m, t, present) ==
  {w \in Configured(m) : RenamedByScan(w, present) /\ ScanName[RegionOf[w]] = t}

(* Of two entries for one recognised region the one that names the         *)
(* partition itself is kept, whatever their order in the list.             *)
ShadowedByPartition(m, t, present) ==
  /\ t \notin Partition
  /\ RegionOf[t] \in present
  /\ \E p \in Configured(m) \cap Partition : RegionOf[p] = RegionOf[t]

CanonicalizeDroppingAliases(m, present) ==  \* mutant: the alias is removed, not renamed
  [t \in Target |-> IF RenamedByScan(t, present) THEN None ELSE m[t]]

CanonicalizeAliases(m, present) ==
  [t \in Target |->
     IF m[t] = None /\ AliasesOf(m, t, present) # {}
     THEN m[CHOOSE w \in AliasesOf(m, t, present) : TRUE]
     ELSE IF RenamedByScan(t, present) \/ ShadowedByPartition(m, t, present) THEN None
     ELSE m[t]]

(* Letters are handed out from Z downwards, in the order of the scan, to   *)
(* the new volumes that no running worker already has a letter for: the    *)
(* k-th of them takes the k-th largest free letter, if there is one.       *)
NewRegions(m, present) ==
  {r \in Discovered(present) :
     \A t \in Configured(m) : ~SameRawRegion(t, ScanName[r], present)}

(* The new volumes ahead of region r that also need a letter. *)
AheadOf(m, present, preferred, r) ==
  {q \in NewRegions(m, present) :
     preferred[ScanName[q]] = None /\ ScanRank[q] < ScanRank[r]}

LetterChoiceByDrivesOnly(m, present, preferred, inUse, r) ==  \* mutant: saved letters ignored
  LET free == Letter \ inUse
  IN  {l \in free : Cardinality({x \in free : x > l}) = Cardinality(AheadOf(m, present, preferred, r))}

LetterChoiceOneTooFar(m, present, preferred, inUse, r) ==  \* mutant: starts past Z
  LET free == {l + 1 : l \in Letter} \ (inUse \cup ConfigLetters(m))
  IN  {l \in free : Cardinality({x \in free : x > l}) = Cardinality(AheadOf(m, present, preferred, r))}

LetterChoice(m, present, preferred, inUse, r) ==
  LET free == Letter \ (inUse \cup ConfigLetters(m))
  IN  {l \in free : Cardinality({x \in free : x > l}) = Cardinality(AheadOf(m, present, preferred, r))}

(* What the merge adds for a region: the configuration of the worker that  *)
(* runs for it, letter included, or the writable default on a free letter. *)
MergedEntries(m, present, preferred, inUse, r) ==
  IF preferred[ScanName[r]] # None
  THEN {preferred[ScanName[r]]}
  ELSE {[mount |-> l, read_only |-> FALSE, allow_raw_writes |-> TRUE, enabled |-> TRUE] :
          l \in LetterChoice(m, present, preferred, inUse, r)}

MergeDiscovered(m, present, preferred, inUse) ==
  [t \in Target |->
     IF /\ RegionOf[t] \in NewRegions(m, present)
        /\ ScanName[RegionOf[t]] = t
        /\ MergedEntries(m, present, preferred, inUse, RegionOf[t]) # {}
     THEN CHOOSE e \in MergedEntries(m, present, preferred, inUse, RegionOf[t]) : TRUE
     ELSE m[t]]

AutoDiscovery(m, present, preferred, inUse) ==
  MergeDiscovered(CanonicalizeAliases(m, present), present, preferred, inUse)

-----------------------------------------------------------------------------
(* Control requests.  "viaService" requests arrive on the service's local  *)
(* socket; the others are applied by an elevated command line process.     *)

Request ==
       [op : {"add_mount"}, target : Target, mount : Letter,
        read_only : BOOLEAN, allow_raw_writes : BOOLEAN]
  \cup [op : {"remove_mount"}, target : Target]
  \cup [op : {"set_mount"}, target : Target, mount : Letter]
  \cup [op : {"set_enabled"}, target : Target, enabled : BOOLEAN]
  \cup [op : {"set_policy"}, target : Target,
        read_only : BOOLEAN, allow_raw_writes : BOOLEAN]
  \cup [op : {"clear_mounts"}]

AddMountRefused(q, viaService) == viaService /\ q.allow_raw_writes

(* add_mount drops every other entry that holds the requested letter. *)
AddMount(m, q) ==
  [t \in Target |->
     IF t = q.target
     THEN [mount |-> q.mount, read_only |-> q.read_only,
           allow_raw_writes |-> q.allow_raw_writes, enabled |-> TRUE]
     ELSE IF t \in Configured(m) /\ m[t].mount = q.mount THEN None
     ELSE m[t]]

RemoveMount(m, q) == [m EXCEPT ![q.target] = None]

SetMountRefused(m, q, inUse) ==
  \/ m[q.target] = None
  \/ \E t \in Configured(m) \ {q.target} : m[t].mount = q.mount
  \/ m[q.target].mount # q.mount /\ q.mount \in inUse

SetMount(m, q) == [m EXCEPT ![q.target].mount = q.mount]

SetEnabledRefused(m, q) == m[q.target] = None

SetEnabled(m, q) == [m EXCEPT ![q.target].enabled = q.enabled]

(* Over the socket a writable policy for a raw name needs the raw-write    *)
(* flag, and the flag needs an APFS signature on the device right now.     *)
SetPolicyRefused(m, q, viaService, present) ==
  \/ m[q.target] = None
  \/ /\ viaService
     /\ q.target \notin Image
     /\ \/ ~q.read_only /\ ~q.allow_raw_writes
        \/ q.allow_raw_writes /\ RegionOf[q.target] \notin present

SetPolicy(m, q) ==
  [m EXCEPT ![q.target].read_only = q.read_only,
            ![q.target].allow_raw_writes = ~q.read_only /\ q.allow_raw_writes]

(* There is no clear_mounts command on the socket. *)
Refused(m, q, viaService, present, inUse) ==
  CASE q.op = "add_mount"    -> AddMountRefused(q, viaService)
    [] q.op = "remove_mount" -> FALSE
    [] q.op = "set_mount"    -> SetMountRefused(m, q, inUse)
    [] q.op = "set_enabled"  -> SetEnabledRefused(m, q)
    [] q.op = "set_policy"   -> SetPolicyRefused(m, q, viaService, present)
    [] q.op = "clear_mounts" -> viaService

Applied(m, q) ==
  CASE q.op = "add_mount"    -> AddMount(m, q)
    [] q.op = "remove_mount" -> RemoveMount(m, q)
    [] q.op = "set_mount"    -> SetMount(m, q)
    [] q.op = "set_enabled"  -> SetEnabled(m, q)
    [] q.op = "set_policy"   -> SetPolicy(m, q)
    [] q.op = "clear_mounts" -> NoMounts

=============================================================================
