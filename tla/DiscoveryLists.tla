---------------------------- MODULE DiscoveryLists ----------------------------
(***************************************************************************)
(* The list code behind MountPolicy!AutoDiscovery: mounts.json is a list,  *)
(* canonicalizeDiscoveredMountAliases rebuilds it entry by entry and       *)
(* mergeDiscoveredMounts appends to it volume by volume.  The module runs  *)
(* discovery passes over such a list, one round of one of the two loops in *)
(* a step, and compares them with the functions on tables that the model   *)
(* of the service is built from.                                           *)
(***************************************************************************)
EXTENDS MountPolicy, Sequences, FiniteSetsExt

CONSTANTS
  InitialLists,   (* lists mounts.json may hold                             *)
  PreferredLists, (* configurations of the running workers                  *)
  InUseSets,      (* sets of letters that exist on the machine              *)
  MaxPasses       (* bound for TLC                                          *)

(* MountConfig: a target name and its entry. *)
Mount == [target : Target, entry : Entry]

(* add_mount and the start of workers keep target names unique. *)
IsMountList(list) ==
  /\ list \in Seq(Mount)
  /\ \A i, j \in DOMAIN list : list[i].target = list[j].target => i = j

ASSUME ListsAssumption ==
  /\ \A list \in InitialLists \cup PreferredLists : IsMountList(list)
  /\ InUseSets \subseteq SUBSET Letter
  /\ MaxPasses \in Nat
  /\ None \notin Region

VARIABLES
  mounts,     (* the list                                                   *)
  pc,         (* "idle", or the loop the pass is in: "aliases", "volumes"   *)
  work,       (* normalized in the first loop, mounts in the second         *)
  next,       (* the entry at which the first loop stands                   *)
  todo,       (* the discovered regions the second loop has not come to     *)
  used,       (* usedLetters                                                *)
  media,      (* the regions that are readable                              *)
  fresh,      (* history: the last pass saw the disks that are there now    *)
  preferred,
  inUse,
  passes

passVars  == <<work, next, todo, used>>
worldVars == <<media, fresh, preferred, inUse, passes>>
vars == <<mounts, pc, passVars, worldVars>>

(* rawTargetIdentity: None for an image, and for a partition that is not   *)
(* there to be asked.                                                      *)
RawTargetIdentity(t, present) ==
  IF t \in Image \/ ~Recognised(t, present) THEN None ELSE RegionOf[t]

CanonicalDiscoveredTarget(t, present) ==
  IF RenamedByScan(t, present) THEN ScanName[RegionOf[t]] ELSE t

Normalize(m, present) ==
  [target   |-> CanonicalDiscoveredTarget(m.target, present),
   entry    |-> m.entry,
   exact    |-> m.target \in Partition /\ ~RenamedByScan(m.target, present),
   identity |-> RawTargetIdentity(CanonicalDiscoveredTarget(m.target, present), present)]

Duplicates(normalized, c) ==
  {i \in DOMAIN normalized :
     \/ normalized[i].target = c.target
     \/ c.identity # None /\ normalized[i].identity = c.identity}

KeepFirst(normalized, c) ==  \* mutant: the first entry of a region always wins
  IF Duplicates(normalized, c) = {} THEN Append(normalized, c) ELSE normalized

KeepAll(normalized, c) == Append(normalized, c)  \* mutant: duplicates are kept

Keep(normalized, c) ==
  LET dup == Duplicates(normalized, c)
      i   == Min(dup)
  IN  IF dup = {} THEN Append(normalized, c)
      ELSE IF c.exact /\ ~normalized[i].exact THEN [normalized EXCEPT ![i] = c]
      ELSE normalized

UsedDriveLetters(list, letters) == letters \cup {list[i].entry.mount : i \in DOMAIN list}

(* The any_of of mergeDiscoveredMounts: some entry is for the volume t. *)
Listed(list, t, present) ==
  \E i \in DOMAIN list :
    \/ list[i].target = t
    \/ /\ RawTargetIdentity(t, present) # None
       /\ RawTargetIdentity(list[i].target, present) = RawTargetIdentity(t, present)

WorkerOf(workersList, t) == {i \in DOMAIN workersList : workersList[i].target = t}

MergeVolumeAlways(merged, t, present, workersList) ==  \* mutant: what is listed is not looked up
  IF WorkerOf(workersList, t) = {} THEN merged
  ELSE [merged EXCEPT !.list = Append(@, workersList[Min(WorkerOf(workersList, t))])]

(* One volume of the scan: merged.used holds the letters that are taken or *)
(* handed out so far.                                                      *)
MergeVolume(merged, t, present, workersList) ==
  LET free == Letter \ merged.used
  IN  IF Listed(merged.list, t, present) THEN merged
      ELSE IF WorkerOf(workersList, t) # {}
      THEN [merged EXCEPT !.list = Append(@, workersList[Min(WorkerOf(workersList, t))])]
      ELSE IF free = {} THEN merged
      ELSE [list |-> Append(merged.list,
                       [target |-> t,
                        entry |-> [mount |-> Max(free), read_only |-> FALSE,
                                   allow_raw_writes |-> TRUE, enabled |-> TRUE]]),
            used |-> merged.used \cup {Max(free)}]

-----------------------------------------------------------------------------
Init ==
  /\ mounts \in InitialLists
  /\ pc = "idle"
  /\ work = <<>>
  /\ next = 1
  /\ todo = {}
  /\ used = {}
  /\ media \in SUBSET Region
  /\ fresh = FALSE
  /\ preferred \in PreferredLists
  /\ inUse \in InUseSets
  /\ passes = 0

(* A sync: the list of mounts.json is read and the disks are scanned. *)
BeginPass ==
  /\ pc = "idle"
  /\ passes < MaxPasses
  /\ pc' = "aliases"
  /\ UNCHANGED <<mounts, passVars, worldVars>>

(* The loop of canonicalizeDiscoveredMountAliases. *)
NormalizeEntry ==
  /\ pc = "aliases"
  /\ next \in DOMAIN mounts
  /\ work' = Keep(work, Normalize(mounts[next], media))
  /\ next' = next + 1
  /\ UNCHANGED <<mounts, pc, todo, used, worldVars>>

EndAliases ==
  /\ pc = "aliases"
  /\ next \notin DOMAIN mounts
  /\ pc' = "volumes"
  /\ work' = [i \in DOMAIN work |-> [target |-> work[i].target, entry |-> work[i].entry]]
  /\ todo' = Discovered(media)
  /\ used' = UsedDriveLetters(work, inUse)
  /\ UNCHANGED <<mounts, next, worldVars>>

(* The loop of mergeDiscoveredMounts takes the volumes in the order of the *)
(* scan.                                                                   *)
MergeNext ==
  /\ pc = "volumes"
  /\ \E r \in todo :
       LET merged == MergeVolume([list |-> work, used |-> used], ScanName[r], media, preferred)
       IN  /\ \A q \in todo : ScanRank[r] <= ScanRank[q]
           /\ work' = merged.list
           /\ used' = merged.used
           /\ todo' = todo \ {r}
  /\ UNCHANGED <<mounts, pc, next, worldVars>>

(* mounts.json is written when something has changed. *)
EndPass ==
  /\ pc = "volumes"
  /\ todo = {}
  /\ pc' = "idle"
  /\ mounts' = work
  /\ fresh' = TRUE
  /\ passes' = passes + 1
  /\ work' = <<>>
  /\ next' = 1
  /\ used' = {}
  /\ UNCHANGED <<todo, media, preferred, inUse>>

(* A disk arrives or leaves.  What a pass works on is one scan. *)
MediaChanges ==
  /\ pc = "idle"
  /\ fresh
  /\ passes < MaxPasses
  /\ \E r \in Region : media' = IF r \in media THEN media \ {r} ELSE media \cup {r}
  /\ fresh' = FALSE
  /\ UNCHANGED <<mounts, pc, passVars, preferred, inUse, passes>>

Done == passes = MaxPasses /\ UNCHANGED vars

Next == BeginPass \/ NormalizeEntry \/ EndAliases \/ MergeNext \/ EndPass \/ MediaChanges \/ Done

Spec == Init /\ [][Next]_vars

-----------------------------------------------------------------------------
Table(list) ==
  [t \in Target |->
     IF \E i \in DOMAIN list : list[i].target = t
     THEN list[CHOOSE i \in DOMAIN list : list[i].target = t].entry
     ELSE None]

(* The list code computes the functions of MountPolicy: which of several   *)
(* names of a region survives, with whose policy and letter, does not      *)
(* depend on the order of the list.                                        *)
ListsComputeTables ==
  [][EndPass =>
       Table(mounts') = AutoDiscovery(Table(mounts), media, Table(preferred), inUse)]_vars

(* A pass saves the list when it has changed it; a pass over disks that an *)
(* earlier one has seen changes nothing, or mounts.json would be rewritten *)
(* every five seconds.                                                     *)
SecondPassIsIdle == [][EndPass /\ fresh => mounts' = mounts]_vars

(* After a pass no region that is there has two entries, whatever names    *)
(* were saved for it while it was away.                                    *)
OneEntryPerRegion ==
  fresh =>
    \A i, j \in DOMAIN mounts :
      /\ RegionOf[mounts[i].target] = RegionOf[mounts[j].target]
      /\ RegionOf[mounts[i].target] \in media
      => i = j

=============================================================================
