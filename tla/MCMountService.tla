---------------------------- MODULE MCMountService ----------------------------
(***************************************************************************)
(* The instances of MountService that TLC checks.  Two disks: region "r0"  *)
(* is a disk with one partition at offset 0, known as drive "d0" and as    *)
(* partition "d0p1"; region "r1" is a partition "d1p1" further into a disk.*)
(***************************************************************************)
EXTENDS MountService, TLC

MCTarget    == {"d0", "d0p1", "d1p1"}
MCPartition == {"d0p1", "d1p1"}
MCImage     == {}
MCRegion    == {"r0", "r1"}
MCRegionOf  == [t \in MCTarget |-> IF t = "d1p1" THEN "r1" ELSE "r0"]
MCScanName  == [r \in MCRegion |-> IF r = "r0" THEN "d0p1" ELSE "d1p1"]
MCScanRank  == [r \in MCRegion |-> IF r = "r0" THEN 0 ELSE 1]

NoTable == [t \in MCTarget |-> None]
ReadOnlyOn(l) == [mount |-> l, read_only |-> TRUE, allow_raw_writes |-> FALSE, enabled |-> TRUE]

FreshInstall   == {NoTable}
OnlyAlias      == {[NoTable EXCEPT !["d0"] = ReadOnlyOn(2)]}
WithOldAlias   == {NoTable, [NoTable EXCEPT !["d0"] = ReadOnlyOn(2)]}

PolicyRequests ==
  {[op |-> "set_policy", target |-> t, read_only |-> TRUE, allow_raw_writes |-> FALSE] :
     t \in {"d0p1", "d1p1"}}

SetRequests ==
  PolicyRequests
  \cup {[op |-> "set_mount", target |-> t, mount |-> l] : t \in {"d0p1", "d1p1"}, l \in {1, 2}}
  \cup {[op |-> "set_enabled", target |-> "d0p1", enabled |-> b] : b \in BOOLEAN}

LiveRequests ==
  {[op |-> "set_mount", target |-> "d0p1", mount |-> 1],
   [op |-> "set_enabled", target |-> "d1p1", enabled |-> FALSE]}

NoRequests == {}

NothingUsed == [edit |-> 0, media |-> 0, fault |-> 0, crash |-> 0, stop |-> 0]
Unused == {NothingUsed}

(* Either a crash and a request, or everything but a crash. *)
CrashOrNot ==
  {[NothingUsed EXCEPT !.crash = 1],
   [NothingUsed EXCEPT !.media = 1, !.fault = 1, !.stop = 1]}

(* Either a disk that comes or goes, or a fault and a stop.                *)
MediaOrFault ==
  {[NothingUsed EXCEPT !.media = 1], [NothingUsed EXCEPT !.fault = 1, !.stop = 1]}

PidSymmetry == Permutations(Pid)

=============================================================================
