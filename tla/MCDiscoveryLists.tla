--------------------------- MODULE MCDiscoveryLists ---------------------------
(***************************************************************************)
(* Three disks and an image: disk 0 has a partition at offset 0 (drive     *)
(* "d0" and partition "d0p1" are one region), disk 1 a partition "d1p1"    *)
(* further in, disk 2 is an APFS volume without a partition table.         *)
(***************************************************************************)
EXTENDS DiscoveryLists, Functions

MCTarget    == {"d0", "d0p1", "d1p1", "d2", "img"}
MCPartition == {"d0p1", "d1p1"}
MCImage     == {"img"}
MCRegion    == {"r0", "r1", "r2", "ri"}
MCRegionOf  == [d0 |-> "r0", d0p1 |-> "r0", d1p1 |-> "r1", d2 |-> "r2", img |-> "ri"]
MCScanName  == [r0 |-> "d0p1", r1 |-> "d1p1", r2 |-> "d2", ri |-> None]
MCScanRank  == [r0 |-> 0, r1 |-> 1, r2 |-> 2, ri |-> 3]

(* An entry that shows which target it was made for. *)
SavedLetter == [d0 |-> 1, d0p1 |-> 2, d1p1 |-> 3, d2 |-> 4, img |-> 5]
Saved(t) == [target |-> t,
             entry |-> [mount |-> SavedLetter[t], read_only |-> TRUE,
                        allow_raw_writes |-> FALSE, enabled |-> TRUE]]

Running(t) == [target |-> t,
               entry |-> [mount |-> 4, read_only |-> TRUE, allow_raw_writes |-> FALSE,
                          enabled |-> TRUE]]

ListsOf(n) == {[i \in DOMAIN s |-> Saved(s[i])] :
                 s \in {u \in UNION {[1..k -> MCTarget] : k \in 0..n} : IsInjective(u)}}

MCInitialLists   == ListsOf(3)
MCPreferredLists == {<<>>, <<Running("d0p1")>>, <<Running("d2"), Running("d1p1")>>}
MCInUseSets      == {{}, {3}, {4, 5}, {1, 4, 5}}

=============================================================================
