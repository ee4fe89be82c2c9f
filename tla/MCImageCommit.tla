---------------------------- MODULE MCImageCommit ----------------------------
(***************************************************************************)
(* The instances of ImageCommit that TLC checks: an image with files "a"   *)
(* and "b", and room for one more inode.                                   *)
(***************************************************************************)
EXTENDS ImageCommit, TLC

MCFoldOf == [n \in Name |-> n]

TwoFiles ==
  [node |-> [n \in Name |-> IF n = "a" THEN 1 ELSE IF n = "b" THEN 2 ELSE None],
   data |-> [i \in Node |-> IF i \in {1, 2} THEN "old" ELSE None],
   next |-> 3]

WriteA == [op |-> "write", name |-> "a", data |-> "new"]
WriteB == [op |-> "write", name |-> "b", data |-> "new"]
DeleteB == [op |-> "delete", name |-> "b"]
RenameAB == [op |-> "rename", from |-> "a", to |-> "b"]
WriteC == [op |-> "write", name |-> "c", data |-> "new"]
LinkAC == [op |-> "link", from |-> "a", to |-> "c"]
ReplaceBbyA == [op |-> "replace", from |-> "a", to |-> "b"]

AllCalls == {WriteA, WriteC, DeleteB, RenameAB, LinkAC, ReplaceBbyA}
WritesOnly == {WriteA, WriteB}

ImageSymmetry == Permutations(Pid) \cup Permutations(Thread)

=============================================================================
