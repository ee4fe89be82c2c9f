----------------------------- MODULE MCMetadata -----------------------------
(***************************************************************************)
(* The instance of Metadata that TLC checks.  "Proof" and "proof" differ   *)
(* in case only, as do "Symlink" and the content-critical "symlink"; "wide"*)
(* is no name for Windows, and "owned" belongs to the file system.         *)
(***************************************************************************)
EXTENDS Metadata, TLC

MCEaName == {"Proof", "proof", "wide", "owned", "Symlink", "symlink"}
MCDirect == MCEaName \ {"wide"}
MCCaseKey == [n \in MCEaName |-> IF n = "Proof" THEN "proof"
                                 ELSE IF n = "Symlink" THEN "symlink" ELSE n]

Plain(n, v) == [name |-> n, aliased |-> FALSE, value |-> v]
Alias(n, v) == [name |-> n, aliased |-> TRUE, value |-> v]

Lists ==
  {<<Plain("Proof", "v")>>, <<Plain("proof", Empty)>>, <<Alias("Proof", None)>>,
   <<Plain("proof", "v"), Plain("Proof", "v")>>,
   <<Alias("wide", None), Plain("owned", None)>>,
   <<Alias("proof", "v"), Alias("wide", None)>>}

NoEas == [n \in MCEaName |-> IF n = "owned" THEN "v" ELSE None]

EmptyFile == [symlink |-> FALSE, mode |-> "default", flags |-> {}, size |-> 0, ea |-> NoEas]

(* An empty file, and one that macOS has given names of all kinds.         *)
Files ==
  {EmptyFile,
   [EmptyFile EXCEPT !.ea["Proof"] = "v", !.ea["proof"] = Empty, !.ea["wide"] = Empty,
                     !.ea["Symlink"] = "v"]}

HandleSymmetry == Permutations(Handle)

=============================================================================
