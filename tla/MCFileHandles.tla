---------------------------- MODULE MCFileHandles ----------------------------
(***************************************************************************)
(* The instances of FileHandles that TLC checks: files of up to two bytes. *)
(***************************************************************************)
EXTENDS FileHandles, TLC

MCData == UNION {[1..k -> Byte] : k \in 0..MaxSize}

(* "A" and "a" have one key.                                               *)
MCFoldOf == [n \in Name |-> IF n = "A" THEN "a" ELSE n]

OneFile ==
  [node |-> [n \in Name |-> IF n = "a" THEN 1 ELSE None],
   data |-> [i \in Node |-> IF i = 1 THEN <<1>> ELSE None],
   next |-> 2]

HandleSymmetry == Permutations(Handle)

=============================================================================
