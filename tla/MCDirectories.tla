---------------------------- MODULE MCDirectories ----------------------------
(***************************************************************************)
(* The instances of Directories that TLC checks.                           *)
(***************************************************************************)
EXTENDS Directories, TLC

MCSorted == <<"A", "a", "b">>

(* "A" and "a" have one key.                                               *)
MCFoldOf == [n \in Name |-> IF n = "A" THEN "a" ELSE n]

Paths ==
  {<<>>, <<"A">>, <<"a">>, <<"b">>, <<"a", "b">>, <<"a", "b", "a">>}

EmptyTree == [i \in Node |-> None]

Dir(parent, name) == [parent |-> parent, name |-> name, directory |-> TRUE]
File(parent, name) == [parent |-> parent, name |-> name, directory |-> FALSE]

(* /a/b/a, which a move of /a into /a/b would cut off.                     *)
Deep == (1 :> Dir(Root, "a")) @@ (2 :> Dir(1, "b")) @@ (3 :> File(2, "a")) @@ EmptyTree

(* /A and /b; when /b is renamed to /a, there are two names of one key.    *)
Flat == (1 :> Dir(Root, "A")) @@ (2 :> Dir(Root, "b")) @@ EmptyTree

(* /a/b and /b, two files of which one can replace the other.              *)
Pair == (1 :> Dir(Root, "a")) @@ (2 :> File(1, "b")) @@ (3 :> File(Root, "b")) @@ EmptyTree

Trees == {Deep, Flat, Pair}

HandleSymmetry == Permutations(Handle)

=============================================================================
