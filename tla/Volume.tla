-------------------------------- MODULE Volume --------------------------------
(***************************************************************************)
(* What an APFS volume stores, as far as the worker's callers can tell,    *)
(* and the one-commit mutations of the writer: the names of a directory,   *)
(* the inodes they stand for and the data of the inodes.  Several names of *)
(* one inode are hard links.                                               *)
(***************************************************************************)
EXTENDS Naturals, FiniteSets

CONSTANTS
  Name,    (* names of files in the directory                               *)
  FoldOf,  (* the case-folded, normalized form of a name                    *)
  Data,    (* contents of files                                             *)
  MaxNode, (* inode numbers run from 1 to here: what the container can hold *)
  None

ASSUME VolumeAssumption ==
  /\ MaxNode \in Nat
  /\ None \notin Data
  /\ None \notin Nat
  /\ None \notin Name
  /\ DOMAIN FoldOf = Name

Node == 1..MaxNode

(* "next" is the next inode number; inode numbers are not used twice. *)
Content == [node : [Name -> Node \cup {None}],
            data : [Node -> Data \cup {None}],
            next : 1..(MaxNode + 1)]

EmptyVolume == [node |-> [n \in Name |-> None], data |-> [i \in Node |-> None], next |-> 1]

Exists(c, n) == c.node[n] # None

DataOf(c, n) == c.data[c.node[n]]

NamesOf(c, i) == {n \in Name : c.node[n] = i}

LinkCount(c, i) == Cardinality(NamesOf(c, i))

(* Names stand for inodes that have data, no other inode has any, and the  *)
(* next inode is a new one.                                                *)
Consistent(c) ==
  \A i \in Node :
    /\ c.data[i] # None <=> NamesOf(c, i) # {}
    /\ c.data[i] # None => i < c.next

Mutation ==
       [op : {"write"}, name : Name, data : Data]
  \cup [op : {"delete"}, name : Name]
  \cup [op : {"rename"}, from : Name, to : Name]
  \cup [op : {"link"}, from : Name, to : Name]

(* Another name of the directory has the same key on the disk. *)
Collides(c, n, except) ==
  \E m \in Name \ except : Exists(c, m) /\ FoldOf[m] = FoldOf[n]

LegalWriteWhenFull(c, n) == TRUE  \* mutant: the container is never full

(* A write that finds no such name inserts it.  Unlike the others it does  *)
(* not look for a name that differs in case only.                          *)
LegalWrite(c, n) == Exists(c, n) \/ c.next \in Node

LegalRenameOver(c, from, to) == Exists(c, from)  \* mutant: no look for the new name

LegalRename(c, from, to) == Exists(c, from) /\ ~Collides(c, to, {from})

LegalLink(c, from, to) == Exists(c, from) /\ ~Collides(c, to, {})

(* The mutations the writer carries out; it refuses the others. *)
Legal(c, m) ==
  CASE m.op = "write"  -> LegalWrite(c, m.name)
    [] m.op = "delete" -> Exists(c, m.name)
    [] m.op = "rename" -> LegalRename(c, m.from, m.to)
    [] m.op = "link"   -> LegalLink(c, m.from, m.to)

(* A write replaces the data of the inode, for all of its names, or makes  *)
(* an inode for a name that is new.                                        *)
Written(c, n, d) ==
  IF Exists(c, n)
  THEN [c EXCEPT !.data[c.node[n]] = d]
  ELSE [node |-> [c.node EXCEPT ![n] = c.next],
        data |-> [c.data EXCEPT ![c.next] = d],
        next |-> c.next + 1]

(* The last name of an inode takes the inode with it. *)
Deleted(c, n) ==
  [c EXCEPT !.node[n] = None,
            !.data[c.node[n]] = IF LinkCount(c, c.node[n]) > 1 THEN @ ELSE None]

Renamed(c, from, to) == [c EXCEPT !.node[from] = None, !.node[to] = c.node[from]]

Linked(c, from, to) == [c EXCEPT !.node[to] = c.node[from]]

Apply(c, m) ==
  CASE m.op = "write"  -> Written(c, m.name, m.data)
    [] m.op = "delete" -> Deleted(c, m.name)
    [] m.op = "rename" -> Renamed(c, m.from, m.to)
    [] m.op = "link"   -> Linked(c, m.from, m.to)

=============================================================================
