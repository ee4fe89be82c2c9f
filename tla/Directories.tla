----------------------------- MODULE Directories -----------------------------
(***************************************************************************)
(* The tree of directories of a volume, as the callbacks of WinFsp and the *)
(* writer change it, and the listing of a directory in several calls.  The *)
(* worker finds what is there through the reader, which does not tell      *)
(* upper from lower case; the writer looks for the exact names.  What a    *)
(* handle keeps is the path it was opened with and not the inode.          *)
(*                                                                         *)
(* A commit is one step here, and a call that changes nothing is no step.  *)
(* Closing a handle is part of its cleanup.  Abstracted: what files        *)
(* contain (module FileHandles), hard links, white space around names.     *)
(***************************************************************************)
EXTENDS Naturals, Sequences, FiniteSets, SequencesExt

CONSTANTS
  Handle,   (* open files and directories                                    *)
  Name,
  FoldOf,   (* the case-folded, normalized form of a name                    *)
  Sorted,   (* all names, by their folded form first                         *)
  MaxNode,  (* inode numbers run from 1 to here; 0 is the root               *)
  Path,     (* the paths that calls name, sequences of names                 *)
  FirstTrees, (* what the volume may contain at first                        *)
  None

Root == 0
Node == 1..MaxNode
Inode == Node \cup {Root}

Entry == [parent : Inode, name : Name, directory : BOOLEAN]

Tree == [Node -> Entry \cup {None}]

ASSUME DirectoriesAssumption ==
  /\ MaxNode \in Nat
  /\ Path \subseteq Seq(Name)
  /\ None \notin Entry
  /\ None \notin Inode
  /\ None \notin Name
  /\ DOMAIN FoldOf = Name
  /\ Sorted \in Seq(Name)
  /\ \A n \in Name : \E k \in DOMAIN Sorted : Sorted[k] = n

VARIABLES
  tree,  (* the entry of each inode, or None                                 *)
  next,  (* the next inode number; none is used twice                        *)
  ctx,   (* the context of each handle, or None                              *)
  apart  (* history: no two names of a directory have had one key            *)

vars == <<tree, next, ctx, apart>>

-----------------------------------------------------------------------------
(* The tree.                                                               *)

Live(t) == {i \in Node : t[i] # None}

DirectoriesOf(t) == {Root} \cup {i \in Live(t) : t[i].directory}

Children(t, d) == {i \in Live(t) : t[i].parent = d}

Named(t, d, n) == {i \in Children(t, d) : t[i].name = n}

(* The names of a directory that have the key of n on the disk.            *)
Twins(t, d, n) == {i \in Children(t, d) : FoldOf[t[i].name] = FoldOf[n]}

NamesApart(t) ==
  \A i, j \in Live(t) :
    i # j /\ t[i].parent = t[j].parent => FoldOf[t[i].name] # FoldOf[t[j].name]

Position(n) == CHOOSE k \in DOMAIN Sorted : Sorted[k] = n

(* The first one in the order of the records, of one key or of all.        *)
FirstOf(t, S) == CHOOSE i \in S : \A j \in S : Position(t[i].name) <= Position(t[j].name)

(* The directories that a path leads through.  The writer goes by exact    *)
(* names, the reader takes the first of the names of one key.              *)
Above(w, k) == IF k = 1 THEN Root ELSE w[k - 1]

Walks(t, p) ==
  {w \in [1..Len(p) -> DirectoriesOf(t) \ {Root}] :
     \A k \in 1..Len(p) : w[k] \in Named(t, Above(w, k), p[k])}

ReaderWalks(t, p) ==
  {w \in [1..Len(p) -> DirectoriesOf(t) \ {Root}] :
     \A k \in 1..Len(p) :
       LET found == Twins(t, Above(w, k), p[k])
       IN  found # {} /\ w[k] = FirstOf(t, found)}

EndOf(walks, p) ==
  IF walks = {} THEN None ELSE Above(CHOOSE w \in walks : TRUE, Len(p) + 1)

DirectoryAt(t, p) == EndOf(Walks(t, p), p)

ReaderDirectoryAt(t, p) == EndOf(ReaderWalks(t, p), p)

Parent(p) == Front(p)

(* What a path stands for to the worker: an entry of that name or, without *)
(* one, an entry whose name differs in case only.                          *)
Resolve(t, p) ==
  IF p = <<>> THEN Root
  ELSE LET d == ReaderDirectoryAt(t, Parent(p))
       IN  IF d = None \/ Twins(t, d, Last(p)) = {} THEN None
           ELSE IF Named(t, d, Last(p)) # {}
                THEN CHOOSE i \in Named(t, d, Last(p)) : TRUE
                ELSE FirstOf(t, Twins(t, d, Last(p)))

(* Directory d is c or is above it: it is in every set that holds c and    *)
(* the parents of its members.                                             *)
IsOrContainsItself(t, d, c) == d = c  \* mutant: only the directory itself is looked at

IsOrContains(t, d, c) ==
  \A U \in SUBSET (Live(t) \cup {Root}) :
    c \in U /\ (\A i \in U \ {Root} : t[i].parent \in U) => d \in U

(* Every entry is in a directory that is there, and no entries hold each   *)
(* other in a circle: any of them has one whose parent is not of them.     *)
Rooted(t) ==
  /\ \A i \in Live(t) : t[i].parent \in DirectoriesOf(t)
  /\ \A S \in SUBSET Live(t) : S # {} => \E i \in S : t[i].parent \notin S

(* No directory has one exact name twice.                                  *)
NamedOnce(t) ==
  \A i, j \in Live(t) : i # j => <<t[i].parent, t[i].name>> # <<t[j].parent, t[j].name>>

ASSUME FirstTreesAssumption ==
  \A t \in FirstTrees :
    /\ t \in Tree /\ Rooted(t) /\ NamedOnce(t)
    /\ \E k \in 0..MaxNode : Live(t) = 1..k

-----------------------------------------------------------------------------
(* What the writer carries out, given the inodes of the parents.           *)

LegalCreate(t, d, n) == d \in DirectoriesOf(t) /\ Twins(t, d, n) = {} /\ next \in Node

(* A directory that holds anything stays, whatever CanDelete has answered. *)
LegalRemove(t, d, n, directory) ==
  /\ d \in DirectoriesOf(t)
  /\ \E i \in Named(t, d, n) : t[i].directory = directory /\ Children(t, i) = {}

(* Unlike all other changes this one looks for the exact new name only.    *)
LegalMoveDirectory(t, d, n, to, m) ==
  /\ d \in DirectoriesOf(t) /\ to \in DirectoriesOf(t)
  /\ \E i \in Named(t, d, n) :
       /\ t[i].directory
       /\ ~IsOrContains(t, i, to)
       /\ Named(t, to, m) \subseteq {i}

(* A directory with the key of the old name is taken for what is renamed.  *)
LegalMoveFile(t, d, n, to, m) ==
  /\ d \in DirectoriesOf(t) /\ to \in DirectoriesOf(t)
  /\ \E i \in Named(t, d, n) :
       /\ ~t[i].directory
       /\ d # to => \A j \in Twins(t, d, n) : ~t[j].directory
       /\ Twins(t, to, m) \subseteq {i}

Only(S, directory) == CHOOSE i \in S : tree[i].directory = directory

Added(t, d, n, directory) ==
  [t EXCEPT ![next] = [parent |-> d, name |-> n, directory |-> directory]]

NextObjectKept == next  \* mutant: the inode number is given out again

NextObject == next + 1

Removed(t, i) == [t EXCEPT ![i] = None]

Moved(t, i, to, m) == [t EXCEPT ![i] = [parent |-> to, name |-> m, directory |-> @.directory]]

-----------------------------------------------------------------------------
(* Handles.  WinFsp knows an open file by "name", the worker by "path".    *)
(* "exact" is a history: it was opened by the names that are on the disk,  *)
(* upper and lower case told apart.  "listing" is what a handle has read   *)
(* of its directory: the last name (the marker), all names, and as a       *)
(* history those that have been in it from the first call on.              *)

Listing == [marker : Name \cup {None}, seen : SUBSET Name, present : SUBSET Name, ended : BOOLEAN]

Context ==
  [name : Path, path : Path, node : Inode, directory : BOOLEAN, exact : BOOLEAN,
   listing : Listing \cup {None}]

ASSUME NoneIsNoContext == None \notin Context \cup Listing

TypeOK ==
  /\ tree \in Tree
  /\ next \in 1..(MaxNode + 1)
  /\ \A i \in Live(tree) : i < next
  /\ ctx \in [Handle -> Context \cup {None}]
  /\ apart \in BOOLEAN

Exact(t, p) ==
  p # <<>> =>
    /\ DirectoryAt(t, Parent(p)) # None
    /\ Named(t, DirectoryAt(t, Parent(p)), Last(p)) # {}

NewContext(t, p) ==
  LET i == Resolve(t, p)
  IN  [name |-> p, path |-> p, node |-> i, directory |-> i = Root \/ t[i].directory,
       exact |-> Exact(t, p), listing |-> None]

NamesIn(t, d) == {t[i].name : i \in Children(t, d)}

(* The contexts when the tree has become t.                                *)
Watched(c, t) ==
  [h \in Handle |->
     IF c[h] = None \/ c[h].listing = None THEN c[h]
     ELSE [c[h] EXCEPT !.listing.present = @ \cap NamesIn(t, c[h].node)]]

(* WinFsp: nobody else has opened the path, or anything below it.          *)
Unused(h, p) == \A g \in Handle \ {h} : ctx[g] # None => ctx[g].name # p

UnusedBelow(h, p) == \A g \in Handle \ {h} : ctx[g] # None => ~IsStrictPrefix(p, ctx[g].name)

Changes(t) ==
  /\ tree' = t
  /\ apart' = (apart /\ NamesApart(t))

Init ==
  /\ \E t \in FirstTrees : tree = t
  /\ next = Cardinality(Live(tree)) + 1
  /\ ctx = [h \in Handle |-> None]
  /\ apart = NamesApart(tree)

-----------------------------------------------------------------------------
(* The callbacks.                                                          *)

Create(h, p, directory) ==
  LET d == DirectoryAt(tree, Parent(p))
      t == Added(tree, d, Last(p), directory)
  IN  /\ ctx[h] = None
      /\ p # <<>>
      /\ Unused(h, p)
      /\ Resolve(tree, p) = None
      /\ LegalCreate(tree, d, Last(p))
      /\ Changes(t)
      /\ next' = NextObject
      /\ ctx' = Watched([ctx EXCEPT ![h] = IF Resolve(t, p) = None THEN None
                                          ELSE NewContext(t, p)], t)

Open(h, p) ==
  /\ ctx[h] = None
  /\ Unused(h, p)
  /\ Resolve(tree, p) # None
  /\ ctx' = [ctx EXCEPT ![h] = NewContext(tree, p)]
  /\ UNCHANGED <<tree, next, apart>>

(* When the new path stands for nothing after the commit the call fails.   *)
RenamedNotNoted(h, to, t) ==  \* mutant: the context keeps the old path
  Watched([ctx EXCEPT ![h].name = IF Resolve(t, to) = None THEN @ ELSE to], t)

RenamedNoted(h, to, t) ==
  Watched([ctx EXCEPT ![h] =
             IF Resolve(t, to) = None THEN @
             ELSE [NewContext(t, to) EXCEPT !.listing = ctx[h].listing,
                                            !.exact = @ /\ ctx[h].exact]],
          t)

(* A directory replaces nothing.                                           *)
RenameDirectory(h, to) ==
  LET p == ctx[h].name
      d == DirectoryAt(tree, Parent(p))
      e == DirectoryAt(tree, Parent(to))
      t == Moved(tree, Only(Named(tree, d, Last(p)), TRUE), e, Last(to))
  IN  /\ ctx[h] # None /\ ctx[h].directory
      /\ p # <<>> /\ to # <<>> /\ p # to
      /\ Unused(h, to) /\ UnusedBelow(h, p)
      /\ LegalMoveDirectory(tree, d, Last(p), e, Last(to))
      /\ Changes(t)
      /\ ctx' = RenamedNoted(h, to, t)
      /\ UNCHANGED next

Replaces(h, old) == old \notin {None, ctx[h].node}

(* A file that has the new name is deleted first, and is gone when the     *)
(* second commit fails or is refused.                                      *)
RenameFile(h, to, replaceIfExists) ==
  LET p == ctx[h].name
      d == DirectoryAt(tree, Parent(p))
      e == DirectoryAt(tree, Parent(to))
      old == Resolve(tree, to)
      replaces == replaceIfExists /\ Replaces(h, old)
      cleared == IF replaces THEN Removed(tree, Only(Named(tree, e, Last(to)), FALSE)) ELSE tree
      t == Moved(cleared, Only(Named(cleared, d, Last(p)), FALSE), e, Last(to))
  IN  /\ ctx[h] # None /\ ~ctx[h].directory
      /\ to # <<>> /\ p # to
      /\ Unused(h, to)
      /\ replaces => ~tree[old].directory /\ LegalRemove(tree, e, Last(to), FALSE)
      /\ \/ /\ LegalMoveFile(cleared, d, Last(p), e, Last(to))
            /\ Changes(t)
            /\ ctx' = RenamedNoted(h, to, t)
         \/ /\ replaces
            /\ Changes(cleared)
            /\ ctx' = Watched(ctx, cleared)
      /\ UNCHANGED next

(* The last use of a handle.  What CanDelete has answered for a directory  *)
(* may be old by now, and how a deletion ends is only traced.              *)
Cleanup(h, delete) ==
  LET p == ctx[h].path
      d == DirectoryAt(tree, Parent(p))
      closed == [ctx EXCEPT ![h] = None]
  IN  /\ ctx[h] # None
      /\ \/ /\ delete /\ p # <<>>
            /\ LegalRemove(tree, d, Last(p), ctx[h].directory)
            /\ Changes(Removed(tree, Only(Named(tree, d, Last(p)), ctx[h].directory)))
            /\ ctx' = Watched(closed, tree')
         \/ /\ ctx' = closed
            /\ UNCHANGED <<tree, apart>>
      /\ UNCHANGED next

(* One call of ReadDirectory: names after the marker in the worker's       *)
(* order, as many as fit.  Names of the marker's key are passed over.      *)
After(names, marker) ==
  {n \in names : marker # None =>
     FoldOf[n] # FoldOf[marker] /\ Position(n) > Position(marker)}

PagesInDiskOrder(left) ==  \* mutant: the entries are not sorted
  {page \in SUBSET left : page = {} => left = {}}

(* At least one name fits.                                                 *)
Pages(left) ==
  {page \in SUBSET left :
     /\ page = {} => left = {}
     /\ \A n \in page, m \in left \ page : Position(n) < Position(m)}

LastOf(page) == CHOOSE n \in page : \A m \in page : Position(m) <= Position(n)

ReadDirectory(h) ==
  LET d == ReaderDirectoryAt(tree, ctx[h].path)
      so == IF ctx[h].listing # None THEN ctx[h].listing
            ELSE [marker |-> None, seen |-> {}, present |-> NamesIn(tree, d), ended |-> FALSE]
      left == After(NamesIn(tree, d), so.marker)
  IN  /\ ctx[h] # None /\ ctx[h].directory
      /\ d # None
      /\ ~so.ended
      /\ \E page \in Pages(left) :
           ctx' = [ctx EXCEPT ![h].listing =
                [so EXCEPT !.seen = @ \cup page,
                           !.marker = IF page = {} THEN @ ELSE LastOf(page),
                           !.ended = page = left]]
      /\ UNCHANGED <<tree, next, apart>>

Next ==
  \E h \in Handle :
    \/ \E p \in Path :
         \/ \E directory \in BOOLEAN : Create(h, p, directory)
         \/ Open(h, p)
         \/ RenameDirectory(h, p)
         \/ \E replaceIfExists \in BOOLEAN : RenameFile(h, p, replaceIfExists)
    \/ \E delete \in BOOLEAN : Cleanup(h, delete)
    \/ ReadDirectory(h)

Spec == Init /\ [][Next]_vars

-----------------------------------------------------------------------------
(* Properties.                                                             *)

(* Every entry can be reached from the root and none is there twice,       *)
(* whatever is moved into what, and removed after something came into it.  *)
TreeInv == Rooted(tree) /\ NamedOnce(tree)

(* As long as names of one key are apart, a handle that was opened by the  *)
(* names on the disk removes and moves what it was opened on, and besides  *)
(* at most a file that it replaces, although it knows a path only.         *)
OnlyWhatWasOpened ==
  [][\A h \in Handle : apart' /\ ctx[h] # None /\ ctx[h].exact =>
       \A i \in Live(tree) : tree'[i] # tree[i] /\ i # ctx[h].node =>
         /\ ctx'[h] # None
         /\ ctx'[h].name # ctx[h].name => tree'[i] = None /\ ~tree[i].directory]_vars

(* As long as names of one key are apart, an enumeration that has ended    *)
(* has shown all names that were there from its first call on, if its      *)
(* handle was opened by the names on the disk.                             *)
ListsWhatStays ==
  \A h \in Handle :
    apart /\ ctx[h] # None /\ ctx[h].exact /\ ctx[h].listing # None /\ ctx[h].listing.ended =>
      ctx[h].listing.present \subseteq ctx[h].listing.seen

=============================================================================
