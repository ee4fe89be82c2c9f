--------------------------- MODULE DirectoriesProofs ---------------------------
(***************************************************************************)
(* That the directory tree stays a tree, that a path which a handle keeps  *)
(* leads to what the handle was opened on, and that an enumeration misses  *)
(* nothing that stays, for any number of handles, names, paths and inodes  *)
(* and whatever trees the volume holds at first.                           *)
(*                                                                         *)
(* For each kind of change one lemma says that it keeps a tree sound when  *)
(* the writer's checks have passed, whatever inodes the worker has found.  *)
(* Then come paths: what leads where, and what each change does to it.     *)
(* Then the handles, one lemma for each callback, and the theorems.        *)
(***************************************************************************)
EXTENDS Directories, FiniteSetTheorems, WellFoundedInduction, SequenceTheorems, TLAPS

Sound(t) == t \in Tree /\ Rooted(t) /\ NamedOnce(t)

-----------------------------------------------------------------------------
(* The changes of a tree.                                                  *)

(* The root is no entry, and None no inode.                                *)
LEMMA InodeFacts == Root \notin Node /\ None \notin Inode
BY DirectoriesAssumption DEF Root, Node, Inode

(* The fields of an entry have their types.                                *)
LEMMA EntryOf ==
  ASSUME NEW t \in Tree, NEW i \in Live(t)
  PROVE  i \in Node /\ t[i] \in Entry /\ t[i].parent \in Inode /\ t[i].name \in Name
         /\ t[i].directory \in BOOLEAN
BY DEF Tree, Live, Entry

(* A new entry under a name that its directory does not have. *)
LEMMA AddedSound ==
  ASSUME NEW t, Sound(t), next \in Node, next \notin Live(t),
         NEW d \in DirectoriesOf(t), NEW n \in Name, Twins(t, d, n) = {},
         NEW directory \in BOOLEAN
  PROVE  Sound(Added(t, d, n, directory)) /\ Live(Added(t, d, n, directory)) = Live(t) \cup {next}
<1> DEFINE e == [parent |-> d, name |-> n, directory |-> directory]
           u == Added(t, d, n, directory)
<1> USE DirectoriesAssumption
<1>1. d \in Inode /\ d # next
  BY InodeFacts DEF Sound, DirectoriesOf, Live, Inode
<1>2. e \in Entry
  BY <1>1 DEF Entry
<1>3. u = [t EXCEPT ![next] = e]
  BY DEF Added
<1>4. e # None /\ e.parent = d /\ e.name = n /\ e.directory = directory
  BY <1>2
<1> HIDE DEF e, u
<1>5. u \in Tree /\ u[next] = e /\ \A i \in Node \ {next} : u[i] = t[i]
  BY <1>2, <1>3 DEF Tree, Sound
<1>6. Live(u) = Live(t) \cup {next}
  BY <1>4, <1>5 DEF Live
<1>7. DirectoriesOf(t) \subseteq DirectoriesOf(u)
  BY <1>5, <1>6 DEF DirectoriesOf, Live
<1>8. \A i \in Live(t) : i # next /\ u[i] = t[i] /\ t[i].parent \in DirectoriesOf(t)
  BY <1>5 DEF Sound, Rooted, Live
<1>9. Rooted(u)
  <2>1. \A i \in Live(u) : u[i].parent \in DirectoriesOf(u)
    BY <1>4, <1>5, <1>6, <1>7, <1>8
  <2>2. ASSUME NEW S \in SUBSET Live(u), S # {}
        PROVE  \E i \in S : u[i].parent \notin S
    <3>1. CASE S \subseteq {next}
      BY <1>1, <1>4, <1>5, <2>2, <3>1
    <3>2. CASE ~(S \subseteq {next})
      <4>1. PICK i \in S \ {next} : t[i].parent \notin S \ {next}
        BY <1>6, <2>2, <3>2 DEF Sound, Rooted
      <4>2. t[i].parent # next
        BY <1>6, <1>8, <4>1, InodeFacts DEF DirectoriesOf
      <4> QED
        BY <1>6, <1>8, <4>1, <4>2
    <3> QED
      BY <3>1, <3>2
  <2> QED
    BY <2>1, <2>2 DEF Rooted
<1>10. NamedOnce(u)
  <2>1. \A i \in Live(t) : ~(t[i].parent = d /\ t[i].name = n)
    BY DEF Twins, Children
  <2> QED
    BY <1>4, <1>5, <1>6, <1>8, <2>1 DEF NamedOnce, Sound
<1> QED
  BY <1>5, <1>6, <1>9, <1>10 DEF Sound, u

(* An entry that nothing is in is taken out. *)
LEMMA RemovedSound ==
  ASSUME NEW t, Sound(t), NEW i \in Live(t), Children(t, i) = {}
  PROVE  Sound(Removed(t, i)) /\ Live(Removed(t, i)) = Live(t) \ {i}
         /\ \A j \in Live(t) \ {i} : Removed(t, i)[j] = t[j]
<1> DEFINE u == Removed(t, i)
<1> USE DirectoriesAssumption
<1>1. u = [t EXCEPT ![i] = None]
  BY DEF Removed
<1> HIDE DEF u
<1>2. u \in Tree /\ u[i] = None /\ \A j \in Node \ {i} : u[j] = t[j]
  BY <1>1 DEF Tree, Sound, Live
<1>3. Live(u) = Live(t) \ {i}
  BY <1>2 DEF Live
<1>4. \A j \in Live(u) : u[j] = t[j] /\ t[j].parent \in DirectoriesOf(t) /\ t[j].parent # i
  BY <1>2, <1>3 DEF Sound, Rooted, Children, Live
<1>5. \A k \in DirectoriesOf(t) \ {i} : k \in DirectoriesOf(u)
  BY <1>2, <1>3 DEF DirectoriesOf, Live
<1>6. Rooted(u)
  <2>1. \A j \in Live(u) : u[j].parent \in DirectoriesOf(u)
    BY <1>4, <1>5
  <2>2. ASSUME NEW S \in SUBSET Live(u), S # {}
        PROVE  \E j \in S : u[j].parent \notin S
    BY <1>3, <1>4, <2>2 DEF Sound, Rooted
  <2> QED
    BY <2>1, <2>2 DEF Rooted
<1>7. NamedOnce(u)
  BY <1>3, <1>4 DEF NamedOnce, Sound
<1> QED
  BY <1>2, <1>3, <1>4, <1>6, <1>7 DEF Sound, u

(* What a move of an entry to a free name changes. *)
LEMMA MovedFacts ==
  ASSUME NEW t, Sound(t), NEW i \in Live(t), NEW to \in DirectoriesOf(t), NEW m \in Name,
         Named(t, to, m) \subseteq {i}
  PROVE  LET u == Moved(t, i, to, m)
         IN  /\ u \in Tree /\ Live(u) = Live(t) /\ DirectoriesOf(u) = DirectoriesOf(t)
             /\ \A j \in Live(t) : u[j].parent = IF j = i THEN to ELSE t[j].parent
             /\ NamedOnce(u)
<1> DEFINE u == Moved(t, i, to, m)
           e == [parent |-> to, name |-> m, directory |-> t[i].directory]
<1> USE DirectoriesAssumption
<1>0. i \in Node /\ t[i] \in Entry /\ t \in [Node -> Entry \cup {None}]
  BY EntryOf DEF Sound, Tree
<1>1. e \in Entry /\ e # None
  BY <1>0 DEF Entry, DirectoriesOf, Inode, Live
<1>2. u = [t EXCEPT ![i] = e]
  BY <1>0 DEF Moved
<1>3. e.parent = to /\ e.name = m /\ e.directory = t[i].directory
  OBVIOUS
<1> HIDE DEF e, u
<1>4. u \in Tree /\ u[i] = e /\ \A j \in Node \ {i} : u[j] = t[j]
  BY <1>0, <1>1, <1>2 DEF Tree
<1>5. Live(u) = Live(t)
  BY <1>0, <1>1, <1>4 DEF Live
<1>6. DirectoriesOf(u) = DirectoriesOf(t)
  BY <1>3, <1>4, <1>5 DEF DirectoriesOf, Live
<1>7. \A j \in Live(t) : u[j].parent = IF j = i THEN to ELSE t[j].parent
  BY <1>3, <1>4 DEF Live
<1>8. NamedOnce(u)
  <2>1. \A j \in Live(t) \ {i} : ~(t[j].parent = to /\ t[j].name = m) /\ u[j] = t[j]
    BY <1>4 DEF Named, Children, Live
  <2> QED
    BY <1>3, <1>4, <1>5, <2>1 DEF NamedOnce, Sound
<1> QED
  BY <1>4, <1>5, <1>6, <1>7, <1>8 DEF u

(* A directory goes anywhere but into itself or below itself. *)
LEMMA MovedDirectorySound ==
  ASSUME NEW t, Sound(t), NEW i \in Live(t), NEW to \in DirectoriesOf(t), NEW m \in Name,
         Named(t, to, m) \subseteq {i}, ~IsOrContains(t, i, to)
  PROVE  Sound(Moved(t, i, to, m)) /\ Live(Moved(t, i, to, m)) = Live(t)
<1> DEFINE u == Moved(t, i, to, m)
<1>1. /\ u \in Tree /\ Live(u) = Live(t) /\ DirectoriesOf(u) = DirectoriesOf(t)
      /\ \A j \in Live(t) : u[j].parent = IF j = i THEN to ELSE t[j].parent
      /\ NamedOnce(u)
  BY MovedFacts
<1> HIDE DEF u
<1>2. PICK U \in SUBSET (Live(t) \cup {Root}) :
        to \in U /\ i \notin U /\ \A j \in U \ {Root} : t[j].parent \in U
  BY DEF IsOrContains
<1>3. ASSUME NEW S \in SUBSET Live(u), S # {}
      PROVE  \E j \in S : u[j].parent \notin S
  <2>1. CASE i \notin S
    BY <1>1, <1>3, <2>1 DEF Sound, Rooted
  <2>2. CASE i \in S /\ to \in S
    <3>1. Root \notin S
      BY <1>1, InodeFacts DEF Live
    <3>2. PICK j \in S \cap U : t[j].parent \notin S \cap U
      BY <1>1, <1>2, <2>2 DEF Sound, Rooted
    <3>3. j # i /\ t[j].parent \in U
      BY <1>2, <3>1, <3>2
    <3> QED
      BY <1>1, <3>2, <3>3
  <2>3. CASE i \in S /\ to \notin S
    BY <1>1, <2>3
  <2> QED
    BY <2>1, <2>2, <2>3
<1>4. \A j \in Live(u) : u[j].parent \in DirectoriesOf(u)
  BY <1>1 DEF Sound, Rooted
<1> QED
  BY <1>1, <1>3, <1>4 DEF Sound, Rooted, u

(* A file goes anywhere. *)
LEMMA MovedFileSound ==
  ASSUME NEW t, Sound(t), NEW i \in Live(t), ~t[i].directory,
         NEW to \in DirectoriesOf(t), NEW m \in Name, Named(t, to, m) \subseteq {i}
  PROVE  Sound(Moved(t, i, to, m)) /\ Live(Moved(t, i, to, m)) = Live(t)
<1> DEFINE u == Moved(t, i, to, m)
<1>1. /\ u \in Tree /\ Live(u) = Live(t) /\ DirectoriesOf(u) = DirectoriesOf(t)
      /\ \A j \in Live(t) : u[j].parent = IF j = i THEN to ELSE t[j].parent
      /\ NamedOnce(u)
  BY MovedFacts
<1> HIDE DEF u
<1>2. \A j \in Live(t) : u[j].parent \in DirectoriesOf(t) /\ u[j].parent # i
  BY <1>1, InodeFacts DEF Sound, Rooted, DirectoriesOf, Live
<1>3. ASSUME NEW S \in SUBSET Live(u), S # {}
      PROVE  \E j \in S : u[j].parent \notin S
  <2>1. CASE S \subseteq {i}
    BY <1>1, <1>2, <1>3, <2>1
  <2>2. CASE ~(S \subseteq {i})
    <3>1. PICK j \in S \ {i} : t[j].parent \notin S \ {i}
      BY <1>1, <2>2 DEF Sound, Rooted
    <3> QED
      BY <1>1, <1>2, <3>1
  <2> QED
    BY <2>1, <2>2
<1> QED
  BY <1>1, <1>2, <1>3 DEF Sound, Rooted, u

-----------------------------------------------------------------------------
(* Paths.  An inode of a sound tree has one path, and a path of exact      *)
(* names leads to one inode.                                               *)

(* A set of numbers that is not empty has a smallest one.                  *)
LEMMA SmallestNat ==
  ASSUME NEW S \in SUBSET Nat, S # {}
  PROVE  \E x \in S : \A y \in S : x <= y
<1> DEFINE R == OpToRel(<, Nat)
<1>1. IsWellFoundedOn(R, Nat)
  BY NatLessThanWellFounded
<1>2. \A x, y \in Nat : x < y => <<x, y>> \in R
  BY DEF OpToRel
<1> HIDE DEF R
<1>3. PICK x \in S : \A y \in S : ~(<<y, x>> \in R)
  BY <1>1, WFMin
<1>4. \A y \in S : y \in Nat /\ x \in Nat /\ ~(y < x)
  BY <1>2, <1>3
<1> QED
  BY <1>4

(* The entries that a path leads through by exact names, the last one of   *)
(* any kind.                                                               *)
Chains(t, p) ==
  {w \in [1..Len(p) -> Live(t)] :
     \A k \in 1..Len(p) : w[k] \in Named(t, Above(w, k), p[k])}

Leads(t, p, i) == \E w \in Chains(t, p) : Above(w, Len(p) + 1) = i

(* Above an entry of a chain is the one before it.                         *)
LEMMA AboveFacts ==
  ASSUME NEW w, NEW k \in Nat \ {0}, NEW l \in Nat, l = k + 1
  PROVE  Above(w, l) = w[k]
BY DEF Above

(* Above the first one is the root.                                        *)
LEMMA AboveFirst ==
  ASSUME NEW w
  PROVE  Above(w, 1) = Root
BY DEF Above

(* Each entry of a chain is in the one above it.                           *)
LEMMA ChainFacts ==
  ASSUME NEW t, Sound(t), NEW p \in Seq(Name), NEW w \in Chains(t, p), NEW k \in 1..Len(p)
  PROVE  /\ w[k] \in Live(t) /\ t[w[k]].parent = Above(w, k) /\ t[w[k]].name = p[k]
         /\ Above(w, k) \in DirectoriesOf(t)
BY DEF Chains, Named, Children, Sound, Rooted

(* There is one chain for a path, since no directory has a name twice.     *)
LEMMA OneChain ==
  ASSUME NEW t, Sound(t), NEW p \in Seq(Name), NEW w \in Chains(t, p), NEW v \in Chains(t, p)
  PROVE  w = v
<1> DEFINE S == {k \in 1..Len(p) : w[k] # v[k]}
<1>1. CASE S = {}
  BY <1>1 DEF Chains
<1>2. CASE S # {}
  <2>1. S \in SUBSET Nat
    OBVIOUS
  <2>2. PICK k \in S : \A j \in S : k <= j
    BY <1>2, <2>1, SmallestNat
  <2>3. Above(w, k) = Above(v, k)
    <3>1. CASE k = 1
      BY <3>1 DEF Above
    <3>2. CASE k # 1
      <4>1. k - 1 \in 1..Len(p) /\ k - 1 \notin S
        BY <2>2, <3>2
      <4> QED
        BY <3>2, <4>1 DEF Above
    <3> QED
      BY <3>1, <3>2
  <2>4. t[w[k]].parent = t[v[k]].parent /\ t[w[k]].name = t[v[k]].name
        /\ w[k] \in Live(t) /\ v[k] \in Live(t)
    BY <2>2, <2>3, ChainFacts
  <2> QED
    BY <2>2, <2>4 DEF Sound, NamedOnce
<1> QED
  BY <1>1, <1>2

(* Two ways up from one entry are one way.                                 *)
LEMMA OneWayUp ==
  ASSUME NEW t, Sound(t), NEW p \in Seq(Name), NEW q \in Seq(Name),
         NEW w \in Chains(t, p), NEW v \in Chains(t, q), NEW j \in 0..Len(p),
         Above(w, j + 1) = Above(v, Len(q) + 1)
  PROVE  j = Len(q) /\ \A k \in 1..j : p[k] = q[k]
<1> DEFINE l == Len(q)
           S == {n \in Nat : n <= j /\ n <= l /\ Above(w, j + 1 - n) # Above(v, l + 1 - n)}
<1>0. l \in Nat /\ Len(p) \in Nat
  OBVIOUS
<1> HIDE DEF l
<1>1. S = {}
  <2>1. SUFFICES ASSUME S # {} PROVE FALSE
    OBVIOUS
  <2>2. PICK n \in S : \A m \in S : n <= m
    BY <2>1, SmallestNat
  <2>3. n # 0
    BY <2>2, <1>0 DEF l
  <2>4. n - 1 \in Nat /\ n - 1 \notin S
    BY <2>2, <2>3
  <2>5. Above(w, j + 1 - (n - 1)) = Above(v, l + 1 - (n - 1))
    BY <2>2, <2>4, <1>0
  <2>6. j + 1 - n \in 1..Len(p) /\ l + 1 - n \in 1..Len(q)
    BY <2>2, <2>3, <1>0 DEF l
  <2>7. w[j + 1 - n] = v[l + 1 - n]
    <3>1. j + 1 - (n - 1) = (j + 1 - n) + 1 /\ l + 1 - (n - 1) = (l + 1 - n) + 1
      BY <2>2, <1>0
    <3> QED
      BY <2>5, <2>6, <3>1, AboveFacts, <1>0
  <2> QED
    BY <2>2, <2>6, <2>7, ChainFacts
<1>2. ~(j < l)
  <2>1. SUFFICES ASSUME j < l PROVE FALSE
    OBVIOUS
  <2>2. Above(w, 1) = Above(v, l + 1 - j)
    <3>1. j \notin S
      BY <1>1
    <3>2. j + 1 - j = 1 /\ j \in Nat /\ j <= l
      BY <2>1, <1>0
    <3> QED
      BY <3>1, <3>2
  <2>3. l - j \in 1..Len(q) /\ l + 1 - j = (l - j) + 1
    BY <2>1, <1>0 DEF l
  <2>4. v[l - j] = Root
    BY <2>2, <2>3, AboveFacts, AboveFirst, <1>0
  <2> QED
    BY <2>3, <2>4, ChainFacts, InodeFacts DEF Live
<1>3. ~(l < j)
  <2>1. SUFFICES ASSUME l < j PROVE FALSE
    OBVIOUS
  <2>2. Above(w, j + 1 - l) = Above(v, 1)
    <3>1. l \notin S
      BY <1>1
    <3>2. l + 1 - l = 1 /\ l \in Nat /\ l <= j
      BY <2>1, <1>0
    <3> QED
      BY <3>1, <3>2
  <2>3. j - l \in 1..Len(p) /\ j + 1 - l = (j - l) + 1
    BY <2>1, <1>0
  <2>4. w[j - l] = Root
    BY <2>2, <2>3, AboveFacts, AboveFirst, <1>0
  <2> QED
    BY <2>3, <2>4, ChainFacts, InodeFacts DEF Live
<1>4. j = l
  BY <1>0, <1>2, <1>3
<1>5. ASSUME NEW k \in 1..j
      PROVE  p[k] = q[k]
  <2>1. j - k \in Nat /\ j - k <= j /\ j + 1 - (j - k) = k + 1 /\ l + 1 - (j - k) = k + 1
    BY <1>0, <1>4
  <2>2. Above(w, k + 1) = Above(v, k + 1)
    <3>1. j - k \notin S
      BY <1>1
    <3> QED
      BY <2>1, <3>1, <1>4
  <2>3. k \in 1..Len(p) /\ k \in 1..Len(q) /\ k + 1 \in Nat /\ k \in Nat \ {0}
    BY <1>0, <1>4 DEF l
  <2>4. Above(w, k + 1) = w[k] /\ Above(v, k + 1) = v[k]
    BY <2>3, AboveFacts
  <2> QED
    BY <2>2, <2>3, <2>4, ChainFacts
<1> QED
  BY <1>4, <1>5 DEF l

(* An inode has one path of exact names.                                   *)
LEMMA OnePath ==
  ASSUME NEW t, Sound(t), NEW p \in Seq(Name), NEW q \in Seq(Name), NEW i,
         Leads(t, p, i), Leads(t, q, i)
  PROVE  p = q
<1>1. PICK w \in Chains(t, p) : Above(w, Len(p) + 1) = i
  BY DEF Leads
<1>2. PICK v \in Chains(t, q) : Above(v, Len(q) + 1) = i
  BY DEF Leads
<1>3. Len(p) \in 0..Len(p)
  OBVIOUS
<1>4. Len(p) = Len(q) /\ \A k \in 1..Len(p) : p[k] = q[k]
  BY <1>1, <1>2, <1>3, OneWayUp
<1> QED
  BY <1>4

(* A path of exact names leads to one inode.                               *)
LEMMA OneInode ==
  ASSUME NEW t, Sound(t), NEW p \in Seq(Name), NEW i, NEW j, Leads(t, p, i), Leads(t, p, j)
  PROVE  i = j
BY OneChain DEF Leads

(* What is on the way down a path is at a prefix of it.                    *)
LEMMA OnTheWay ==
  ASSUME NEW t, Sound(t), NEW p \in Seq(Name), NEW q \in Seq(Name),
         NEW w \in Chains(t, p), NEW k \in 1..Len(p), Leads(t, q, w[k])
  PROVE  IsPrefix(q, p) /\ Len(q) = k
<1>1. PICK v \in Chains(t, q) : Above(v, Len(q) + 1) = w[k]
  BY DEF Leads
<1>2. k \in 0..Len(p) /\ Above(w, k + 1) = Above(v, Len(q) + 1)
  <2>1. k \in Nat \ {0} /\ k + 1 \in Nat
    OBVIOUS
  <2> QED
    BY <1>1, <2>1, AboveFacts
<1>3. k = Len(q) /\ \A j \in 1..k : p[j] = q[j]
  BY <1>1, <1>2, OneWayUp
<1>4. SubSeq(q, 1, Len(q)) = SubSeq(p, 1, Len(q))
  BY <1>3
<1> QED
  BY <1>3, <1>4 DEF IsPrefix

(* A path that is not empty is its parent and a last name.                 *)
LEMMA FrontAndLast ==
  ASSUME NEW p \in Seq(Name), p # <<>>
  PROVE  /\ Len(p) \in Nat \ {0} /\ Parent(p) \in Seq(Name) /\ Len(Parent(p)) = Len(p) - 1
         /\ \A k \in 1..(Len(p) - 1) : Parent(p)[k] = p[k]
         /\ Last(p) = p[Len(p)] /\ Last(p) \in Name
<1>1. Len(p) \in Nat \ {0}
  OBVIOUS
<1>2. \A k \in 1..(Len(p) - 1) : p[k] \in Name
  BY <1>1
<1>3. 1 \in 1..(Len(p) + 1) /\ Len(p) - 1 \in 0..Len(p) /\ Len(p) - 1 \in Nat
  BY <1>1
<1>4. Parent(p) = SubSeq(p, 1, Len(p) - 1)
  BY DEF Parent, Front
<1>5. Parent(p) \in Seq(Name) /\ Len(Parent(p)) = Len(p) - 1
  <2> DEFINE n == Len(p) - 1
  <2>1. n \in Int /\ 1 \in Int /\ n \in Nat /\ \A i \in 1..n : p[i] \in Name
    BY <1>2, <1>3
  <2>2. Parent(p) = SubSeq(p, 1, n)
    BY <1>4
  <2> HIDE DEF n
  <2>3. Parent(p) \in Seq(Name) /\ Len(Parent(p)) = IF 1 <= n THEN n - 1 + 1 ELSE 0
    BY <2>1, <2>2, SubSeqProperties
  <2>4. Len(Parent(p)) = n
    BY <2>1, <2>3
  <2> QED
    BY <2>3, <2>4 DEF n
<1>6. \A k \in 1..(Len(p) - 1) : Parent(p)[k] = p[k]
  BY <1>1, <1>3, <1>4
<1>7. Last(p) = p[Len(p)] /\ Last(p) \in Name
  BY <1>1 DEF Last
<1> QED
  BY <1>1, <1>5, <1>6, <1>7

(* One name more, and one less. *)
LEMMA StepDown ==
  ASSUME NEW t, Sound(t), NEW p \in Seq(Name), p # <<>>, NEW d, Leads(t, Parent(p), d),
         NEW i \in Named(t, d, Last(p))
  PROVE  Leads(t, p, i)
<1> DEFINE n == Len(p)
<1>1. /\ n \in Nat \ {0} /\ Len(Parent(p)) = n - 1
      /\ \A k \in 1..(n - 1) : Parent(p)[k] = p[k]
      /\ Last(p) = p[n]
  BY FrontAndLast
<1> HIDE DEF n
<1>2. PICK w \in Chains(t, Parent(p)) : Above(w, n) = d
  <2>1. n - 1 + 1 = n
    BY <1>1
  <2> QED
    BY <1>1, <2>1 DEF Leads
<1> DEFINE v == [k \in 1..n |-> IF k = n THEN i ELSE w[k]]
<1>3. w \in [1..(n - 1) -> Live(t)]
      /\ \A k \in 1..(n - 1) : w[k] \in Named(t, Above(w, k), p[k])
  BY <1>1 DEF Chains
<1>4. i \in Live(t)
  BY DEF Named, Children
<1>5. v \in [1..n -> Live(t)] /\ v[n] = i /\ \A k \in 1..(n - 1) : v[k] = w[k]
  BY <1>1, <1>3, <1>4
<1> HIDE DEF v
<1>6. \A k \in 1..n : Above(v, k) = Above(w, k)
  BY <1>1, <1>5 DEF Above
<1>7. \A k \in 1..n : v[k] \in Named(t, Above(v, k), p[k])
  <2>1. ASSUME NEW k \in 1..n
        PROVE  v[k] \in Named(t, Above(v, k), p[k])
    <3>1. CASE k = n
      BY <1>1, <1>2, <1>5, <1>6, <3>1
    <3>2. CASE k # n
      <4>1. k \in 1..(n - 1)
        BY <1>1, <3>2
      <4> QED
        BY <1>3, <1>5, <1>6, <4>1
    <3> QED
      BY <3>1, <3>2
  <2> QED
    BY <2>1
<1>8. Above(v, n + 1) = i
  BY <1>1, <1>5, AboveFacts
<1>9. v \in Chains(t, p)
  BY <1>5, <1>7 DEF Chains, n
<1> QED
  BY <1>8, <1>9 DEF Leads, n

(* What a path leads to is in what its parent leads to.                    *)
LEMMA StepUp ==
  ASSUME NEW t, Sound(t), NEW p \in Seq(Name), p # <<>>, NEW i, Leads(t, p, i)
  PROVE  \E d \in DirectoriesOf(t) : Leads(t, Parent(p), d) /\ i \in Named(t, d, Last(p))
<1> DEFINE n == Len(p)
<1>1. /\ n \in Nat \ {0} /\ Len(Parent(p)) = n - 1
      /\ \A k \in 1..(n - 1) : Parent(p)[k] = p[k]
      /\ Last(p) = p[n]
  BY FrontAndLast
<1>2. PICK w \in Chains(t, p) : Above(w, n + 1) = i
  BY DEF Leads
<1>3. w[n] = i /\ n \in 1..Len(p)
  BY <1>1, <1>2, AboveFacts
<1>4. Above(w, n) \in DirectoriesOf(t) /\ i \in Named(t, Above(w, n), p[n])
  BY <1>3, ChainFacts DEF Chains
<1>5. w \in [1..n -> Live(t)] /\ \A k \in 1..n : w[k] \in Named(t, Above(w, k), p[k])
  BY DEF Chains
<1> HIDE DEF n
<1> DEFINE v == [k \in 1..(n - 1) |-> w[k]]
<1>6. v \in [1..(n - 1) -> Live(t)] /\ \A k \in 1..(n - 1) : v[k] = w[k]
  BY <1>1, <1>5
<1> HIDE DEF v
<1>7. \A k \in 1..n : Above(v, k) = Above(w, k)
  BY <1>1, <1>6 DEF Above
<1>8. \A k \in 1..(n - 1) : v[k] \in Named(t, Above(v, k), Parent(p)[k])
  BY <1>1, <1>5, <1>6, <1>7
<1>9. v \in Chains(t, Parent(p))
  BY <1>1, <1>6, <1>8 DEF Chains
<1>10. Above(v, Len(Parent(p)) + 1) = Above(w, n)
  <2>1. Len(Parent(p)) + 1 = n /\ n \in 1..n
    BY <1>1
  <2> QED
    BY <1>7, <2>1
<1> QED
  BY <1>1, <1>4, <1>9, <1>10 DEF Leads

(* The empty path leads to the root only.                                  *)
LEMMA LeadsToRoot ==
  ASSUME NEW t
  PROVE  Leads(t, <<>>, Root) /\ \A i : Leads(t, <<>>, i) => i = Root
<1>1. Len(<<>>) = 0 /\ 1..0 = {}
  OBVIOUS
<1>2. <<>> \in Chains(t, <<>>)
  BY <1>1 DEF Chains
<1>3. \A w : Above(w, 0 + 1) = Root
  BY DEF Above
<1> QED
  BY <1>1, <1>2, <1>3 DEF Leads

(* A path leads to entries, and no other path to the root.                 *)
LEMMA LeadsToInode ==
  ASSUME NEW t, Sound(t), NEW p \in Seq(Name), NEW i, Leads(t, p, i)
  PROVE  i \in Live(t) \cup {Root} /\ (i = Root => p = <<>>)
<1>1. CASE p = <<>>
  BY <1>1, LeadsToRoot
<1>2. CASE p # <<>>
  <2>1. PICK d \in DirectoriesOf(t) : i \in Named(t, d, Last(p))
    BY <1>2, StepUp
  <2> QED
    BY <2>1, InodeFacts DEF Named, Children, Live
<1> QED
  BY <1>1, <1>2

-----------------------------------------------------------------------------
(* The walks of the writer and of the reader.                              *)

(* A walk of the writer is a chain that ends at a directory.               *)
LEMMA WalkIsChain ==
  ASSUME NEW t, Sound(t), NEW p \in Seq(Name)
  PROVE  /\ Walks(t, p) \subseteq Chains(t, p)
         /\ \A w \in Walks(t, p) : Above(w, Len(p) + 1) \in DirectoriesOf(t)
         /\ \A w \in Chains(t, p) : Above(w, Len(p) + 1) \in DirectoriesOf(t) => w \in Walks(t, p)
<1>0. Len(p) \in Nat /\ DirectoriesOf(t) \ {Root} \subseteq Live(t) /\ Root \in DirectoriesOf(t)
  BY DEF DirectoriesOf
<1>1. Walks(t, p) \subseteq Chains(t, p)
  BY <1>0 DEF Walks, Chains
<1>2. ASSUME NEW w \in Walks(t, p)
      PROVE  Above(w, Len(p) + 1) \in DirectoriesOf(t)
  <2>1. w \in [1..Len(p) -> DirectoriesOf(t) \ {Root}]
    BY DEF Walks
  <2>2. CASE Len(p) = 0
    BY <1>0, <2>2 DEF Above
  <2>3. CASE Len(p) # 0
    <3>1. Above(w, Len(p) + 1) = w[Len(p)] /\ Len(p) \in 1..Len(p)
      BY <1>0, <2>3, AboveFacts
    <3> QED
      BY <2>1, <3>1
  <2> QED
    BY <2>2, <2>3
<1>3. ASSUME NEW w \in Chains(t, p), Above(w, Len(p) + 1) \in DirectoriesOf(t)
      PROVE  w \in Walks(t, p)
  <2>1. w \in [1..Len(p) -> Live(t)] /\ \A k \in 1..Len(p) : w[k] \in Named(t, Above(w, k), p[k])
    BY DEF Chains
  <2>2. ASSUME NEW k \in 1..Len(p)
        PROVE  w[k] \in DirectoriesOf(t) \ {Root}
    <3>1. w[k] \in Live(t) /\ w[k] # Root
      BY <2>1, InodeFacts DEF Live
    <3>2. Above(w, k + 1) = w[k]
      BY <1>0, AboveFacts
    <3>3. CASE k = Len(p)
      BY <1>3, <3>1, <3>2, <3>3
    <3>4. CASE k # Len(p)
      <4>1. k + 1 \in 1..Len(p)
        BY <1>0, <3>4
      <4> QED
        BY <3>1, <3>2, <4>1, ChainFacts
    <3> QED
      BY <3>3, <3>4
  <2> QED
    BY <2>1, <2>2 DEF Walks
<1> QED
  BY <1>1, <1>2, <1>3

(* The writer finds the directory that a path leads to ...                 *)
LEMMA DirectoryAtLeads ==
  ASSUME NEW t, Sound(t), NEW p \in Seq(Name), DirectoryAt(t, p) # None
  PROVE  Leads(t, p, DirectoryAt(t, p)) /\ DirectoryAt(t, p) \in DirectoriesOf(t)
<1>1. PICK w \in Walks(t, p) : DirectoryAt(t, p) = Above(w, Len(p) + 1)
  BY DEF DirectoryAt, EndOf
<1> QED
  BY <1>1, WalkIsChain DEF Leads

(* ... if there is one.                                                    *)
LEMMA LeadsDirectoryAt ==
  ASSUME NEW t, Sound(t), NEW p \in Seq(Name), NEW d \in DirectoriesOf(t), Leads(t, p, d)
  PROVE  DirectoryAt(t, p) = d
<1>1. PICK w \in Chains(t, p) : Above(w, Len(p) + 1) = d
  BY DEF Leads
<1>2. w \in Walks(t, p)
  BY <1>1, WalkIsChain
<1>3. PICK v \in Walks(t, p) : DirectoryAt(t, p) = Above(v, Len(p) + 1)
  BY <1>2 DEF DirectoryAt, EndOf
<1>4. v = w
  BY <1>3, OneChain, WalkIsChain
<1> QED
  BY <1>1, <1>3, <1>4

(* Every name has a position, and no two have one.                         *)
LEMMA Positions ==
  ASSUME NEW n \in Name
  PROVE  Position(n) \in 1..Len(Sorted) /\ Len(Sorted) \in Nat /\ Sorted[Position(n)] = n
BY DirectoriesAssumption DEF Position

(* Entries that are there have a first one in the order of the names.      *)
LEMMA FirstOfFacts ==
  ASSUME NEW t \in Tree, NEW S \in SUBSET Live(t), S # {}
  PROVE  FirstOf(t, S) \in S /\ \A j \in S : Position(t[FirstOf(t, S)].name) <= Position(t[j].name)
<1> DEFINE P == {Position(t[i].name) : i \in S}
<1>1. \A i \in S : Position(t[i].name) \in Nat
  BY EntryOf, Positions
<1>2. P \in SUBSET Nat /\ P # {}
  BY <1>1
<1>3. PICK x \in P : \A y \in P : x <= y
  BY <1>2, SmallestNat
<1>4. \E i \in S : \A j \in S : Position(t[i].name) <= Position(t[j].name)
  BY <1>3
<1> HIDE DEF P
<1> QED
  BY <1>4 DEF FirstOf

(* While names of one key are apart, the reader finds what is there under  *)
(* the exact name.                                                         *)
LEMMA OnlyTwin ==
  ASSUME NEW t \in Tree, NamesApart(t), NEW d, NEW n, NEW i \in Named(t, d, n)
  PROVE  /\ Twins(t, d, n) = {i} /\ FirstOf(t, Twins(t, d, n)) = i
         /\ Named(t, d, n) = {i}
<1>1. i \in Live(t) /\ t[i].parent = d /\ t[i].name = n
  BY DEF Named, Children
<1>2. Twins(t, d, n) = {i}
  BY <1>1 DEF Twins, Children, NamesApart
<1>3. FirstOf(t, {i}) = i
  BY <1>1, FirstOfFacts
<1>4. Named(t, d, n) = {i}
  BY <1>2 DEF Named, Twins
<1> QED
  BY <1>2, <1>3, <1>4

(* The reader's walk is the writer's while names of one key are apart.     *)
LEMMA ReaderWalkIsChain ==
  ASSUME NEW t, Sound(t), NamesApart(t), NEW p \in Seq(Name), NEW w \in Chains(t, p),
         NEW v \in ReaderWalks(t, p)
  PROVE  w = v
<1> DEFINE S == {k \in 1..Len(p) : w[k] # v[k]}
<1>0. /\ w \in [1..Len(p) -> Live(t)] /\ DOMAIN v = 1..Len(p)
      /\ \A k \in 1..Len(p) : v[k] = FirstOf(t, Twins(t, Above(v, k), p[k]))
      /\ \A k \in 1..Len(p) : w[k] \in Named(t, Above(w, k), p[k])
      /\ v = [k \in 1..Len(p) |-> v[k]]
  BY DEF Chains, ReaderWalks
<1>1. CASE S = {}
  BY <1>0, <1>1
<1>2. CASE S # {}
  <2>1. S \in SUBSET Nat
    OBVIOUS
  <2>2. PICK k \in S : \A j \in S : k <= j
    BY <1>2, <2>1, SmallestNat
  <2>3. Above(w, k) = Above(v, k)
    <3>1. CASE k = 1
      BY <3>1 DEF Above
    <3>2. CASE k # 1
      <4>1. k - 1 \in 1..Len(p) /\ k - 1 \notin S
        BY <2>2, <3>2
      <4> QED
        BY <3>2, <4>1 DEF Above
    <3> QED
      BY <3>1, <3>2
  <2>4. w[k] \in Named(t, Above(v, k), p[k]) /\ v[k] = FirstOf(t, Twins(t, Above(v, k), p[k]))
    BY <1>0, <2>2, <2>3
  <2> QED
    BY <2>2, <2>4, OnlyTwin DEF Sound
<1> QED
  BY <1>1, <1>2

(* The reader then finds the directory that a path leads to and no other.  *)
LEMMA ReaderAgrees ==
  ASSUME NEW t, Sound(t), NamesApart(t), NEW p \in Seq(Name), NEW i, Leads(t, p, i)
  PROVE  /\ ReaderDirectoryAt(t, p) # None => ReaderDirectoryAt(t, p) = i
         /\ i \in DirectoriesOf(t) => ReaderDirectoryAt(t, p) = i
<1>1. PICK w \in Chains(t, p) : Above(w, Len(p) + 1) = i
  BY DEF Leads
<1>2. ReaderWalks(t, p) # {} => ReaderDirectoryAt(t, p) = i
  <2>1. SUFFICES ASSUME ReaderWalks(t, p) # {} PROVE ReaderDirectoryAt(t, p) = i
    OBVIOUS
  <2>2. PICK v \in ReaderWalks(t, p) : ReaderDirectoryAt(t, p) = Above(v, Len(p) + 1)
    BY <2>1 DEF ReaderDirectoryAt, EndOf
  <2> QED
    BY <1>1, <2>2, ReaderWalkIsChain
<1>3. ReaderDirectoryAt(t, p) # None => ReaderWalks(t, p) # {}
  BY DEF ReaderDirectoryAt, EndOf
<1>4. ASSUME i \in DirectoriesOf(t)
      PROVE  w \in ReaderWalks(t, p)
  <2>1. w \in Walks(t, p)
    BY <1>1, <1>4, WalkIsChain
  <2>2. /\ w \in [1..Len(p) -> DirectoriesOf(t) \ {Root}]
        /\ \A k \in 1..Len(p) : w[k] \in Named(t, Above(w, k), p[k])
    BY <2>1 DEF Walks
  <2>3. ASSUME NEW k \in 1..Len(p)
        PROVE  /\ Twins(t, Above(w, k), p[k]) # {}
               /\ w[k] = FirstOf(t, Twins(t, Above(w, k), p[k]))
    <3>1. w[k] \in Named(t, Above(w, k), p[k]) /\ t \in Tree
      BY <2>2 DEF Sound
    <3>2. Twins(t, Above(w, k), p[k]) = {w[k]} /\ FirstOf(t, Twins(t, Above(w, k), p[k])) = w[k]
      BY <3>1, OnlyTwin
    <3> QED
      BY <3>2
  <2> QED
    BY <2>2, <2>3 DEF ReaderWalks
<1> QED
  BY <1>2, <1>3, <1>4

(* A path stands for the root or an entry.                                 *)
LEMMA ResolveType ==
  ASSUME NEW t \in Tree, NEW p, Resolve(t, p) # None
  PROVE  IF p = <<>> THEN Resolve(t, p) = Root ELSE Resolve(t, p) \in Live(t)
<1>1. CASE p = <<>>
  BY <1>1 DEF Resolve
<1>2. CASE p # <<>>
  <2> DEFINE d == ReaderDirectoryAt(t, Parent(p))
  <2>1. Twins(t, d, Last(p)) \in SUBSET Live(t) /\ Named(t, d, Last(p)) \in SUBSET Live(t)
    BY DEF Twins, Named, Children
  <2>2. Twins(t, d, Last(p)) # {}
    BY <1>2 DEF Resolve
  <2>3. CASE Named(t, d, Last(p)) # {}
    BY <1>2, <2>1, <2>2, <2>3 DEF Resolve
  <2>4. CASE Named(t, d, Last(p)) = {}
    <3>1. Resolve(t, p) = FirstOf(t, Twins(t, d, Last(p)))
      BY <1>2, <2>4 DEF Resolve
    <3> QED
      BY <1>2, <2>1, <2>2, <3>1, FirstOfFacts
  <2> QED
    BY <2>3, <2>4
<1> QED
  BY <1>1, <1>2

(* The worker finds what a path leads to while keys are apart.             *)
LEMMA ResolveLeads ==
  ASSUME NEW t, Sound(t), NamesApart(t), NEW p \in Seq(Name), NEW i, Leads(t, p, i)
  PROVE  Resolve(t, p) = i /\ i # None
<1>1. i # None
  BY LeadsToInode, InodeFacts DEF Live, Inode
<1>2. CASE p = <<>>
  BY <1>1, <1>2, LeadsToRoot DEF Resolve
<1>3. CASE p # <<>>
  <2>1. PICK d \in DirectoriesOf(t) : Leads(t, Parent(p), d) /\ i \in Named(t, d, Last(p))
    BY <1>3, StepUp
  <2>2. ReaderDirectoryAt(t, Parent(p)) = d
    BY <1>3, <2>1, ReaderAgrees, FrontAndLast
  <2>3. d # None
    BY <2>1, InodeFacts DEF DirectoriesOf, Live, Inode
  <2>4. Twins(t, d, Last(p)) = {i} /\ Named(t, d, Last(p)) = {i}
    BY <2>1, OnlyTwin DEF Sound
  <2> QED
    BY <1>1, <1>3, <2>2, <2>3, <2>4 DEF Resolve
<1> QED
  BY <1>2, <1>3

(* A path in the spelling of the disk leads to what it stands for.         *)
LEMMA ExactLeads ==
  ASSUME NEW t, Sound(t), NamesApart(t), NEW p \in Seq(Name), Exact(t, p)
  PROVE  Leads(t, p, Resolve(t, p))
<1>1. CASE p = <<>>
  BY <1>1, LeadsToRoot DEF Resolve
<1>2. CASE p # <<>>
  <2>1. DirectoryAt(t, Parent(p)) # None
        /\ Named(t, DirectoryAt(t, Parent(p)), Last(p)) # {}
    BY <1>2 DEF Exact
  <2>2. PICK i \in Named(t, DirectoryAt(t, Parent(p)), Last(p)) : TRUE
    BY <2>1
  <2>3. Leads(t, p, i)
    BY <1>2, <2>1, <2>2, DirectoryAtLeads, StepDown, FrontAndLast
  <2> QED
    BY <2>3, ResolveLeads
<1> QED
  BY <1>1, <1>2

-----------------------------------------------------------------------------
(* What a change of the tree does to the paths.                            *)

(* A chain stays when its entries do.                                      *)
LEMMA ChainKept ==
  ASSUME NEW t, NEW u, NEW p, NEW w \in Chains(t, p),
         \A k \in 1..Len(p) : w[k] \in Live(u) /\ u[w[k]] = t[w[k]]
  PROVE  w \in Chains(u, p)
BY DEF Chains, Named, Children

(* A new entry leaves all paths as they are.                               *)
LEMMA AddedLeads ==
  ASSUME NEW t, Sound(t), next \in Node, next \notin Live(t), NEW d, NEW n, NEW directory,
         Live(t) \subseteq Live(Added(t, d, n, directory)),
         NEW p \in Seq(Name), NEW i, Leads(t, p, i)
  PROVE  Leads(Added(t, d, n, directory), p, i)
<1> DEFINE u == Added(t, d, n, directory)
<1>1. PICK w \in Chains(t, p) : Above(w, Len(p) + 1) = i
  BY DEF Leads
<1>2. \A k \in Live(t) : u[k] = t[k]
  BY DEF Added, Sound, Tree, Live
<1>3. \A k \in 1..Len(p) : w[k] \in Live(t)
  BY DEF Chains
<1> HIDE DEF u
<1>4. w \in Chains(u, p)
  BY <1>2, <1>3, ChainKept DEF u
<1> QED
  BY <1>1, <1>4 DEF Leads, u

(* The entry on a way that something is below. *)
LEMMA OnTheWayHolds ==
  ASSUME NEW t, Sound(t), NEW p \in Seq(Name), NEW w \in Chains(t, p), NEW k \in 1..Len(p)
  PROVE  \/ k = Len(p) /\ w[k] = Above(w, Len(p) + 1)
         \/ k # Len(p) /\ Children(t, w[k]) # {} /\ w[k] \in DirectoriesOf(t)
<1>1. k + 1 \in Nat /\ k \in Nat \ {0} /\ Len(p) \in Nat
  OBVIOUS
<1>2. Above(w, k + 1) = w[k]
  BY <1>1, AboveFacts
<1>3. CASE k = Len(p)
  BY <1>2, <1>3
<1>4. CASE k # Len(p)
  <2>1. k + 1 \in 1..Len(p)
    BY <1>1, <1>4
  <2>2. w[k + 1] \in Live(t) /\ t[w[k + 1]].parent = w[k] /\ w[k] \in DirectoriesOf(t)
    BY <1>2, <2>1, ChainFacts
  <2> QED
    BY <1>4, <2>2 DEF Children
<1> QED
  BY <1>3, <1>4

(* Deleting an entry leaves the paths to all others as they are.           *)
LEMMA RemovedLeads ==
  ASSUME NEW t, Sound(t), NEW j \in Live(t), Children(t, j) = {},
         NEW p \in Seq(Name), NEW i, Leads(t, p, i), i # j
  PROVE  Leads(Removed(t, j), p, i)
<1> DEFINE u == Removed(t, j)
<1>1. PICK w \in Chains(t, p) : Above(w, Len(p) + 1) = i
  BY DEF Leads
<1>2. Live(u) = Live(t) \ {j} /\ \A k \in Live(t) \ {j} : u[k] = t[k]
  BY RemovedSound
<1>3. \A k \in 1..Len(p) : w[k] \in Live(t) \ {j}
  BY <1>1, OnTheWayHolds, ChainFacts
<1> HIDE DEF u
<1>4. w \in Chains(u, p)
  BY <1>2, <1>3, ChainKept
<1> QED
  BY <1>1, <1>4 DEF Leads, u

(* A move leaves the paths that do not pass the moved entry.               *)
LEMMA MovedLeads ==
  ASSUME NEW t, Sound(t), NEW j \in Live(t), NEW to, NEW m, Live(Moved(t, j, to, m)) = Live(t),
         NEW p \in Seq(Name), NEW w \in Chains(t, p), \A k \in 1..Len(p) : w[k] # j
  PROVE  Leads(Moved(t, j, to, m), p, Above(w, Len(p) + 1))
<1> DEFINE u == Moved(t, j, to, m)
<1>1. \A k \in Live(t) \ {j} : u[k] = t[k]
  BY DEF Moved, Sound, Tree, Live
<1>2. \A k \in 1..Len(p) : w[k] \in Live(t) \ {j}
  BY DEF Chains
<1> HIDE DEF u
<1>3. w \in Chains(u, p)
  BY <1>1, <1>2, ChainKept DEF u
<1> QED
  BY <1>3 DEF Leads, u

(* A closed set of directories holds the whole way to a member.            *)
LEMMA WayInside ==
  ASSUME NEW t, Sound(t), NEW j, NEW e, ~IsOrContains(t, j, e), NEW p \in Seq(Name),
         NEW w \in Chains(t, p), Above(w, Len(p) + 1) = e
  PROVE  \A k \in 1..Len(p) : w[k] # j
<1>1. PICK U \in SUBSET (Live(t) \cup {Root}) :
        e \in U /\ j \notin U /\ \A i \in U \ {Root} : t[i].parent \in U
  BY DEF IsOrContains
<1> DEFINE S == {n \in Nat : n < Len(p) /\ w[Len(p) - n] \notin U}
<1>2. S = {}
  <2>1. SUFFICES ASSUME S # {} PROVE FALSE
    OBVIOUS
  <2>2. PICK n \in S : \A l \in S : n <= l
    BY <2>1, SmallestNat
  <2>3. Len(p) \in Nat /\ Len(p) - n \in 1..Len(p) /\ n \in Nat
    BY <2>2
  <2>4. CASE n = 0
    <3>1. Above(w, Len(p) + 1) = w[Len(p)]
      BY <2>3, <2>4, AboveFacts
    <3> QED
      BY <1>1, <2>2, <2>4, <3>1
  <2>5. CASE n # 0
    <3> DEFINE k == Len(p) - n
    <3>1. n - 1 \notin S /\ n - 1 \in Nat /\ n - 1 < Len(p) /\ Len(p) - (n - 1) = k + 1
      BY <2>2, <2>3, <2>5
    <3>2. w[k + 1] \in U
      BY <3>1
    <3>3. k + 1 \in 1..Len(p) /\ k \in Nat \ {0}
      BY <2>3, <2>5
    <3>4. w[k + 1] # Root /\ t[w[k + 1]].parent = Above(w, k + 1)
      BY <3>3, ChainFacts, InodeFacts DEF Live
    <3>5. Above(w, k + 1) = w[k]
      BY <3>3, AboveFacts
    <3> QED
      BY <1>1, <2>2, <3>2, <3>4, <3>5
  <2> QED
    BY <2>4, <2>5
<1>3. ASSUME NEW k \in 1..Len(p)
      PROVE  w[k] \in U
  <2>1. Len(p) - k \in Nat /\ Len(p) - k < Len(p) /\ Len(p) - (Len(p) - k) = k
    OBVIOUS
  <2>2. Len(p) - k \notin S
    BY <1>2
  <2> QED
    BY <2>1, <2>2
<1> QED
  BY <1>1, <1>3

-----------------------------------------------------------------------------
(* Changes, as those see them who have something else open.                *)

(* What is a directory is not None.                                        *)
LEMMA NoneIsNoDirectory ==
  ASSUME NEW t
  PROVE  None \notin DirectoriesOf(t)
BY InodeFacts DEF DirectoriesOf, Live, Inode

(* The entry that the writer finds is the one the path leads to.           *)
LEMMA ExactEntry ==
  ASSUME NEW t, Sound(t), NEW p \in Seq(Name), p # <<>>,
         DirectoryAt(t, Parent(p)) \in DirectoriesOf(t),
         NEW i \in Named(t, DirectoryAt(t, Parent(p)), Last(p))
  PROVE  Leads(t, p, i) /\ Leads(t, Parent(p), DirectoryAt(t, Parent(p))) /\ i \in Live(t)
<1>1. DirectoryAt(t, Parent(p)) # None
  BY InodeFacts DEF DirectoriesOf, Live, Inode
<1>2. Parent(p) \in Seq(Name)
  BY FrontAndLast
<1>3. Leads(t, Parent(p), DirectoryAt(t, Parent(p)))
  BY <1>1, <1>2, DirectoryAtLeads
<1>4. i \in Live(t)
  BY DEF Named, Children
<1> QED
  BY <1>3, <1>4, StepDown

(* What the changes of the tree do to another path.                        *)
LEMMA KeptByAdding ==
  ASSUME NEW t, Sound(t), next \in Node, next \notin Live(t), NEW d, NEW n, NEW directory,
         Live(Added(t, d, n, directory)) = Live(t) \cup {next},
         NEW p \in Seq(Name), NEW i, Leads(t, p, i)
  PROVE  /\ Leads(Added(t, d, n, directory), p, i)
         /\ i \in DirectoriesOf(Added(t, d, n, directory)) <=> i \in DirectoriesOf(t)
<1>1. Leads(Added(t, d, n, directory), p, i)
  BY AddedLeads
<1>2. i \in Live(t) \cup {Root}
  BY LeadsToInode
<1>3. \A k \in Live(t) : Added(t, d, n, directory)[k] = t[k]
  BY DEF Added, Sound, Tree, Live
<1> QED
  BY <1>1, <1>2, <1>3 DEF DirectoriesOf

LEMMA KeptByRemoving ==
  ASSUME NEW t, Sound(t), NEW j \in Live(t), Children(t, j) = {},
         NEW q \in Seq(Name), Leads(t, q, j),
         NEW p \in Seq(Name), p # q, NEW i, Leads(t, p, i)
  PROVE  /\ Leads(Removed(t, j), p, i)
         /\ i \in DirectoriesOf(Removed(t, j)) <=> i \in DirectoriesOf(t)
<1>1. i # j
  BY OnePath
<1>2. Leads(Removed(t, j), p, i)
  BY <1>1, RemovedLeads
<1>3. i \in Live(t) \cup {Root}
  BY LeadsToInode
<1>4. Live(Removed(t, j)) = Live(t) \ {j} /\ \A k \in Live(t) \ {j} : Removed(t, j)[k] = t[k]
  BY RemovedSound
<1> QED
  BY <1>1, <1>2, <1>3, <1>4 DEF DirectoriesOf

LEMMA KeptByMoving ==
  ASSUME NEW t, Sound(t), NEW j \in Live(t), NEW to \in DirectoriesOf(t), NEW m \in Name,
         Named(t, to, m) \subseteq {j},
         NEW q \in Seq(Name), Leads(t, q, j),
         NEW p \in Seq(Name), p # q, NEW i, Leads(t, p, i),
         ~IsStrictPrefix(q, p) \/ ~t[j].directory
  PROVE  /\ Leads(Moved(t, j, to, m), p, i)
         /\ i \in DirectoriesOf(Moved(t, j, to, m)) <=> i \in DirectoriesOf(t)
<1>1. PICK w \in Chains(t, p) : Above(w, Len(p) + 1) = i
  BY DEF Leads
<1>2. i # j
  BY OnePath
<1>3. ASSUME NEW k \in 1..Len(p), w[k] = j
      PROVE  FALSE
  <2>1. IsPrefix(q, p)
    BY <1>3, OnTheWay
  <2>2. IsStrictPrefix(q, p)
    BY <2>1 DEF IsStrictPrefix
  <2>3. j \in DirectoriesOf(t)
    BY <1>1, <1>2, <1>3, OnTheWayHolds
  <2> QED
    BY <2>2, <2>3, InodeFacts DEF DirectoriesOf, Live
<1>4. Live(Moved(t, j, to, m)) = Live(t) /\ DirectoriesOf(Moved(t, j, to, m)) = DirectoriesOf(t)
  BY MovedFacts
<1>5. Leads(Moved(t, j, to, m), p, i)
  BY <1>1, <1>3, <1>4, MovedLeads
<1> QED
  BY <1>4, <1>5

(* What is moved can be found at its new path. *)
LEMMA MovedThere ==
  ASSUME NEW t, Sound(t), NEW to \in Seq(Name), to # <<>>, NEW j \in Live(t),
         NEW e \in DirectoriesOf(t), Leads(t, Parent(to), e), Named(t, e, Last(to)) \subseteq {j},
         ~IsOrContains(t, j, e) \/ ~t[j].directory,
         Sound(Moved(t, j, e, Last(to)))
  PROVE  Leads(Moved(t, j, e, Last(to)), to, j)
<1> DEFINE u == Moved(t, j, e, Last(to))
<1>1. PICK w \in Chains(t, Parent(to)) : Above(w, Len(Parent(to)) + 1) = e
  BY DEF Leads
<1>2. Parent(to) \in Seq(Name) /\ Last(to) \in Name
  BY FrontAndLast
<1>3. ASSUME NEW k \in 1..Len(Parent(to)), w[k] = j
      PROVE  FALSE
  <2>1. CASE ~IsOrContains(t, j, e)
    BY <1>1, <1>2, <1>3, <2>1, WayInside
  <2>2. CASE ~t[j].directory
    <3>1. j \in DirectoriesOf(t)
      BY <1>1, <1>2, <1>3, OnTheWayHolds
    <3> QED
      BY <2>2, <3>1, InodeFacts DEF DirectoriesOf, Live
  <2> QED
    BY <2>1, <2>2
<1>4. Live(u) = Live(t)
  BY <1>2, MovedFacts
<1>5. Leads(u, Parent(to), e)
  BY <1>1, <1>2, <1>3, <1>4, MovedLeads
<1>6. j \in Named(u, e, Last(to))
  <2>1. u[j] = [parent |-> e, name |-> Last(to), directory |-> t[j].directory]
    BY DEF Moved, Sound, Tree, Live
  <2> QED
    BY <1>4, <2>1 DEF Named, Children
<1> HIDE DEF u
<1> QED
  BY <1>5, <1>6, StepDown DEF u

-----------------------------------------------------------------------------
(* The tree.                                                               *)

(* The numbers that are not given out yet belong to no entry. *)
TreeOK ==
  /\ Sound(tree)
  /\ next \in 1..(MaxNode + 1)
  /\ \A i \in Live(tree) : i < next

(* The volume holds a sound tree at first.                                 *)
LEMMA TreeInit == Init => TreeOK
<1> SUFFICES ASSUME Init PROVE TreeOK
  OBVIOUS
<1>1. tree \in FirstTrees
  BY DEF Init
<1>2. PICK k \in 0..MaxNode : Live(tree) = 1..k
  BY <1>1, FirstTreesAssumption
<1>3. Cardinality(Live(tree)) = k
  BY <1>2, FS_Interval, DirectoriesAssumption
<1>4. next = k + 1
  BY <1>3 DEF Init
<1> QED
  BY <1>1, <1>2, <1>4, FirstTreesAssumption, DirectoriesAssumption DEF TreeOK, Sound

(* A path that is not empty ends with a name. *)
LEMMA LastName ==
  ASSUME NEW p \in Path, p # <<>>
  PROVE  Last(p) \in Name
<1>1. p \in Seq(Name)
  BY DirectoriesAssumption
<1>2. Len(p) \in 1..Len(p)
  BY <1>1
<1> QED
  BY <1>1, <1>2 DEF Last

(* In a sound tree a name and a kind single an entry out. *)
LEMMA OnlyOne ==
  ASSUME Sound(tree), NEW t, t \in Tree, Live(t) \subseteq Live(tree),
         \A j \in Live(t) : t[j] = tree[j],
         NEW d, NEW n, NEW directory,
         NEW i \in Named(t, d, n), t[i].directory = directory
  PROVE  Only(Named(t, d, n), directory) = i
<1>1. \A j \in Named(t, d, n) : j \in Live(tree) /\ tree[j].parent = d /\ tree[j].name = n
  BY DEF Named, Children
<1>2. \A j \in Named(t, d, n) : j = i
  BY <1>1 DEF Sound, NamedOnce
<1>3. tree[i].directory = directory
  BY DEF Named, Children
<1> QED
  BY <1>2, <1>3 DEF Only

(* Each callback keeps the tree sound.                                     *)
LEMMA CreateTree ==
  ASSUME TreeOK, NEW h, NEW p \in Path, NEW directory \in BOOLEAN, Create(h, p, directory)
  PROVE  TreeOK'
<1> DEFINE d == DirectoryAt(tree, Parent(p))
<1>1. /\ p # <<>> /\ LegalCreate(tree, d, Last(p))
      /\ tree' = Added(tree, d, Last(p), directory) /\ next' = next + 1
  BY DEF Create, Changes, NextObject
<1>2. Last(p) \in Name
  BY <1>1, LastName
<1>3. /\ d \in DirectoriesOf(tree) /\ Twins(tree, d, Last(p)) = {} /\ next \in Node
  BY <1>1 DEF LegalCreate
<1>4. next \notin Live(tree)
  BY DEF TreeOK
<1> HIDE DEF d
<1>5. Sound(tree') /\ Live(tree') = Live(tree) \cup {next}
  BY <1>1, <1>2, <1>3, <1>4, AddedSound DEF TreeOK
<1>6. next \in 1..MaxNode /\ Live(tree) \subseteq Node /\ Node \subseteq Nat
  BY <1>3, DirectoriesAssumption DEF Node, Live
<1>7. next' \in 1..(MaxNode + 1)
  BY <1>1, <1>6, DirectoriesAssumption
<1>8. \A i \in Live(tree') : i < next'
  <2>1. next \in Nat /\ next < next' /\ next' \in Nat
    BY <1>1, <1>6, DirectoriesAssumption
  <2>2. \A i \in Live(tree) : i \in Nat /\ i < next
    BY <1>6 DEF TreeOK
  <2> QED
    BY <1>5, <2>1, <2>2
<1> QED
  BY <1>5, <1>7, <1>8 DEF TreeOK

LEMMA RenameDirectoryTree ==
  ASSUME TreeOK, NEW h, NEW to \in Path, RenameDirectory(h, to)
  PROVE  TreeOK'
<1> DEFINE p == ctx[h].name
           d == DirectoryAt(tree, Parent(p))
           e == DirectoryAt(tree, Parent(to))
           i == Only(Named(tree, d, Last(p)), TRUE)
<1>1. /\ to # <<>> /\ LegalMoveDirectory(tree, d, Last(p), e, Last(to))
      /\ tree' = Moved(tree, i, e, Last(to)) /\ next' = next
  BY DEF RenameDirectory, Changes
<1>2. Last(to) \in Name
  BY <1>1, LastName
<1>3. PICK j \in Named(tree, d, Last(p)) :
        tree[j].directory /\ ~IsOrContains(tree, j, e) /\ Named(tree, e, Last(to)) \subseteq {j}
  BY <1>1 DEF LegalMoveDirectory
<1>4. e \in DirectoriesOf(tree)
  BY <1>1 DEF LegalMoveDirectory
<1>5. j \in Live(tree)
  BY <1>3 DEF Named, Children
<1>6. tree[j].directory = TRUE
  BY <1>3, <1>5, EntryOf DEF TreeOK, Sound
<1>7. i = j
  BY <1>6, OnlyOne DEF TreeOK, Sound
<1> HIDE DEF d, e, i, p
<1>8. Sound(tree') /\ Live(tree') = Live(tree)
  BY <1>1, <1>2, <1>3, <1>4, <1>5, <1>7, MovedDirectorySound DEF TreeOK
<1> QED
  BY <1>1, <1>8 DEF TreeOK

LEMMA RenameFileTree ==
  ASSUME TreeOK, NEW h, NEW to \in Path, NEW replaceIfExists \in BOOLEAN,
         RenameFile(h, to, replaceIfExists)
  PROVE  TreeOK'
<1> DEFINE p == ctx[h].name
           d == DirectoryAt(tree, Parent(p))
           e == DirectoryAt(tree, Parent(to))
           old == Resolve(tree, to)
           replaces == replaceIfExists /\ Replaces(h, old)
           o == Only(Named(tree, e, Last(to)), FALSE)
           cleared == IF replaces THEN Removed(tree, o) ELSE tree
           i == Only(Named(cleared, d, Last(p)), FALSE)
<1>1. /\ to # <<>> /\ next' = next
      /\ replaces => LegalRemove(tree, e, Last(to), FALSE)
      /\ \/ /\ LegalMoveFile(cleared, d, Last(p), e, Last(to))
            /\ tree' = Moved(cleared, i, e, Last(to))
         \/ tree' = cleared
  BY DEF RenameFile, Changes
<1>2. Last(to) \in Name
  BY <1>1, LastName
<1>3. /\ Sound(cleared) /\ Live(cleared) \subseteq Live(tree)
      /\ \A j \in Live(cleared) : cleared[j] = tree[j]
  <2>1. CASE ~replaces
    BY <2>1 DEF TreeOK
  <2>2. CASE replaces
    <3>1. PICK j \in Named(tree, e, Last(to)) :
            tree[j].directory = FALSE /\ Children(tree, j) = {}
      BY <1>1, <2>2 DEF LegalRemove
    <3>2. j \in Live(tree)
      BY <3>1 DEF Named, Children
    <3>3. o = j
      BY <3>1, OnlyOne DEF TreeOK, Sound
    <3>4. cleared = Removed(tree, j)
      BY <2>2, <3>3
    <3> HIDE DEF cleared
    <3> QED
      BY <3>1, <3>2, <3>4, RemovedSound DEF TreeOK
  <2> QED
    BY <2>1, <2>2
<1> HIDE DEF replaces, old, o, cleared
<1>4. CASE tree' = cleared
  BY <1>1, <1>3, <1>4 DEF TreeOK
<1>5. CASE LegalMoveFile(cleared, d, Last(p), e, Last(to)) /\ tree' = Moved(cleared, i, e, Last(to))
  <2>1. PICK j \in Named(cleared, d, Last(p)) :
          ~cleared[j].directory /\ Twins(cleared, e, Last(to)) \subseteq {j}
    BY <1>5 DEF LegalMoveFile
  <2>2. e \in DirectoriesOf(cleared)
    BY <1>5 DEF LegalMoveFile
  <2>3. j \in Live(cleared)
    BY <2>1 DEF Named, Children
  <2>4. cleared[j].directory = FALSE
    BY <1>3, <2>1, <2>3, EntryOf DEF Sound
  <2>5. i = j
    BY <1>3, <2>4, OnlyOne DEF TreeOK, Sound
  <2>6. Named(cleared, e, Last(to)) \subseteq {j}
    BY <2>1 DEF Named, Twins
  <2> HIDE DEF d, e, i, p
  <2>7. Sound(tree') /\ Live(tree') = Live(cleared)
    BY <1>2, <1>3, <1>5, <2>1, <2>2, <2>3, <2>5, <2>6, MovedFileSound
  <2> QED
    BY <1>1, <1>3, <2>7 DEF TreeOK
<1> QED
  BY <1>1, <1>4, <1>5

LEMMA CleanupTree ==
  ASSUME TreeOK, NEW h, NEW delete \in BOOLEAN, Cleanup(h, delete)
  PROVE  TreeOK'
<1> DEFINE p == ctx[h].path
           d == DirectoryAt(tree, Parent(p))
           i == Only(Named(tree, d, Last(p)), ctx[h].directory)
<1>1. CASE UNCHANGED tree
  BY <1>1 DEF Cleanup, TreeOK
<1>2. CASE LegalRemove(tree, d, Last(p), ctx[h].directory) /\ tree' = Removed(tree, i)
  <2>1. PICK j \in Named(tree, d, Last(p)) :
          tree[j].directory = ctx[h].directory /\ Children(tree, j) = {}
    BY <1>2 DEF LegalRemove
  <2>2. j \in Live(tree)
    BY <2>1 DEF Named, Children
  <2>3. i = j
    BY <2>1, OnlyOne DEF TreeOK, Sound
  <2>4. Sound(tree') /\ Live(tree') \subseteq Live(tree)
    BY <1>2, <2>1, <2>2, <2>3, RemovedSound DEF TreeOK
  <2>5. next' = next
    BY DEF Cleanup
  <2> QED
    BY <2>4, <2>5 DEF TreeOK
<1> QED
  BY <1>1, <1>2 DEF Cleanup, Changes

(* So does every step.                                                     *)
LEMMA TreeStep == TreeOK /\ [Next]_vars => TreeOK'
<1> SUFFICES ASSUME TreeOK, [Next]_vars PROVE TreeOK'
  OBVIOUS
<1>1. CASE UNCHANGED <<tree, next>>
  BY <1>1 DEF TreeOK
<1>2. CASE Next
  <2>1. PICK h \in Handle :
          \/ \E p \in Path :
               \/ \E directory \in BOOLEAN : Create(h, p, directory)
               \/ Open(h, p)
               \/ RenameDirectory(h, p)
               \/ \E replaceIfExists \in BOOLEAN : RenameFile(h, p, replaceIfExists)
          \/ \E delete \in BOOLEAN : Cleanup(h, delete)
          \/ ReadDirectory(h)
    BY <1>2 DEF Next
  <2>2. CASE \E p \in Path, directory \in BOOLEAN : Create(h, p, directory)
    BY <2>2, CreateTree
  <2>3. CASE \E p \in Path : Open(h, p)
    BY <2>3, <1>1 DEF Open
  <2>4. CASE \E p \in Path : RenameDirectory(h, p)
    BY <2>4, RenameDirectoryTree
  <2>5. CASE \E p \in Path, replaceIfExists \in BOOLEAN : RenameFile(h, p, replaceIfExists)
    BY <2>5, RenameFileTree
  <2>6. CASE \E delete \in BOOLEAN : Cleanup(h, delete)
    BY <2>6, CleanupTree
  <2>7. CASE ReadDirectory(h)
    <3>1. UNCHANGED <<tree, next>>
      BY <2>7 DEF ReadDirectory
    <3> QED
      BY <3>1, <1>1
  <2> QED
    BY <2>1, <2>2, <2>3, <2>4, <2>5, <2>6, <2>7
<1> QED
  BY <1>1, <1>2 DEF vars

-----------------------------------------------------------------------------
(* Handles.                                                                *)

(* Any two handles have two names, and what has no name is the root.       *)
NamesInv ==
  /\ apart => NamesApart(tree)
  /\ \A h \in Handle : ctx[h] # None =>
       ctx[h].path = ctx[h].name /\ (ctx[h].name = <<>> => ctx[h].directory)
  /\ \A g, h \in Handle :
       ctx[g] # None /\ ctx[h] # None /\ g # h => ctx[g].name # ctx[h].name

(* A name leads to what was opened under it.                               *)
OnTheDisk(x, t) ==
  x.exact => Leads(t, x.name, x.node) /\ (x.directory <=> x.node \in DirectoriesOf(t))

PathInv == apart => \A h \in Handle : ctx[h] # None => OnTheDisk(ctx[h], tree)

(* The next call, if there is one, goes on before the name.                *)
ToCome(l, n) ==
  /\ ~l.ended
  /\ l.marker # None => FoldOf[n] # FoldOf[l.marker] /\ Position(n) > Position(l.marker)

ListOK(x, t) ==
  x.exact /\ x.listing # None =>
    /\ x.listing.present \subseteq NamesIn(t, x.node)
    /\ \A n \in x.listing.present \ x.listing.seen : ToCome(x.listing, n)

ListInv == apart => \A h \in Handle : ctx[h] # None => ListOK(ctx[h], tree)

HandlesOK ==
  /\ ctx \in [Handle -> Context \cup {None}] /\ apart \in BOOLEAN
  /\ NamesInv /\ PathInv /\ ListInv

IInv == TreeOK /\ HandlesOK

(* A path is a sequence of names.                                          *)
LEMMA PathIsSeq ==
  ASSUME NEW p \in Path
  PROVE  p \in Seq(Name)
BY DirectoriesAssumption

(* A directory lists names.                                                *)
LEMMA NamesInType ==
  ASSUME NEW t \in Tree, NEW d
  PROVE  NamesIn(t, d) \subseteq Name
BY EntryOf DEF NamesIn, Children

(* The fields of a context have their types.                               *)
LEMMA ContextType ==
  ASSUME NEW x \in Context
  PROVE  /\ x # None /\ x.name \in Path /\ x.path \in Path /\ x.node \in Inode
         /\ x.directory \in BOOLEAN /\ x.exact \in BOOLEAN /\ x.listing \in Listing \cup {None}
BY NoneIsNoContext DEF Context

(* What openContext fills in.                                              *)
LEMMA NewContextFacts ==
  ASSUME NEW t, Sound(t), NEW p \in Path, Resolve(t, p) # None
  PROVE  LET x == NewContext(t, p)
         IN  /\ x \in Context /\ x.name = p /\ x.path = p /\ x.listing = None
             /\ x.exact = Exact(t, p) /\ x.node = Resolve(t, p)
             /\ x.directory <=> x.node \in DirectoriesOf(t)
<1> DEFINE i == Resolve(t, p)
           directory == i = Root \/ t[i].directory
           x == [name |-> p, path |-> p, node |-> i, directory |-> directory,
                 exact |-> Exact(t, p), listing |-> None]
<1>1. i = Root \/ i \in Live(t)
  BY ResolveType DEF Sound
<1>2. i \in Inode
  BY <1>1 DEF Inode, Live
<1>3. directory <=> i \in DirectoriesOf(t)
  BY <1>1, InodeFacts DEF DirectoriesOf, Live
<1>4. Exact(t, p) \in BOOLEAN /\ directory \in BOOLEAN
  BY DEF Exact
<1>5. NewContext(t, p) = x
  BY DEF NewContext
<1> HIDE DEF i, directory
<1>6. x \in Context
  BY <1>2, <1>4 DEF Context
<1>7. /\ x.name = p /\ x.path = p /\ x.listing = None /\ x.exact = Exact(t, p) /\ x.node = i
      /\ x.directory = directory
  OBVIOUS
<1> HIDE DEF x
<1>8. x.directory <=> x.node \in DirectoriesOf(t)
  BY <1>3, <1>7
<1> QED
  BY <1>5, <1>6, <1>7, <1>8 DEF i

(* A new context knows what its name leads to.                             *)
LEMMA NewContextOnTheDisk ==
  ASSUME NEW t, Sound(t), NamesApart(t), NEW p \in Path, Resolve(t, p) # None
  PROVE  OnTheDisk(NewContext(t, p), t)
BY NewContextFacts, ExactLeads, PathIsSeq DEF OnTheDisk

(* Context y is context x after the tree has become t.                     *)
KeptIn(x, y, t) ==
  /\ x = None <=> y = None
  /\ x # None =>
       /\ y.name = x.name /\ y.path = x.path /\ y.node = x.node
       /\ y.directory = x.directory /\ y.exact = x.exact
       /\ x.listing = None <=> y.listing = None
       /\ x.listing # None =>
            /\ y.listing.marker = x.listing.marker
            /\ y.listing.seen = x.listing.seen
            /\ y.listing.ended = x.listing.ended
            /\ y.listing.present = x.listing.present \cap NamesIn(t, x.node)

(* That is so for every handle.                                            *)
LEMMA WatchedFacts ==
  ASSUME NEW c \in [Handle -> Context \cup {None}], NEW t, NEW h \in Handle
  PROVE  Watched(c, t)[h] \in Context \cup {None} /\ KeptIn(c[h], Watched(c, t)[h], t)
<1> DEFINE x == c[h]
           y == Watched(c, t)[h]
           l == [x.listing EXCEPT !.present = @ \cap NamesIn(t, x.node)]
<1>1. CASE x = None \/ x.listing = None
  <2>1. y = x
    BY <1>1 DEF Watched
  <2> QED
    BY <1>1, <2>1 DEF KeptIn
<1>2. CASE x # None /\ x.listing # None
  <2>1. x \in Context /\ x.listing \in Listing
    BY <1>2, ContextType
  <2>2. y = [x EXCEPT !.listing = l]
    BY <1>2 DEF Watched
  <2>3. l \in Listing /\ l # None
    BY <2>1, NoneIsNoContext DEF Listing
  <2>4. /\ l.marker = x.listing.marker /\ l.seen = x.listing.seen /\ l.ended = x.listing.ended
        /\ l.present = x.listing.present \cap NamesIn(t, x.node)
    BY <2>1 DEF Listing
  <2> HIDE DEF l, x
  <2>5. y \in Context /\ y.listing = l
    BY <2>1, <2>2, <2>3 DEF Context
  <2>6. /\ y.name = x.name /\ y.path = x.path /\ y.node = x.node
        /\ y.directory = x.directory /\ y.exact = x.exact
    BY <2>1, <2>2 DEF Context
  <2>7. y # None
    BY <2>5, ContextType
  <2> HIDE DEF y
  <2>8. KeptIn(x, y, t)
    BY <1>2, <2>3, <2>4, <2>5, <2>6, <2>7 DEF KeptIn
  <2> QED
    BY <2>5, <2>8 DEF x, y
<1> QED
  BY <1>1, <1>2

(* A change of the tree through handle h, whose context becomes x.         *)
LEMMA ChangeKeepsHandles ==
  ASSUME IInv, NEW h \in Handle, NEW t, Sound(t), Changes(t),
         NEW x \in Context \cup {None}, ctx' = Watched([ctx EXCEPT ![h] = x], t),
         x # None => x.path = x.name /\ Unused(h, x.name) /\ (x.name = <<>> => x.directory),
         x # None /\ x.listing # None =>
           ctx[h] # None /\ x.listing = ctx[h].listing /\ (x.exact => ctx[h].exact),
         apart' => /\ x # None => OnTheDisk(x, t)
                   /\ \A g \in Handle \ {h} : ctx[g] # None => OnTheDisk(ctx[g], t)
  PROVE  HandlesOK'
<1> DEFINE c == [ctx EXCEPT ![h] = x]
<1>1. ctx \in [Handle -> Context \cup {None}] /\ apart \in BOOLEAN
  BY DEF IInv, HandlesOK
<1>2. c \in [Handle -> Context \cup {None}] /\ c[h] = x /\ \A g \in Handle \ {h} : c[g] = ctx[g]
  BY <1>1
<1>3. tree' = t /\ (apart' <=> apart /\ NamesApart(t)) /\ apart' \in BOOLEAN
  BY <1>1 DEF Changes, NamesApart
<1>5. ctx' = Watched(c, t)
  OBVIOUS
<1> HIDE DEF c
<1>6. ctx' \in [Handle -> Context \cup {None}]
  <2>1. \A g \in Handle : Watched(c, t)[g] \in Context \cup {None}
    BY <1>2, WatchedFacts
  <2>2. Watched(c, t) = [g \in Handle |-> Watched(c, t)[g]]
    BY DEF Watched
  <2> HIDE DEF c
  <2>3. \A F : F = [g \in Handle |-> F[g]] /\ (\A g \in Handle : F[g] \in Context \cup {None})
          => F \in [Handle -> Context \cup {None}]
    OBVIOUS
  <2> QED
    BY <1>5, <2>1, <2>2, <2>3
<1>7. \A g \in Handle : KeptIn(c[g], ctx'[g], t)
  BY <1>2, <1>5, WatchedFacts
<1>8. NamesInv'
  <2>1. \A g \in Handle : c[g] # None =>
          c[g].path = c[g].name /\ (c[g].name = <<>> => c[g].directory)
    BY <1>2 DEF IInv, HandlesOK, NamesInv
  <2>2. \A g, k \in Handle : c[g] # None /\ c[k] # None /\ g # k => c[g].name # c[k].name
    <3>1. \A g, k \in Handle \ {h} : c[g] # None /\ c[k] # None /\ g # k => c[g].name # c[k].name
      BY <1>2 DEF IInv, HandlesOK, NamesInv
    <3>2. \A g \in Handle \ {h} : c[g] # None /\ c[h] # None => c[g].name # c[h].name
      BY <1>2 DEF Unused
    <3> QED
      BY <3>1, <3>2
  <2>3. \A g \in Handle : ctx'[g] # None =>
          /\ c[g] # None /\ ctx'[g].name = c[g].name /\ ctx'[g].path = c[g].path
          /\ ctx'[g].directory = c[g].directory
    BY <1>7 DEF KeptIn
  <2>4. \A g \in Handle : ctx'[g] # None =>
          ctx'[g].path = ctx'[g].name /\ (ctx'[g].name = <<>> => ctx'[g].directory)
    BY <2>1, <2>3
  <2>5. ASSUME NEW g \in Handle, NEW k \in Handle, ctx'[g] # None, ctx'[k] # None, g # k
        PROVE  ctx'[g].name # ctx'[k].name
    <3>1. c[g] # None /\ ctx'[g].name = c[g].name
      BY <2>3, <2>5
    <3>2. c[k] # None /\ ctx'[k].name = c[k].name
      BY <2>3, <2>5
    <3>3. c[g].name # c[k].name
      BY <2>2, <2>5, <3>1, <3>2
    <3> QED
      BY <3>1, <3>2, <3>3
  <2>6. apart' => NamesApart(tree')
    BY <1>3
  <2>7. NamesApart(tree)' <=> NamesApart(tree')
    BY DEF NamesApart, Live
  <2> QED
    BY <2>4, <2>5, <2>6, <2>7 DEF NamesInv
<1>9. PathInv'
  <2>1. ASSUME apart', NEW g \in Handle, ctx'[g] # None
        PROVE  OnTheDisk(ctx'[g], t)
    <3>1. KeptIn(c[g], ctx'[g], t)
      BY <1>7
    <3>2. c[g] # None
      BY <2>1, <3>1 DEF KeptIn
    <3>3. OnTheDisk(c[g], t)
      BY <1>2, <2>1, <3>2
    <3> QED
      BY <3>1, <3>2, <3>3 DEF OnTheDisk, KeptIn
  <2>2. \A g \in Handle : apart' /\ ctx'[g] # None => OnTheDisk(ctx'[g], tree')
    BY <1>3, <2>1
  <2>3. PathInv' <=> (apart' => \A g \in Handle : ctx'[g] # None => OnTheDisk(ctx'[g], tree'))
    BY DEF PathInv, OnTheDisk, DirectoriesOf, Live
  <2> QED
    BY <2>2, <2>3
<1>10. ListInv'
  <2>1. ASSUME apart', NEW g \in Handle, ctx'[g] # None
        PROVE  ListOK(ctx'[g], t)
    <3>1. SUFFICES ASSUME ctx'[g].exact, ctx'[g].listing # None
                   PROVE  /\ ctx'[g].listing.present \subseteq NamesIn(t, ctx'[g].node)
                          /\ \A n \in ctx'[g].listing.present \ ctx'[g].listing.seen :
                               ToCome(ctx'[g].listing, n)
      BY DEF ListOK
    <3>2. KeptIn(c[g], ctx'[g], t)
      BY <1>7
    <3>3. /\ c[g] # None /\ c[g].exact /\ c[g].listing # None
          /\ ctx'[g].listing.present = c[g].listing.present \cap NamesIn(t, c[g].node)
          /\ ctx'[g].node = c[g].node
      BY <2>1, <3>1, <3>2 DEF KeptIn
    <3>4. ctx[g] # None /\ ctx[g].exact /\ ctx[g].listing = c[g].listing
      BY <1>2, <3>3
    <3>5. \A n \in c[g].listing.present \ c[g].listing.seen : ToCome(c[g].listing, n)
      BY <1>3, <2>1, <3>3, <3>4 DEF IInv, HandlesOK, ListInv, ListOK
    <3>6. /\ ctx'[g].listing.marker = c[g].listing.marker
          /\ ctx'[g].listing.seen = c[g].listing.seen
          /\ ctx'[g].listing.ended = c[g].listing.ended
      BY <3>2, <3>3 DEF KeptIn
    <3>7. \A n \in c[g].listing.present \ c[g].listing.seen : ToCome(ctx'[g].listing, n)
      BY <3>5, <3>6 DEF ToCome
    <3> QED
      BY <3>3, <3>6, <3>7
  <2>2. \A g \in Handle : apart' /\ ctx'[g] # None => ListOK(ctx'[g], tree')
    BY <1>3, <2>1
  <2>3. ListInv' <=> (apart' => \A g \in Handle : ctx'[g] # None => ListOK(ctx'[g], tree'))
    BY DEF ListInv, ListOK, NamesIn, Children, Live, ToCome, Position
  <2> QED
    BY <2>2, <2>3
<1> QED
  BY <1>3, <1>6, <1>8, <1>9, <1>10 DEF HandlesOK

(* The context of handle h becomes x and the tree stays.                   *)
LEMMA ContextKeepsHandles ==
  ASSUME IInv, NEW h \in Handle, NEW x \in Context \cup {None},
         ctx' = [ctx EXCEPT ![h] = x], UNCHANGED <<tree, apart>>,
         x # None => x.path = x.name /\ Unused(h, x.name) /\ (x.name = <<>> => x.directory),
         apart /\ x # None => OnTheDisk(x, tree) /\ ListOK(x, tree)
  PROVE  HandlesOK'
<1>1. ctx \in [Handle -> Context \cup {None}] /\ apart \in BOOLEAN
  BY DEF IInv, HandlesOK
<1>2. /\ ctx' \in [Handle -> Context \cup {None}] /\ ctx'[h] = x
      /\ \A g \in Handle \ {h} : ctx'[g] = ctx[g]
  BY <1>1
<1>3. NamesInv'
  <2>1. \A g \in Handle : ctx'[g] # None =>
          ctx'[g].path = ctx'[g].name /\ (ctx'[g].name = <<>> => ctx'[g].directory)
    BY <1>2 DEF IInv, HandlesOK, NamesInv
  <2>2. ASSUME NEW g \in Handle, NEW k \in Handle, ctx'[g] # None, ctx'[k] # None, g # k
        PROVE  ctx'[g].name # ctx'[k].name
    <3>1. CASE g # h /\ k # h
      BY <1>2, <2>2, <3>1 DEF IInv, HandlesOK, NamesInv
    <3>2. CASE g = h
      BY <1>2, <2>2, <3>2 DEF Unused
    <3>3. CASE k = h
      BY <1>2, <2>2, <3>3 DEF Unused
    <3> QED
      BY <3>1, <3>2, <3>3
  <2>3. (apart => NamesApart(tree))'
    BY DEF IInv, HandlesOK, NamesInv, NamesApart, Live
  <2> QED
    BY <2>1, <2>2, <2>3 DEF NamesInv
<1>4. PathInv'
  <2>1. \A g \in Handle : apart' /\ ctx'[g] # None => OnTheDisk(ctx'[g], tree)
    BY <1>2 DEF IInv, HandlesOK, PathInv
  <2> QED
    BY <2>1 DEF PathInv, OnTheDisk, DirectoriesOf, Live
<1>5. ListInv'
  <2>1. \A g \in Handle : apart' /\ ctx'[g] # None => ListOK(ctx'[g], tree)
    BY <1>2 DEF IInv, HandlesOK, ListInv
  <2> QED
    BY <2>1 DEF ListInv, ListOK, NamesIn, Children, Live, ToCome, Position
<1> QED
  BY <1>1, <1>2, <1>3, <1>4, <1>5 DEF HandlesOK

(* What an open handle of an exact path stands for.                        *)
LEMMA HandleFacts ==
  ASSUME IInv, NEW h \in Handle, ctx[h] # None
  PROVE  /\ ctx[h] \in Context /\ ctx[h].path = ctx[h].name /\ ctx[h].name \in Path
         /\ ctx[h].name = <<>> => ctx[h].directory
         /\ Unused(h, ctx[h].name)
         /\ apart => OnTheDisk(ctx[h], tree) /\ ListOK(ctx[h], tree)
<1>1. ctx[h] \in Context
  BY DEF IInv, HandlesOK
<1>2. Unused(h, ctx[h].name)
  BY DEF IInv, HandlesOK, NamesInv, Unused
<1> QED
  BY <1>1, <1>2, ContextType DEF IInv, HandlesOK, NamesInv, PathInv, ListInv

(* The entry under the name of a handle is what the handle was opened on.  *)
LEMMA EntryOfHandle ==
  ASSUME IInv, apart, NEW h \in Handle, ctx[h] # None, ctx[h].name # <<>>,
         DirectoryAt(tree, Parent(ctx[h].name)) \in DirectoriesOf(tree),
         NEW i \in Named(tree, DirectoryAt(tree, Parent(ctx[h].name)), Last(ctx[h].name))
  PROVE  Leads(tree, ctx[h].name, i) /\ i \in Live(tree) /\ (ctx[h].exact => i = ctx[h].node)
<1>1. ctx[h].name \in Seq(Name) /\ Sound(tree)
  BY HandleFacts, PathIsSeq DEF IInv, TreeOK
<1>2. Leads(tree, ctx[h].name, i) /\ i \in Live(tree)
  BY <1>1, ExactEntry
<1>3. ctx[h].exact => Leads(tree, ctx[h].name, ctx[h].node)
  BY HandleFacts DEF OnTheDisk
<1> QED
  BY <1>1, <1>2, <1>3, OneInode

-----------------------------------------------------------------------------
(* The callbacks and the handles.                                          *)

(* Create changes no entry that is there.                                  *)
LEMMA CreateHandles ==
  ASSUME IInv, NEW h \in Handle, NEW p \in Path, NEW directory \in BOOLEAN,
         Create(h, p, directory)
  PROVE  HandlesOK' /\ \A i \in Live(tree) : tree'[i] = tree[i]
<1> DEFINE d == DirectoryAt(tree, Parent(p))
           t == Added(tree, d, Last(p), directory)
           x == IF Resolve(t, p) = None THEN None ELSE NewContext(t, p)
<1>1. /\ p # <<>> /\ LegalCreate(tree, d, Last(p)) /\ Changes(t) /\ Unused(h, p)
      /\ ctx' = Watched([ctx EXCEPT ![h] = x], t)
  BY DEF Create
<1>2. Last(p) \in Name
  BY <1>1, LastName
<1>3. d \in DirectoriesOf(tree) /\ Twins(tree, d, Last(p)) = {} /\ next \in Node
  BY <1>1 DEF LegalCreate
<1>4. next \notin Live(tree) /\ Sound(tree)
  BY DEF IInv, TreeOK
<1> HIDE DEF d
<1>5. Sound(t) /\ Live(t) = Live(tree) \cup {next}
  BY <1>2, <1>3, <1>4, AddedSound
<1>6. \A i \in Live(tree) : t[i] = tree[i]
  BY <1>4 DEF Added, Live, Sound, Tree
<1>7. tree' = t /\ (apart' => apart /\ NamesApart(t))
  BY <1>1 DEF Changes
<1>8. apart' => \A g \in Handle \ {h} : ctx[g] # None => OnTheDisk(ctx[g], t)
  <2>1. SUFFICES ASSUME apart', NEW g \in Handle \ {h}, ctx[g] # None, ctx[g].exact
                 PROVE  Leads(t, ctx[g].name, ctx[g].node)
                        /\ (ctx[g].directory <=> ctx[g].node \in DirectoriesOf(t))
    BY DEF OnTheDisk
  <2>2. OnTheDisk(ctx[g], tree) /\ ctx[g].name \in Seq(Name)
    BY <1>7, <2>1, HandleFacts, PathIsSeq
  <2>3. /\ Leads(tree, ctx[g].name, ctx[g].node)
        /\ ctx[g].directory <=> ctx[g].node \in DirectoriesOf(tree)
    BY <2>1, <2>2 DEF OnTheDisk
  <2> QED
    BY <1>3, <1>4, <1>5, <2>2, <2>3, KeptByAdding
<1> HIDE DEF t
<1>9. /\ x \in Context \cup {None}
      /\ x # None => /\ x.path = x.name /\ x.name = p /\ x.listing = None
                     /\ NamesApart(t) => OnTheDisk(x, t)
  BY <1>5, NewContextFacts, NewContextOnTheDisk
<1> HIDE DEF x
<1>10. HandlesOK'
  BY <1>1, <1>5, <1>7, <1>8, <1>9, ChangeKeepsHandles
<1> QED
  BY <1>6, <1>7, <1>10

(* Open changes one context.                                               *)
LEMMA OpenHandles ==
  ASSUME IInv, NEW h \in Handle, NEW p \in Path, Open(h, p)
  PROVE  HandlesOK'
<1> DEFINE x == NewContext(tree, p)
<1>1. /\ Unused(h, p) /\ Resolve(tree, p) # None
      /\ ctx' = [ctx EXCEPT ![h] = x] /\ UNCHANGED <<tree, apart>>
  BY DEF Open
<1>2. Sound(tree) /\ (apart => NamesApart(tree))
  BY DEF IInv, TreeOK, HandlesOK, NamesInv
<1>3. /\ x \in Context /\ x.name = p /\ x.path = p /\ x.listing = None
      /\ x.node = Resolve(tree, p)
      /\ x.directory <=> x.node \in DirectoriesOf(tree)
  BY <1>1, <1>2, NewContextFacts
<1>4. p = <<>> => x.directory
  BY <1>3 DEF Resolve, DirectoriesOf
<1>5. apart => OnTheDisk(x, tree) /\ ListOK(x, tree)
  BY <1>1, <1>2, <1>3, NewContextOnTheDisk DEF ListOK
<1> HIDE DEF x
<1> QED
  BY <1>1, <1>3, <1>4, <1>5, ContextKeepsHandles

(* All handles but h stay what they are, open ones under their names.      *)
OthersStay(h) ==
  \A g \in Handle \ {h} : ctx[g] # None => ctx'[g] # None /\ ctx'[g].name = ctx[g].name

(* A change through handle h leaves the others open.                       *)
LEMMA OtherHandles ==
  ASSUME IInv, NEW h \in Handle, NEW x \in Context \cup {None}, NEW t,
         ctx' = Watched([ctx EXCEPT ![h] = x], t)
  PROVE  OthersStay(h)
<1> DEFINE c == [ctx EXCEPT ![h] = x]
<1>1. c \in [Handle -> Context \cup {None}] /\ \A g \in Handle \ {h} : c[g] = ctx[g]
  BY DEF IInv, HandlesOK
<1>2. ctx' = Watched(c, t)
  OBVIOUS
<1> HIDE DEF c
<1>3. SUFFICES ASSUME NEW g \in Handle \ {h}, ctx[g] # None
               PROVE  ctx'[g] # None /\ ctx'[g].name = ctx[g].name
  BY DEF OthersStay
<1>4. KeptIn(c[g], ctx'[g], t) /\ c[g] = ctx[g]
  BY <1>1, <1>2, WatchedFacts
<1> QED
  BY <1>3, <1>4 DEF KeptIn

(* A rename notes the new path in the context.                             *)
LEMMA RenamedHandles ==
  ASSUME IInv, NEW h \in Handle, ctx[h] # None, NEW to \in Path, to # <<>>, Unused(h, to),
         NEW t, Sound(t), Changes(t), ctx' = RenamedNoted(h, to, t),
         apart' => \E i : Leads(t, to, i),
         apart' => \A g \in Handle \ {h} : ctx[g] # None => OnTheDisk(ctx[g], t)
  PROVE  HandlesOK' /\ ctx'[h] # None /\ OthersStay(h)
<1> DEFINE y == [NewContext(t, to) EXCEPT !.listing = ctx[h].listing,
                                          !.exact = @ /\ ctx[h].exact]
           x == IF Resolve(t, to) = None THEN ctx[h] ELSE y
<1>1. ctx \in [Handle -> Context \cup {None}]
  BY DEF IInv, HandlesOK
<1>2. ctx' = Watched([ctx EXCEPT ![h] = x], t)
  BY <1>1 DEF RenamedNoted
<1>3. apart' => NamesApart(t)
  BY DEF Changes
<1>4. CASE Resolve(t, to) = None
  <2>1. x = ctx[h]
    BY <1>4
  <2>2. ~apart'
    BY <1>3, <1>4, PathIsSeq, ResolveLeads
  <2>3. /\ x \in Context /\ x # None /\ x.path = x.name /\ Unused(h, x.name)
        /\ x.name = <<>> => x.directory
    BY <2>1, HandleFacts
  <2>4. x # None /\ x.listing # None =>
          ctx[h] # None /\ x.listing = ctx[h].listing /\ (x.exact => ctx[h].exact)
    BY <2>1
  <2> HIDE DEF x
  <2>5. HandlesOK'
    BY <1>2, <2>2, <2>3, <2>4, ChangeKeepsHandles
  <2>6. KeptIn(x, ctx'[h], t)
    BY <1>1, <1>2, <2>3, WatchedFacts
  <2> QED
    BY <1>2, <2>3, <2>5, <2>6, OtherHandles DEF KeptIn
<1>5. CASE Resolve(t, to) # None
  <2> DEFINE z == NewContext(t, to)
  <2>1. /\ z \in Context /\ z.name = to /\ z.path = to
        /\ apart' => OnTheDisk(z, t)
    BY <1>3, <1>5, NewContextFacts, NewContextOnTheDisk
  <2>2. ctx[h].listing \in Listing \cup {None} /\ ctx[h].exact \in BOOLEAN
    BY HandleFacts, ContextType
  <2>3. x = [z EXCEPT !.listing = ctx[h].listing, !.exact = @ /\ ctx[h].exact]
    BY <1>5
  <2> HIDE DEF z, x, y
  <2> DEFINE b == z.exact /\ ctx[h].exact
  <2>4. b \in BOOLEAN /\ (b => z.exact /\ ctx[h].exact)
    OBVIOUS
  <2>5. x = [z EXCEPT !.listing = ctx[h].listing, !.exact = b]
    BY <2>1, <2>3 DEF Context
  <2> HIDE DEF b
  <2>6. /\ x \in Context /\ x.name = to /\ x.path = to /\ x.listing = ctx[h].listing
        /\ x.exact = b /\ x.node = z.node /\ x.directory = z.directory
    BY <2>1, <2>2, <2>4, <2>5 DEF Context
  <2>7. apart' => OnTheDisk(x, t)
    BY <2>1, <2>4, <2>6 DEF OnTheDisk
  <2>8. x # None
    BY <2>6, ContextType
  <2>9. x.exact => ctx[h].exact
    BY <2>4, <2>6
  <2>10. HandlesOK'
    BY <1>2, <2>6, <2>7, <2>8, <2>9, ChangeKeepsHandles
  <2>11. KeptIn(x, ctx'[h], t)
    BY <1>1, <1>2, <2>6, WatchedFacts
  <2> QED
    BY <1>2, <2>6, <2>8, <2>10, <2>11, OtherHandles DEF KeptIn
<1> QED
  BY <1>4, <1>5

(* The rename of a directory moves what was opened, and nothing else.      *)
LEMMA RenameDirectoryHandles ==
  ASSUME IInv, NEW h \in Handle, NEW to \in Path, RenameDirectory(h, to)
  PROVE  /\ HandlesOK' /\ OthersStay(h)
         /\ apart' /\ ctx[h].exact => \A i \in Live(tree) : tree'[i] # tree[i] => i = ctx[h].node
<1> DEFINE p == ctx[h].name
           d == DirectoryAt(tree, Parent(p))
           e == DirectoryAt(tree, Parent(to))
           i == Only(Named(tree, d, Last(p)), TRUE)
           t == Moved(tree, i, e, Last(to))
<1>1. /\ ctx[h] # None /\ p # <<>> /\ to # <<>> /\ Unused(h, to) /\ UnusedBelow(h, p)
      /\ LegalMoveDirectory(tree, d, Last(p), e, Last(to))
      /\ Changes(t) /\ ctx' = RenamedNoted(h, to, t)
  BY DEF RenameDirectory
<1>2. Last(to) \in Name /\ to \in Seq(Name) /\ Parent(to) \in Seq(Name) /\ Sound(tree)
  BY <1>1, LastName, PathIsSeq, FrontAndLast DEF IInv, TreeOK
<1>3. PICK j \in Named(tree, d, Last(p)) :
        tree[j].directory /\ ~IsOrContains(tree, j, e) /\ Named(tree, e, Last(to)) \subseteq {j}
  BY <1>1 DEF LegalMoveDirectory
<1>4. d \in DirectoriesOf(tree) /\ e \in DirectoriesOf(tree)
  BY <1>1 DEF LegalMoveDirectory
<1>5. j \in Live(tree)
  BY <1>3 DEF Named, Children
<1>6. tree[j].directory = TRUE
  BY <1>2, <1>3, <1>5, EntryOf DEF Sound
<1>7. i = j
  BY <1>2, <1>6, OnlyOne DEF Sound
<1>8. t = Moved(tree, j, e, Last(to))
  BY <1>7
<1>9. Leads(tree, Parent(to), e)
  BY <1>2, <1>4, DirectoryAtLeads, NoneIsNoDirectory
<1>10. apart => Leads(tree, p, j) /\ (ctx[h].exact => j = ctx[h].node)
  BY <1>1, <1>3, <1>4, EntryOfHandle
<1> HIDE DEF d, e, i, t
<1>11. Sound(t) /\ Live(t) = Live(tree)
  BY <1>2, <1>3, <1>4, <1>5, <1>8, MovedDirectorySound
<1>12. Leads(t, to, j)
  BY <1>1, <1>2, <1>3, <1>4, <1>5, <1>8, <1>9, <1>11, MovedThere
<1>13. tree' = t /\ (apart' => apart)
  BY <1>1 DEF Changes
<1>14. apart' => \A g \in Handle \ {h} : ctx[g] # None => OnTheDisk(ctx[g], t)
  <2>1. SUFFICES ASSUME apart', NEW g \in Handle \ {h}, ctx[g] # None, ctx[g].exact
                 PROVE  Leads(t, ctx[g].name, ctx[g].node)
                        /\ (ctx[g].directory <=> ctx[g].node \in DirectoriesOf(t))
    BY DEF OnTheDisk
  <2>2. OnTheDisk(ctx[g], tree) /\ ctx[g].name \in Seq(Name) /\ p \in Seq(Name)
    BY <1>1, <1>13, <2>1, HandleFacts, PathIsSeq
  <2>3. /\ Leads(tree, ctx[g].name, ctx[g].node)
        /\ ctx[g].directory <=> ctx[g].node \in DirectoriesOf(tree)
    BY <2>1, <2>2 DEF OnTheDisk
  <2>4. ctx[g].name # p /\ ~IsStrictPrefix(p, ctx[g].name)
    BY <1>1, <2>1 DEF UnusedBelow, IInv, HandlesOK, NamesInv
  <2>5. Leads(tree, p, j)
    BY <1>10, <1>13, <2>1
  <2> HIDE DEF p
  <2> QED
    BY <1>2, <1>3, <1>4, <1>5, <1>8, <2>2, <2>3, <2>4, <2>5, KeptByMoving
<1>15. HandlesOK' /\ OthersStay(h)
  BY <1>1, <1>11, <1>12, <1>14, RenamedHandles
<1>16. \A k \in Live(tree) : k # j => tree'[k] = tree[k]
  BY <1>2, <1>8, <1>13 DEF Moved, Live, Sound, Tree
<1> QED
  BY <1>10, <1>13, <1>15, <1>16

(* Deleting the entry that the path of handle h names leaves the others    *)
(* alone; so does replacing a file under a path that no other handle has.  *)
LEMMA OthersKeptByRemoving ==
  ASSUME IInv, apart, NEW q \in Seq(Name), NEW j \in Live(tree), Children(tree, j) = {},
         Leads(tree, q, j), NEW g \in Handle, ctx[g] # None, ctx[g].name # q
  PROVE  OnTheDisk(ctx[g], Removed(tree, j))
<1> SUFFICES ASSUME ctx[g].exact
             PROVE  /\ Leads(Removed(tree, j), ctx[g].name, ctx[g].node)
                    /\ ctx[g].directory <=> ctx[g].node \in DirectoriesOf(Removed(tree, j))
  BY DEF OnTheDisk
<1>1. /\ Leads(tree, ctx[g].name, ctx[g].node)
      /\ ctx[g].directory <=> ctx[g].node \in DirectoriesOf(tree)
  BY HandleFacts DEF OnTheDisk
<1>2. ctx[g].name \in Seq(Name) /\ Sound(tree)
  BY HandleFacts, PathIsSeq DEF IInv, TreeOK
<1> QED
  BY <1>1, <1>2, KeptByRemoving

(* A cleanup deletes what was opened, or nothing.                          *)
LEMMA CleanupHandles ==
  ASSUME IInv, NEW h \in Handle, NEW delete \in BOOLEAN, Cleanup(h, delete)
  PROVE  /\ HandlesOK'
         /\ apart' /\ ctx[h].exact => \A i \in Live(tree) : tree'[i] # tree[i] => i = ctx[h].node
<1> DEFINE p == ctx[h].path
           d == DirectoryAt(tree, Parent(p))
           i == Only(Named(tree, d, Last(p)), ctx[h].directory)
           t == Removed(tree, i)
<1>1. CASE ctx' = [ctx EXCEPT ![h] = None] /\ UNCHANGED <<tree, apart>>
  BY <1>1, ContextKeepsHandles
<1>2. CASE /\ delete /\ p # <<>>
           /\ LegalRemove(tree, d, Last(p), ctx[h].directory)
           /\ Changes(t)
           /\ ctx' = Watched([ctx EXCEPT ![h] = None], tree')
  <2>1. ctx[h] # None /\ Sound(tree)
    BY DEF Cleanup, IInv, TreeOK
  <2>2. p = ctx[h].name /\ p \in Seq(Name)
    BY <2>1, HandleFacts, PathIsSeq
  <2>3. PICK j \in Named(tree, d, Last(p)) :
          tree[j].directory = ctx[h].directory /\ Children(tree, j) = {}
    BY <1>2 DEF LegalRemove
  <2>4. d \in DirectoriesOf(tree)
    BY <1>2 DEF LegalRemove
  <2>5. j \in Live(tree)
    BY <2>3 DEF Named, Children
  <2>6. i = j
    BY <2>1, <2>3, OnlyOne DEF Sound
  <2>7. t = Removed(tree, j)
    BY <2>6
  <2>8. apart => Leads(tree, p, j) /\ (ctx[h].exact => j = ctx[h].node)
    BY <1>2, <2>1, <2>2, <2>3, <2>4, EntryOfHandle
  <2>9. tree' = t /\ (apart' => apart)
    BY <1>2 DEF Changes
  <2> HIDE DEF d, i, t
  <2>10. Sound(t)
    BY <2>1, <2>3, <2>5, <2>7, RemovedSound
  <2>11. apart' => \A g \in Handle \ {h} : ctx[g] # None => OnTheDisk(ctx[g], t)
    <3>1. \A g \in Handle \ {h} : ctx[g] # None => ctx[g].name # p
      BY <2>1, <2>2 DEF IInv, HandlesOK, NamesInv
    <3> QED
      BY <2>2, <2>3, <2>5, <2>7, <2>8, <2>9, <3>1, OthersKeptByRemoving
  <2>12. HandlesOK'
    BY <1>2, <2>9, <2>10, <2>11, ChangeKeepsHandles
  <2>13. \A k \in Live(tree) : k # j => tree'[k] = tree[k]
    BY <2>1, <2>7, <2>9 DEF Removed, Live, Sound, Tree
  <2> QED
    BY <2>8, <2>9, <2>12, <2>13
<1> QED
  BY <1>1, <1>2 DEF Cleanup

(* The rename of a file moves what was opened, and may replace one.        *)
LEMMA RenameFileHandles ==
  ASSUME IInv, NEW h \in Handle, NEW to \in Path, NEW replaceIfExists \in BOOLEAN,
         RenameFile(h, to, replaceIfExists)
  PROVE  /\ HandlesOK' /\ ctx'[h] # None /\ OthersStay(h)
         /\ apart' /\ ctx[h].exact =>
              \A i \in Live(tree) : tree'[i] # tree[i] /\ i # ctx[h].node =>
                tree'[i] = None /\ ~tree[i].directory
<1> DEFINE p == ctx[h].name
           d == DirectoryAt(tree, Parent(p))
           e == DirectoryAt(tree, Parent(to))
           replaces == replaceIfExists /\ Replaces(h, Resolve(tree, to))
           o == Only(Named(tree, e, Last(to)), FALSE)
           cleared == IF replaces THEN Removed(tree, o) ELSE tree
           i == Only(Named(cleared, d, Last(p)), FALSE)
           t == Moved(cleared, i, e, Last(to))
<1>1. /\ ctx[h] # None /\ ~ctx[h].directory /\ to # <<>> /\ p # to /\ Unused(h, to)
      /\ replaces => LegalRemove(tree, e, Last(to), FALSE)
      /\ \/ /\ LegalMoveFile(cleared, d, Last(p), e, Last(to))
            /\ Changes(t)
            /\ ctx' = RenamedNoted(h, to, t)
         \/ /\ replaces
            /\ Changes(cleared)
            /\ ctx' = Watched(ctx, cleared)
  BY DEF RenameFile
<1>2. /\ Last(to) \in Name /\ to \in Seq(Name) /\ Parent(to) \in Seq(Name)
      /\ Sound(tree) /\ p \in Seq(Name)
  BY <1>1, LastName, PathIsSeq, FrontAndLast, HandleFacts DEF IInv, TreeOK
<1>3. p # <<>>
  BY <1>1, HandleFacts
<1>4. /\ Sound(cleared) /\ Live(cleared) \subseteq Live(tree)
      /\ \A k \in Live(cleared) : cleared[k] = tree[k]
      /\ \A k \in Live(tree) : cleared[k] # tree[k] => cleared[k] = None /\ ~tree[k].directory
      /\ apart => \A q \in Seq(Name) : \A k : q # to /\ Leads(tree, q, k) =>
                    /\ Leads(cleared, q, k)
                    /\ k \in DirectoriesOf(cleared) <=> k \in DirectoriesOf(tree)
  <2>1. CASE ~replaces
    BY <1>2, <2>1
  <2>2. CASE replaces
    <3>1. PICK j \in Named(tree, e, Last(to)) :
            tree[j].directory = FALSE /\ Children(tree, j) = {}
      BY <1>1, <2>2 DEF LegalRemove
    <3>2. j \in Live(tree) /\ e \in DirectoriesOf(tree)
      BY <1>1, <2>2, <3>1 DEF Named, Children, LegalRemove
    <3>3. o = j
      BY <1>2, <3>1, OnlyOne DEF Sound
    <3>4. cleared = Removed(tree, j)
      BY <2>2, <3>3
    <3>5. Leads(tree, to, j)
      BY <1>1, <1>2, <3>1, <3>2, ExactEntry
    <3> HIDE DEF cleared, o, e, replaces
    <3>6. Sound(cleared) /\ Live(cleared) = Live(tree) \ {j}
          /\ \A k \in Live(tree) \ {j} : cleared[k] = tree[k]
      BY <1>2, <3>1, <3>2, <3>4, RemovedSound
    <3>7. cleared[j] = None
      BY <1>2, <3>2, <3>4 DEF Removed, Live, Sound, Tree
    <3>8. ASSUME NEW q \in Seq(Name), NEW k, q # to, Leads(tree, q, k)
          PROVE  /\ Leads(cleared, q, k)
                 /\ k \in DirectoriesOf(cleared) <=> k \in DirectoriesOf(tree)
      BY <1>2, <3>1, <3>2, <3>4, <3>5, <3>8, KeptByRemoving
    <3> QED
      BY <3>1, <3>6, <3>7, <3>8
  <2> QED
    BY <2>1, <2>2
<1>5. apart => \A g \in Handle : ctx[g] # None /\ ctx[g].name # to => OnTheDisk(ctx[g], cleared)
  <2>1. SUFFICES ASSUME apart, NEW g \in Handle, ctx[g] # None, ctx[g].name # to, ctx[g].exact
                 PROVE  Leads(cleared, ctx[g].name, ctx[g].node)
                        /\ (ctx[g].directory <=> ctx[g].node \in DirectoriesOf(cleared))
    BY DEF OnTheDisk
  <2>2. OnTheDisk(ctx[g], tree) /\ ctx[g].name \in Seq(Name)
    BY <2>1, HandleFacts, PathIsSeq
  <2>3. /\ Leads(tree, ctx[g].name, ctx[g].node)
        /\ ctx[g].directory <=> ctx[g].node \in DirectoriesOf(tree)
    BY <2>1, <2>2 DEF OnTheDisk
  <2> HIDE DEF cleared
  <2> QED
    BY <1>4, <2>1, <2>2, <2>3
<1>6. \A g \in Handle \ {h} : ctx[g] # None => ctx[g].name # to /\ ctx[g].name # p
  BY <1>1 DEF Unused, IInv, HandlesOK, NamesInv
<1> HIDE DEF replaces, o, cleared
<1>7. CASE Changes(cleared) /\ ctx' = Watched(ctx, cleared)
  <2>1. ctx = [ctx EXCEPT ![h] = ctx[h]] /\ ctx \in [Handle -> Context \cup {None}]
    BY DEF IInv, HandlesOK
  <2>2. ctx' = Watched([ctx EXCEPT ![h] = ctx[h]], cleared)
    BY <1>7, <2>1
  <2>3. tree' = cleared /\ (apart' => apart)
    BY <1>7 DEF Changes
  <2>4. /\ ctx[h] \in Context /\ ctx[h].path = ctx[h].name /\ Unused(h, ctx[h].name)
        /\ ctx[h].name = <<>> => ctx[h].directory
    BY <1>1, HandleFacts
  <2>5. apart' => \A g \in Handle : ctx[g] # None => OnTheDisk(ctx[g], cleared)
    BY <1>1, <1>5, <1>6, <2>3
  <2>6. HandlesOK' /\ OthersStay(h)
    BY <1>4, <1>7, <2>2, <2>4, <2>5, ChangeKeepsHandles, OtherHandles
  <2>7. KeptIn(ctx[h], ctx'[h], cleared)
    BY <1>7, <2>1, WatchedFacts
  <2> QED
    BY <1>1, <1>4, <2>3, <2>6, <2>7 DEF KeptIn
<1>8. CASE LegalMoveFile(cleared, d, Last(p), e, Last(to)) /\ Changes(t) /\ ctx' = RenamedNoted(h, to, t)
  <2>1. PICK j \in Named(cleared, d, Last(p)) :
          ~cleared[j].directory /\ Twins(cleared, e, Last(to)) \subseteq {j}
    BY <1>8 DEF LegalMoveFile
  <2>2. d \in DirectoriesOf(cleared) /\ e \in DirectoriesOf(cleared)
    BY <1>8 DEF LegalMoveFile
  <2>3. j \in Live(cleared) /\ j \in Named(tree, d, Last(p))
    BY <1>4, <2>1 DEF Named, Children
  <2>4. cleared[j].directory = FALSE
    BY <1>4, <2>1, <2>3, EntryOf DEF Sound
  <2>5. i = j
    BY <1>2, <1>4, <2>1, <2>4, OnlyOne DEF Sound
  <2>6. Named(cleared, e, Last(to)) \subseteq {j}
    BY <2>1 DEF Named, Twins
  <2>7. t = Moved(cleared, j, e, Last(to))
    BY <2>5
  <2>8. DirectoriesOf(cleared) \subseteq DirectoriesOf(tree)
    BY <1>4 DEF DirectoriesOf
  <2>9. Leads(tree, Parent(to), e) /\ Parent(to) # to
    BY <1>1, <1>2, <2>2, <2>8, DirectoryAtLeads, NoneIsNoDirectory, FrontAndLast
  <2>10. apart => Leads(tree, p, j) /\ (ctx[h].exact => j = ctx[h].node)
    BY <1>1, <1>3, <2>2, <2>3, <2>8, EntryOfHandle
  <2> HIDE DEF d, e, i, t
  <2>11. Sound(t) /\ Live(t) = Live(cleared)
    BY <1>2, <1>4, <2>1, <2>2, <2>3, <2>6, <2>7, MovedFileSound
  <2>12. tree' = t /\ (apart' => apart)
    BY <1>8 DEF Changes
  <2>13. apart => Leads(t, to, j)
    BY <1>1, <1>2, <1>4, <2>1, <2>2, <2>3, <2>6, <2>7, <2>9, <2>11, MovedThere
  <2>14. apart' => \A g \in Handle \ {h} : ctx[g] # None => OnTheDisk(ctx[g], t)
    <3>1. SUFFICES ASSUME apart', NEW g \in Handle \ {h}, ctx[g] # None, ctx[g].exact
                   PROVE  Leads(t, ctx[g].name, ctx[g].node)
                          /\ (ctx[g].directory <=> ctx[g].node \in DirectoriesOf(t))
      BY DEF OnTheDisk
    <3>2. OnTheDisk(ctx[g], cleared) /\ ctx[g].name \in Seq(Name)
      BY <1>5, <1>6, <2>12, <3>1, HandleFacts, PathIsSeq
    <3>3. /\ Leads(cleared, ctx[g].name, ctx[g].node)
          /\ ctx[g].directory <=> ctx[g].node \in DirectoriesOf(cleared)
      BY <3>1, <3>2 DEF OnTheDisk
    <3>4. Leads(cleared, p, j) /\ ctx[g].name # p
      BY <1>1, <1>2, <1>4, <1>6, <2>10, <2>12, <3>1
    <3> HIDE DEF p
    <3> QED
      BY <1>2, <1>4, <2>1, <2>2, <2>3, <2>6, <2>7, <3>2, <3>3, <3>4, KeptByMoving
  <2>15. HandlesOK' /\ ctx'[h] # None /\ OthersStay(h)
    BY <1>1, <1>8, <2>11, <2>12, <2>13, <2>14, RenamedHandles
  <2>16. \A k \in Node : k # j => tree'[k] = cleared[k]
    BY <2>7, <2>12 DEF Moved
  <2>17. \A k \in Live(tree) : k # j /\ tree'[k] # tree[k] => tree'[k] = None /\ ~tree[k].directory
    BY <1>4, <2>16 DEF Live
  <2> QED
    BY <2>10, <2>12, <2>15, <2>17
<1> QED
  BY <1>1, <1>7, <1>8

(* A page that is not empty has a last name.                               *)
LEMMA LastOfFacts ==
  ASSUME NEW page \in SUBSET Name, page # {}
  PROVE  LastOf(page) \in page
<1> DEFINE P == {Len(Sorted) - Position(n) : n \in page}
<1>1. \A n \in page : Position(n) \in Nat /\ Len(Sorted) - Position(n) \in Nat /\ Len(Sorted) \in Nat
  BY Positions
<1>2. P \in SUBSET Nat /\ P # {}
  BY <1>1
<1>3. PICK x \in P : \A y \in P : x <= y
  BY <1>2, SmallestNat
<1>4. PICK n \in page : x = Len(Sorted) - Position(n)
  BY <1>3
<1>5. \A m \in page : Len(Sorted) - Position(n) <= Len(Sorted) - Position(m)
  BY <1>3, <1>4
<1>6. \A m \in page : Position(m) <= Position(n)
  BY <1>1, <1>5
<1> HIDE DEF P
<1> QED
  BY <1>6 DEF LastOf

(* While names of one key are apart, two names of a directory differ in    *)
(* their keys.                                                             *)
LEMMA KeysApart ==
  ASSUME NEW t, NamesApart(t), NEW d, NEW n \in NamesIn(t, d), NEW m \in NamesIn(t, d), n # m
  PROVE  FoldOf[n] # FoldOf[m]
<1>1. PICK i \in Children(t, d) : t[i].name = n
  BY DEF NamesIn
<1>2. PICK j \in Children(t, d) : t[j].name = m
  BY DEF NamesIn
<1> QED
  BY <1>1, <1>2 DEF Children, NamesApart

(* What a call does not show and what stays comes after the marker.        *)
LEMMA ReadDirectoryHandles ==
  ASSUME IInv, NEW h \in Handle, ReadDirectory(h)
  PROVE  HandlesOK'
<1> DEFINE d == ReaderDirectoryAt(tree, ctx[h].path)
           so == IF ctx[h].listing # None THEN ctx[h].listing
                 ELSE [marker |-> None, seen |-> {}, present |-> NamesIn(tree, d), ended |-> FALSE]
           left == After(NamesIn(tree, d), so.marker)
<1>1. ctx[h] # None /\ d # None /\ ~so.ended /\ UNCHANGED <<tree, apart>>
  BY DEF ReadDirectory
<1>2. PICK page \in Pages(left) :
        ctx' = [ctx EXCEPT ![h].listing =
                  [so EXCEPT !.seen = @ \cup page,
                             !.marker = IF page = {} THEN @ ELSE LastOf(page),
                             !.ended = page = left]]
  BY DEF ReadDirectory
<1> DEFINE marker == IF page = {} THEN so.marker ELSE LastOf(page)
           ended == page = left
           seen == so.seen \cup page
           l == [so EXCEPT !.seen = seen, !.marker = marker, !.ended = ended]
           x == [ctx[h] EXCEPT !.listing = l]
<1>3. /\ ctx[h] \in Context /\ ctx[h].path = ctx[h].name /\ Unused(h, ctx[h].name)
      /\ ctx[h].name = <<>> => ctx[h].directory
      /\ apart => OnTheDisk(ctx[h], tree) /\ ListOK(ctx[h], tree)
      /\ ctx[h].listing \in Listing \cup {None} /\ ctx[h].name \in Seq(Name)
  BY <1>1, HandleFacts, ContextType, PathIsSeq
<1>4. tree \in Tree /\ Sound(tree) /\ (apart => NamesApart(tree))
  BY DEF IInv, TreeOK, Sound, HandlesOK, NamesInv
<1>5. NamesIn(tree, d) \subseteq Name
  BY <1>4, NamesInType
<1>6. so \in Listing
  <2>1. CASE ctx[h].listing # None
    BY <1>3, <2>1
  <2>2. CASE ctx[h].listing = None
    <3> HIDE DEF d
    <3> QED
      BY <1>5, <2>2 DEF Listing
  <2> QED
    BY <2>1, <2>2
<1>7. /\ apart /\ ctx[h].exact =>
           /\ so.present \subseteq NamesIn(tree, ctx[h].node)
           /\ d = ctx[h].node
           /\ \A n \in so.present \ so.seen : ToCome(so, n)
  <2>1. SUFFICES ASSUME apart, ctx[h].exact
                 PROVE  /\ so.present \subseteq NamesIn(tree, ctx[h].node)
                        /\ d = ctx[h].node
                        /\ \A n \in so.present \ so.seen : ToCome(so, n)
    OBVIOUS
  <2>2. Leads(tree, ctx[h].name, ctx[h].node)
    BY <1>3, <2>1 DEF OnTheDisk
  <2>3. d = ctx[h].node
    BY <1>1, <1>3, <1>4, <2>1, <2>2, ReaderAgrees
  <2>4. CASE ctx[h].listing # None
    BY <1>3, <2>1, <2>3, <2>4 DEF ListOK
  <2>5. CASE ctx[h].listing = None
    <3>1. so = [marker |-> None, seen |-> {}, present |-> NamesIn(tree, d), ended |-> FALSE]
      BY <2>5
    <3> HIDE DEF so, d
    <3> QED
      BY <2>3, <3>1 DEF ToCome
  <2> QED
    BY <2>4, <2>5
<1> HIDE DEF so, d
<1>8. left \subseteq NamesIn(tree, d) /\ page \subseteq left
  BY <1>2 DEF After, Pages
<1>9. page # {} => LastOf(page) \in page
  BY <1>5, <1>8, LastOfFacts
<1>10. ctx' = [ctx EXCEPT ![h] = x]
  <2>1. ctx' = [ctx EXCEPT ![h].listing = l]
    BY <1>2
  <2> HIDE DEF l
  <2> QED
    BY <2>1
<1>11. marker \in Name \cup {None} /\ seen \in SUBSET Name /\ ended \in BOOLEAN
  <2>1. so.marker \in Name \cup {None} /\ so.seen \in SUBSET Name
    BY <1>6 DEF Listing
  <2>2. page \subseteq Name
    BY <1>5, <1>8
  <2> HIDE DEF left
  <2> QED
    BY <1>9, <2>1, <2>2
<1>12. \A n \in so.present \ seen :
         apart /\ ctx[h].exact => ~ended /\ (marker # None => FoldOf[n] # FoldOf[marker]
                                                             /\ Position(n) > Position(marker))
  <2>1. SUFFICES ASSUME NEW n \in so.present, n \notin seen, apart, ctx[h].exact
                 PROVE  /\ ~ended
                        /\ marker # None => FoldOf[n] # FoldOf[marker]
                                            /\ Position(n) > Position(marker)
    OBVIOUS
  <2>2. n \in NamesIn(tree, d) /\ ToCome(so, n) /\ n \notin page
    BY <1>7, <2>1
  <2>3. n \in left
    BY <2>2 DEF After, ToCome
  <2>4. ~ended
    BY <2>2, <2>3
  <2>5. page # {}
    BY <1>2, <2>3 DEF Pages
  <2>6. marker = LastOf(page) /\ marker \in page
    BY <1>9, <2>5
  <2>7. Position(marker) < Position(n)
    BY <1>2, <2>2, <2>3, <2>6 DEF Pages
  <2>8. Position(marker) \in Nat /\ Position(n) \in Nat
    BY <1>5, <1>8, <2>2, <2>6, Positions
  <2>9. FoldOf[n] # FoldOf[marker]
    BY <1>4, <1>8, <2>1, <2>2, <2>6, KeysApart
  <2> HIDE DEF marker, ended
  <2> QED
    BY <2>4, <2>7, <2>8, <2>9
<1> HIDE DEF left, marker, ended, seen
<1>13. /\ l \in Listing
       /\ l.marker = marker /\ l.seen = seen /\ l.present = so.present /\ l.ended = ended
  BY <1>6, <1>11 DEF Listing
<1> HIDE DEF l
<1>14. /\ x \in Context /\ x.listing = l /\ x.name = ctx[h].name /\ x.path = ctx[h].path
       /\ x.node = ctx[h].node /\ x.directory = ctx[h].directory /\ x.exact = ctx[h].exact
  BY <1>3, <1>13 DEF Context
<1> HIDE DEF x
<1>15. apart => ListOK(x, tree)
  BY <1>7, <1>12, <1>13, <1>14 DEF ListOK, ToCome
<1>16. apart => OnTheDisk(x, tree)
  BY <1>3, <1>14 DEF OnTheDisk
<1> QED
  BY <1>1, <1>3, <1>10, <1>14, <1>15, <1>16, ContextKeepsHandles

-----------------------------------------------------------------------------
(* The specification.                                                      *)

(* The invariant holds at first ...                                        *)
LEMMA InitOK == Init => IInv
<1> SUFFICES ASSUME Init PROVE IInv
  OBVIOUS
<1>1. TreeOK
  BY TreeInit
<1>2. /\ ctx \in [Handle -> Context \cup {None}] /\ apart \in BOOLEAN
      /\ \A h \in Handle : ctx[h] = None
      /\ apart <=> NamesApart(tree)
  BY DEF Init, NamesApart
<1>3. NamesInv /\ PathInv /\ ListInv
  BY <1>2 DEF NamesInv, PathInv, ListInv
<1> QED
  BY <1>1, <1>2, <1>3 DEF IInv, HandlesOK

(* ... is kept when nothing happens ...                                    *)
LEMMA Unwatched ==
  ASSUME IInv, UNCHANGED vars
  PROVE  HandlesOK'
<1>1. HandlesOK /\ tree' = tree /\ ctx' = ctx /\ apart' = apart
  BY DEF vars, IInv
<1>2. NamesInv'
  BY <1>1 DEF HandlesOK, NamesInv, NamesApart, Live
<1>3. PathInv'
  BY <1>1 DEF HandlesOK, PathInv, OnTheDisk, DirectoriesOf, Live
<1>4. ListInv'
  BY <1>1 DEF HandlesOK, ListInv, ListOK, NamesIn, Children, Live, ToCome, Position
<1> QED
  BY <1>1, <1>2, <1>3, <1>4 DEF HandlesOK

(* ... and by every callback.                                              *)
LEMMA HandlesStep == IInv /\ [Next]_vars => HandlesOK'
<1> SUFFICES ASSUME IInv, [Next]_vars PROVE HandlesOK'
  OBVIOUS
<1>1. CASE UNCHANGED vars
  BY <1>1, Unwatched
<1>2. CASE Next
  <2>1. PICK h \in Handle :
          \/ \E p \in Path :
               \/ \E directory \in BOOLEAN : Create(h, p, directory)
               \/ Open(h, p)
               \/ RenameDirectory(h, p)
               \/ \E replaceIfExists \in BOOLEAN : RenameFile(h, p, replaceIfExists)
          \/ \E delete \in BOOLEAN : Cleanup(h, delete)
          \/ ReadDirectory(h)
    BY <1>2 DEF Next
  <2>2. CASE \E p \in Path, directory \in BOOLEAN : Create(h, p, directory)
    BY <2>2, CreateHandles
  <2>3. CASE \E p \in Path : Open(h, p)
    BY <2>3, OpenHandles
  <2>4. CASE \E p \in Path : RenameDirectory(h, p)
    BY <2>4, RenameDirectoryHandles
  <2>5. CASE \E p \in Path, replaceIfExists \in BOOLEAN : RenameFile(h, p, replaceIfExists)
    BY <2>5, RenameFileHandles
  <2>6. CASE \E delete \in BOOLEAN : Cleanup(h, delete)
    BY <2>6, CleanupHandles
  <2>7. CASE ReadDirectory(h)
    BY <2>7, ReadDirectoryHandles
  <2> QED
    BY <2>1, <2>2, <2>3, <2>4, <2>5, <2>6, <2>7
<1> QED
  BY <1>1, <1>2

(* The invariant is inductive.                                             *)
LEMMA StepOK == IInv /\ [Next]_vars => IInv'
BY TreeStep, HandlesStep DEF IInv

(* In a step, a handle that does not act stays open under its name, and    *)
(* the one that acts changes what it was opened on or what it replaces.    *)
LEMMA OnlyOpenedStep ==
  ASSUME IInv, Next, NEW g \in Handle, apart', ctx[g] # None, ctx[g].exact,
         NEW i \in Live(tree), tree'[i] # tree[i], i # ctx[g].node
  PROVE  /\ ctx'[g] # None
         /\ ctx'[g].name # ctx[g].name => tree'[i] = None /\ ~tree[i].directory
<1>1. PICK h \in Handle :
        \/ \E p \in Path :
             \/ \E directory \in BOOLEAN : Create(h, p, directory)
             \/ Open(h, p)
             \/ RenameDirectory(h, p)
             \/ \E replaceIfExists \in BOOLEAN : RenameFile(h, p, replaceIfExists)
        \/ \E delete \in BOOLEAN : Cleanup(h, delete)
        \/ ReadDirectory(h)
  BY DEF Next
<1>2. CASE \E p \in Path, directory \in BOOLEAN : Create(h, p, directory)
  BY <1>2, CreateHandles
<1>3. CASE \E p \in Path : Open(h, p)
  BY <1>3 DEF Open
<1>4. CASE \E p \in Path : RenameDirectory(h, p)
  <2>1. PICK to \in Path : RenameDirectory(h, to)
    BY <1>4
  <2>2. CASE g = h
    BY <2>1, <2>2, RenameDirectoryHandles
  <2>3. CASE g # h
    BY <2>1, <2>3, RenameDirectoryHandles DEF OthersStay
  <2> QED
    BY <2>2, <2>3
<1>5. CASE \E p \in Path, replaceIfExists \in BOOLEAN : RenameFile(h, p, replaceIfExists)
  <2>1. PICK to \in Path, replaceIfExists \in BOOLEAN : RenameFile(h, to, replaceIfExists)
    BY <1>5
  <2>2. CASE g = h
    BY <2>1, <2>2, RenameFileHandles
  <2>3. CASE g # h
    BY <2>1, <2>3, RenameFileHandles DEF OthersStay
  <2> QED
    BY <2>2, <2>3
<1>6. CASE \E delete \in BOOLEAN : Cleanup(h, delete)
  <2>1. PICK delete \in BOOLEAN : Cleanup(h, delete)
    BY <1>6
  <2>2. CASE g = h
    BY <2>1, <2>2, CleanupHandles
  <2>3. CASE g # h
    <3>1. CASE UNCHANGED tree
      BY <3>1
    <3>2. CASE ctx' = Watched([ctx EXCEPT ![h] = None], tree')
      BY <2>3, <3>2, OtherHandles DEF OthersStay
    <3> QED
      BY <2>1, <3>1, <3>2 DEF Cleanup
  <2> QED
    BY <2>2, <2>3
<1>7. CASE ReadDirectory(h)
  BY <1>7 DEF ReadDirectory
<1> QED
  BY <1>1, <1>2, <1>3, <1>4, <1>5, <1>6, <1>7

-----------------------------------------------------------------------------
(* The theorems.                                                           *)

(* Whatever is created, renamed, moved and deleted in whatever order, all  *)
(* entries can be reached from the root, no directory comes to be inside   *)
(* itself, and none has one name twice.                                    *)
THEOREM TreeKept == Spec => []TreeInv
<1>1. TreeOK => TreeInv
  BY DEF TreeOK, Sound, TreeInv
<1> QED
  BY <1>1, TreeInit, TreeStep, PTL DEF Spec

(* The values that the callbacks put into the tree, the contexts and their *)
(* listings are of their types, also after failed and refused commits.     *)
THEOREM DirectoryTypes == Spec => []TypeOK
<1>1. IInv => TypeOK
  BY DEF IInv, TreeOK, HandlesOK, Sound, TypeOK
<1> QED
  BY <1>1, InitOK, StepOK, PTL DEF Spec

(* However the calls of an enumeration interleave with renames, creations  *)
(* and deletions, it shows every name that stays from its first call on.   *)
THEOREM ListingsComplete == Spec => []ListsWhatStays
<1>1. IInv => ListsWhatStays
  BY DEF IInv, HandlesOK, ListInv, ListOK, ToCome, ListsWhatStays
<1> QED
  BY <1>1, InitOK, StepOK, PTL DEF Spec

(* A handle keeps a path and not an inode; still what its callbacks remove *)
(* and move is what was opened, or a file that its rename replaces.        *)
THEOREM OnlyTheOpened == Spec => OnlyWhatWasOpened
<1>1. IInv /\ [Next]_vars =>
        [\A h \in Handle : apart' /\ ctx[h] # None /\ ctx[h].exact =>
           \A i \in Live(tree) : tree'[i] # tree[i] /\ i # ctx[h].node =>
             /\ ctx'[h] # None
             /\ ctx'[h].name # ctx[h].name => tree'[i] = None /\ ~tree[i].directory]_vars
  BY OnlyOpenedStep
<1> QED
  BY <1>1, InitOK, StepOK, PTL DEF Spec, OnlyWhatWasOpened

=============================================================================
