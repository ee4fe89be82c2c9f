-------------------------- MODULE FileHandlesProofs --------------------------
(***************************************************************************)
(* Theorems of FileHandles, for every value of its constants.  They begin  *)
(* with what the mutations of a volume return: a volume again, the file    *)
(* that was meant, every other file as it was, no inode without a name.    *)
(* The next part needs no more than that the volume stays consistent: the  *)
(* types, that no inode is orphaned and that every alias sees a new link.  *)
(* The last relates what a handle has staged, what the volume stores and   *)
(* what the calls on the handle say.                                       *)
(***************************************************************************)
EXTENDS FileHandles, FiniteSetTheorems, SequenceTheorems, TLAPS

-----------------------------------------------------------------------------
(* A write.                                                                *)

LEMMA WrittenType ==
  ASSUME NEW c \in Content, NEW n \in Name, NEW d \in Data, LegalWrite(c, n)
  PROVE  Written(c, n, d) \in Content
<1>1. CASE Exists(c, n)
  <2>1. c.node[n] \in Node
    BY <1>1 DEF Exists, Content
  <2> QED
    BY <1>1, <2>1 DEF Written, Content
<1>2. CASE ~Exists(c, n)
  <2>1. c.next \in Node
    BY <1>2 DEF LegalWrite
  <2>2. c.next + 1 \in 1..(MaxNode + 1)
    BY <2>1, VolumeAssumption DEF Node
  <2> QED
    BY <1>2, <2>1, <2>2 DEF Written, Content
<1> QED
  BY <1>1, <1>2

(* The name stands for the data that was written, other names for what     *)
(* they stood for, and an inode that has not been written keeps its data.  *)
LEMMA WrittenFile ==
  ASSUME NEW c \in Content, NEW n \in Name, NEW d \in Data, LegalWrite(c, n)
  PROVE  LET w == Written(c, n, d)
         IN  /\ w.node[n] = IF Exists(c, n) THEN c.node[n] ELSE c.next
             /\ w.node[n] \in Node
             /\ Exists(w, n) /\ DataOf(w, n) = d
             /\ \A m \in Name : m # n => w.node[m] = c.node[m]
             /\ Exists(c, n) => w.node = c.node /\ w.next = c.next
             /\ ~Exists(c, n) => w.next = c.next + 1
             /\ \A i \in Node : i # w.node[n] => w.data[i] = c.data[i]
<1>1. CASE Exists(c, n)
  <2>1. c.node[n] \in Node
    BY <1>1 DEF Exists, Content
  <2> QED
    BY <1>1, <2>1 DEF Written, Content, Exists, DataOf
<1>2. CASE ~Exists(c, n)
  <2>1. c.next \in Node /\ c.next # None
    BY <1>2, VolumeAssumption DEF LegalWrite, Node
  <2> QED
    BY <1>2, <2>1 DEF Written, Content, Exists, DataOf
<1> QED
  BY <1>1, <1>2

LEMMA WrittenConsistent ==
  ASSUME NEW c \in Content, NEW n \in Name, NEW d \in Data, LegalWrite(c, n), Consistent(c)
  PROVE  Consistent(Written(c, n, d))
<1> DEFINE w == Written(c, n, d)
<1>1. w \in Content /\ c.next \in Nat
  BY WrittenType DEF Content
<1>2. /\ w.node[n] = IF Exists(c, n) THEN c.node[n] ELSE c.next
      /\ w.node[n] \in Node
      /\ DataOf(w, n) = d
      /\ \A m \in Name : m # n => w.node[m] = c.node[m]
      /\ Exists(c, n) => w.node = c.node /\ w.next = c.next
      /\ ~Exists(c, n) => w.next = c.next + 1
      /\ \A i \in Node : i # w.node[n] => w.data[i] = c.data[i]
  BY WrittenFile
<1> HIDE DEF w
<1>3. SUFFICES ASSUME NEW i \in Node
               PROVE  /\ w.data[i] # None <=> NamesOf(w, i) # {}
                      /\ w.data[i] # None => i < w.next
  BY DEF Consistent, w
<1>4. CASE i = w.node[n]
  <2>1. w.data[i] # None /\ n \in NamesOf(w, i)
    BY <1>2, <1>4, VolumeAssumption DEF DataOf, NamesOf
  <2>2. i < w.next
    BY <1>1, <1>2, <1>4 DEF Consistent, NamesOf, Exists, Node
  <2> QED
    BY <2>1, <2>2
<1>5. CASE i # w.node[n]
  <2>1. w.data[i] = c.data[i]
    BY <1>2, <1>5
  <2>2. c.node[n] # i
    BY <1>2, <1>5, VolumeAssumption DEF Exists, Node
  <2>3. NamesOf(w, i) = NamesOf(c, i)
    BY <1>2, <1>5, <2>2 DEF NamesOf
  <2> QED
    BY <1>1, <1>2, <2>1, <2>3 DEF Consistent, Node
<1> QED
  BY <1>4, <1>5

-----------------------------------------------------------------------------
(* A deletion.                                                             *)

(* An inode with two names is not the last name's.                         *)
LEMMA OtherName ==
  ASSUME IsFiniteSet(Name), NEW c \in Content, NEW n \in Name, c.node[n] # None
  PROVE  LinkCount(c, c.node[n]) > 1 <=> \E m \in Name \ {n} : c.node[m] = c.node[n]
<1> DEFINE names == NamesOf(c, c.node[n])
           rest == names \ {n}
<1>1. IsFiniteSet(names) /\ n \in names
  BY FS_Subset DEF NamesOf
<1>2. IsFiniteSet(rest) /\ Cardinality(rest) = Cardinality(names) - 1 /\ Cardinality(rest) \in Nat
  BY <1>1, FS_RemoveElement, FS_CardinalityType
<1>3. Cardinality(rest) = 0 <=> rest = {}
  BY <1>2, FS_EmptySet
<1>4. rest # {} <=> \E m \in Name \ {n} : c.node[m] = c.node[n]
  BY DEF NamesOf
<1>5. Cardinality(names) \in Nat
  BY <1>1, FS_CardinalityType
<1> QED
  BY <1>2, <1>3, <1>4, <1>5 DEF LinkCount

LEMMA DeletedType ==
  ASSUME NEW c \in Content, NEW n \in Name, Exists(c, n)
  PROVE  Deleted(c, n) \in Content
<1>1. c.node[n] \in Node
  BY DEF Exists, Content
<1> QED
  BY <1>1 DEF Deleted, Content

(* Only the name goes, and its inode if it has no other name.              *)
LEMMA DeletedFile ==
  ASSUME IsFiniteSet(Name), NEW c \in Content, NEW n \in Name, Exists(c, n)
  PROVE  LET w == Deleted(c, n)
         IN  /\ ~Exists(w, n)
             /\ \A m \in Name : m # n => w.node[m] = c.node[m]
             /\ w.next = c.next
             /\ \A i \in Node : i # c.node[n] => w.data[i] = c.data[i]
             /\ w.data[c.node[n]] = IF \E m \in Name \ {n} : c.node[m] = c.node[n]
                                    THEN c.data[c.node[n]] ELSE None
             /\ \A m \in Name \ {n} : Exists(c, m) => DataOf(w, m) = DataOf(c, m)
<1>1. c.node[n] \in Node
  BY DEF Exists, Content
<1>2. LinkCount(c, c.node[n]) > 1 <=> \E m \in Name \ {n} : c.node[m] = c.node[n]
  BY OtherName DEF Exists
<1> DEFINE w == Deleted(c, n)
<1>3. /\ w.node = [c.node EXCEPT ![n] = None]
      /\ w.next = c.next
      /\ w.data = [c.data EXCEPT ![c.node[n]] =
                     IF LinkCount(c, c.node[n]) > 1 THEN @ ELSE None]
  BY DEF Deleted, Content
<1> HIDE DEF w
<1>4. /\ ~Exists(w, n)
      /\ \A m \in Name : m # n => w.node[m] = c.node[m]
      /\ \A i \in Node : i # c.node[n] => w.data[i] = c.data[i]
      /\ w.data[c.node[n]] = IF \E m \in Name \ {n} : c.node[m] = c.node[n]
                             THEN c.data[c.node[n]] ELSE None
  BY <1>1, <1>2, <1>3 DEF Exists, Content
<1>5. ASSUME NEW m \in Name \ {n}, Exists(c, m)
      PROVE  DataOf(w, m) = DataOf(c, m)
  <2>1. c.node[m] \in Node
    BY <1>5 DEF Exists, Content
  <2> QED
    BY <1>4, <2>1 DEF DataOf
<1> QED
  BY <1>3, <1>4, <1>5 DEF w

LEMMA DeletedConsistent ==
  ASSUME IsFiniteSet(Name), NEW c \in Content, NEW n \in Name, Exists(c, n), Consistent(c)
  PROVE  Consistent(Deleted(c, n))
<1> DEFINE w == Deleted(c, n)
<1>1. /\ ~Exists(w, n)
      /\ \A m \in Name : m # n => w.node[m] = c.node[m]
      /\ w.next = c.next
      /\ \A i \in Node : i # c.node[n] => w.data[i] = c.data[i]
      /\ w.data[c.node[n]] = IF \E m \in Name \ {n} : c.node[m] = c.node[n]
                             THEN c.data[c.node[n]] ELSE None
  BY DeletedFile
<1> HIDE DEF w
<1>2. SUFFICES ASSUME NEW i \in Node
               PROVE  /\ w.data[i] # None <=> NamesOf(w, i) # {}
                      /\ w.data[i] # None => i < w.next
  BY DEF Consistent, w
<1>3. i # None
  BY VolumeAssumption DEF Node
<1>4. NamesOf(w, i) = NamesOf(c, i) \ {n}
  BY <1>1, <1>3 DEF NamesOf, Exists
<1>5. CASE i = c.node[n]
  BY <1>1, <1>4, <1>5 DEF Consistent, NamesOf
<1>6. CASE i # c.node[n]
  BY <1>1, <1>4, <1>6 DEF Consistent, NamesOf
<1> QED
  BY <1>5, <1>6

-----------------------------------------------------------------------------
(* A rename and a link.                                                    *)

LEMMA RenamedType ==
  ASSUME NEW c \in Content, NEW from \in Name, NEW to \in Name, LegalRename(c, from, to)
  PROVE  Renamed(c, from, to) \in Content
BY DEF Renamed, Content

(* The inode goes with the name.                                           *)
LEMMA RenamedFile ==
  ASSUME NEW c \in Content, NEW from \in Name, NEW to \in Name, LegalRename(c, from, to)
  PROVE  LET w == Renamed(c, from, to)
         IN  /\ w.node[to] = c.node[from] /\ Exists(w, to)
             /\ w.data = c.data /\ w.next = c.next
             /\ from # to => ~Exists(w, from) /\ ~Exists(c, to)
             /\ \A m \in Name \ {from, to} : w.node[m] = c.node[m]
<1>1. from # to => ~Exists(c, to)
  BY DEF LegalRename, Collides
<1> QED
  BY <1>1 DEF Renamed, Content, Exists, LegalRename

LEMMA RenamedConsistent ==
  ASSUME NEW c \in Content, NEW from \in Name, NEW to \in Name, LegalRename(c, from, to),
         Consistent(c)
  PROVE  Consistent(Renamed(c, from, to))
<1> DEFINE w == Renamed(c, from, to)
<1>1. /\ w.node[to] = c.node[from] /\ Exists(w, to)
      /\ w.data = c.data /\ w.next = c.next
      /\ from # to => ~Exists(w, from) /\ ~Exists(c, to)
      /\ \A m \in Name \ {from, to} : w.node[m] = c.node[m]
  BY RenamedFile
<1> HIDE DEF w
<1>2. ASSUME NEW i \in Node
      PROVE  NamesOf(w, i) # {} <=> NamesOf(c, i) # {}
  <2>1. i # None
    BY VolumeAssumption DEF Node
  <2>2. ASSUME NEW m \in NamesOf(w, i)
        PROVE  NamesOf(c, i) # {}
    BY <1>1, <2>1, <2>2 DEF NamesOf, Exists
  <2>3. ASSUME NEW m \in NamesOf(c, i)
        PROVE  NamesOf(w, i) # {}
    BY <1>1, <2>1, <2>3 DEF NamesOf, Exists
  <2> QED
    BY <2>2, <2>3
<1> QED
  BY <1>1, <1>2 DEF Consistent, w

LEMMA LinkedType ==
  ASSUME NEW c \in Content, NEW from \in Name, NEW to \in Name, LegalLink(c, from, to)
  PROVE  Linked(c, from, to) \in Content
BY DEF Linked, Content

(* A link is a new name for the inode.                                     *)
LEMMA LinkedFile ==
  ASSUME NEW c \in Content, NEW from \in Name, NEW to \in Name, LegalLink(c, from, to)
  PROVE  LET w == Linked(c, from, to)
         IN  /\ w.node[to] = c.node[from] /\ Exists(w, to) /\ ~Exists(c, to)
             /\ w.data = c.data /\ w.next = c.next
             /\ \A m \in Name \ {to} : w.node[m] = c.node[m]
<1>1. ~Exists(c, to)
  BY DEF LegalLink, Collides
<1> QED
  BY <1>1 DEF Linked, Content, Exists, LegalLink

LEMMA LinkedConsistent ==
  ASSUME NEW c \in Content, NEW from \in Name, NEW to \in Name, LegalLink(c, from, to),
         Consistent(c)
  PROVE  Consistent(Linked(c, from, to))
<1> DEFINE w == Linked(c, from, to)
<1>1. /\ w.node[to] = c.node[from] /\ Exists(w, to) /\ ~Exists(c, to)
      /\ w.data = c.data /\ w.next = c.next
      /\ \A m \in Name \ {to} : w.node[m] = c.node[m]
  BY LinkedFile
<1> HIDE DEF w
<1>2. from # to /\ Exists(c, from)
  BY <1>1 DEF LegalLink
<1>3. ASSUME NEW i \in Node
      PROVE  NamesOf(w, i) # {} <=> NamesOf(c, i) # {}
  <2>1. i # None
    BY VolumeAssumption DEF Node
  <2>2. ASSUME NEW m \in NamesOf(w, i)
        PROVE  NamesOf(c, i) # {}
    BY <1>1, <1>2, <2>1, <2>2 DEF NamesOf, Exists
  <2>3. ASSUME NEW m \in NamesOf(c, i)
        PROVE  NamesOf(w, i) # {}
    BY <1>1, <1>2, <2>1, <2>3 DEF NamesOf, Exists
  <2> QED
    BY <2>2, <2>3
<1> QED
  BY <1>1, <1>3 DEF Consistent, w

-----------------------------------------------------------------------------
(* Files.                                                                  *)

(* A name of a consistent volume stands for an inode in use, with data.    *)
LEMMA FileHasData ==
  ASSUME NEW c \in Content, Consistent(c), NEW n \in Name, Exists(c, n)
  PROVE  /\ c.node[n] \in Node
         /\ c.node[n] < c.next
         /\ DataOf(c, n) \in Data
<1>1. c.node[n] \in Node
  BY DEF Exists, Content
<1>2. n \in NamesOf(c, c.node[n])
  BY DEF NamesOf
<1> QED
  BY <1>1, <1>2 DEF Consistent, DataOf, Content

LEMMA LinkCountType ==
  ASSUME IsFiniteSet(Name), NEW c \in Content, NEW i
  PROVE  /\ LinkCount(c, i) \in 0..Cardinality(Name)
         /\ IsFiniteSet(NamesOf(c, i))
         /\ LinkCount(c, i) > 0 <=> NamesOf(c, i) # {}
<1>1. IsFiniteSet(NamesOf(c, i)) /\ Cardinality(NamesOf(c, i)) <= Cardinality(Name)
  BY FS_Subset DEF NamesOf
<1>2. Cardinality(NamesOf(c, i)) \in Nat /\ Cardinality(Name) \in Nat
  BY <1>1, FS_CardinalityType
<1>3. Cardinality(NamesOf(c, i)) = 0 <=> NamesOf(c, i) = {}
  BY <1>1, FS_EmptySet
<1> QED
  BY <1>1, <1>2, <1>3 DEF LinkCount

-----------------------------------------------------------------------------
(* Link counts.                                                            *)

LEMMA FewerNames ==
  ASSUME IsFiniteSet(Name), NEW c \in Content, NEW w \in Content, NEW i,
         NamesOf(w, i) \subseteq NamesOf(c, i)
  PROVE  LinkCount(w, i) <= LinkCount(c, i)
<1>1. IsFiniteSet(NamesOf(c, i))
  BY LinkCountType
<1> QED
  BY <1>1, FS_Subset DEF LinkCount

(* A write gives a name to no inode that has one.                          *)
LEMMA WrittenLinks ==
  ASSUME IsFiniteSet(Name), NEW c \in Content, NEW n \in Name, NEW d \in Data,
         LegalWrite(c, n), Consistent(c), NEW i \in Node, LinkCount(c, i) > 0
  PROVE  LinkCount(Written(c, n, d), i) = LinkCount(c, i)
<1> DEFINE w == Written(c, n, d)
<1>1. /\ w.node[n] = IF Exists(c, n) THEN c.node[n] ELSE c.next
      /\ \A m \in Name : m # n => w.node[m] = c.node[m]
  BY WrittenFile
<1> HIDE DEF w
<1>2. NamesOf(c, i) # {}
  BY LinkCountType
<1>3. i < c.next /\ i # None
  BY <1>2, VolumeAssumption DEF Consistent, Node
<1>4. i # c.next
  BY <1>3, VolumeAssumption DEF Node, Content
<1>5. NamesOf(w, i) = NamesOf(c, i)
  BY <1>1, <1>3, <1>4 DEF NamesOf, Exists
<1> QED
  BY <1>5 DEF LinkCount, w

LEMMA DeletedLinks ==
  ASSUME IsFiniteSet(Name), NEW c \in Content, NEW n \in Name, Exists(c, n), NEW i \in Node
  PROVE  LinkCount(Deleted(c, n), i) <= LinkCount(c, i)
<1> DEFINE w == Deleted(c, n)
<1>1. ~Exists(w, n) /\ \A m \in Name : m # n => w.node[m] = c.node[m]
  BY DeletedFile
<1>2. w \in Content /\ i # None
  BY DeletedType, VolumeAssumption DEF Node
<1> HIDE DEF w
<1>3. NamesOf(w, i) \subseteq NamesOf(c, i)
  BY <1>1, <1>2 DEF NamesOf, Exists
<1> QED
  BY <1>2, <1>3, FewerNames DEF w

(* A rename takes a name from the inode and gives it one.                  *)
LEMMA RenamedLinks ==
  ASSUME IsFiniteSet(Name), NEW c \in Content, NEW from \in Name, NEW to \in Name,
         LegalRename(c, from, to), NEW i \in Node
  PROVE  LinkCount(Renamed(c, from, to), i) <= LinkCount(c, i)
<1> DEFINE w == Renamed(c, from, to)
<1>1. /\ w.node[to] = c.node[from]
      /\ from # to => ~Exists(w, from) /\ ~Exists(c, to)
      /\ \A m \in Name \ {from, to} : w.node[m] = c.node[m]
  BY RenamedFile
<1>2. w \in Content /\ i # None
  BY RenamedType, VolumeAssumption DEF Node
<1> HIDE DEF w
<1>3. CASE from # to /\ c.node[from] = i
  <2> DEFINE rest == NamesOf(c, i) \ {from}
  <2>1. IsFiniteSet(NamesOf(c, i)) /\ LinkCount(c, i) \in Nat /\ from \in NamesOf(c, i)
    BY <1>3, LinkCountType, FS_CardinalityType DEF LinkCount, NamesOf
  <2>2. IsFiniteSet(rest) /\ Cardinality(rest) = LinkCount(c, i) - 1 /\ to \notin rest
    BY <1>1, <1>2, <1>3, <2>1, FS_RemoveElement DEF LinkCount, NamesOf, Exists
  <2>3. NamesOf(w, i) = rest \cup {to}
    BY <1>1, <1>2, <1>3 DEF NamesOf, Exists
  <2>4. Cardinality(rest \cup {to}) = Cardinality(rest) + 1
    BY <2>2, FS_AddElement
  <2> QED
    BY <2>1, <2>2, <2>3, <2>4 DEF LinkCount, w
<1>4. CASE from = to \/ c.node[from] # i
  <2>1. NamesOf(w, i) \subseteq NamesOf(c, i)
    BY <1>1, <1>2, <1>4 DEF NamesOf, Exists
  <2> QED
    BY <1>2, <2>1, FewerNames DEF w
<1> QED
  BY <1>3, <1>4

(* A link gives a name to one inode only.                                  *)
LEMMA LinkedLinks ==
  ASSUME IsFiniteSet(Name), NEW c \in Content, NEW from \in Name, NEW to \in Name,
         LegalLink(c, from, to), NEW i \in Node, i # c.node[from]
  PROVE  LinkCount(Linked(c, from, to), i) <= LinkCount(c, i)
<1> DEFINE w == Linked(c, from, to)
<1>1. w.node[to] = c.node[from] /\ \A m \in Name \ {to} : w.node[m] = c.node[m]
  BY LinkedFile
<1>2. w \in Content
  BY LinkedType
<1> HIDE DEF w
<1>3. NamesOf(w, i) \subseteq NamesOf(c, i)
  BY <1>1 DEF NamesOf
<1> QED
  BY <1>2, <1>3, FewerNames DEF w

-----------------------------------------------------------------------------
(* The invariant of the types and of the volume.                           *)

IsOpen(h) == ctx[h] # None /\ ~ctx[h].cleaned

(* A change that has been read for is made: its handle stays open.         *)
VolumeInv ==
  /\ TypeOK
  /\ Consistent(volume)
  /\ \A h \in Handle :
       /\ change[h] # None => IsOpen(h) /\ ~TooLarge(change[h].base, change[h].request)
       /\ IsOpen(h) => view[h] # None

-----------------------------------------------------------------------------
(* Data.                                                                   *)

LEMMA DataType ==
  ASSUME NEW d \in Data
  PROVE  d \in Seq(Byte) /\ Len(d) \in 0..MaxSize
<1>1. PICK k \in 0..MaxSize : d \in [1..k -> Byte]
  BY FileHandlesAssumption
<1>2. k \in Nat
  BY <1>1, FileHandlesAssumption
<1> QED
  BY <1>1, <1>2

LEMMA DataOfLength ==
  ASSUME NEW k \in 0..MaxSize, NEW d \in [1..k -> Byte]
  PROVE  d \in Data /\ Len(d) = k
<1>1. d \in Data
  BY FileHandlesAssumption
<1>2. k \in Nat
  BY FileHandlesAssumption
<1> QED
  BY <1>1, <1>2

LEMMA EmptyData ==
  <<>> \in Data /\ Len(<<>>) = 0
<1>1. 0 \in 0..MaxSize
  BY FileHandlesAssumption
<1>2. <<>> \in [1..0 -> Byte]
  OBVIOUS
<1> QED
  BY <1>1, <1>2, DataOfLength

(* The first k bytes, which are all of them if there are no more.          *)
LEMMA PrefixOfData ==
  ASSUME NEW d \in Data, NEW k \in Nat
  PROVE  Prefix(d, k) \in Data /\ (k = Len(d) => Prefix(d, k) = d)
<1>1. d \in Seq(Byte) /\ Len(d) \in 0..MaxSize
  BY DataType
<1> DEFINE n == IF k < Len(d) THEN k ELSE Len(d)
<1>2. n \in 0..MaxSize /\ n \in Int /\ n <= Len(d) /\ n \in Nat
  BY <1>1, FileHandlesAssumption
<1>3. \A i \in 1..n : d[i] \in Byte
  BY <1>1, <1>2
<1> HIDE DEF n
<1>4. SubSeq(d, 1, n) \in Seq(Byte) /\ Len(SubSeq(d, 1, n)) = n
  BY <1>2, <1>3, SubSeqProperties
<1>5. SubSeq(d, 1, n) \in Data
  <2>1. SubSeq(d, 1, n) \in [1..n -> Byte]
    BY <1>4, LenProperties
  <2> QED
    BY <1>2, <2>1, DataOfLength
<1>6. k = Len(d) => SubSeq(d, 1, n) = d
  BY <1>1, SubSeqFull DEF n
<1> QED
  BY <1>5, <1>6 DEF Prefix, n

(* What a change makes of the bytes it starts from.                        *)
LEMMA ChangedBytes ==
  ASSUME NEW d \in Seq(Byte), NEW q \in Request
  PROVE  /\ SizeAfter(d, q) \in Nat
         /\ Changed(d, q) \in [1..SizeAfter(d, q) -> Byte]
         /\ Changed(d, q) \in Seq(Byte)
         /\ Len(Changed(d, q)) = SizeAfter(d, q)
<1>1. Len(d) \in Nat /\ d \in [1..Len(d) -> Byte]
  BY LenProperties
<1>2. SizeAfter(d, q) \in Nat
  BY <1>1, FileHandlesAssumption DEF SizeAfter, Request
<1>3. Changed(d, q) \in [1..SizeAfter(d, q) -> Byte]
  <2>1. SUFFICES ASSUME NEW i \in 1..SizeAfter(d, q)
                 PROVE  Changed(d, q)[i] \in Byte
    BY DEF Changed
  <2>2. CASE q.op = "write"
    BY <1>1, <2>2, <1>2 DEF Changed, Request
  <2>3. CASE q.op = "append"
    BY <1>1, <2>3, <1>2 DEF Changed, Request, SizeAfter
  <2>4. CASE q.op = "size"
    BY <1>1, <2>4, <1>2 DEF Changed, Request
  <2> QED
    BY <2>2, <2>3, <2>4 DEF Request
<1> QED
  BY <1>2, <1>3

LEMMA ChangedType ==
  ASSUME NEW d \in Data, NEW q \in Request, ~TooLarge(d, q)
  PROVE  /\ SizeAfter(d, q) \in 0..MaxSize
         /\ Changed(d, q) \in Data
         /\ Len(Changed(d, q)) = SizeAfter(d, q)
<1>1. d \in Seq(Byte)
  BY DataType
<1>2. SizeAfter(d, q) \in 0..MaxSize
  BY <1>1, ChangedBytes, FileHandlesAssumption DEF TooLarge
<1> QED
  BY <1>1, <1>2, ChangedBytes, DataOfLength

-----------------------------------------------------------------------------
(* Files and contexts.                                                     *)

LEMMA LookupFinds ==
  ASSUME NEW c \in Content, NEW n \in Name, Matches(c, n) # {}
  PROVE  Lookup(c, n) \in Name /\ Exists(c, Lookup(c, n))
BY DEF Matches, Lookup

LEMMA LookupOfExisting ==
  ASSUME NEW c \in Content, NEW n \in Name, Exists(c, n)
  PROVE  Matches(c, n) = {n} /\ Lookup(c, n) = n
BY DEF Matches, Lookup

(* A context before its entry is filled in.                                *)
Draft ==
  [path : Name, inode : Nat, size : 0..MaxSize, links : 0..Cardinality(Name),
   created : BOOLEAN, active : BOOLEAN, dirty : BOOLEAN, staged : Data,
   deletePending : BOOLEAN, cleaned : BOOLEAN]

LEMMA ContextIsDraft ==
  Context \subseteq Draft
BY VolumeAssumption DEF Context, Draft, Node

LEMMA NewContextType ==
  ASSUME NEW n \in Name, NEW created \in BOOLEAN
  PROVE  NewContext(n, created) \in Draft
<1>1. Cardinality(Name) \in Nat
  BY FileHandlesAssumption, FS_CardinalityType
<1>2. 0 \in 0..MaxSize /\ 0 \in 0..Cardinality(Name) /\ <<>> \in Data
  BY <1>1, FileHandlesAssumption, EmptyData
<1> QED
  BY <1>2 DEF NewContext, Draft

LEMMA ResolvedType ==
  ASSUME NEW x \in Draft, NEW c \in Content, Consistent(c), Matches(c, x.path) # {}
  PROVE  Resolved(x, c) \in Context
<1> DEFINE m == Lookup(c, x.path)
<1>1. m \in Name /\ Exists(c, m)
  BY LookupFinds DEF Draft
<1>2. c.node[m] \in Node /\ DataOf(c, m) \in Data
  BY <1>1, FileHasData
<1>3. Len(DataOf(c, m)) \in 0..MaxSize
  BY <1>2, DataType
<1>4. LinkCount(c, c.node[m]) \in 0..Cardinality(Name)
  BY LinkCountType, FileHandlesAssumption
<1> HIDE DEF m
<1> QED
  BY <1>2, <1>3, <1>4 DEF Resolved, Draft, Context, m

(* The fields that the entry of the path does not set stay.                *)
LEMMA ResolvedFields ==
  ASSUME NEW x \in Draft, NEW c \in Content, Exists(c, x.path)
  PROVE  /\ Resolved(x, c).path = x.path
         /\ Resolved(x, c).inode = c.node[x.path]
         /\ Resolved(x, c).size = Len(DataOf(c, x.path))
         /\ Resolved(x, c).links = LinkCount(c, c.node[x.path])
         /\ Resolved(x, c).created = x.created
         /\ Resolved(x, c).active = x.active
         /\ Resolved(x, c).dirty = x.dirty
         /\ Resolved(x, c).staged = x.staged
         /\ Resolved(x, c).deletePending = x.deletePending
         /\ Resolved(x, c).cleaned = x.cleaned
<1>1. Lookup(c, x.path) = x.path
  BY LookupOfExisting DEF Draft
<1> QED
  BY <1>1 DEF Resolved, Draft

LEMMA MutableBytesType ==
  ASSUME VolumeInv, NEW x \in Context, Readable(x)
  PROVE  MutableBytes(x) \in Data
<1>1. CASE x.size = 0
  BY <1>1, EmptyData DEF MutableBytes
<1>2. CASE x.size # 0
  <2>1. x.path \in Name /\ x.size \in Nat /\ volume \in Content /\ Consistent(volume)
    BY FileHandlesAssumption DEF Context, VolumeInv, TypeOK
  <2>2. DataOf(volume, Lookup(volume, x.path)) \in Data
    BY <1>2, <2>1, LookupFinds, FileHasData DEF Readable
  <2> QED
    BY <1>2, <2>1, <2>2, PrefixOfData DEF MutableBytes
<1> QED
  BY <1>1, <1>2

LEMMA StageLoadedType ==
  ASSUME VolumeInv, NEW x \in Context, x.active \/ Readable(x)
  PROVE  /\ StageLoaded(x) \in Context
         /\ StageLoaded(x).active
         /\ StageLoaded(x).staged = IF x.active THEN x.staged ELSE MutableBytes(x)
         /\ StageLoaded(x).path = x.path
         /\ StageLoaded(x).inode = x.inode
         /\ StageLoaded(x).size = x.size
         /\ StageLoaded(x).dirty = x.dirty
         /\ StageLoaded(x).deletePending = x.deletePending
         /\ StageLoaded(x).cleaned = x.cleaned
<1>1. CASE x.active
  BY <1>1 DEF StageLoaded, Context
<1>2. CASE ~x.active
  BY <1>2, MutableBytesType DEF StageLoaded, Context
<1> QED
  BY <1>1, <1>2

(* What a flush leaves in the volume and in the context.                   *)
LEMMA FlushedType ==
  ASSUME VolumeInv, NEW x \in Context, CanFlush(x)
  PROVE  /\ VolumeFlushed(x) \in Content
         /\ Consistent(VolumeFlushed(x))
         /\ Flushed(x) \in Context
         /\ Flushed(x).path = x.path
         /\ Flushed(x).cleaned = x.cleaned
         /\ Flushed(x).deletePending = x.deletePending
         /\ ~Flushed(x).dirty
         /\ x.dirty => Exists(VolumeFlushed(x), x.path)
<1>0. volume \in Content /\ Consistent(volume) /\ x.path \in Name /\ x.staged \in Data
  BY DEF VolumeInv, TypeOK, Context
<1>1. CASE ~x.dirty
  BY <1>0, <1>1 DEF VolumeFlushed, Flushed, Context
<1>2. CASE x.dirty
  <2> DEFINE w == Written(volume, x.path, x.staged)
             y == [x EXCEPT !.dirty = FALSE, !.active = FALSE, !.staged = <<>>]
  <2>1. LegalWrite(volume, x.path)
    BY <1>2 DEF CanFlush
  <2>2. w \in Content /\ Consistent(w) /\ Exists(w, x.path)
    BY <1>0, <2>1, WrittenType, WrittenConsistent, WrittenFile
  <2>3. /\ y \in Context /\ y.path = x.path /\ ~y.dirty /\ y.cleaned = x.cleaned
        /\ y.deletePending = x.deletePending
    BY EmptyData DEF Context
  <2>4. VolumeFlushed(x) = w /\ Flushed(x) = Resolved(y, w)
    BY <1>2 DEF VolumeFlushed, Flushed
  <2> HIDE DEF w, y
  <2>5. Matches(w, y.path) # {}
    BY <1>0, <2>2, <2>3, LookupOfExisting
  <2>6. Resolved(y, w) \in Context
    BY <2>2, <2>3, <2>5, ContextIsDraft, ResolvedType
  <2>7. /\ Resolved(y, w).path = y.path /\ ~Resolved(y, w).dirty
        /\ Resolved(y, w).cleaned = y.cleaned
        /\ Resolved(y, w).deletePending = y.deletePending
    BY <2>2, <2>3, ContextIsDraft, ResolvedFields
  <2> QED
    BY <1>0, <2>2, <2>3, <2>4, <2>6, <2>7
<1> QED
  BY <1>1, <1>2

-----------------------------------------------------------------------------
(* The volume stays consistent, action by action.                          *)

LEMMA ContextOf ==
  ASSUME VolumeInv, NEW h \in Handle, ctx[h] # None
  PROVE  ctx[h] \in Context /\ ctx[h].path \in Name
BY DEF VolumeInv, TypeOK, Context

LEMMA InitVolumeInv ==
  ASSUME Init
  PROVE  VolumeInv
<1>1. TypeOK
  BY FileHandlesAssumption DEF Init, TypeOK
<1>2. \A h \in Handle : change[h] = None /\ ctx[h] = None
  BY DEF Init
<1> QED
  BY <1>1, <1>2, FileHandlesAssumption DEF Init, VolumeInv, IsOpen

(* A call that changes one context keeps the invariant if the context and  *)
(* the volume that it makes are what they should be.                       *)
LEMMA OneContext ==
  ASSUME VolumeInv, NEW h \in Handle, NEW x \in Context,
         ctx' = [ctx EXCEPT ![h] = x],
         volume' \in Content, Consistent(volume)',
         change' \in [Handle -> [request : Request, base : Data] \cup {None}],
         view' \in [Handle -> Seq(Byte) \cup {None, Shared}],
         failures' \in Nat,
         \A g \in Handle : change'[g] # None =>
           /\ change[g] # None \/ ~TooLarge(change'[g].base, change'[g].request)
           /\ change[g] # None => change'[g] = change[g]
           /\ g = h => ~x.cleaned
           /\ g # h => change[g] # None,
         ~x.cleaned => view'[h] # None,
         \A g \in Handle \ {h} : view'[g] \in {view[g], Shared}
  PROVE  VolumeInv'
<1>1. TypeOK'
  BY DEF VolumeInv, TypeOK
<1>2. \A g \in Handle :
        change'[g] # None => IsOpen(g)' /\ ~TooLarge(change'[g].base, change'[g].request)
  BY NoneIsNoContext DEF VolumeInv, TypeOK, IsOpen
<1>3. \A g \in Handle : IsOpen(g)' => view'[g] # None
  BY FileHandlesAssumption DEF VolumeInv, TypeOK, IsOpen
<1> QED
  BY <1>1, <1>2, <1>3 DEF VolumeInv

LEMMA CreateVolumeInv ==
  ASSUME VolumeInv, NEW h \in Handle, NEW n \in Name, Create(h, n)
  PROVE  VolumeInv'
<1>1. volume' = Written(volume, n, <<>>) /\ LegalWrite(volume, n) /\ <<>> \in Data
  BY EmptyData DEF Create
<1>2. volume' \in Content /\ Consistent(volume)' /\ Exists(volume', n)
  BY <1>1, WrittenType, WrittenConsistent, WrittenFile DEF VolumeInv, TypeOK
<1>3. NewContext(n, TRUE) \in Draft /\ NewContext(n, TRUE).path = n
  BY NewContextType DEF NewContext
<1>4. Matches(volume', n) # {}
  BY <1>2, LookupOfExisting
<1>5. Resolved(NewContext(n, TRUE), volume') \in Context
  BY <1>2, <1>3, <1>4, ResolvedType
<1>6. Resolved(NewContext(n, TRUE), volume').cleaned = FALSE
  BY <1>2, <1>3, ResolvedFields DEF NewContext
<1>7. <<>> \in Seq(Byte) /\ <<>> # None
  BY EmptyData, VolumeAssumption
<1>8. /\ view' \in [Handle -> Seq(Byte) \cup {None, Shared}]
      /\ view'[h] # None
      /\ \A g \in Handle \ {h} : view'[g] = view[g]
  BY <1>7 DEF Create, VolumeInv, TypeOK
<1> QED
  BY <1>2, <1>5, <1>6, <1>8, OneContext DEF Create, VolumeInv, TypeOK

LEMMA OpenVolumeInv ==
  ASSUME VolumeInv, NEW h \in Handle, NEW n \in Name, Open(h, n)
  PROVE  VolumeInv'
<1> DEFINE opened == Resolved(NewContext(n, FALSE), volume)
<1>1. NewContext(n, FALSE) \in Draft /\ NewContext(n, FALSE).path = n
  BY NewContextType DEF NewContext
<1>2. opened \in Context
  BY <1>1, ResolvedType DEF Open, VolumeInv, TypeOK
<1>3. ~opened.cleaned
  BY DEF Resolved, NewContext
<1>4. Lookup(volume, n) \in Name /\ Exists(volume, Lookup(volume, n))
  BY LookupFinds DEF Open, VolumeInv, TypeOK
<1>5. DataOf(volume, Lookup(volume, n)) \in Seq(Byte)
  BY <1>4, FileHasData, DataType DEF VolumeInv, TypeOK
<1>6. <<>> \in Data /\ <<>> \in Seq(Byte) /\ 0 \in 0..MaxSize
  BY EmptyData, FileHandlesAssumption
<1> HIDE DEF opened
<1>7. Overwritten(opened) \in Context /\ ~Overwritten(opened).cleaned
  BY <1>2, <1>3, <1>6 DEF Overwritten, Context
<1>8. PICK overwritten \in BOOLEAN :
        /\ ctx' = [ctx EXCEPT ![h] = IF overwritten THEN Overwritten(opened) ELSE opened]
        /\ view' \in [Handle -> Seq(Byte) \cup {None, Shared}]
        /\ view'[h] \in Seq(Byte) \cup {Shared}
        /\ \A g \in Handle \ {h} : view'[g] \in {view[g], Shared}
  <2> DEFINE others == {g \in Handle : ctx[g] # None /\ ~ctx[g].cleaned /\ ctx[g].inode = opened.inode}
             file == DataOf(volume, Lookup(volume, n))
  <2>1. PICK overwritten \in BOOLEAN :
          /\ ctx' = [ctx EXCEPT ![h] = IF overwritten THEN Overwritten(opened) ELSE opened]
          /\ view' = [g \in Handle |->
               IF g \in others \/ (g = h /\ others # {}) THEN Shared
               ELSE IF g # h THEN view[g]
               ELSE IF overwritten THEN <<>> ELSE file]
    BY DEF Open, opened
  <2>2. view \in [Handle -> Seq(Byte) \cup {None, Shared}]
    BY DEF VolumeInv, TypeOK
  <2> HIDE DEF others, file
  <2>3. file \in Seq(Byte)
    BY <1>5 DEF file
  <2> QED
    BY <1>6, <2>1, <2>2, <2>3
<1>9. UNCHANGED <<volume, change, failures>>
  BY DEF Open
<1> DEFINE x == IF overwritten THEN Overwritten(opened) ELSE opened
<1>10. x \in Context /\ ~x.cleaned
  BY <1>2, <1>3, <1>7
<1>11. ctx' = [ctx EXCEPT ![h] = x]
  BY <1>8
<1> HIDE DEF x
<1> QED
  BY <1>8, <1>9, <1>10, <1>11, OneContext, FileHandlesAssumption DEF VolumeInv, TypeOK

LEMMA NotedType ==
  ASSUME VolumeInv, NEW h \in Handle, IsOpen(h), NEW q \in Request
  PROVE  /\ Noted(view[h], q) \in Seq(Byte) \cup {Shared}
         /\ Noted(view[h], q) # None
<1>1. view[h] \in Seq(Byte) \cup {Shared}
  BY DEF VolumeInv, TypeOK
<1> QED
  BY <1>1, ChangedBytes, FileHandlesAssumption DEF Noted

LEMMA ChangeStageVolumeInv ==
  ASSUME VolumeInv, NEW h \in Handle, NEW q \in Request, ChangeStage(h, q)
  PROVE  VolumeInv'
<1> DEFINE x == StageLoaded(ctx[h])
           y == [x EXCEPT !.staged = Changed(@, q), !.dirty = TRUE,
                          !.size = SizeAfter(x.staged, q)]
<1>1. ctx[h] \in Context /\ IsOpen(h) /\ UNCHANGED <<volume, change, failures>>
  BY ContextOf DEF ChangeStage, InUse, IsOpen
<1>2. x \in Context /\ x.cleaned = ctx[h].cleaned
  <2>1. ctx[h].active \/ Readable(ctx[h])
    BY DEF ChangeStage
  <2> QED
    BY <1>1, <2>1, StageLoadedType
<1>3. view[h] # None
  BY <1>1 DEF VolumeInv
<1>4. CASE TooLarge(x.staged, q)
  <2>1. ctx' = [ctx EXCEPT ![h] = x] /\ UNCHANGED view
    BY <1>4 DEF ChangeStage
  <2> HIDE DEF x
  <2> QED
    BY <1>1, <1>2, <1>3, <2>1, OneContext DEF VolumeInv, TypeOK, IsOpen
<1>5. CASE ~TooLarge(x.staged, q)
  <2>1. ctx' = [ctx EXCEPT ![h] = y] /\ view' = [view EXCEPT ![h] = Noted(@, q)]
    BY <1>5 DEF ChangeStage
  <2> HIDE DEF x
  <2>2. x.staged \in Data
    BY <1>2 DEF Context
  <2>3. y \in Context /\ y.cleaned = ctx[h].cleaned
    BY <1>2, <1>5, <2>2, ChangedType DEF Context
  <2>4. /\ view' \in [Handle -> Seq(Byte) \cup {None, Shared}]
        /\ view'[h] # None
        /\ \A g \in Handle \ {h} : view'[g] = view[g]
    BY <1>1, <2>1, NotedType DEF VolumeInv, TypeOK
  <2> HIDE DEF y
  <2> QED
    BY <1>1, <2>1, <2>3, <2>4, OneContext DEF VolumeInv, TypeOK, IsOpen
<1> QED
  BY <1>4, <1>5

LEMMA ReadForChangeVolumeInv ==
  ASSUME VolumeInv, NEW h \in Handle, NEW q \in Request, ReadForChange(h, q)
  PROVE  VolumeInv'
<1> DEFINE base == MutableBytes(ctx[h])
<1>1. ctx[h] \in Context /\ IsOpen(h) /\ UNCHANGED <<volume, ctx, view, failures>>
  BY ContextOf DEF ReadForChange, InUse, IsOpen
<1>2. base \in Data /\ ~TooLarge(base, q)
  BY <1>1, MutableBytesType DEF ReadForChange
<1>3. change' = [change EXCEPT ![h] = [request |-> q, base |-> base]]
  BY DEF ReadForChange
<1> HIDE DEF base
<1>4. change' \in [Handle -> [request : Request, base : Data] \cup {None}]
  BY <1>2, <1>3 DEF VolumeInv, TypeOK
<1>5. \A g \in Handle :
        change'[g] # None => IsOpen(g) /\ ~TooLarge(change'[g].base, change'[g].request)
  BY <1>1, <1>2, <1>3 DEF VolumeInv, TypeOK
<1> QED
  BY <1>1, <1>4, <1>5 DEF VolumeInv, TypeOK, IsOpen, Consistent, NamesOf

(* A commit fails for a reason that is not modelled, or is refused.        *)
LEMMA CommitFailsType ==
  ASSUME failures \in Nat, NEW legal, CommitFails(legal)
  PROVE  failures' \in Nat
BY DEF CommitFails

LEMMA CommitChangeVolumeInv ==
  ASSUME VolumeInv, NEW h \in Handle, CommitChange(h)
  PROVE  VolumeInv'
<1> DEFINE x == ctx[h]
           q == change[h].request
           data == Changed(change[h].base, q)
<1>1. /\ x \in Context /\ x.path \in Name /\ IsOpen(h) /\ volume \in Content
      /\ q \in Request /\ change[h].base \in Data /\ ~TooLarge(change[h].base, q)
  BY ContextOf DEF CommitChange, VolumeInv, TypeOK, IsOpen
<1>2. data \in Data
  BY <1>1, ChangedType
<1>3. /\ change' \in [Handle -> [request : Request, base : Data] \cup {None}]
      /\ change'[h] = None
      /\ \A g \in Handle \ {h} : change'[g] = change[g]
  BY DEF CommitChange, VolumeInv, TypeOK
<1> HIDE DEF data
<1>4. CASE /\ LegalWrite(volume, x.path)
           /\ volume' = Written(volume, x.path, data)
           /\ ctx' = [ctx EXCEPT ![h] = Resolved(x, volume')]
           /\ view' = [view EXCEPT ![h] = Noted(@, q)]
           /\ UNCHANGED failures
  <2>1. volume' \in Content /\ Consistent(volume)' /\ Exists(volume', x.path)
    BY <1>1, <1>2, <1>4, WrittenType, WrittenConsistent, WrittenFile DEF VolumeInv
  <2>2. Resolved(x, volume') \in Context
    BY <1>1, <2>1, ResolvedType, ContextIsDraft, LookupOfExisting
  <2>3. Resolved(x, volume').cleaned = x.cleaned
    BY <1>1, <2>1, ResolvedFields, ContextIsDraft
  <2>4. /\ view' \in [Handle -> Seq(Byte) \cup {None, Shared}]
        /\ view'[h] # None
        /\ \A g \in Handle \ {h} : view'[g] = view[g]
    BY <1>1, <1>4, NotedType DEF VolumeInv, TypeOK
  <2> QED
    BY <1>1, <1>3, <1>4, <2>1, <2>2, <2>3, <2>4, OneContext DEF VolumeInv, TypeOK, IsOpen
<1>5. CASE CommitFails(LegalWrite(volume, x.path)) /\ UNCHANGED <<volume, ctx, view>>
  <2>1. failures' \in Nat
    BY <1>5, CommitFailsType DEF VolumeInv, TypeOK
  <2> QED
    BY <1>3, <1>5, <2>1 DEF VolumeInv, TypeOK, IsOpen, Consistent, NamesOf
<1> QED
  BY <1>4, <1>5 DEF CommitChange, data

LEMMA FlushVolumeInv ==
  ASSUME VolumeInv, NEW h \in Handle, Flush(h)
  PROVE  VolumeInv'
<1>1. ctx[h] \in Context /\ IsOpen(h) /\ view[h] # None
  BY ContextOf DEF Flush, InUse, IsOpen, VolumeInv
<1>2. /\ volume' \in Content /\ Consistent(volume)' /\ Flushed(ctx[h]) \in Context
      /\ Flushed(ctx[h]).cleaned = ctx[h].cleaned
  BY <1>1, FlushedType DEF Flush
<1> QED
  BY <1>1, <1>2, OneContext DEF Flush, VolumeInv, TypeOK, IsOpen

(* What a rename has committed before it renames.                          *)
LEMMA ClearedType ==
  ASSUME NEW c \in Content, Consistent(c), NEW to \in Name, NEW replaces \in BOOLEAN,
         replaces => Exists(c, to)
  PROVE  LET cleared == IF replaces THEN Deleted(c, to) ELSE c
         IN  cleared \in Content /\ Consistent(cleared)
BY DeletedType, DeletedConsistent, FileHandlesAssumption

LEMMA RenameVolumeInv ==
  ASSUME VolumeInv, NEW h \in Handle, NEW to \in Name, NEW replaceIfExists \in BOOLEAN,
         Rename(h, to, replaceIfExists)
  PROVE  VolumeInv'
<1> DEFINE x == Flushed(ctx[h])
           flushed == VolumeFlushed(ctx[h])
           replaces == /\ replaceIfExists
                       /\ Matches(flushed, to) # {}
                       /\ flushed.node[Lookup(flushed, to)] # x.inode
           cleared == IF replaces THEN Deleted(flushed, to) ELSE flushed
<1>1. ctx[h] \in Context /\ IsOpen(h) /\ view[h] # None /\ CanFlush(ctx[h])
  BY ContextOf DEF Rename, InUse, IsOpen, VolumeInv
<1>2. /\ flushed \in Content /\ Consistent(flushed) /\ x \in Context /\ x.path \in Name
      /\ x.cleaned = ctx[h].cleaned
  BY <1>1, FlushedType DEF Context
<1>3. replaces => Exists(flushed, to)
  BY DEF Rename
<1>4. /\ \/ /\ LegalRename(cleared, x.path, to)
            /\ volume' = Renamed(cleared, x.path, to)
            /\ ctx' = [ctx EXCEPT ![h] = Resolved([x EXCEPT !.path = to], volume')]
            /\ UNCHANGED failures
         \/ /\ CommitFails(LegalRename(cleared, x.path, to))
            /\ volume' = cleared
            /\ ctx' = [ctx EXCEPT ![h] = x]
      /\ UNCHANGED <<change, view>>
  BY DEF Rename
<1> HIDE DEF x, flushed
<1>5. cleared \in Content /\ Consistent(cleared)
  BY <1>2, <1>3, ClearedType
<1> HIDE DEF replaces, cleared
<1>6. CASE /\ LegalRename(cleared, x.path, to)
           /\ volume' = Renamed(cleared, x.path, to)
           /\ ctx' = [ctx EXCEPT ![h] = Resolved([x EXCEPT !.path = to], volume')]
           /\ UNCHANGED failures
  <2>1. volume' \in Content /\ Consistent(volume)' /\ Exists(volume', to)
    BY <1>2, <1>5, <1>6, RenamedType, RenamedConsistent, RenamedFile
  <2>2. [x EXCEPT !.path = to] \in Context /\ [x EXCEPT !.path = to].path = to
        /\ [x EXCEPT !.path = to].cleaned = x.cleaned
    BY <1>2 DEF Context
  <2>3. Resolved([x EXCEPT !.path = to], volume') \in Context
    <3>1. Matches(volume', to) # {}
      BY <2>1, LookupOfExisting
    <3> QED
      BY <2>1, <2>2, <3>1, ResolvedType, ContextIsDraft
  <2>4. Resolved([x EXCEPT !.path = to], volume').cleaned = x.cleaned
    BY <2>1, <2>2, ResolvedFields, ContextIsDraft
  <2> QED
    BY <1>1, <1>2, <1>4, <1>6, <2>1, <2>3, <2>4, OneContext DEF VolumeInv, TypeOK, IsOpen
<1>7. CASE /\ CommitFails(LegalRename(cleared, x.path, to))
           /\ volume' = cleared
           /\ ctx' = [ctx EXCEPT ![h] = x]
  <2>1. failures' \in Nat
    BY <1>7, CommitFailsType DEF VolumeInv, TypeOK
  <2>2. volume' \in Content /\ Consistent(volume)'
    BY <1>5, <1>7 DEF Consistent, NamesOf
  <2> QED
    BY <1>1, <1>2, <1>4, <1>7, <2>1, <2>2, OneContext DEF VolumeInv, TypeOK, IsOpen
<1> QED
  BY <1>4, <1>6, <1>7

(* A new link changes the link counts of contexts and nothing else of them.*)
LEMMA RelinkedType ==
  ASSUME NEW c \in [Handle -> Context \cup {None}], NEW h \in Handle, NEW x \in Context,
         NEW inode, NEW links \in 0..Cardinality(Name)
  PROVE  LET r == Relinked(c, h, x, inode, links)
         IN  /\ r \in [Handle -> Context \cup {None}]
             /\ \A g \in Handle :
                  LET y == IF g = h THEN x ELSE c[g]
                  IN  /\ r[g] = None <=> y = None
                      /\ y # None =>
                           /\ r[g] = [y EXCEPT !.links = r[g].links]
                           /\ g = h \/ y.inode = inode => r[g].links = links
<1> DEFINE r == Relinked(c, h, x, inode, links)
<1>1. ASSUME NEW g \in Handle
      PROVE  LET y == IF g = h THEN x ELSE c[g]
             IN  /\ r[g] \in Context \cup {None}
                 /\ r[g] = None <=> y = None
                 /\ y # None =>
                      /\ r[g] = [y EXCEPT !.links = r[g].links]
                      /\ g = h \/ y.inode = inode => r[g].links = links
  <2> DEFINE y == IF g = h THEN x ELSE c[g]
  <2>1. r[g] = IF y # None /\ (g = h \/ y.inode = inode) THEN [y EXCEPT !.links = links] ELSE y
    BY DEF Relinked
  <2>2. y \in Context \cup {None}
    OBVIOUS
  <2>3. y # None => y = [y EXCEPT !.links = y.links] /\ [y EXCEPT !.links = links] \in Context
    BY <2>2 DEF Context
  <2>4. y # None => [y EXCEPT !.links = links].links = links
    BY <2>2 DEF Context
  <2> HIDE DEF y
  <2>5. y # None => [y EXCEPT !.links = links] # None
    BY <2>3, NoneIsNoContext
  <2>6. /\ r[g] \in Context \cup {None}
        /\ r[g] = None <=> y = None
        /\ y # None =>
             /\ r[g] = [y EXCEPT !.links = r[g].links]
             /\ g = h \/ y.inode = inode => r[g].links = links
    BY <2>1, <2>2, <2>3, <2>4, <2>5
  <2> QED
    BY <2>6 DEF y
<1>2. r = [g \in Handle |-> r[g]]
  BY DEF Relinked
<1> HIDE DEF r
<1> QED
  BY <1>1, <1>2 DEF r

LEMMA CreateHardLinkVolumeInv ==
  ASSUME VolumeInv, NEW h \in Handle, NEW to \in Name, CreateHardLink(h, to)
  PROVE  VolumeInv'
<1> DEFINE x == Flushed(ctx[h])
           flushed == VolumeFlushed(ctx[h])
           inode == volume'.node[to]
           links == LinkCount(volume', inode)
<1>1. ctx[h] \in Context /\ IsOpen(h) /\ view[h] # None /\ CanFlush(ctx[h])
  BY ContextOf DEF CreateHardLink, InUse, IsOpen, VolumeInv
<1>2. /\ flushed \in Content /\ Consistent(flushed) /\ x \in Context /\ x.path \in Name
      /\ x.cleaned = ctx[h].cleaned
  BY <1>1, FlushedType DEF Context
<1>3. /\ LegalLink(flushed, x.path, to)
      /\ volume' = Linked(flushed, x.path, to)
      /\ ctx' = Relinked(ctx, h, x, inode, links)
      /\ UNCHANGED <<change, view, failures>>
  BY DEF CreateHardLink
<1> HIDE DEF x, flushed
<1>4. volume' \in Content /\ Consistent(volume)'
  BY <1>2, <1>3, LinkedType, LinkedConsistent
<1>5. links \in 0..Cardinality(Name)
  BY <1>4, LinkCountType, FileHandlesAssumption
<1>6. ctx \in [Handle -> Context \cup {None}]
  BY DEF VolumeInv, TypeOK
<1> HIDE DEF inode, links
<1>7. /\ ctx' \in [Handle -> Context \cup {None}]
      /\ \A g \in Handle :
           LET y == IF g = h THEN x ELSE ctx[g]
           IN  /\ ctx'[g] = None <=> y = None
               /\ y # None => ctx'[g] = [y EXCEPT !.links = ctx'[g].links]
  BY <1>2, <1>3, <1>5, <1>6, RelinkedType
<1>8. ASSUME NEW g \in Handle
      PROVE  IsOpen(g)' <=> IsOpen(g)
  <2> DEFINE y == IF g = h THEN x ELSE ctx[g]
  <2>1. y # None => y \in Context
    BY <1>2, <1>6
  <2>2. /\ ctx'[g] = None <=> y = None
        /\ y # None => ctx'[g] = [y EXCEPT !.links = ctx'[g].links]
    BY <1>7
  <2>3. IsOpen(g) <=> y # None /\ ~y.cleaned
    BY <1>1, <1>2, NoneIsNoContext DEF IsOpen
  <2> HIDE DEF y
  <2>4. y # None => ctx'[g].cleaned = y.cleaned
    BY <2>1, <2>2 DEF Context
  <2> QED
    BY <2>2, <2>3, <2>4 DEF IsOpen
<1>9. TypeOK'
  BY <1>3, <1>4, <1>7 DEF VolumeInv, TypeOK
<1> QED
  BY <1>3, <1>4, <1>8, <1>9 DEF VolumeInv

LEMMA CleanupVolumeInv ==
  ASSUME VolumeInv, NEW h \in Handle, NEW delete \in BOOLEAN, Cleanup(h, delete)
  PROVE  VolumeInv'
<1> DEFINE x == ctx[h]
<1>1. /\ x \in Context /\ x.path \in Name /\ change[h] = None /\ volume \in Content
      /\ <<>> \in Data
  BY ContextOf, EmptyData DEF Cleanup, InUse, VolumeInv, TypeOK
<1>2. /\ change' = change
      /\ view' \in [Handle -> Seq(Byte) \cup {None, Shared}]
      /\ \A g \in Handle \ {h} : view'[g] = view[g]
  BY DEF Cleanup, VolumeInv, TypeOK
<1>3. Discarded(x) \in Context
  BY <1>1 DEF Discarded, Context
<1>4. CASE /\ volume' = IF Exists(volume, x.path) THEN Deleted(volume, x.path) ELSE volume
           /\ ctx' = [ctx EXCEPT ![h] =
                        [Discarded(x) EXCEPT !.deletePending = TRUE, !.cleaned = TRUE]]
           /\ UNCHANGED failures
  <2>1. volume' \in Content /\ Consistent(volume)'
    BY <1>1, <1>4, DeletedType, DeletedConsistent, FileHandlesAssumption
    DEF VolumeInv, Consistent, NamesOf
  <2>2. /\ [Discarded(x) EXCEPT !.deletePending = TRUE, !.cleaned = TRUE] \in Context
        /\ [Discarded(x) EXCEPT !.deletePending = TRUE, !.cleaned = TRUE].cleaned
    BY <1>3 DEF Context
  <2> QED
    BY <1>1, <1>2, <1>4, <2>1, <2>2, OneContext DEF VolumeInv, TypeOK
<1>5. CASE /\ CanFlush(x)
           /\ volume' = VolumeFlushed(x)
           /\ ctx' = [ctx EXCEPT ![h] = [Flushed(x) EXCEPT !.cleaned = TRUE]]
           /\ UNCHANGED failures
  <2>1. volume' \in Content /\ Consistent(volume)' /\ Flushed(x) \in Context
    BY <1>1, <1>5, FlushedType
  <2>2. /\ [Flushed(x) EXCEPT !.cleaned = TRUE] \in Context
        /\ [Flushed(x) EXCEPT !.cleaned = TRUE].cleaned
    BY <2>1 DEF Context
  <2> QED
    BY <1>1, <1>2, <1>5, <2>1, <2>2, OneContext DEF VolumeInv, TypeOK
<1>6. CASE /\ CommitFails(delete \/ CanFlush(x))
           /\ ctx' = [ctx EXCEPT ![h] = [(IF delete THEN Discarded(x) ELSE x) EXCEPT
                         !.deletePending = delete, !.cleaned = TRUE]]
           /\ UNCHANGED volume
  <2> DEFINE y == IF delete THEN Discarded(x) ELSE x
  <2>1. y \in Context
    BY <1>1, <1>3
  <2>2. ctx' = [ctx EXCEPT ![h] = [y EXCEPT !.deletePending = delete, !.cleaned = TRUE]]
    BY <1>6
  <2> HIDE DEF y
  <2>3. /\ [y EXCEPT !.deletePending = delete, !.cleaned = TRUE] \in Context
        /\ [y EXCEPT !.deletePending = delete, !.cleaned = TRUE].cleaned
    BY <2>1 DEF Context
  <2>4. failures' \in Nat
    BY <1>6, CommitFailsType DEF VolumeInv, TypeOK
  <2>5. Consistent(volume)' /\ volume' \in Content
    BY <1>1, <1>6 DEF VolumeInv, Consistent, NamesOf
  <2> QED
    BY <1>1, <1>2, <2>2, <2>3, <2>4, <2>5, OneContext DEF VolumeInv, TypeOK
<1> QED
  BY <1>4, <1>5, <1>6 DEF Cleanup

LEMMA CloseVolumeInv ==
  ASSUME VolumeInv, NEW h \in Handle, Close(h)
  PROVE  VolumeInv'
BY DEF Close, VolumeInv, TypeOK, IsOpen, Consistent, NamesOf

LEMMA NextVolumeInv ==
  ASSUME VolumeInv, [Next]_vars
  PROVE  VolumeInv'
<1>1. CASE Next
  BY <1>1, CreateVolumeInv, OpenVolumeInv, CreateHardLinkVolumeInv, RenameVolumeInv,
     ChangeStageVolumeInv, ReadForChangeVolumeInv, CommitChangeVolumeInv, FlushVolumeInv,
     CleanupVolumeInv, CloseVolumeInv
  DEF Next
<1>2. CASE UNCHANGED vars
  BY <1>2 DEF vars, VolumeInv, TypeOK, IsOpen, Consistent, NamesOf
<1> QED
  BY <1>1, <1>2

(* The volume stays consistent whatever is called, also when files are     *)
(* opened by names that differ in case only.                               *)
THEOREM VolumeInvHolds == Spec => []VolumeInv
<1>1. Init => VolumeInv
  BY InitVolumeInv
<1>2. VolumeInv /\ [Next]_vars => VolumeInv'
  BY NextVolumeInv
<1> QED
  BY <1>1, <1>2, PTL DEF Spec

(* Every variable keeps its type: no change that is staged or committed    *)
(* makes a file larger than the limit, and no context is filled in from a  *)
(* name without a file.                                                    *)
THEOREM TypeCorrect == Spec => []TypeOK
<1>1. VolumeInv => TypeOK
  BY DEF VolumeInv
<1> QED
  BY <1>1, VolumeInvHolds, PTL

(* Whatever is linked, replaced and deleted through several handles, an    *)
(* inode is kept as long as it has a name and no longer.                   *)
THEOREM InodesKept == Spec => []NoOrphans
<1>1. VolumeInv => NoOrphans
  BY DEF VolumeInv, Consistent, NamesOf, NoOrphans
<1> QED
  BY <1>1, VolumeInvHolds, PTL
-----------------------------------------------------------------------------
(* New links.                                                              *)

(* No inode in use gets a name.                                            *)
NoNewLink(c, w) == \A i \in Node : LinkCount(c, i) > 0 => LinkCount(w, i) <= LinkCount(c, i)

LEMMA FlushedLinks ==
  ASSUME VolumeInv, NEW x \in Context, CanFlush(x)
  PROVE  \A i \in Node :
           LinkCount(volume, i) > 0 => LinkCount(VolumeFlushed(x), i) = LinkCount(volume, i)
BY WrittenLinks, FileHandlesAssumption
DEF CanFlush, VolumeFlushed, VolumeInv, TypeOK, Context

LEMMA ClearedLinks ==
  ASSUME NEW c \in Content, NEW to \in Name, NEW replaces \in BOOLEAN, replaces => Exists(c, to)
  PROVE  LET cleared == IF replaces THEN Deleted(c, to) ELSE c
         IN  \A i \in Node : LinkCount(cleared, i) <= LinkCount(c, i)
BY DeletedLinks, LinkCountType, FileHandlesAssumption

LEMMA RenameMakesNoLink ==
  ASSUME VolumeInv, NEW h \in Handle, NEW to \in Name, NEW replaceIfExists \in BOOLEAN,
         Rename(h, to, replaceIfExists)
  PROVE  NoNewLink(volume, volume')
<1> DEFINE x == Flushed(ctx[h])
           flushed == VolumeFlushed(ctx[h])
           replaces == /\ replaceIfExists
                       /\ Matches(flushed, to) # {}
                       /\ flushed.node[Lookup(flushed, to)] # x.inode
           cleared == IF replaces THEN Deleted(flushed, to) ELSE flushed
<1>1. ctx[h] \in Context /\ CanFlush(ctx[h]) /\ volume \in Content
  BY ContextOf DEF Rename, InUse, VolumeInv, TypeOK
<1>2. /\ flushed \in Content /\ Consistent(flushed) /\ x.path \in Name
      /\ \A i \in Node : LinkCount(volume, i) > 0 => LinkCount(flushed, i) = LinkCount(volume, i)
  BY <1>1, FlushedType, FlushedLinks DEF Context
<1>3. replaces => Exists(flushed, to)
  BY DEF Rename
<1>4. /\ \/ LegalRename(cleared, x.path, to) /\ volume' = Renamed(cleared, x.path, to)
         \/ volume' = cleared
  BY DEF Rename
<1> HIDE DEF x, flushed
<1>5. cleared \in Content /\ \A i \in Node : LinkCount(cleared, i) <= LinkCount(flushed, i)
  BY <1>2, <1>3, ClearedType, ClearedLinks
<1> HIDE DEF replaces, cleared
<1>6. \A i \in Node : LinkCount(volume', i) <= LinkCount(cleared, i)
  BY <1>2, <1>4, <1>5, RenamedLinks, LinkCountType, FileHandlesAssumption
<1>7. volume' \in Content
  BY RenameVolumeInv DEF VolumeInv, TypeOK
<1>8. ASSUME NEW i \in Node, LinkCount(volume, i) > 0
      PROVE  LinkCount(volume', i) <= LinkCount(volume, i)
  <2>1. /\ LinkCount(volume, i) \in Nat /\ LinkCount(flushed, i) \in Nat
        /\ LinkCount(cleared, i) \in Nat /\ LinkCount(volume', i) \in Nat
    BY <1>1, <1>2, <1>5, <1>7, LinkCountType, FileHandlesAssumption, FS_CardinalityType
    DEF LinkCount
  <2> QED
    BY <1>2, <1>5, <1>6, <1>8, <2>1
<1> QED
  BY <1>8 DEF NoNewLink

(* The other calls but CreateHardLink.                                     *)
LEMMA CallsMakeNoLink ==
  ASSUME VolumeInv, NEW h \in Handle,
         \/ \E n \in Name : Create(h, n) \/ Open(h, n)
         \/ \E q \in Request : ChangeStage(h, q) \/ ReadForChange(h, q)
         \/ CommitChange(h) \/ Flush(h) \/ Close(h)
         \/ \E delete \in BOOLEAN : Cleanup(h, delete)
  PROVE  NoNewLink(volume, volume')
<1>1. volume \in Content /\ Consistent(volume) /\ \A i \in Node : LinkCount(volume, i) \in Nat
  BY LinkCountType, FileHandlesAssumption, FS_CardinalityType DEF VolumeInv, TypeOK, LinkCount
<1>2. ASSUME NEW n \in Name, NEW d \in Data, LegalWrite(volume, n),
             volume' = Written(volume, n, d)
      PROVE  NoNewLink(volume, volume')
  BY <1>1, <1>2, WrittenLinks, FileHandlesAssumption DEF NoNewLink
<1>3. ASSUME NEW x \in Context, CanFlush(x), volume' = VolumeFlushed(x)
      PROVE  NoNewLink(volume, volume')
  BY <1>1, <1>3, FlushedLinks DEF NoNewLink
<1>4. volume' = volume => NoNewLink(volume, volume')
  BY <1>1 DEF NoNewLink
<1>5. CASE \E n \in Name : Create(h, n)
  BY <1>2, <1>5, EmptyData DEF Create
<1>6. CASE CommitChange(h)
  <2>1. change[h].request \in Request /\ change[h].base \in Data
    BY <1>6 DEF CommitChange, VolumeInv, TypeOK
  <2>2. Changed(change[h].base, change[h].request) \in Data
    BY <1>6, <2>1, ChangedType DEF CommitChange, VolumeInv
  <2>3. ctx[h].path \in Name
    BY <1>6, ContextOf DEF CommitChange, VolumeInv, IsOpen
  <2> QED
    BY <1>2, <1>4, <1>6, <2>2, <2>3 DEF CommitChange
<1>7. CASE Flush(h)
  BY <1>3, <1>7, ContextOf DEF Flush, InUse
<1>8. CASE \E delete \in BOOLEAN : Cleanup(h, delete)
  <2>1. ctx[h] \in Context /\ ctx[h].path \in Name
    BY <1>8, ContextOf DEF Cleanup, InUse
  <2>2. CASE CanFlush(ctx[h]) /\ volume' = VolumeFlushed(ctx[h])
    BY <1>3, <2>1, <2>2
  <2>3. CASE volume' = IF Exists(volume, ctx[h].path) THEN Deleted(volume, ctx[h].path) ELSE volume
    BY <1>1, <1>4, <2>1, <2>3, DeletedLinks, FileHandlesAssumption DEF NoNewLink
  <2> QED
    BY <1>4, <1>8, <2>2, <2>3 DEF Cleanup
<1>9. CASE \/ \E n \in Name : Open(h, n)
           \/ \E q \in Request : ChangeStage(h, q) \/ ReadForChange(h, q)
           \/ Close(h)
  BY <1>4, <1>9 DEF Open, ChangeStage, ReadForChange, Close
<1> QED
  BY <1>5, <1>6, <1>7, <1>8, <1>9

LinkSeen ==
  \A i \in Node :
    0 < LinkCount(volume, i) /\ LinkCount(volume, i) < LinkCount(volume', i) =>
      \A g \in Handle : ctx'[g] # None /\ ctx'[g].inode = i =>
        ctx'[g].links = LinkCount(volume', i)

LEMMA CreateHardLinkSeen ==
  ASSUME VolumeInv, NEW h \in Handle, NEW to \in Name, CreateHardLink(h, to)
  PROVE  LinkSeen
<1> DEFINE x == Flushed(ctx[h])
           flushed == VolumeFlushed(ctx[h])
           inode == volume'.node[to]
           links == LinkCount(volume', inode)
<1>1. ctx[h] \in Context /\ CanFlush(ctx[h]) /\ volume \in Content
  BY ContextOf DEF CreateHardLink, InUse, VolumeInv, TypeOK
<1>2. /\ flushed \in Content /\ Consistent(flushed) /\ x \in Context /\ x.path \in Name
      /\ \A i \in Node : LinkCount(volume, i) > 0 => LinkCount(flushed, i) = LinkCount(volume, i)
  BY <1>1, FlushedType, FlushedLinks DEF Context
<1>3. /\ LegalLink(flushed, x.path, to)
      /\ volume' = Linked(flushed, x.path, to)
      /\ ctx' = Relinked(ctx, h, x, inode, links)
  BY DEF CreateHardLink
<1> HIDE DEF x, flushed
<1>4. volume' \in Content /\ inode = flushed.node[x.path]
  BY <1>2, <1>3, LinkedType, LinkedFile
<1>5. links \in 0..Cardinality(Name)
  BY <1>4, LinkCountType, FileHandlesAssumption
<1>6. ctx \in [Handle -> Context \cup {None}]
  BY DEF VolumeInv, TypeOK
<1>7. ASSUME NEW i \in Node, 0 < LinkCount(volume, i), LinkCount(volume, i) < LinkCount(volume', i)
      PROVE  i = inode
  <2>1. SUFFICES ASSUME i # inode
                 PROVE  FALSE
    OBVIOUS
  <2>2. LinkCount(volume', i) <= LinkCount(flushed, i)
    BY <1>2, <1>3, <1>4, <2>1, LinkedLinks, FileHandlesAssumption
  <2>3. /\ LinkCount(volume, i) \in Nat /\ LinkCount(flushed, i) \in Nat
        /\ LinkCount(volume', i) \in Nat
    BY <1>1, <1>2, <1>4, LinkCountType, FileHandlesAssumption, FS_CardinalityType DEF LinkCount
  <2> QED
    BY <1>2, <1>7, <2>2, <2>3
<1> HIDE DEF inode, links
<1>8. ASSUME NEW g \in Handle, ctx'[g] # None, ctx'[g].inode = inode
      PROVE  ctx'[g].links = links
  <2> DEFINE y == IF g = h THEN x ELSE ctx[g]
  <2>1. /\ ctx'[g] = None <=> y = None
        /\ y # None => /\ ctx'[g] = [y EXCEPT !.links = ctx'[g].links]
                       /\ g = h \/ y.inode = inode => ctx'[g].links = links
    BY <1>2, <1>3, <1>5, <1>6, RelinkedType
  <2>2. y # None => y \in Context
    BY <1>2, <1>6
  <2> HIDE DEF y
  <2>3. y.inode = inode
    BY <1>8, <2>1, <2>2 DEF Context
  <2> QED
    BY <1>8, <2>1, <2>3
<1> QED
  BY <1>7, <1>8 DEF LinkSeen, links

(* A new link is seen at once through every open context of its inode.     *)
THEOREM NewLinksSeen == Spec => LinksSeen
<1>1. VolumeInv /\ [Next]_vars => [LinkSeen]_vars
  <2>1. SUFFICES ASSUME VolumeInv, Next
                 PROVE  LinkSeen
    OBVIOUS
  <2>2. CASE \E h \in Handle, to \in Name : CreateHardLink(h, to)
    BY <2>1, <2>2, CreateHardLinkSeen
  <2>3. CASE NoNewLink(volume, volume')
    <3>1. \A i \in Node : LinkCount(volume, i) \in Nat /\ LinkCount(volume', i) \in Nat
      BY <2>1, NextVolumeInv, LinkCountType, FileHandlesAssumption, FS_CardinalityType
      DEF VolumeInv, TypeOK, LinkCount
    <3> QED
      BY <2>3, <3>1 DEF NoNewLink, LinkSeen
  <2> QED
    BY <2>1, <2>2, <2>3, CallsMakeNoLink, RenameMakesNoLink DEF Next
<1>2. []VolumeInv /\ [][Next]_vars => [][LinkSeen]_vars
  BY <1>1, PTL
<1>3. Spec => [][LinkSeen]_vars
  BY <1>2, VolumeInvHolds, PTL DEF Spec
<1> QED
  BY <1>3 DEF LinksSeen, LinkSeen
-----------------------------------------------------------------------------
(* What handles see, in a directory no two names of which have one key.    *)

DistinctKeys == \A m, n \in Name : FoldOf[m] = FoldOf[n] => m = n

(* The path of an open handle is a file, and its entry is that file's.     *)
OpenInv(h) ==
  /\ Exists(volume, ctx[h].path)
  /\ ctx[h].inode = volume.node[ctx[h].path]
  /\ ~ctx[h].deletePending

(* The bytes of a file nobody else has open are where they are looked for: *)
(* staged, stored, or read for a change.                                   *)
OwnInv(h) ==
  view[h] # Shared =>
    /\ ctx[h].dirty => ctx[h].active
    /\ ctx[h].size = Len(view[h])
    /\ ctx[h].active => ctx[h].staged = view[h]
    /\ ~ctx[h].dirty => DataOf(volume, ctx[h].path) = view[h]
    /\ change[h] # None => ~ctx[h].active /\ change[h].base = view[h]

Apart(g, h) ==
  /\ ctx[g].path # ctx[h].path
  /\ ctx[g].inode = ctx[h].inode => view[g] = Shared /\ view[h] = Shared

HandlesInv ==
  /\ \A h \in Handle : IsOpen(h) => OpenInv(h) /\ OwnInv(h)
  /\ \A g, h \in Handle : IsOpen(g) /\ IsOpen(h) /\ g # h => Apart(g, h)

LEMMA OnlyName ==
  ASSUME DistinctKeys, NEW c, NEW n \in Name
  PROVE  /\ Matches(c, n) = IF Exists(c, n) THEN {n} ELSE {}
         /\ Exists(c, n) => Lookup(c, n) = n
BY DEF Matches, Lookup, DistinctKeys

LEMMA EmptyBytes ==
  ASSUME NEW d \in Seq(Byte), Len(d) = 0
  PROVE  d = <<>>
OBVIOUS

(* A handle in use reads back what the calls on it have written.           *)
LEMMA ReadBack ==
  ASSUME DistinctKeys, VolumeInv, HandlesInv, NEW h \in Handle, IsOpen(h), view[h] # Shared
  PROVE  /\ view[h] \in Seq(Byte)
         /\ ~ctx[h].active => MutableBytes(ctx[h]) = view[h]
         /\ ~ctx[h].dirty => Prefix(DataOf(volume, ctx[h].path), ctx[h].size) = view[h]
<1>1. ctx[h] \in Context /\ ctx[h].path \in Name /\ OpenInv(h) /\ OwnInv(h) /\ volume \in Content
  BY ContextOf DEF IsOpen, HandlesInv, VolumeInv, TypeOK
<1>2. view[h] \in Seq(Byte)
  BY DEF VolumeInv, TypeOK
<1>3. DataOf(volume, ctx[h].path) \in Data
  BY <1>1, FileHasData DEF OpenInv, VolumeInv
<1>4. Len(view[h]) \in Nat /\ ctx[h].size = Len(view[h])
  BY <1>1, <1>2 DEF OwnInv
<1>5. ~ctx[h].dirty => Prefix(DataOf(volume, ctx[h].path), ctx[h].size) = view[h]
  BY <1>1, <1>3, <1>4, PrefixOfData DEF OwnInv
<1>6. ~ctx[h].active => ~ctx[h].dirty
  BY <1>1 DEF OwnInv
<1>7. Lookup(volume, ctx[h].path) = ctx[h].path
  BY <1>1, OnlyName DEF OpenInv
<1> QED
  BY <1>2, <1>4, <1>5, <1>6, <1>7, EmptyBytes DEF MutableBytes

-----------------------------------------------------------------------------
(* What a call through one handle leaves to the others.                    *)

SameButLinks(y, x) ==
  /\ y = None <=> x = None
  /\ x # None => y = [x EXCEPT !.links = y.links]

LEMMA OthersKept ==
  ASSUME VolumeInv, HandlesInv, NEW h \in Handle,
         \A g \in Handle \ {h} :
           /\ SameButLinks(ctx'[g], ctx[g])
           /\ change'[g] = change[g]
           /\ view'[g] \in {view[g], Shared}
           /\ IsOpen(g) =>
                /\ volume'.node[ctx[g].path] = volume.node[ctx[g].path]
                /\ view'[g] # Shared =>
                     DataOf(volume', ctx[g].path) = DataOf(volume, ctx[g].path),
         IsOpen(h)' => /\ OpenInv(h)' /\ OwnInv(h)'
                       /\ \A g \in Handle \ {h} : IsOpen(g) => Apart(g, h)'
  PROVE  HandlesInv'
<1>1. ASSUME NEW g \in Handle \ {h}
      PROVE  /\ IsOpen(g)' <=> IsOpen(g)
             /\ IsOpen(g) =>
                  /\ ctx'[g].path = ctx[g].path /\ ctx'[g].inode = ctx[g].inode
                  /\ ctx'[g].deletePending = ctx[g].deletePending
                  /\ ctx'[g].dirty = ctx[g].dirty /\ ctx'[g].active = ctx[g].active
                  /\ ctx'[g].size = ctx[g].size /\ ctx'[g].staged = ctx[g].staged
  <2>1. ctx[g] # None => ctx[g] \in Context
    BY ContextOf
  <2>2. SameButLinks(ctx'[g], ctx[g])
    OBVIOUS
  <2>3. ctx[g] # None =>
          /\ ctx'[g].path = ctx[g].path /\ ctx'[g].inode = ctx[g].inode
          /\ ctx'[g].deletePending = ctx[g].deletePending
          /\ ctx'[g].dirty = ctx[g].dirty /\ ctx'[g].active = ctx[g].active
          /\ ctx'[g].size = ctx[g].size /\ ctx'[g].staged = ctx[g].staged
          /\ ctx'[g].cleaned = ctx[g].cleaned
    BY <2>1, <2>2 DEF SameButLinks, Context
  <2> QED
    BY <2>2, <2>3 DEF SameButLinks, IsOpen
<1>2. ASSUME NEW g \in Handle \ {h}, IsOpen(g)
      PROVE  OpenInv(g)' /\ OwnInv(g)'
  <2>1. OpenInv(g) /\ OwnInv(g)
    BY <1>2 DEF HandlesInv
  <2> QED
    BY <1>1, <1>2, <2>1 DEF OpenInv, OwnInv, Exists
<1>3. ASSUME NEW f \in Handle \ {h}, NEW g \in Handle \ {h}, IsOpen(f), IsOpen(g), f # g
      PROVE  Apart(f, g)'
  <2>1. Apart(f, g)
    BY <1>3 DEF HandlesInv
  <2> QED
    BY <1>1, <1>3, <2>1 DEF Apart
<1>4. \A f, g \in Handle : Apart(f, g)' <=> Apart(g, f)'
  BY DEF Apart
<1> QED
  BY <1>1, <1>2, <1>3, <1>4 DEF HandlesInv

(* The same for a call that replaces one context.                          *)
LEMMA OneHandle ==
  ASSUME VolumeInv, HandlesInv, NEW h \in Handle, NEW x, ctx' = [ctx EXCEPT ![h] = x],
         \A g \in Handle \ {h} :
           /\ change'[g] = change[g]
           /\ view'[g] \in {view[g], Shared}
           /\ IsOpen(g) =>
                /\ volume'.node[ctx[g].path] = volume.node[ctx[g].path]
                /\ view'[g] # Shared =>
                     DataOf(volume', ctx[g].path) = DataOf(volume, ctx[g].path),
         IsOpen(h)' => /\ OpenInv(h)' /\ OwnInv(h)'
                       /\ \A g \in Handle \ {h} : IsOpen(g) => Apart(g, h)'
  PROVE  HandlesInv'
<1>1. ASSUME NEW g \in Handle \ {h}
      PROVE  SameButLinks(ctx'[g], ctx[g])
  <2>1. ctx'[g] = ctx[g]
    BY DEF VolumeInv, TypeOK
  <2>2. ctx[g] # None => ctx[g] \in Context
    BY ContextOf
  <2> QED
    BY <2>1, <2>2 DEF SameButLinks, Context
<1> QED
  BY <1>1, OthersKept

(* Handles with different inodes do not see what the other one writes.     *)
LEMMA OthersData ==
  ASSUME VolumeInv, HandlesInv, NEW h \in Handle, IsOpen(h), NEW g \in Handle \ {h}, IsOpen(g),
         NEW w, w.node = volume.node,
         \A i \in Node : i # ctx[h].inode => w.data[i] = volume.data[i],
         view[g] # Shared
  PROVE  DataOf(w, ctx[g].path) = DataOf(volume, ctx[g].path)
<1>1. OpenInv(g) /\ ctx[g].path \in Name /\ Apart(g, h)
  BY ContextOf DEF HandlesInv, IsOpen
<1>2. volume.node[ctx[g].path] \in Node
  BY <1>1 DEF OpenInv, Exists, VolumeInv, TypeOK, Content
<1> QED
  BY <1>1, <1>2 DEF Apart, OpenInv, DataOf

(* After a flush what is seen through the handle is stored.                *)
LEMMA FlushStores ==
  ASSUME VolumeInv, HandlesInv, NEW h \in Handle, IsOpen(h)
  PROVE  LET x == Flushed(ctx[h])
             w == VolumeFlushed(ctx[h])
         IN  /\ CanFlush(ctx[h])
             /\ x \in Context /\ x.path = ctx[h].path /\ x.inode = ctx[h].inode
             /\ ~x.dirty /\ ~x.deletePending /\ ~x.cleaned
             /\ w \in Content /\ Consistent(w)
             /\ w.node = volume.node
             /\ \A i \in Node : i # ctx[h].inode => w.data[i] = volume.data[i]
             /\ view[h] # Shared =>
                  /\ DataOf(w, ctx[h].path) = view[h]
                  /\ x.size = Len(view[h])
                  /\ x.active => x.staged = view[h]
<1>1. ctx[h] \in Context /\ ctx[h].path \in Name /\ OpenInv(h) /\ OwnInv(h) /\ volume \in Content
  BY ContextOf DEF IsOpen, HandlesInv, VolumeInv, TypeOK
<1>2. CanFlush(ctx[h])
  BY <1>1 DEF CanFlush, LegalWrite, OpenInv
<1>3. /\ VolumeFlushed(ctx[h]) \in Content /\ Consistent(VolumeFlushed(ctx[h]))
      /\ Flushed(ctx[h]) \in Context
      /\ Flushed(ctx[h]).path = ctx[h].path
      /\ ~Flushed(ctx[h]).cleaned /\ ~Flushed(ctx[h]).deletePending
      /\ ~Flushed(ctx[h]).dirty
  BY <1>1, <1>2, FlushedType DEF IsOpen, OpenInv
<1>4. CASE ~ctx[h].dirty
  BY <1>1, <1>2, <1>3, <1>4 DEF Flushed, VolumeFlushed, OwnInv
<1>5. CASE ctx[h].dirty
  <2> DEFINE w == Written(volume, ctx[h].path, ctx[h].staged)
             y == [ctx[h] EXCEPT !.dirty = FALSE, !.active = FALSE, !.staged = <<>>]
  <2>1. LegalWrite(volume, ctx[h].path) /\ ctx[h].staged \in Data
    BY <1>1, <1>2, <1>5 DEF CanFlush, Context
  <2>2. /\ w.node = volume.node
        /\ Exists(w, ctx[h].path) /\ DataOf(w, ctx[h].path) = ctx[h].staged
        /\ \A i \in Node : i # w.node[ctx[h].path] => w.data[i] = volume.data[i]
    BY <1>1, <2>1, WrittenFile DEF OpenInv
  <2>3. VolumeFlushed(ctx[h]) = w /\ Flushed(ctx[h]) = Resolved(y, w)
    BY <1>5 DEF VolumeFlushed, Flushed
  <2>4. y \in Context /\ y.path = ctx[h].path /\ ~y.active
    BY <1>1, EmptyData DEF Context
  <2> HIDE DEF w, y
  <2>5. /\ Resolved(y, w).inode = w.node[y.path]
        /\ Resolved(y, w).size = Len(DataOf(w, y.path))
        /\ ~Resolved(y, w).active
    BY <1>3, <2>2, <2>3, <2>4, ContextIsDraft, ResolvedFields
  <2> QED
    BY <1>1, <1>2, <1>3, <1>5, <2>2, <2>3, <2>4, <2>5 DEF OpenInv, OwnInv
<1> QED
  BY <1>4, <1>5
-----------------------------------------------------------------------------
(* HandlesInv, action by action.                                           *)

(* The file of an open handle is one of the volume.                        *)
LEMMA OpenFile ==
  ASSUME VolumeInv, HandlesInv, NEW g \in Handle, IsOpen(g)
  PROVE  /\ ctx[g] \in Context /\ ctx[g].path \in Name
         /\ Exists(volume, ctx[g].path)
         /\ ctx[g].inode = volume.node[ctx[g].path]
         /\ ctx[g].inode \in Node
         /\ ctx[g].inode < volume.next
         /\ DataOf(volume, ctx[g].path) = volume.data[ctx[g].inode]
BY ContextOf, FileHasData DEF HandlesInv, OpenInv, IsOpen, VolumeInv, TypeOK, DataOf

LEMMA CreateHandlesInv ==
  ASSUME DistinctKeys, VolumeInv, HandlesInv, NEW h \in Handle, NEW n \in Name, Create(h, n)
  PROVE  HandlesInv'
<1> DEFINE draft == NewContext(n, TRUE)
           x == Resolved(draft, volume')
<1>1. /\ volume' = Written(volume, n, <<>>) /\ LegalWrite(volume, n) /\ <<>> \in Data
      /\ ~Exists(volume, n) /\ volume \in Content
      /\ ctx' = [ctx EXCEPT ![h] = x]
      /\ view' = [view EXCEPT ![h] = <<>>]
      /\ ~IsOpen(h) /\ change' = change /\ change[h] = None
  BY EmptyData, OnlyName DEF Create, VolumeInv, TypeOK, IsOpen
<1>2. /\ Exists(volume', n) /\ DataOf(volume', n) = <<>>
      /\ volume'.node[n] = volume.next /\ volume'.node[n] \in Node
      /\ \A m \in Name : m # n => volume'.node[m] = volume.node[m]
      /\ \A i \in Node : i # volume.next => volume'.data[i] = volume.data[i]
  BY <1>1, WrittenFile
<1>3. /\ draft \in Draft /\ draft.path = n /\ ~draft.active /\ ~draft.dirty
      /\ ~draft.deletePending
  BY NewContextType DEF NewContext
<1>4. volume' \in Content /\ Len(<<>>) = 0
  BY <1>1, WrittenType, EmptyData
<1> HIDE DEF draft
<1>5. /\ x.path = n /\ x.inode = volume.next /\ x.size = 0
      /\ ~x.active /\ ~x.dirty /\ ~x.deletePending
  BY <1>2, <1>3, <1>4, ResolvedFields
<1> HIDE DEF x
<1>6. ctx'[h] = x /\ view'[h] = <<>>
  BY <1>1 DEF VolumeInv, TypeOK
<1>7. ASSUME NEW g \in Handle \ {h}
      PROVE  /\ change'[g] = change[g]
             /\ view'[g] \in {view[g], Shared}
             /\ IsOpen(g) =>
                  /\ ctx[g].path # n /\ ctx[g].inode # volume.next
                  /\ volume'.node[ctx[g].path] = volume.node[ctx[g].path]
                  /\ DataOf(volume', ctx[g].path) = DataOf(volume, ctx[g].path)
  <2>1. change'[g] = change[g] /\ view'[g] = view[g]
    BY <1>1 DEF VolumeInv, TypeOK
  <2>2. ASSUME IsOpen(g)
        PROVE  /\ ctx[g].path # n /\ ctx[g].inode # volume.next
               /\ volume'.node[ctx[g].path] = volume.node[ctx[g].path]
               /\ DataOf(volume', ctx[g].path) = DataOf(volume, ctx[g].path)
    <3>1. /\ ctx[g].path \in Name /\ Exists(volume, ctx[g].path)
          /\ ctx[g].inode = volume.node[ctx[g].path]
          /\ ctx[g].inode \in Node /\ ctx[g].inode < volume.next
      BY <2>2, OpenFile
    <3>2. ctx[g].inode # volume.next
      BY <3>1, VolumeAssumption DEF Node
    <3> QED
      BY <1>1, <1>2, <3>1, <3>2 DEF DataOf
  <2> QED
    BY <2>1, <2>2
<1>8. OpenInv(h)' /\ OwnInv(h)'
  BY <1>1, <1>2, <1>4, <1>5, <1>6 DEF OpenInv, OwnInv
<1>9. \A g \in Handle \ {h} : IsOpen(g) => Apart(g, h)'
  <2>1. \A g \in Handle \ {h} : ctx'[g] = ctx[g]
    BY <1>1 DEF VolumeInv, TypeOK
  <2> QED
    BY <1>5, <1>6, <1>7, <2>1 DEF Apart
<1> QED
  BY <1>1, <1>7, <1>8, <1>9, OneHandle

LEMMA OpenHandlesInv ==
  ASSUME DistinctKeys, VolumeInv, HandlesInv, NEW h \in Handle, NEW n \in Name, Open(h, n)
  PROVE  HandlesInv'
<1> DEFINE draft == NewContext(n, FALSE)
           opened == Resolved(draft, volume)
           others == {g \in Handle : ctx[g] # None /\ ~ctx[g].cleaned /\ ctx[g].inode = opened.inode}
<1>1. /\ Exists(volume, n) /\ Lookup(volume, n) = n /\ volume \in Content
      /\ ~IsOpen(h) /\ change[h] = None /\ volume' = volume /\ change' = change
  BY OnlyName DEF Open, VolumeInv, TypeOK, IsOpen
<1>2. /\ draft \in Draft /\ draft.path = n /\ ~draft.active /\ ~draft.dirty
      /\ ~draft.deletePending
  BY NewContextType DEF NewContext
<1> HIDE DEF draft
<1>3. /\ opened.path = n /\ opened.inode = volume.node[n] /\ opened.size = Len(DataOf(volume, n))
      /\ ~opened.active /\ ~opened.dirty /\ ~opened.deletePending
  BY <1>1, <1>2, ResolvedFields
<1>4. PICK overwritten \in BOOLEAN :
        /\ ctx' = [ctx EXCEPT ![h] = IF overwritten THEN Overwritten(opened) ELSE opened]
        /\ view' = [g \in Handle |->
                IF g \in others \/ (g = h /\ others # {}) THEN Shared
                ELSE IF g # h THEN view[g]
                ELSE IF overwritten THEN <<>> ELSE DataOf(volume, Lookup(volume, n))]
  BY DEF Open, draft
<1>5. opened \in Context
  BY <1>1, <1>2, ResolvedType, LookupOfExisting DEF VolumeInv
<1>6. DataOf(volume, n) \in Seq(Byte) /\ Len(<<>>) = 0
  BY <1>1, FileHasData, DataType, EmptyData DEF VolumeInv
<1> DEFINE x == IF overwritten THEN Overwritten(opened) ELSE opened
<1> HIDE DEF opened
<1>7. /\ x.path = n /\ x.inode = volume.node[n] /\ ~x.deletePending
      /\ overwritten => x.active /\ x.staged = <<>> /\ x.size = 0 /\ x.dirty = (opened.size # 0)
      /\ ~overwritten => x = opened
  BY <1>3, <1>5 DEF Overwritten, Context
<1> HIDE DEF x
<1>8. ctx'[h] = x /\ ctx' = [ctx EXCEPT ![h] = x]
  BY <1>4 DEF VolumeInv, TypeOK, x
<1>9. OpenInv(h)'
  BY <1>1, <1>7, <1>8 DEF OpenInv
<1>10. OwnInv(h)'
  <2>1. SUFFICES ASSUME view'[h] # Shared
                 PROVE  OwnInv(h)'
    BY DEF OwnInv
  <2>2. view'[h] = IF overwritten THEN <<>> ELSE DataOf(volume, n)
    BY <1>1, <1>4, <2>1
  <2>3. CASE overwritten
    <3>1. ~x.dirty => DataOf(volume, n) = <<>>
      BY <1>3, <1>6, <1>7, <2>3, EmptyBytes
    <3> QED
      BY <1>1, <1>6, <1>7, <1>8, <2>2, <2>3, <3>1 DEF OwnInv
  <2>4. CASE ~overwritten
    BY <1>1, <1>3, <1>7, <1>8, <2>2, <2>4 DEF OwnInv
  <2> QED
    BY <2>3, <2>4
<1>11. ASSUME NEW g \in Handle \ {h}
       PROVE  /\ change'[g] = change[g]
              /\ view'[g] \in {view[g], Shared}
              /\ ctx'[g] = ctx[g]
              /\ IsOpen(g) /\ ctx[g].inode = volume.node[n] =>
                   view'[g] = Shared /\ view'[h] = Shared
  BY <1>1, <1>3, <1>4, <1>8 DEF VolumeInv, TypeOK, IsOpen
<1>12. ASSUME NEW g \in Handle \ {h}, IsOpen(g)
       PROVE  Apart(g, h)'
  <2>1. ctx[g].path # n
    BY <1>12 DEF Open, MayOpen, IsOpen
  <2> QED
    BY <1>7, <1>8, <1>11, <1>12, <2>1 DEF Apart
<1> QED
  BY <1>1, <1>8, <1>9, <1>10, <1>11, <1>12, OneHandle

LEMMA ChangeStageHandlesInv ==
  ASSUME DistinctKeys, VolumeInv, HandlesInv, NEW h \in Handle, NEW q \in Request,
         ChangeStage(h, q)
  PROVE  HandlesInv'
<1> DEFINE x == StageLoaded(ctx[h])
           y == [x EXCEPT !.staged = Changed(@, q), !.dirty = TRUE,
                          !.size = SizeAfter(x.staged, q)]
           z == IF TooLarge(x.staged, q) THEN x ELSE y
<1>1. /\ IsOpen(h) /\ change[h] = None /\ volume' = volume /\ change' = change
      /\ ctx[h] \in Context /\ (ctx[h].active \/ Readable(ctx[h])) /\ OpenInv(h) /\ OwnInv(h)
  BY ContextOf DEF ChangeStage, InUse, IsOpen, HandlesInv
<1>2. /\ x \in Context /\ x.active
      /\ x.staged = IF ctx[h].active THEN ctx[h].staged ELSE MutableBytes(ctx[h])
      /\ x.path = ctx[h].path /\ x.inode = ctx[h].inode /\ x.size = ctx[h].size
      /\ x.dirty = ctx[h].dirty /\ x.deletePending = ctx[h].deletePending
  BY <1>1, StageLoadedType
<1>3. ctx' = [ctx EXCEPT ![h] = z]
  BY DEF ChangeStage
<1>4. view' = IF TooLarge(x.staged, q) THEN view ELSE [view EXCEPT ![h] = Noted(@, q)]
  BY DEF ChangeStage
<1> HIDE DEF x
<1>5. view[h] # Shared => view[h] \in Seq(Byte) /\ x.staged = view[h] /\ x.size = Len(view[h])
  BY <1>1, <1>2, ReadBack DEF OwnInv
<1>6. /\ y.path = x.path /\ y.inode = x.inode /\ y.deletePending = x.deletePending
      /\ y.active /\ y.dirty /\ y.staged = Changed(x.staged, q) /\ y.size = SizeAfter(x.staged, q)
  BY <1>2 DEF Context
<1> HIDE DEF y
<1>7. z.path = ctx[h].path /\ z.inode = ctx[h].inode /\ z.deletePending = ctx[h].deletePending
  BY <1>2, <1>6
<1>8. ctx'[h] = z /\ \A g \in Handle \ {h} : ctx'[g] = ctx[g] /\ view'[g] = view[g]
  BY <1>3, <1>4 DEF VolumeInv, TypeOK
<1>9. OpenInv(h)'
  BY <1>1, <1>7, <1>8 DEF OpenInv
<1>10. OwnInv(h)'
  <2>1. SUFFICES ASSUME view'[h] # Shared
                 PROVE  OwnInv(h)'
    BY DEF OwnInv
  <2>2. CASE TooLarge(x.staged, q)
    <3>1. view'[h] = view[h] /\ z = x
      BY <1>4, <2>2
    <3> HIDE DEF z
    <3> QED
      BY <1>1, <1>2, <1>5, <1>8, <2>1, <3>1 DEF OwnInv
  <2>3. CASE ~TooLarge(x.staged, q)
    <3>1. view'[h] = Noted(view[h], q) /\ z = y
      BY <1>4, <2>3 DEF VolumeInv, TypeOK
    <3>2. view[h] # Shared /\ view'[h] = Changed(view[h], q)
      BY <2>1, <3>1 DEF Noted
    <3>3. Len(Changed(view[h], q)) = SizeAfter(view[h], q)
      BY <1>5, <3>2, ChangedBytes
    <3> HIDE DEF z
    <3> QED
      BY <1>1, <1>5, <1>6, <1>8, <3>1, <3>2, <3>3 DEF OwnInv
  <2> QED
    BY <2>2, <2>3
<1>11. \A g \in Handle \ {h} : IsOpen(g) => Apart(g, h)'
  <2>1. \A g \in Handle \ {h} : IsOpen(g) => Apart(g, h)
    BY <1>1 DEF HandlesInv
  <2>2. view[h] = Shared => view'[h] = Shared
    BY <1>4 DEF VolumeInv, TypeOK, Noted
  <2> QED
    BY <1>7, <1>8, <2>1, <2>2 DEF Apart
<1> HIDE DEF z
<1> QED
  BY <1>1, <1>3, <1>8, <1>9, <1>10, <1>11, OneHandle

LEMMA ReadForChangeHandlesInv ==
  ASSUME DistinctKeys, VolumeInv, HandlesInv, NEW h \in Handle, NEW q \in Request,
         ReadForChange(h, q)
  PROVE  HandlesInv'
<1>1. /\ IsOpen(h) /\ ~ctx[h].active /\ UNCHANGED <<volume, ctx, view>>
      /\ change' = [change EXCEPT ![h] = [request |-> q, base |-> MutableBytes(ctx[h])]]
  BY DEF ReadForChange, InUse, IsOpen
<1>2. view[h] # Shared => MutableBytes(ctx[h]) = view[h]
  BY <1>1, ReadBack
<1>3. change'[h].base = MutableBytes(ctx[h]) /\ \A g \in Handle \ {h} : change'[g] = change[g]
  BY <1>1 DEF VolumeInv, TypeOK
<1>4. ASSUME NEW g \in Handle, IsOpen(g)
      PROVE  OpenInv(g)' /\ OwnInv(g)'
  <2>1. OpenInv(g) /\ OwnInv(g)
    BY <1>4 DEF HandlesInv
  <2>2. CASE g = h
    BY <1>1, <1>2, <1>3, <2>1, <2>2 DEF OpenInv, OwnInv
  <2>3. CASE g # h
    BY <1>1, <1>3, <2>1, <2>3 DEF OpenInv, OwnInv
  <2> QED
    BY <2>2, <2>3
<1>5. \A f, g \in Handle : Apart(f, g)' <=> Apart(f, g)
  BY <1>1 DEF Apart
<1> QED
  BY <1>1, <1>4, <1>5 DEF HandlesInv, IsOpen
LEMMA CommitChangeHandlesInv ==
  ASSUME DistinctKeys, VolumeInv, HandlesInv, NEW h \in Handle, CommitChange(h)
  PROVE  HandlesInv'
<1> DEFINE x == ctx[h]
           q == change[h].request
           base == change[h].base
           data == Changed(base, q)
<1>1. /\ change[h] # None /\ IsOpen(h) /\ q \in Request /\ base \in Data /\ ~TooLarge(base, q)
      /\ change' = [change EXCEPT ![h] = None]
  BY DEF CommitChange, VolumeInv, TypeOK
<1>2. /\ x \in Context /\ x.path \in Name /\ Exists(volume, x.path) /\ volume \in Content
      /\ x.inode = volume.node[x.path] /\ OpenInv(h) /\ OwnInv(h)
  BY <1>1, OpenFile DEF HandlesInv, VolumeInv, TypeOK
<1>3. change'[h] = None /\ \A g \in Handle \ {h} : change'[g] = change[g]
  BY <1>1 DEF VolumeInv, TypeOK
<1>4. CASE /\ LegalWrite(volume, x.path)
           /\ volume' = Written(volume, x.path, data)
           /\ ctx' = [ctx EXCEPT ![h] = Resolved(x, volume')]
           /\ view' = [view EXCEPT ![h] = Noted(@, q)]
  <2> DEFINE y == Resolved(x, volume')
  <2>1. data \in Data /\ Len(data) = SizeAfter(base, q)
    BY <1>1, ChangedType
  <2> HIDE DEF data
  <2>2. /\ volume'.node = volume.node /\ Exists(volume', x.path)
        /\ DataOf(volume', x.path) = data
        /\ \A i \in Node : i # x.inode => volume'.data[i] = volume.data[i]
    BY <1>2, <1>4, <2>1, WrittenFile
  <2>3. volume' \in Content
    BY <1>2, <1>4, <2>1, WrittenType
  <2>4. /\ y.path = x.path /\ y.inode = x.inode /\ y.size = Len(data)
        /\ y.active = x.active /\ y.dirty = x.dirty /\ y.deletePending = x.deletePending
    BY <1>2, <2>2, <2>3, ResolvedFields, ContextIsDraft
  <2> HIDE DEF y
  <2>5. ctx'[h] = y /\ \A g \in Handle \ {h} : ctx'[g] = ctx[g] /\ view'[g] = view[g]
    BY <1>4 DEF VolumeInv, TypeOK, y
  <2>6. OpenInv(h)'
    BY <1>2, <2>2, <2>4, <2>5 DEF OpenInv
  <2>7. view'[h] = Noted(view[h], q)
    BY <1>4 DEF VolumeInv, TypeOK
  <2>8. OwnInv(h)'
    <3>1. SUFFICES ASSUME view'[h] # Shared
                   PROVE  OwnInv(h)'
      BY DEF OwnInv
    <3>2. view[h] # Shared /\ view'[h] = Changed(view[h], q)
      BY <2>7, <3>1 DEF Noted
    <3>3. view'[h] = data /\ ~x.active /\ ~x.dirty
      BY <1>1, <1>2, <3>2 DEF OwnInv, data
    <3> QED
      BY <1>3, <2>2, <2>4, <2>5, <3>3 DEF OwnInv
  <2>9. ASSUME NEW g \in Handle \ {h}, IsOpen(g)
        PROVE  /\ volume'.node[ctx[g].path] = volume.node[ctx[g].path]
               /\ view'[g] # Shared => DataOf(volume', ctx[g].path) = DataOf(volume, ctx[g].path)
    BY <1>1, <2>2, <2>5, <2>9, OthersData
  <2>10. \A g \in Handle \ {h} : IsOpen(g) => Apart(g, h)'
    <3>1. \A g \in Handle \ {h} : IsOpen(g) => Apart(g, h)
      BY <1>1 DEF HandlesInv
    <3>2. view[h] = Shared => view'[h] = Shared
      BY <2>7 DEF Noted
    <3> QED
      BY <2>4, <2>5, <3>1, <3>2 DEF Apart
  <2> QED
    BY <1>3, <1>4, <2>5, <2>6, <2>8, <2>9, <2>10, OneHandle DEF y
<1>5. CASE UNCHANGED <<volume, ctx, view>>
  <2>1. \A g \in Handle : change'[g] # None => change'[g] = change[g]
    BY <1>3
  <2>2. \A g \in Handle : IsOpen(g) => OpenInv(g)' /\ OwnInv(g)'
    BY <1>5, <2>1 DEF HandlesInv, OpenInv, OwnInv
  <2>3. \A f, g \in Handle : Apart(f, g)' <=> Apart(f, g)
    BY <1>5 DEF Apart
  <2> QED
    BY <1>5, <2>2, <2>3 DEF HandlesInv, IsOpen
<1> QED
  BY <1>4, <1>5 DEF CommitChange

LEMMA FlushHandlesInv ==
  ASSUME DistinctKeys, VolumeInv, HandlesInv, NEW h \in Handle, Flush(h)
  PROVE  HandlesInv'
<1> DEFINE x == Flushed(ctx[h])
<1>1. /\ IsOpen(h) /\ change[h] = None /\ UNCHANGED <<change, view>>
      /\ volume' = VolumeFlushed(ctx[h]) /\ ctx' = [ctx EXCEPT ![h] = x]
  BY DEF Flush, InUse, IsOpen
<1>2. /\ x.path = ctx[h].path /\ x.inode = ctx[h].inode /\ ~x.dirty /\ ~x.deletePending
      /\ volume'.node = volume.node
      /\ \A i \in Node : i # ctx[h].inode => volume'.data[i] = volume.data[i]
      /\ view[h] # Shared =>
           /\ DataOf(volume', ctx[h].path) = view[h]
           /\ x.size = Len(view[h])
           /\ x.active => x.staged = view[h]
  BY <1>1, FlushStores
<1> HIDE DEF x
<1>3. ctx'[h] = x /\ \A g \in Handle \ {h} : ctx'[g] = ctx[g]
  BY <1>1 DEF VolumeInv, TypeOK
<1>4. OpenInv(h) /\ \A g \in Handle \ {h} : IsOpen(g) => Apart(g, h)
  BY <1>1 DEF HandlesInv
<1>5. OpenInv(h)' /\ OwnInv(h)'
  BY <1>1, <1>2, <1>3, <1>4 DEF OpenInv, OwnInv, Exists
<1>6. \A g \in Handle \ {h} : IsOpen(g) => Apart(g, h)'
  BY <1>1, <1>2, <1>3, <1>4 DEF Apart
<1>7. ASSUME NEW g \in Handle \ {h}, IsOpen(g)
      PROVE  /\ volume'.node[ctx[g].path] = volume.node[ctx[g].path]
             /\ view'[g] # Shared => DataOf(volume', ctx[g].path) = DataOf(volume, ctx[g].path)
  BY <1>1, <1>2, <1>7, OthersData
<1> QED
  BY <1>1, <1>5, <1>6, <1>7, OneHandle

LEMMA RenameHandlesInv ==
  ASSUME DistinctKeys, VolumeInv, HandlesInv, NEW h \in Handle, NEW to \in Name,
         NEW replaceIfExists \in BOOLEAN, Rename(h, to, replaceIfExists)
  PROVE  HandlesInv'
<1> DEFINE x == Flushed(ctx[h])
           flushed == VolumeFlushed(ctx[h])
           replaces == /\ replaceIfExists
                       /\ Matches(flushed, to) # {}
                       /\ flushed.node[Lookup(flushed, to)] # x.inode
           cleared == IF replaces THEN Deleted(flushed, to) ELSE flushed
<1>1. IsOpen(h) /\ change[h] = None /\ UNCHANGED <<change, view>>
  BY DEF Rename, InUse, IsOpen
<1>2. /\ ctx[h].path \in Name /\ Exists(volume, ctx[h].path)
      /\ ctx[h].inode = volume.node[ctx[h].path] /\ ctx[h].inode \in Node
  BY <1>1, OpenFile
<1>3. /\ x \in Context /\ x.path = ctx[h].path /\ x.inode = ctx[h].inode
      /\ ~x.dirty /\ ~x.deletePending
      /\ flushed \in Content /\ Consistent(flushed) /\ flushed.node = volume.node
      /\ \A i \in Node : i # ctx[h].inode => flushed.data[i] = volume.data[i]
      /\ view[h] # Shared =>
           /\ DataOf(flushed, ctx[h].path) = view[h]
           /\ x.size = Len(view[h])
           /\ x.active => x.staged = view[h]
  BY <1>1, FlushStores
<1>4. /\ replaces => Exists(flushed, to)
      /\ \/ /\ LegalRename(cleared, x.path, to)
            /\ volume' = Renamed(cleared, x.path, to)
            /\ ctx' = [ctx EXCEPT ![h] = Resolved([x EXCEPT !.path = to], volume')]
         \/ /\ volume' = cleared
            /\ ctx' = [ctx EXCEPT ![h] = x]
  BY DEF Rename
<1>5. \A g \in Handle \ {h} : IsOpen(g) => ctx[g].path # to
  BY DEF Rename, IsOpen
<1> HIDE DEF x, flushed
<1>6. replaces => to # ctx[h].path
  BY <1>2, <1>3, <1>4, OnlyName
<1>7. cleared \in Content /\ Consistent(cleared)
  BY <1>3, <1>4, ClearedType
<1>8. /\ \A m \in Name : m # to => cleared.node[m] = volume.node[m]
      /\ \A m \in Name : m # to /\ Exists(volume, m) => DataOf(cleared, m) = DataOf(flushed, m)
      /\ cleared.node[ctx[h].path] = ctx[h].inode
      /\ DataOf(cleared, ctx[h].path) = DataOf(flushed, ctx[h].path)
  BY <1>2, <1>3, <1>4, <1>6, DeletedFile, FileHandlesAssumption DEF Exists
<1> HIDE DEF replaces, cleared
<1>9. ASSUME NEW g \in Handle \ {h}, IsOpen(g)
      PROVE  /\ ctx[g].path \in Name \ {to, ctx[h].path}
             /\ Exists(volume, ctx[g].path)
             /\ cleared.node[ctx[g].path] = volume.node[ctx[g].path]
             /\ view[g] # Shared => DataOf(cleared, ctx[g].path) = DataOf(volume, ctx[g].path)
  <2>1. /\ ctx[g].path \in Name \ {to, ctx[h].path}
        /\ Exists(volume, ctx[g].path)
    BY <1>1, <1>5, <1>9, OpenFile DEF HandlesInv, Apart
  <2>2. view[g] # Shared => DataOf(flushed, ctx[g].path) = DataOf(volume, ctx[g].path)
    BY <1>1, <1>3, <1>9, OthersData
  <2> QED
    BY <1>8, <2>1, <2>2
<1>10. \A g \in Handle \ {h} : IsOpen(g) => Apart(g, h)
  BY <1>1 DEF HandlesInv
<1>11. CASE /\ LegalRename(cleared, x.path, to)
            /\ volume' = Renamed(cleared, x.path, to)
            /\ ctx' = [ctx EXCEPT ![h] = Resolved([x EXCEPT !.path = to], volume')]
  <2> DEFINE y == [x EXCEPT !.path = to]
             z == Resolved(y, volume')
  <2>1. /\ volume'.node[to] = cleared.node[ctx[h].path] /\ Exists(volume', to)
        /\ volume'.data = cleared.data
        /\ \A m \in Name \ {ctx[h].path, to} : volume'.node[m] = cleared.node[m]
        /\ volume' \in Content
    BY <1>2, <1>3, <1>7, <1>11, RenamedFile, RenamedType
  <2>2. /\ y \in Draft /\ y.path = to /\ y.active = x.active /\ y.dirty = x.dirty
        /\ y.staged = x.staged /\ y.deletePending = x.deletePending
    BY <1>3, ContextIsDraft DEF Context
  <2> HIDE DEF y
  <2>3. /\ z.path = to /\ z.inode = volume'.node[to] /\ z.size = Len(DataOf(volume', to))
        /\ z.active = x.active /\ z.dirty = x.dirty
        /\ z.staged = x.staged /\ z.deletePending = x.deletePending
    BY <2>1, <2>2, ResolvedFields
  <2>4. ctx' = [ctx EXCEPT ![h] = z]
    BY <1>11 DEF y
  <2> HIDE DEF z
  <2>5. ctx'[h] = z /\ \A g \in Handle \ {h} : ctx'[g] = ctx[g]
    BY <2>4 DEF VolumeInv, TypeOK
  <2>6. DataOf(volume', to) = DataOf(flushed, ctx[h].path) /\ z.inode = ctx[h].inode
    BY <1>8, <2>1, <2>3 DEF DataOf
  <2>7. OpenInv(h)' /\ OwnInv(h)'
    BY <1>1, <1>3, <2>1, <2>3, <2>5, <2>6 DEF OpenInv, OwnInv
  <2>8. \A g \in Handle \ {h} : IsOpen(g) => Apart(g, h)'
    BY <1>1, <1>5, <1>10, <2>3, <2>5, <2>6 DEF Apart
  <2>9. ASSUME NEW g \in Handle \ {h}, IsOpen(g)
        PROVE  /\ volume'.node[ctx[g].path] = volume.node[ctx[g].path]
               /\ view'[g] # Shared => DataOf(volume', ctx[g].path) = DataOf(volume, ctx[g].path)
    BY <1>1, <1>9, <2>1, <2>9 DEF DataOf
  <2> QED
    BY <1>1, <2>4, <2>7, <2>8, <2>9, OneHandle
<1>12. CASE volume' = cleared /\ ctx' = [ctx EXCEPT ![h] = x]
  <2>1. ctx'[h] = x /\ \A g \in Handle \ {h} : ctx'[g] = ctx[g]
    BY <1>12 DEF VolumeInv, TypeOK
  <2>2. OpenInv(h)' /\ OwnInv(h)'
    BY <1>1, <1>2, <1>3, <1>8, <1>12, <2>1 DEF OpenInv, OwnInv, Exists
  <2>3. \A g \in Handle \ {h} : IsOpen(g) => Apart(g, h)'
    BY <1>1, <1>3, <1>10, <2>1 DEF Apart
  <2> QED
    BY <1>1, <1>9, <1>12, <2>2, <2>3, OneHandle
<1> QED
  BY <1>4, <1>11, <1>12

LEMMA CreateHardLinkHandlesInv ==
  ASSUME DistinctKeys, VolumeInv, HandlesInv, NEW h \in Handle, NEW to \in Name,
         CreateHardLink(h, to)
  PROVE  HandlesInv'
<1> DEFINE x == Flushed(ctx[h])
           flushed == VolumeFlushed(ctx[h])
           inode == volume'.node[to]
           links == LinkCount(volume', inode)
<1>1. IsOpen(h) /\ change[h] = None /\ UNCHANGED <<change, view>>
  BY DEF CreateHardLink, InUse, IsOpen
<1>2. ctx[h].path \in Name /\ Exists(volume, ctx[h].path)
  BY <1>1, OpenFile
<1>3. /\ x \in Context /\ x.path = ctx[h].path /\ x.inode = ctx[h].inode
      /\ ~x.dirty /\ ~x.deletePending
      /\ flushed \in Content /\ flushed.node = volume.node
      /\ \A i \in Node : i # ctx[h].inode => flushed.data[i] = volume.data[i]
      /\ view[h] # Shared =>
           /\ DataOf(flushed, ctx[h].path) = view[h]
           /\ x.size = Len(view[h])
           /\ x.active => x.staged = view[h]
  BY <1>1, FlushStores
<1>4. /\ LegalLink(flushed, x.path, to)
      /\ volume' = Linked(flushed, x.path, to)
      /\ ctx' = Relinked(ctx, h, x, inode, links)
  BY DEF CreateHardLink
<1> HIDE DEF x, flushed
<1>5. /\ volume'.data = flushed.data /\ ~Exists(volume, to)
      /\ \A m \in Name \ {to} : volume'.node[m] = volume.node[m]
      /\ volume' \in Content
  BY <1>2, <1>3, <1>4, LinkedFile, LinkedType DEF Exists
<1>6. ctx \in [Handle -> Context \cup {None}] /\ links \in 0..Cardinality(Name)
  BY <1>5, LinkCountType, FileHandlesAssumption DEF VolumeInv, TypeOK
<1> HIDE DEF inode, links
<1>7. \A g \in Handle :
        LET y == IF g = h THEN x ELSE ctx[g]
        IN  /\ ctx'[g] = None <=> y = None
            /\ y # None => ctx'[g] = [y EXCEPT !.links = ctx'[g].links]
  BY <1>3, <1>4, <1>6, RelinkedType
<1>8. \A g \in Handle \ {h} : SameButLinks(ctx'[g], ctx[g])
  BY <1>7 DEF SameButLinks
<1>9. /\ ctx'[h].path = x.path /\ ctx'[h].inode = x.inode /\ ctx'[h].dirty = x.dirty
      /\ ctx'[h].deletePending = x.deletePending /\ ctx'[h].size = x.size
      /\ ctx'[h].active = x.active /\ ctx'[h].staged = x.staged
  <2>1. x # None /\ ctx'[h] = [x EXCEPT !.links = ctx'[h].links]
    BY <1>3, <1>7, NoneIsNoContext
  <2> QED
    BY <1>3, <2>1 DEF Context
<1>10. ASSUME NEW g \in Handle, IsOpen(g)
       PROVE  ctx[g].path \in Name \ {to}
  BY <1>5, <1>10, OpenFile
<1>11. ASSUME NEW g \in Handle \ {h}, IsOpen(g)
       PROVE  /\ volume'.node[ctx[g].path] = volume.node[ctx[g].path]
              /\ view'[g] # Shared => DataOf(volume', ctx[g].path) = DataOf(volume, ctx[g].path)
  <2>1. view[g] # Shared => DataOf(flushed, ctx[g].path) = DataOf(volume, ctx[g].path)
    BY <1>1, <1>3, <1>11, OthersData
  <2> QED
    BY <1>1, <1>3, <1>5, <1>10, <1>11, <2>1 DEF DataOf
<1>12. OpenInv(h)' /\ OwnInv(h)'
  <2>1. OpenInv(h) /\ volume'.node[ctx[h].path] = volume.node[ctx[h].path]
    BY <1>1, <1>5, <1>10 DEF HandlesInv
  <2> QED
    BY <1>1, <1>3, <1>5, <1>9, <2>1 DEF OpenInv, OwnInv, Exists, DataOf
<1>13. \A g \in Handle \ {h} : IsOpen(g) => Apart(g, h)'
  <2>1. ASSUME NEW g \in Handle \ {h}, IsOpen(g)
        PROVE  Apart(g, h)'
    <3>1. ctx[g] \in Context /\ ctx[g] # None /\ Apart(g, h)
      BY <1>1, <2>1, ContextOf DEF HandlesInv, IsOpen
    <3>2. ctx'[g].path = ctx[g].path /\ ctx'[g].inode = ctx[g].inode
      BY <1>8, <3>1 DEF SameButLinks, Context
    <3> QED
      BY <1>1, <1>3, <1>9, <3>1, <3>2 DEF Apart
  <2> QED
    BY <2>1
<1> QED
  BY <1>1, <1>8, <1>11, <1>12, <1>13, OthersKept

LEMMA CleanupHandlesInv ==
  ASSUME DistinctKeys, VolumeInv, HandlesInv, NEW h \in Handle, NEW delete \in BOOLEAN,
         Cleanup(h, delete)
  PROVE  HandlesInv'
<1> DEFINE x == ctx[h]
<1>1. /\ IsOpen(h) /\ change' = change /\ volume \in Content /\ x \in Context
      /\ \A g \in Handle \ {h} : view'[g] = view[g]
  BY ContextOf DEF Cleanup, InUse, IsOpen, VolumeInv, TypeOK
<1>2. x.path \in Name /\ Exists(volume, x.path)
  BY <1>1, OpenFile
<1>3. PICK y \in Context : ctx' = [ctx EXCEPT ![h] = y] /\ y.cleaned
  <2>1. CanFlush(x) => Flushed(x) \in Context
    BY <1>1, FlushedType
  <2>2. Discarded(x) \in Context
    BY <1>1, EmptyData DEF Discarded, Context
  <2>3. \A z \in Context, pending \in BOOLEAN :
          /\ [z EXCEPT !.deletePending = pending, !.cleaned = TRUE] \in Context
          /\ [z EXCEPT !.deletePending = pending, !.cleaned = TRUE].cleaned
          /\ [z EXCEPT !.cleaned = TRUE] \in Context
          /\ [z EXCEPT !.cleaned = TRUE].cleaned
    BY DEF Context
  <2> HIDE DEF x
  <2>4. CASE ctx' = [ctx EXCEPT ![h] = [Discarded(x) EXCEPT !.deletePending = TRUE, !.cleaned = TRUE]]
    BY <2>2, <2>3, <2>4
  <2>5. CASE CanFlush(x) /\ ctx' = [ctx EXCEPT ![h] = [Flushed(x) EXCEPT !.cleaned = TRUE]]
    BY <2>1, <2>3, <2>5
  <2>6. CASE ctx' = [ctx EXCEPT ![h] = [(IF delete THEN Discarded(x) ELSE x) EXCEPT
                         !.deletePending = delete, !.cleaned = TRUE]]
    <3>1. (IF delete THEN Discarded(x) ELSE x) \in Context
      BY <1>1, <2>2 DEF x
    <3> QED
      BY <2>3, <2>6, <3>1
  <2> QED
    BY <2>4, <2>5, <2>6 DEF Cleanup, x
<1>4. ~IsOpen(h)'
  BY <1>3 DEF IsOpen, VolumeInv, TypeOK
<1>5. ASSUME NEW g \in Handle \ {h}, IsOpen(g)
      PROVE  /\ volume'.node[ctx[g].path] = volume.node[ctx[g].path]
             /\ view'[g] # Shared => DataOf(volume', ctx[g].path) = DataOf(volume, ctx[g].path)
  <2>1. ctx[g].path \in Name \ {x.path} /\ Exists(volume, ctx[g].path)
    BY <1>1, <1>5, OpenFile DEF HandlesInv, Apart
  <2>2. CASE volume' = Deleted(volume, x.path)
    BY <1>1, <1>2, <2>1, <2>2, DeletedFile, FileHandlesAssumption
  <2>3. CASE volume' = VolumeFlushed(x)
    <3>1. /\ volume'.node = volume.node
          /\ \A i \in Node : i # x.inode => volume'.data[i] = volume.data[i]
      BY <1>1, <2>3, FlushStores
    <3> QED
      BY <1>1, <1>5, <3>1, OthersData
  <2>4. CASE volume' = volume
    BY <2>4
  <2> QED
    BY <1>2, <2>2, <2>3, <2>4 DEF Cleanup
<1> QED
  BY <1>1, <1>3, <1>4, <1>5, OneHandle

LEMMA NextHandlesInv ==
  ASSUME DistinctKeys, VolumeInv, HandlesInv, [Next]_vars
  PROVE  HandlesInv'
<1>1. CASE \E h \in Handle : Close(h)
  <2>1. PICK h \in Handle : Close(h)
    BY <1>1
  <2>2. ctx' = [ctx EXCEPT ![h] = None] /\ UNCHANGED <<volume, change, view>> /\ ~IsOpen(h)'
    BY <2>1 DEF Close, VolumeInv, TypeOK, IsOpen
  <2> QED
    BY <2>2, OneHandle
<1>2. CASE UNCHANGED vars
  BY <1>2 DEF vars, HandlesInv, IsOpen, OpenInv, OwnInv, Apart
<1> QED
  BY <1>1, <1>2, CreateHandlesInv, OpenHandlesInv, CreateHardLinkHandlesInv, RenameHandlesInv,
     ChangeStageHandlesInv, ReadForChangeHandlesInv, CommitChangeHandlesInv, FlushHandlesInv,
     CleanupHandlesInv
  DEF Next
LEMMA HandlesInvHolds ==
  ASSUME DistinctKeys
  PROVE  Spec => [](VolumeInv /\ HandlesInv)
<1>1. Init => VolumeInv /\ HandlesInv
  <2>1. ASSUME Init
        PROVE  \A h \in Handle : ~IsOpen(h)
    BY <2>1 DEF Init, IsOpen
  <2> QED
    BY <2>1, InitVolumeInv DEF HandlesInv
<1>2. VolumeInv /\ HandlesInv /\ [Next]_vars => (VolumeInv /\ HandlesInv)'
  BY NextVolumeInv, NextHandlesInv
<1> QED
  BY <1>1, <1>2, PTL DEF Spec

(* While nobody else has had the file open, a handle reads what the calls  *)
(* on it have written: staged, flushed, read for a change that is not      *)
(* committed, renamed, linked, or after a commit that failed.  In a        *)
(* directory with names that differ in case only it need not be so.        *)
THEOREM HandlesReadWrites ==
  ASSUME DistinctKeys
  PROVE  Spec => []ReadsSeeWrites
<1>1. VolumeInv /\ HandlesInv => ReadsSeeWrites
  <2>1. SUFFICES ASSUME VolumeInv, HandlesInv, NEW h \in Handle, InUse(h), view[h] # Shared
                 PROVE  Contents(ctx[h]) = view[h]
    BY DEF ReadsSeeWrites
  <2>2. IsOpen(h) /\ OpenInv(h) /\ OwnInv(h) /\ ctx[h].path \in Name
    BY <2>1, ContextOf DEF HandlesInv, InUse, IsOpen
  <2>3. Matches(volume, ctx[h].path) = {ctx[h].path} /\ Lookup(volume, ctx[h].path) = ctx[h].path
    BY <2>2, OnlyName DEF OpenInv
  <2>4. ~ctx[h].dirty => Prefix(DataOf(volume, ctx[h].path), ctx[h].size) = view[h]
    BY <2>1, <2>2, ReadBack
  <2> QED
    BY <2>1, <2>2, <2>3, <2>4 DEF Contents, OwnInv
<1> QED
  BY <1>1, HandlesInvHolds, PTL

(* What a handle that has nothing to flush shows is what the volume        *)
(* stores.                                                                 *)
THEOREM FlushedStays ==
  ASSUME DistinctKeys
  PROVE  Spec => []FlushedIsStored
<1>1. HandlesInv => FlushedIsStored
  BY DEF HandlesInv, OpenInv, OwnInv, FlushedIsStored, InUse, IsOpen
<1> QED
  BY <1>1, HandlesInvHolds, PTL

CleanupStored ==
  \A h \in Handle :
    /\ view[h] # Shared /\ failures' = failures
    /\ InUse(h) /\ ctx'[h] # None /\ ctx'[h].cleaned
    => IF ctx'[h].deletePending THEN ~Exists(volume', ctx[h].path)
       ELSE Exists(volume', ctx[h].path) /\ DataOf(volume', ctx[h].path) = view[h]

(* Only Cleanup ends the use of a handle.                                  *)
LEMMA OnlyCleanup ==
  ASSUME VolumeInv, NEW g \in Handle, IsOpen(g), Next, ctx'[g] # None, ctx'[g].cleaned
  PROVE  \E delete \in BOOLEAN : Cleanup(g, delete)
<1>1. ctx[g] \in Context /\ ~ctx[g].cleaned /\ ctx[g] # None
  BY ContextOf DEF IsOpen
<1>2. PICK h \in Handle :
        \/ \E n \in Name :
             \/ Create(h, n) \/ Open(h, n) \/ CreateHardLink(h, n)
             \/ \E replaceIfExists \in BOOLEAN : Rename(h, n, replaceIfExists)
        \/ \E q \in Request : ChangeStage(h, q) \/ ReadForChange(h, q)
        \/ CommitChange(h)
        \/ Flush(h)
        \/ \E delete \in BOOLEAN : Cleanup(h, delete)
        \/ Close(h)
  BY DEF Next
<1>3. ASSUME NEW x \in Context, ~x.cleaned, ctx' = [ctx EXCEPT ![h] = x]
      PROVE  FALSE
  BY <1>1, <1>3 DEF VolumeInv, TypeOK
<1>4. CASE \E n \in Name : Create(h, n) \/ Open(h, n)
  BY <1>1, <1>4 DEF Create, Open, VolumeInv, TypeOK, Resolved, NewContext, Overwritten
<1>5. ASSUME NEW n \in Name, CreateHardLink(h, n)
      PROVE  FALSE
  <2> DEFINE x == Flushed(ctx[h])
             inode == volume'.node[n]
             links == LinkCount(volume', inode)
  <2>1. ctx[h] \in Context /\ ~ctx[h].cleaned /\ CanFlush(ctx[h])
    BY <1>5, ContextOf DEF CreateHardLink, InUse
  <2>2. x \in Context /\ ~x.cleaned
    BY <2>1, FlushedType
  <2>3. ctx' = Relinked(ctx, h, x, inode, links)
    BY <1>5 DEF CreateHardLink
  <2>4. volume' \in Content
    BY <1>5, CreateHardLinkVolumeInv DEF VolumeInv, TypeOK
  <2>5. ctx \in [Handle -> Context \cup {None}] /\ links \in 0..Cardinality(Name)
    BY <2>4, LinkCountType, FileHandlesAssumption DEF VolumeInv, TypeOK
  <2> HIDE DEF x, inode, links
  <2> DEFINE y == IF g = h THEN x ELSE ctx[g]
  <2>6. y \in Context /\ ~y.cleaned
    BY <1>1, <2>2
  <2>7. ctx'[g] = [y EXCEPT !.links = ctx'[g].links]
    <3>1. y # None => ctx'[g] = [y EXCEPT !.links = ctx'[g].links]
      BY <2>2, <2>3, <2>5, RelinkedType
    <3> QED
      BY <2>6, <3>1, NoneIsNoContext
  <2> HIDE DEF y
  <2> QED
    BY <2>6, <2>7 DEF Context
<1>6. ASSUME NEW n \in Name, NEW replaceIfExists \in BOOLEAN, Rename(h, n, replaceIfExists)
      PROVE  FALSE
  <2> DEFINE x == Flushed(ctx[h])
  <2>1. ctx[h] \in Context /\ ~ctx[h].cleaned /\ CanFlush(ctx[h])
    BY <1>6, ContextOf DEF Rename, InUse
  <2>2. x \in Context /\ ~x.cleaned
    BY <2>1, FlushedType
  <2>3. \/ ctx' = [ctx EXCEPT ![h] = Resolved([x EXCEPT !.path = n], volume')]
        \/ ctx' = [ctx EXCEPT ![h] = x]
    BY <1>6 DEF Rename
  <2> HIDE DEF x
  <2>4. ~Resolved([x EXCEPT !.path = n], volume').cleaned
    BY <2>2 DEF Resolved, Context
  <2> QED
    BY <1>1, <2>2, <2>3, <2>4 DEF VolumeInv, TypeOK
<1>7. ASSUME NEW q \in Request, ChangeStage(h, q)
      PROVE  FALSE
  <2> DEFINE x == StageLoaded(ctx[h])
  <2>1. ctx[h] \in Context /\ ~ctx[h].cleaned /\ (ctx[h].active \/ Readable(ctx[h]))
    BY <1>7, ContextOf DEF ChangeStage, InUse
  <2>2. x \in Context /\ ~x.cleaned
    BY <2>1, StageLoadedType
  <2> DEFINE y == [x EXCEPT !.staged = Changed(@, q), !.dirty = TRUE,
                            !.size = SizeAfter(x.staged, q)]
  <2>3. ctx' = [ctx EXCEPT ![h] = x] \/ ctx' = [ctx EXCEPT ![h] = y]
    BY <1>7 DEF ChangeStage
  <2> HIDE DEF x
  <2>4. ~y.cleaned
    BY <2>2 DEF Context
  <2> HIDE DEF y
  <2>5. ctx'[g] \in {x, y, ctx[g]}
    BY <2>3 DEF VolumeInv, TypeOK
  <2> QED
    BY <1>1, <2>2, <2>4, <2>5
<1>8. CASE CommitChange(h)
  <2>1. ctx[h] \in Context /\ ~ctx[h].cleaned
    BY <1>8, ContextOf DEF CommitChange, VolumeInv, IsOpen
  <2>2. ctx' = [ctx EXCEPT ![h] = Resolved(ctx[h], volume')] \/ ctx' = ctx
    BY <1>8 DEF CommitChange
  <2> DEFINE y == Resolved(ctx[h], volume')
  <2>3. ~y.cleaned
    BY <2>1 DEF Resolved, Context
  <2> HIDE DEF y
  <2>4. ctx'[g] \in {y, ctx[g]}
    BY <2>2 DEF VolumeInv, TypeOK, y
  <2> QED
    BY <1>1, <2>3, <2>4
<1>9. CASE Flush(h)
  <2>1. ctx[h] \in Context /\ ~ctx[h].cleaned /\ CanFlush(ctx[h])
    BY <1>9, ContextOf DEF Flush, InUse
  <2> DEFINE x == Flushed(ctx[h])
  <2>2. x \in Context /\ ~x.cleaned
    BY <2>1, FlushedType
  <2>3. ctx' = [ctx EXCEPT ![h] = x]
    BY <1>9 DEF Flush
  <2> HIDE DEF x
  <2> QED
    BY <1>3, <2>2, <2>3
<1>10. CASE \E delete \in BOOLEAN : Cleanup(h, delete)
  <2>1. \A f \in Handle \ {h} : ctx'[f] = ctx[f]
    BY <1>10 DEF Cleanup, VolumeInv, TypeOK
  <2> QED
    BY <1>1, <1>10, <2>1
<1>11. CASE Close(h) \/ \E q \in Request : ReadForChange(h, q)
  BY <1>1, <1>11 DEF Close, ReadForChange, VolumeInv, TypeOK
<1> QED
  BY <1>2, <1>4, <1>5, <1>6, <1>7, <1>8, <1>9, <1>10, <1>11

LEMMA CleanupKeeps ==
  ASSUME DistinctKeys, VolumeInv, HandlesInv, NEW h \in Handle, NEW delete \in BOOLEAN,
         Cleanup(h, delete), view[h] # Shared, failures' = failures
  PROVE  IF ctx'[h].deletePending THEN ~Exists(volume', ctx[h].path)
         ELSE Exists(volume', ctx[h].path) /\ DataOf(volume', ctx[h].path) = view[h]
<1> DEFINE x == ctx[h]
<1>1. /\ IsOpen(h) /\ x \in Context /\ x.path \in Name /\ Exists(volume, x.path)
      /\ volume \in Content
  BY OpenFile DEF Cleanup, InUse, IsOpen, VolumeInv, TypeOK
<1>2. /\ CanFlush(x) /\ Flushed(x) \in Context /\ ~Flushed(x).deletePending
      /\ VolumeFlushed(x).node = volume.node
      /\ DataOf(VolumeFlushed(x), x.path) = view[h]
  BY <1>1, FlushStores
<1>3. Discarded(x) \in Context
  BY <1>1, EmptyData DEF Discarded, Context
<1>4. CASE /\ volume' = IF Exists(volume, x.path) THEN Deleted(volume, x.path) ELSE volume
           /\ ctx' = [ctx EXCEPT ![h] =
                        [Discarded(x) EXCEPT !.deletePending = TRUE, !.cleaned = TRUE]]
  <2>1. ctx'[h].deletePending
    BY <1>3, <1>4 DEF VolumeInv, TypeOK, Context
  <2> QED
    BY <1>1, <1>4, <2>1, DeletedFile, FileHandlesAssumption
<1>5. CASE /\ volume' = VolumeFlushed(x)
           /\ ctx' = [ctx EXCEPT ![h] = [Flushed(x) EXCEPT !.cleaned = TRUE]]
  <2>1. ~ctx'[h].deletePending
    BY <1>2, <1>5 DEF VolumeInv, TypeOK, Context
  <2> QED
    BY <1>1, <1>2, <1>5, <2>1 DEF Exists
<1>6. ~CommitFails(delete \/ CanFlush(x))
  BY <1>2 DEF CommitFails, VolumeInv, TypeOK
<1> QED
  BY <1>4, <1>5, <1>6 DEF Cleanup

(* The last use of a handle leaves the file as it was last seen through    *)
(* it, or no file if it is to be deleted, unless a commit fails.           *)
THEOREM CleanupKept ==
  ASSUME DistinctKeys
  PROVE  Spec => CleanupStores
<1>1. VolumeInv /\ HandlesInv /\ [Next]_vars => [CleanupStored]_vars
  BY OnlyCleanup, CleanupKeeps DEF CleanupStored, InUse, IsOpen
<1>2. Spec => [][CleanupStored]_vars
  BY <1>1, HandlesInvHolds, PTL DEF Spec
<1> QED
  BY <1>2 DEF CleanupStores, CleanupStored
=============================================================================
