---------------------------- MODULE MetadataProofs ----------------------------
(***************************************************************************)
(* Theorems of Metadata, for every value of its constants: the type        *)
(* invariant and all its other properties.  They rest on one inductive     *)
(* invariant: what is marked to be flushed is staged; the call that holds  *)
(* eaMutationMutex_ knows the names of the file; the only handle of a file *)
(* knows its attributes; and the file is a link while it has a target.     *)
(***************************************************************************)
EXTENDS Metadata, WellFoundedInduction, TLAPS

-----------------------------------------------------------------------------
(* Numbers.                                                                *)

LEMMA SmallestNat ==
  ASSUME NEW S \in SUBSET Nat, S # {}
  PROVE  \E x \in S : \A y \in S : x <= y
<1> DEFINE R == OpToRel(<, Nat)
<1>1. IsWellFoundedOn(R, Nat)
  BY NatLessThanWellFounded
<1>2. \A x, y \in Nat : x < y => <<x, y>> \in R
  BY DEF OpToRel
<1> HIDE DEF R
<1>3. PICK x \in S : \A y \in S : ~(<<y, x>> \in R)
  BY <1>1, WFMin
<1>4. \A y \in S : y \in Nat /\ x \in Nat /\ ~(y < x)
  BY <1>2, <1>3
<1> QED
  BY <1>4

LEMMA LargestNat ==
  ASSUME NEW n \in Nat, NEW S \in SUBSET (1..n), S # {}
  PROVE  Max(S) \in S
<1> DEFINE T == {n - x : x \in S}
<1>1. \A x \in S : x \in Nat /\ n - x \in Nat
  OBVIOUS
<1>2. T \subseteq Nat /\ T # {}
  BY <1>1
<1>3. PICK t \in T : \A u \in T : t <= u
  BY <1>2, SmallestNat
<1>4. PICK x \in S : t = n - x
  OBVIOUS
<1>5. ASSUME NEW y \in S
      PROVE  x >= y
  <2>1. n - x <= n - y
    BY <1>3, <1>4
  <2> QED
    BY <1>1, <2>1
<1> QED
  BY <1>5 DEF Max

-----------------------------------------------------------------------------
(* Lists of extended attributes.                                           *)

LEMMA WireType ==
  ASSUME NEW w \in Wire
  PROVE  w.name \in EaName /\ NewValue(w) \in EaValue \cup {None}
BY DEF Wire, NewValue

(* What a list makes of an attribute that it names is what one of its      *)
(* entries says.                                                           *)
LEMMA LastIsNamed ==
  ASSUME NEW list \in Seq(Wire), NEW k \in 0..Len(list), NEW n, Naming(list, k, n) # {}
  PROVE  Last(list, k, n) \in Wire /\ Last(list, k, n).name = n
<1>1. Naming(list, k, n) \in SUBSET (1..k) /\ k \in Nat
  BY DEF Naming
<1>2. Max(Naming(list, k, n)) \in Naming(list, k, n)
  BY <1>1, LargestNat
<1> QED
  BY <1>2 DEF Naming, Last

LEMMA StoredType ==
  ASSUME NEW ea \in [EaName -> EaValue \cup {None}], NEW list \in Seq(Wire)
  PROVE  Stored(ea, list) \in [EaName -> EaValue \cup {None}]
<1>1. ASSUME NEW n \in EaName, Naming(list, Len(list), n) # {}
      PROVE  NewValue(Last(list, Len(list), n)) \in EaValue \cup {None}
  BY <1>1, LastIsNamed, WireType
<1> QED
  BY <1>1 DEF Stored

(* A list leaves alone what it does not name.                              *)
LEMMA StoredElsewhere ==
  ASSUME NEW ea, NEW list \in Seq(Wire), NEW n \in EaName,
         \A k \in 1..Len(list) : list[k].name # n
  PROVE  Stored(ea, list)[n] = ea[n]
<1>1. Naming(list, Len(list), n) = {}
  BY DEF Naming
<1> QED
  BY <1>1 DEF Stored

(* The names that the check counts with are those that the commit leaves.  *)
LEMMA StoredNames ==
  ASSUME NEW f \in File, NEW list \in Seq(Wire), NEW names, NEW n \in EaName,
         n \in names <=> f.ea[n] # None
  PROVE  n \in NamesAfter(names, list, Len(list)) <=> Stored(f.ea, list)[n] # None
BY DEF NamesAfter, Stored

(* One more entry changes what becomes of the name it has and of no other. *)
LEMMA OneMore ==
  ASSUME NEW list \in Seq(Wire), NEW k \in 1..Len(list), NEW names,
         NEW n \in EaName, n # list[k].name
  PROVE  n \in NamesAfter(names, list, k) <=> n \in NamesAfter(names, list, k - 1)
<1>1. Naming(list, k, n) = Naming(list, k - 1, n)
  BY DEF Naming
<1> QED
  BY <1>1 DEF NamesAfter, Last

LEMMA NoneYet ==
  ASSUME NEW list \in Seq(Wire), NEW names \in SUBSET EaName
  PROVE  NamesAfter(names, list, 0) = names
<1>1. \A n \in EaName : Naming(list, 0, n) = {}
  BY DEF Naming
<1> QED
  BY <1>1 DEF NamesAfter

(* A list that passes the check makes no two names that differ in case     *)
(* only: of the first entries after which there are two, the last would    *)
(* have added one of them beside the other.                                *)
LEMMA ValidatedLists ==
  ASSUME NEW list \in Seq(Wire), NEW names \in SUBSET EaName, Validated(names, list),
         NEW m \in EaName, NEW n \in EaName, m # n, CaseKey[m] = CaseKey[n],
         {m, n} \subseteq NamesAfter(names, list, Len(list))
  PROVE  {m, n} \subseteq names
<1> DEFINE Both == {k \in 0..Len(list) : {m, n} \subseteq NamesAfter(names, list, k)}
<1>1. Both \in SUBSET Nat /\ Both # {}
  <2>1. Len(list) \in Nat
    OBVIOUS
  <2> QED
    BY <2>1
<1>2. PICK k \in Both : \A j \in Both : k <= j
  BY <1>1, SmallestNat
<1>3. CASE k = 0
  BY <1>2, <1>3, NoneYet
<1>4. CASE k # 0
  <2>1. k \in 1..Len(list) /\ k - 1 \in 0..Len(list) /\ {m, n} \subseteq NamesAfter(names, list, k)
    BY <1>2, <1>4
  <2>2. k - 1 \notin Both
    BY <1>2, <2>1
  <2> HIDE DEF Both
  <2>3. ~({m, n} \subseteq NamesAfter(names, list, k - 1))
    BY <2>1, <2>2 DEF Both
  <2> DEFINE before == NamesAfter(names, list, k - 1)
             x == list[k].name
  <2>4. \A y \in {m, n} : y # x => y \in before
    BY <2>1, OneMore
  <2>5. PICK y \in {m, n} : y # x /\ y \in before /\ x \in {m, n} /\ x \notin before
    BY <2>3, <2>4
  <2>6. TwinIn(before, x)
    BY <2>5 DEF TwinIn
  <2>7. x \in before
    BY <2>1, <2>6 DEF Validated
  <2> QED
    BY <2>5, <2>7
<1> QED
  BY <1>3, <1>4

-----------------------------------------------------------------------------
(* Contexts and commits.                                                   *)

(* What is marked to be flushed is staged.                                 *)
Sound(x) == x \in Context /\ (x.dirty => x.staged \in 0..1)

LEMMA OpenedType ==
  ASSUME NEW f \in File
  PROVE  /\ Sound(Opened(f)) /\ Sound(Overwritten(Opened(f)))
         /\ Opened(f).flags = f.flags /\ Overwritten(Opened(f)).flags = f.flags
<1>1. Sound(Opened(f)) /\ Opened(f).flags = f.flags
  BY DEF File, Opened, Sound, Context
<1>2. ASSUME NEW x, Sound(x)
      PROVE  Sound(Overwritten(x)) /\ Overwritten(x).flags = x.flags
  <2> DEFINE dirty == x.size # 0
  <2>1. dirty \in BOOLEAN
    OBVIOUS
  <2>2. Overwritten(x) = [x EXCEPT !.staged = 0, !.dirty = dirty, !.size = 0]
    BY Zenon DEF Overwritten
  <2> HIDE DEF dirty
  <2>3. Overwritten(x) = [flags |-> x.flags, symlink |-> x.symlink, size |-> 0, staged |-> 0,
                          dirty |-> dirty]
    BY <1>2, <2>2 DEF Sound, Context
  <2>4. x.flags \in SUBSET Flag /\ x.symlink \in BOOLEAN
    BY <1>2 DEF Sound, Context
  <2> QED
    BY <2>1, <2>3, <2>4 DEF Sound, Context
<1> QED
  BY <1>1, <1>2

LEMMA RefreshedType ==
  ASSUME NEW x, Sound(x), NEW f \in File
  PROVE  Sound(Refreshed(x, f)) /\ Refreshed(x, f).flags = f.flags
BY DEF File, Refreshed, Sound, Context

(* A flush changes the size of the file and nothing else.                  *)
LEMMA FlushedFileType ==
  ASSUME file \in File, NEW x, Sound(x)
  PROVE  /\ FlushedFile(x) \in File
         /\ FlushedFile(x).ea = file.ea /\ FlushedFile(x).symlink = file.symlink
         /\ FlushedFile(x).flags = file.flags
BY DEF File, FlushedFile, Sound, Context

LEMMA FlushedType ==
  ASSUME file \in File, NEW x, Sound(x)
  PROVE  Sound(Flushed(x)) /\ Flushed(x).flags \in {x.flags, file.flags}
<1>1. CASE x.dirty
  <2> DEFINE y == [x EXCEPT !.staged = None, !.dirty = FALSE]
  <2>1. Sound(y)
    BY DEF Sound, Context
  <2>2. Flushed(x) = Refreshed(y, FlushedFile(x))
    BY <1>1 DEF Flushed
  <2> HIDE DEF y
  <2>3. FlushedFile(x) \in File /\ FlushedFile(x).flags = file.flags
    BY FlushedFileType
  <2>4. Sound(Refreshed(y, FlushedFile(x)))
        /\ Refreshed(y, FlushedFile(x)).flags = FlushedFile(x).flags
    BY <2>1, <2>3, RefreshedType
  <2> QED
    BY <2>2, <2>3, <2>4
<1>2. CASE ~x.dirty
  BY <1>2 DEF Flushed
<1> QED
  BY <1>1, <1>2

LEMMA PermittedType ==
  ASSUME NEW f \in File, NEW mode \in Mode
  PROVE  /\ Permitted(f, mode) \in File
         /\ Permitted(f, mode).ea = f.ea /\ Permitted(f, mode).symlink = f.symlink
         /\ Permitted(f, mode).flags = f.flags
BY DEF File, Permitted

LEMMA ConvertedType ==
  ASSUME NEW f \in File, NEW target \in EaValue \cup {None}
  PROVE  /\ Converted(f, target) \in File
         /\ Converted(f, target).flags = f.flags
         /\ Converted(f, target).symlink <=> target # None
         /\ Converted(f, target).ea[SymlinkEa] = target
         /\ \A n \in EaName \ {SymlinkEa} : Converted(f, target).ea[n] = f.ea[n]
BY MetadataAssumption DEF File, Converted

-----------------------------------------------------------------------------
(* The invariant.                                                          *)

ContextInv == \A h \in Handle : ctx[h] # None => Sound(ctx[h])

(* A call is one of an open handle, and one that changes extended          *)
(* attributes holds the lock and knows what they are called.               *)
CallInv ==
  \A h \in Handle : call[h] # None =>
    /\ ctx[h] # None
    /\ call[h].op = "ea" =>
         /\ eaLock = h
         /\ call[h].names \ Critical = NamesOf(file) \ Critical
         /\ \A k \in 1..Len(call[h].list) : call[h].list[k].name \notin Critical

(* A handle that has the file alone knows its attributes.                  *)
OwnInv ==
  \A h \in Handle : asked[h] # None =>
    /\ ctx[h] # None
    /\ asked[h] = file.flags /\ ctx[h].flags = file.flags
    /\ \A g \in Handle \ {h} : ctx[g] = None

IInv == TypeOK /\ ContextInv /\ CallInv /\ OwnInv /\ SymlinkHasTarget

LEMMA InitInv ==
  ASSUME Init
  PROVE  IInv
<1>1. TypeOK
  BY MetadataAssumption DEF Init, TypeOK
<1>2. ContextInv /\ CallInv /\ OwnInv
  BY DEF Init, ContextInv, CallInv, OwnInv
<1>3. SymlinkHasTarget
  BY MetadataAssumption DEF Init, SymlinkHasTarget
<1> QED
  BY <1>1, <1>2, <1>3 DEF IInv

(* A step of a handle that stays open, makes no call and changes no        *)
(* extended attribute.                                                     *)
LEMMA ChangeInv ==
  ASSUME IInv, NEW h \in Handle, ctx[h] # None,
         NEW x, Sound(x), ctx' = [ctx EXCEPT ![h] = x],
         file' \in File, file'.ea = file.ea, file'.symlink = file.symlink,
         UNCHANGED <<call, eaLock>>,
         \/ /\ asked' = asked /\ file'.flags = file.flags
            /\ x.flags \in {ctx[h].flags, file'.flags}
         \/ asked' = asked /\ asked[h] = None
         \/ /\ x.flags = file'.flags
            /\ asked' = [asked EXCEPT ![h] = IF @ = None THEN None ELSE file'.flags]
  PROVE  IInv'
<1>1. x \in Context /\ x # None
  BY NoneIsNoContext DEF Sound
<1>2. ctx'[h] = x /\ \A g \in Handle \ {h} : ctx'[g] = ctx[g]
  BY DEF IInv, TypeOK
<1>3. TypeOK'
  BY <1>1 DEF IInv, TypeOK, File
<1>4. ContextInv'
  BY <1>2 DEF IInv, ContextInv
<1>5. CallInv'
  BY <1>1, <1>2 DEF IInv, CallInv, NamesOf
<1>6. OwnInv'
  <2>1. SUFFICES ASSUME NEW g \in Handle, asked'[g] # None
                 PROVE  /\ ctx'[g] # None
                        /\ asked'[g] = file'.flags /\ ctx'[g].flags = file'.flags
                        /\ \A u \in Handle \ {g} : ctx'[u] = None
    BY DEF OwnInv
  <2>2. asked[g] # None
    BY <2>1 DEF IInv, TypeOK
  <2>3. g = h
    BY <2>2 DEF IInv, OwnInv
  <2>4. asked[h] # None /\ asked[h] = file.flags /\ ctx[h].flags = file.flags
    BY <2>2, <2>3 DEF IInv, OwnInv
  <2>5. asked'[h] = file'.flags /\ x.flags = file'.flags
    BY <2>2, <2>3, <2>4 DEF IInv, TypeOK
  <2> QED
    BY <1>1, <1>2, <2>2, <2>3, <2>5 DEF IInv, OwnInv
<1>7. SymlinkHasTarget'
  BY DEF IInv, SymlinkHasTarget
<1> QED
  BY <1>3, <1>4, <1>5, <1>6, <1>7 DEF IInv

LEMMA OpenInv ==
  ASSUME IInv, NEW h \in Handle, Open(h)
  PROVE  IInv'
<1> DEFINE x == ctx'[h]
<1>1. Sound(x) /\ x.flags = file.flags /\ x # None /\ ctx' = [ctx EXCEPT ![h] = x]
  <2>1. PICK y \in {Opened(file), Overwritten(Opened(file))} : ctx' = [ctx EXCEPT ![h] = y]
    BY DEF Open
  <2>2. ctx'[h] = y
    BY <2>1 DEF IInv, TypeOK
  <2>3. Sound(y) /\ y.flags = file.flags
    BY OpenedType DEF IInv, TypeOK
  <2> QED
    BY <2>1, <2>2, <2>3, NoneIsNoContext DEF Sound
<1>2. \A g \in Handle \ {h} : ctx'[g] = ctx[g]
  BY <1>1 DEF IInv, TypeOK
<1>3. /\ UNCHANGED <<file, call, eaLock>> /\ ctx[h] = None
      /\ asked' = IF {g \in Handle : ctx[g] # None} = {} THEN [asked EXCEPT ![h] = file.flags]
                  ELSE [g \in Handle |-> None]
  BY DEF Open
<1> HIDE DEF x
<1>4. TypeOK'
  <2>1. x \in Context
    BY <1>1 DEF Sound
  <2>2. asked' \in [Handle -> (SUBSET Flag) \cup {None}]
    BY <1>3 DEF IInv, TypeOK, File
  <2> QED
    BY <1>1, <1>3, <2>1, <2>2 DEF IInv, TypeOK
<1>5. ContextInv'
  BY <1>1, <1>2 DEF IInv, ContextInv, x
<1>6. CallInv'
  BY <1>2, <1>3 DEF IInv, CallInv
<1>7. OwnInv'
  <2>1. CASE \E g \in Handle : ctx[g] # None
    BY <1>3, <2>1 DEF OwnInv
  <2>2. CASE \A g \in Handle : ctx[g] = None
    <3>1. \A g \in Handle : asked[g] = None
      BY <2>2 DEF IInv, OwnInv
    <3>2. asked' = [asked EXCEPT ![h] = file.flags]
      BY <1>3, <2>2
    <3>3. \A g \in Handle \ {h} : asked'[g] = None /\ ctx'[g] = None
      BY <1>2, <2>2, <3>1, <3>2 DEF IInv, TypeOK
    <3>4. asked'[h] = file.flags
      BY <3>2 DEF IInv, TypeOK
    <3> QED
      BY <1>1, <1>3, <3>3, <3>4 DEF OwnInv, x
  <2> QED
    BY <2>1, <2>2
<1>8. SymlinkHasTarget'
  BY <1>3 DEF IInv, SymlinkHasTarget
<1> QED
  BY <1>4, <1>5, <1>6, <1>7, <1>8 DEF IInv

LEMMA WriteInv ==
  ASSUME IInv, NEW h \in Handle, NEW size \in 0..1, Write(h, size)
  PROVE  IInv'
<1>1. ctx[h] # None /\ Sound(ctx[h])
  BY DEF Write, Free, IInv, ContextInv
<1>2. CASE ctx[h].staged # None
  <2> DEFINE x == [ctx[h] EXCEPT !.staged = size, !.dirty = TRUE, !.size = size]
  <2>1. ctx' = [ctx EXCEPT ![h] = x] /\ file' = file /\ UNCHANGED <<call, eaLock, asked>>
    BY <1>2 DEF Write
  <2>2. Sound(x) /\ x.flags = ctx[h].flags
    BY <1>1 DEF Sound, Context
  <2>3. file' \in File
    BY <2>1 DEF IInv, TypeOK
  <2> HIDE DEF x
  <2> QED
    BY <1>1, <2>1, <2>2, <2>3, ChangeInv
<1>3. CASE ctx[h].staged = None
  <2>1. /\ file' = [file EXCEPT !.size = size] /\ ctx' = [ctx EXCEPT ![h] = Refreshed(@, file')]
        /\ UNCHANGED <<call, eaLock, asked>>
    BY <1>3 DEF Write
  <2>2. /\ file' \in File /\ file'.ea = file.ea /\ file'.symlink = file.symlink
        /\ file'.flags = file.flags
    BY <2>1 DEF IInv, TypeOK, File
  <2>3. Sound(Refreshed(ctx[h], file')) /\ Refreshed(ctx[h], file').flags = file'.flags
    BY <1>1, <2>2, RefreshedType
  <2>4. ctx' = [ctx EXCEPT ![h] = Refreshed(ctx[h], file')]
    BY <2>1 DEF IInv, TypeOK
  <2> QED
    BY <1>1, <2>1, <2>2, <2>3, <2>4, ChangeInv
<1> QED
  BY <1>2, <1>3

LEMMA FlushInv ==
  ASSUME IInv, NEW h \in Handle, Flush(h)
  PROVE  IInv'
<1>1. ctx[h] # None /\ Sound(ctx[h])
  BY DEF Flush, Free, IInv, ContextInv
<1>2. /\ file' = FlushedFile(ctx[h]) /\ ctx' = [ctx EXCEPT ![h] = Flushed(ctx[h])]
      /\ UNCHANGED <<call, eaLock, asked>>
  BY DEF Flush, IInv, TypeOK
<1>3. /\ file' \in File /\ file'.ea = file.ea /\ file'.symlink = file.symlink
      /\ file'.flags = file.flags
  BY <1>1, <1>2, FlushedFileType DEF IInv, TypeOK
<1>4. Sound(Flushed(ctx[h])) /\ Flushed(ctx[h]).flags \in {ctx[h].flags, file'.flags}
  BY <1>1, <1>3, FlushedType DEF IInv, TypeOK
<1> QED
  BY <1>1, <1>2, <1>3, <1>4, ChangeInv

LEMMA SetBasicInfoInv ==
  ASSUME IInv, NEW h \in Handle, NEW flags \in SUBSET Flag, NEW timesGiven \in BOOLEAN,
         SetBasicInfo(h, flags, timesGiven)
  PROVE  IInv'
<1> DEFINE x == Flushed(ctx[h])
           flushed == FlushedFile(ctx[h])
           changed == flags # x.flags \/ timesGiven
<1>1. ctx[h] # None /\ Sound(ctx[h]) /\ UNCHANGED <<call, eaLock>>
  BY DEF SetBasicInfo, Free, IInv, ContextInv
<1>2. /\ flushed \in File /\ flushed.ea = file.ea /\ flushed.symlink = file.symlink
      /\ flushed.flags = file.flags
  BY <1>1, FlushedFileType DEF IInv, TypeOK
<1>3. Sound(x) /\ x.flags \in {ctx[h].flags, file.flags}
  BY <1>1, FlushedType DEF IInv, TypeOK
<1>4. CASE file' = flushed /\ ctx' = [ctx EXCEPT ![h] = x] /\ UNCHANGED asked
  BY <1>1, <1>2, <1>3, <1>4, ChangeInv
<1>5. CASE /\ file' = IF flags # x.flags THEN [flushed EXCEPT !.flags = flags] ELSE flushed
           /\ ctx' = [ctx EXCEPT ![h] = IF changed THEN Refreshed(x, file') ELSE x]
           /\ asked' = [asked EXCEPT ![h] = IF @ = None THEN None ELSE flags]
  <2> DEFINE y == IF changed THEN Refreshed(x, file') ELSE x
  <2>1. file' \in File /\ file'.ea = file.ea /\ file'.symlink = file.symlink
    BY <1>2, <1>5 DEF File
  <2>2. Sound(y)
    BY <1>3, <2>1, RefreshedType
  <2>3. CASE asked[h] = None
    <3>1. asked' = asked
      BY <1>5, <2>3 DEF IInv, TypeOK
    <3> QED
      BY <1>1, <1>5, <2>1, <2>2, <2>3, <3>1, ChangeInv
  <2>4. CASE asked[h] # None
    <3>1. x.flags = file.flags
      BY <1>3, <2>4 DEF IInv, OwnInv
    <3>2. file'.flags = flags
      BY <1>2, <1>5, <3>1 DEF File
    <3>3. y.flags = file'.flags
      BY <1>3, <2>1, <3>2, RefreshedType
    <3>4. asked' = [asked EXCEPT ![h] = IF @ = None THEN None ELSE file'.flags]
      BY <1>5, <3>2
    <3> QED
      BY <1>1, <1>5, <2>1, <2>2, <3>3, <3>4, ChangeInv
  <2> QED
    BY <2>3, <2>4
<1> QED
  BY <1>4, <1>5 DEF SetBasicInfo

LEMMA SetSecurityInv ==
  ASSUME IInv, NEW h \in Handle, NEW mode \in Mode, SetSecurity(h, mode)
  PROVE  IInv'
<1> DEFINE x == Flushed(ctx[h])
           flushed == FlushedFile(ctx[h])
<1>1. ctx[h] # None /\ Sound(ctx[h]) /\ UNCHANGED <<call, eaLock, asked>>
  BY DEF SetSecurity, Free, IInv, ContextInv
<1>2. /\ flushed \in File /\ flushed.ea = file.ea /\ flushed.symlink = file.symlink
      /\ flushed.flags = file.flags
  BY <1>1, FlushedFileType DEF IInv, TypeOK
<1>3. Sound(x) /\ x.flags \in {ctx[h].flags, file.flags}
  BY <1>1, FlushedType DEF IInv, TypeOK
<1>4. CASE file' = flushed /\ ctx' = [ctx EXCEPT ![h] = x]
  BY <1>1, <1>2, <1>3, <1>4, ChangeInv
<1>5. CASE file' = Permitted(flushed, mode) /\ ctx' = [ctx EXCEPT ![h] = Refreshed(x, file')]
  <2>1. /\ file' \in File /\ file'.ea = file.ea /\ file'.symlink = file.symlink
        /\ file'.flags = file.flags
    BY <1>2, <1>5, PermittedType
  <2>2. Sound(Refreshed(x, file')) /\ Refreshed(x, file').flags = file'.flags
    BY <1>3, <2>1, RefreshedType
  <2> QED
    BY <1>1, <1>5, <2>1, <2>2, ChangeInv
<1> QED
  BY <1>4, <1>5 DEF SetSecurity

(* The names that SetEa reads are those of the file, and nobody else has   *)
(* read any.                                                               *)
LEMMA BeginSetEaInv ==
  ASSUME IInv, NEW h \in Handle, NEW list \in EaRequests, BeginSetEa(h, list)
  PROVE  IInv'
<1> DEFINE x == Flushed(ctx[h])
           c == [op |-> "ea", list |-> list, names |-> NamesOf(file)]
<1>1. /\ ctx[h] # None /\ Sound(ctx[h]) /\ call[h] = None /\ eaLock = None /\ eaLock' = h
      /\ asked' = asked /\ file' = FlushedFile(ctx[h]) /\ ctx' = [ctx EXCEPT ![h] = x]
      /\ call' = [call EXCEPT ![h] = c]
  BY DEF BeginSetEa, Free, IInv, TypeOK, ContextInv
<1>2. /\ file' \in File /\ file'.ea = file.ea /\ file'.symlink = file.symlink
      /\ file'.flags = file.flags
  BY <1>1, FlushedFileType DEF IInv, TypeOK
<1>3. Sound(x) /\ x.flags \in {ctx[h].flags, file.flags} /\ x \in Context /\ x # None
  BY <1>1, FlushedType, NoneIsNoContext DEF IInv, TypeOK, Sound
<1>4. c \in Call /\ c # None /\ c.op = "ea" /\ c.list = list /\ c.names = NamesOf(file)
  <2>1. c \in Call
    BY DEF Call, NamesOf
  <2> QED
    BY <2>1, NoneIsNoContext
<1>5. NamesOf(file') = NamesOf(file)
  BY <1>2 DEF NamesOf
<1>6. \A k \in 1..Len(list) : list[k].name \notin Critical
  BY DEF BeginSetEa, WellFormed
<1> HIDE DEF x, c
<1>7. TypeOK'
  BY <1>1, <1>2, <1>3, <1>4 DEF IInv, TypeOK
<1>8. ContextInv'
  BY <1>1, <1>3 DEF IInv, TypeOK, ContextInv
<1>9. CallInv'
  <2>1. \A g \in Handle \ {h} : call'[g] = call[g]
    BY <1>1 DEF IInv, TypeOK
  <2>2. \A g \in Handle : call[g] # None => ctx'[g] # None /\ call[g].op # "ea"
    BY <1>1, <1>3, MetadataAssumption DEF IInv, TypeOK, CallInv
  <2>3. call'[h] = c /\ ctx'[h] = x
    BY <1>1 DEF IInv, TypeOK
  <2> QED
    BY <1>1, <1>3, <1>4, <1>5, <1>6, <2>1, <2>2, <2>3 DEF CallInv
<1>10. OwnInv'
  BY <1>1, <1>2, <1>3 DEF IInv, TypeOK, OwnInv
<1>11. SymlinkHasTarget'
  BY <1>2 DEF IInv, SymlinkHasTarget
<1> QED
  BY <1>7, <1>8, <1>9, <1>10, <1>11 DEF IInv

LEMMA BeginReparseInv ==
  ASSUME IInv, NEW h \in Handle, NEW target \in EaValue \cup {None}, BeginReparse(h, target)
  PROVE  IInv'
<1> DEFINE c == [op |-> "reparse", target |-> target]
<1>1. /\ ctx[h] # None /\ call' = [call EXCEPT ![h] = c]
      /\ UNCHANGED <<file, ctx, eaLock, asked>>
  BY DEF BeginReparse, Free
<1>2. c \in Call /\ c.op # "ea"
  BY DEF Call
<1> HIDE DEF c
<1>3. TypeOK'
  BY <1>1, <1>2 DEF IInv, TypeOK
<1>4. CallInv'
  BY <1>1, <1>2 DEF IInv, TypeOK, CallInv
<1>5. ContextInv' /\ OwnInv' /\ SymlinkHasTarget'
  BY <1>1 DEF IInv, ContextInv, OwnInv, SymlinkHasTarget
<1> QED
  BY <1>3, <1>4, <1>5 DEF IInv

(* A call that ends takes its handle out of the way of the others.         *)
LEMMA EndInv ==
  ASSUME IInv, NEW h \in Handle, call[h] # None, call' = [call EXCEPT ![h] = None],
         asked' = asked, eaLock' \in {eaLock, None}, eaLock' # eaLock => eaLock = h,
         file' \in File, file'.flags = file.flags, SymlinkHasTarget',
         \/ \A n \in EaName \ Critical : file'.ea[n] = file.ea[n]
         \/ call[h].op = "ea",
         ctx' \in {ctx, [ctx EXCEPT ![h] = Refreshed(@, file')]}
  PROVE  IInv'
<1>1. ctx[h] # None /\ Sound(ctx[h])
  BY DEF IInv, CallInv, ContextInv
<1>2. ctx'[h] \in {ctx[h], Refreshed(ctx[h], file')} /\ \A g \in Handle \ {h} : ctx'[g] = ctx[g]
  BY DEF IInv, TypeOK
<1>3. /\ Sound(ctx'[h]) /\ ctx'[h].flags \in {ctx[h].flags, file.flags}
      /\ ctx'[h] \in Context /\ ctx'[h] # None
  BY <1>1, <1>2, RefreshedType, NoneIsNoContext DEF Sound
<1>4. ctx' = [ctx EXCEPT ![h] = ctx'[h]]
  BY <1>2 DEF IInv, TypeOK
<1>5. TypeOK'
  BY <1>3, <1>4 DEF IInv, TypeOK
<1>6. ContextInv'
  BY <1>2, <1>3 DEF IInv, ContextInv
<1>7. CallInv'
  <2>1. SUFFICES ASSUME NEW g \in Handle, call'[g] # None
                 PROVE  /\ ctx'[g] # None
                        /\ call'[g].op = "ea" =>
                             /\ eaLock' = g
                             /\ call'[g].names \ Critical = NamesOf(file') \ Critical
                             /\ \A k \in 1..Len(call'[g].list) :
                                  call'[g].list[k].name \notin Critical
    BY DEF CallInv
  <2>2. g # h /\ call'[g] = call[g] /\ ctx'[g] = ctx[g]
    BY <1>2, <2>1 DEF IInv, TypeOK
  <2>3. CASE call[g].op = "ea"
    <3>1. eaLock = g /\ call[h].op # "ea"
      BY <2>1, <2>2, <2>3 DEF IInv, CallInv
    <3>2. NamesOf(file') \ Critical = NamesOf(file) \ Critical
      BY <3>1 DEF NamesOf
    <3> QED
      BY <2>1, <2>2, <3>1, <3>2 DEF IInv, CallInv
  <2> QED
    BY <2>1, <2>2, <2>3 DEF IInv, CallInv
<1>8. OwnInv'
  <2>1. ASSUME NEW g \in Handle, asked[g] # None
        PROVE  /\ g = h /\ asked[g] = file.flags /\ ctx[g].flags = file.flags
               /\ \A u \in Handle \ {g} : ctx[u] = None
    BY <1>1, <2>1 DEF IInv, OwnInv
  <2>2. ASSUME NEW g \in Handle, asked[g] # None
        PROVE  /\ ctx'[g] # None /\ asked[g] = file'.flags /\ ctx'[g].flags = file'.flags
               /\ \A u \in Handle \ {g} : ctx'[u] = None
    BY <1>2, <1>3, <2>1, <2>2
  <2> QED
    BY <2>2 DEF OwnInv
<1> QED
  BY <1>5, <1>6, <1>7, <1>8 DEF IInv

(* A list changes no content-critical attribute, and leaves no name that   *)
(* the check has not counted with.                                         *)
LEMMA EndSetEaInv ==
  ASSUME IInv, NEW h \in Handle, EndSetEa(h)
  PROVE  IInv'
<1>1. /\ call[h] # None /\ call[h].op = "ea" /\ call' = [call EXCEPT ![h] = None]
      /\ asked' = asked /\ eaLock = h /\ eaLock' = None
  BY DEF EndSetEa, IInv, CallInv
<1>2. CASE UNCHANGED <<file, ctx>>
  <2>1. file' \in File /\ SymlinkHasTarget'
    BY <1>2 DEF IInv, TypeOK, SymlinkHasTarget
  <2> QED
    BY <1>1, <1>2, <2>1, EndInv
<1>3. CASE /\ file' = [file EXCEPT !.ea = Stored(@, call[h].list)]
           /\ ctx' = [ctx EXCEPT ![h] = Refreshed(@, file')]
  <2>1. /\ call[h].list \in Seq(Wire)
        /\ \A k \in 1..Len(call[h].list) : call[h].list[k].name # SymlinkEa
    BY <1>1, MetadataAssumption DEF IInv, TypeOK, Call, CallInv
  <2>2. file'.ea = Stored(file.ea, call[h].list) /\ file'.symlink = file.symlink
        /\ file'.flags = file.flags
    BY <1>3 DEF IInv, TypeOK, File
  <2>3. file' \in File
    BY <1>3, <2>1, StoredType DEF IInv, TypeOK, File
  <2>4. file'.ea[SymlinkEa] = file.ea[SymlinkEa]
    BY <2>1, <2>2, StoredElsewhere, MetadataAssumption
  <2>5. SymlinkHasTarget'
    BY <2>2, <2>4 DEF IInv, SymlinkHasTarget
  <2> QED
    BY <1>1, <1>3, <2>2, <2>3, <2>5, EndInv
<1> QED
  BY <1>2, <1>3 DEF EndSetEa

LEMMA EndReparseInv ==
  ASSUME IInv, NEW h \in Handle, EndReparse(h)
  PROVE  IInv'
<1>1. /\ call[h] # None /\ call[h].op = "reparse" /\ call' = [call EXCEPT ![h] = None]
      /\ UNCHANGED <<asked, eaLock>>
  BY DEF EndReparse
<1>2. call[h].target \in EaValue \cup {None}
  BY <1>1 DEF IInv, TypeOK, Call
<1>3. CASE UNCHANGED <<file, ctx>>
  <2>1. file' \in File /\ SymlinkHasTarget'
    BY <1>3 DEF IInv, TypeOK, SymlinkHasTarget
  <2> QED
    BY <1>1, <1>3, <2>1, EndInv
<1>4. CASE /\ file' = Converted(file, call[h].target)
           /\ ctx' = [ctx EXCEPT ![h] = Refreshed(@, file')]
  <2>1. /\ file' \in File /\ file'.flags = file.flags
        /\ file'.symlink <=> call[h].target # None
        /\ file'.ea[SymlinkEa] = call[h].target
        /\ \A n \in EaName \ {SymlinkEa} : file'.ea[n] = file.ea[n]
    BY <1>2, <1>4, ConvertedType DEF IInv, TypeOK
  <2>2. SymlinkHasTarget'
    BY <2>1 DEF SymlinkHasTarget
  <2>3. \A n \in EaName \ Critical : file'.ea[n] = file.ea[n]
    BY <2>1, MetadataAssumption
  <2> QED
    BY <1>1, <1>4, <2>1, <2>2, <2>3, EndInv
<1> QED
  BY <1>3, <1>4 DEF EndReparse

LEMMA CloseInv ==
  ASSUME IInv, NEW h \in Handle, Close(h)
  PROVE  IInv'
<1>1. /\ ctx[h] # None /\ Sound(ctx[h]) /\ call[h] = None
      /\ file' \in {FlushedFile(ctx[h]), file} /\ ctx' = [ctx EXCEPT ![h] = None]
      /\ asked' = [asked EXCEPT ![h] = None] /\ UNCHANGED <<call, eaLock>>
  BY DEF Close, Free, IInv, ContextInv
<1>2. /\ file' \in File /\ file'.ea = file.ea /\ file'.symlink = file.symlink
      /\ file'.flags = file.flags
  BY <1>1, FlushedFileType DEF IInv, TypeOK
<1>3. ctx'[h] = None /\ \A g \in Handle \ {h} : ctx'[g] = ctx[g] /\ asked'[g] = asked[g]
  BY <1>1 DEF IInv, TypeOK
<1>4. TypeOK'
  BY <1>1, <1>2 DEF IInv, TypeOK
<1>5. ContextInv'
  BY <1>3 DEF IInv, ContextInv
<1>6. CallInv'
  BY <1>1, <1>2, <1>3 DEF IInv, CallInv, NamesOf
<1>7. OwnInv'
  <2>1. \A g \in Handle : asked'[g] = None
    BY <1>1, <1>3 DEF IInv, TypeOK, OwnInv
  <2> QED
    BY <2>1 DEF OwnInv
<1>8. SymlinkHasTarget'
  BY <1>2 DEF IInv, SymlinkHasTarget
<1> QED
  BY <1>4, <1>5, <1>6, <1>7, <1>8 DEF IInv

LEMMA NextInv ==
  ASSUME IInv, [Next]_vars
  PROVE  IInv'
<1>1. CASE UNCHANGED vars
  BY <1>1
  DEF vars, IInv, TypeOK, ContextInv, CallInv, OwnInv, SymlinkHasTarget
<1>2. CASE Next
  BY <1>2, OpenInv, FlushInv, CloseInv, WriteInv, SetBasicInfoInv, SetSecurityInv,
     BeginSetEaInv, EndSetEaInv, BeginReparseInv, EndReparseInv
  DEF Next
<1> QED
  BY <1>1, <1>2

(* The invariant holds in every state of every behaviour.                  *)
THEOREM InvariantHolds == Spec => []IInv
<1>1. Init => IInv
  BY InitInv
<1>2. IInv /\ [Next]_vars => IInv'
  BY NextInv
<1> QED
  BY <1>1, <1>2, PTL DEF Spec

-----------------------------------------------------------------------------
(* What it says of the file.                                               *)

(* Every variable keeps its type: only what is staged is ever flushed, and *)
(* no call outlives its handle.                                            *)
THEOREM TypeCorrect == Spec => []TypeOK
<1>1. IInv => TypeOK
  BY DEF IInv
<1> QED
  BY <1>1, InvariantHolds, PTL

(* The file is of the type of a symbolic link exactly while it has a       *)
(* target, whatever permissions, attributes and targets are set.           *)
THEOREM LinksHaveTargets == Spec => []SymlinkHasTarget
<1>1. IInv => SymlinkHasTarget
  BY DEF IInv
<1> QED
  BY <1>1, InvariantHolds, PTL

(* A handle that has the file alone sees the attributes it has asked for.  *)
THEOREM AttributesStay == Spec => []AttributesAsAsked
<1>1. IInv => AttributesAsAsked
  BY DEF IInv, OwnInv, AttributesAsAsked
<1> QED
  BY <1>1, InvariantHolds, PTL

(* What GetEa lists of a file can be written back by SetEa.                *)
THEOREM ListsWriteBack == Spec => []ListedWritesBack
<1>1. ASSUME TypeOK, NEW w \in Listed(file),
             w.name \notin FileSystemOwned, w.aliased \/ w.value # Empty,
             ~TwinIn(Critical \cap NamesOf(file), w.name)
      PROVE  /\ WellFormed(w)
             /\ Validated(NamesOf(file), <<w>>)
             /\ Mutable(file, w.name)
             /\ Stored(file.ea, <<w>>) = file.ea
  <2> DEFINE names == NamesOf(file) \ Critical
  <2>1. PICK n \in names :
          w = [name |-> n, aliased |-> n \notin Direct \/ TwinIn(names, n), value |-> file.ea[n]]
    BY <1>1 DEF Listed
  <2>2. /\ w.name = n /\ (w.aliased <=> n \notin Direct \/ TwinIn(names, n))
        /\ w.value = file.ea[n] /\ n \in EaName /\ n \in NamesOf(file) /\ n \notin Critical
    BY <2>1 DEF NamesOf
  <2>3. WellFormed(w) /\ Mutable(file, w.name)
    BY <1>1, <2>2 DEF WellFormed, Mutable
  <2>4. NewValue(w) = file.ea[n]
    BY <1>1, <2>2 DEF NewValue
  <2>5. Naming(<<w>>, 1, n) = {1} /\ \A m \in EaName \ {n} : Naming(<<w>>, 1, m) = {}
    BY <2>2 DEF Naming
  <2>6. Last(<<w>>, 1, n) = w
    <3>1. Max({1}) = 1
      BY DEF Max
    <3> QED
      BY <2>5, <3>1 DEF Last
  <2>7. Stored(file.ea, <<w>>) = file.ea
    <3>1. Len(<<w>>) = 1
      OBVIOUS
    <3>2. file.ea \in [EaName -> EaValue \cup {None}]
      BY <1>1 DEF TypeOK, File
    <3>3. \A m \in EaName : Stored(file.ea, <<w>>)[m] = file.ea[m]
      BY <2>2, <2>4, <2>5, <2>6, <3>1 DEF Stored
    <3>4. Stored(file.ea, <<w>>) = [m \in EaName |-> Stored(file.ea, <<w>>)[m]]
      BY Zenon DEF Stored
    <3> QED
      BY <3>2, <3>3, <3>4
  <2>8. Validated(NamesOf(file), <<w>>)
    <3>1. NamesAfter(NamesOf(file), <<w>>, 0) = NamesOf(file)
      BY DEF NamesAfter, Naming, NamesOf
    <3>2. TwinIn(NamesOf(file), n) => TwinIn(names, n)
      BY <1>1, <2>2 DEF TwinIn
    <3> QED
      BY <2>2, <3>1, <3>2 DEF Validated
  <2> QED
    BY <2>3, <2>7, <2>8
<1>2. IInv => ListedWritesBack
  BY <1>1 DEF IInv, ListedWritesBack
<1> QED
  BY <1>2, InvariantHolds, PTL

-----------------------------------------------------------------------------
(* What a step may do to extended attributes.                              *)

LEMMA EaSteps ==
  ASSUME IInv, [Next]_vars
  PROVE  \/ file'.ea = file.ea /\ file'.symlink = file.symlink
         \/ \E h \in Handle : EndSetEa(h) \/ EndReparse(h)
<1> DEFINE Kept == file'.ea = file.ea /\ file'.symlink = file.symlink
<1>1. ASSUME NEW h \in Handle, Free(h)
      PROVE  /\ FlushedFile(ctx[h]).ea = file.ea /\ FlushedFile(ctx[h]).symlink = file.symlink
             /\ FlushedFile(ctx[h]) \in File
  BY <1>1, FlushedFileType DEF Free, IInv, TypeOK, ContextInv
<1>2. ASSUME NEW h \in Handle, Flush(h) \/ Close(h) \/ \E list \in EaRequests : BeginSetEa(h, list)
      PROVE  Kept
  BY <1>1, <1>2 DEF Flush, Close, BeginSetEa
<1>3. ASSUME NEW h \in Handle, NEW size \in 0..1, Write(h, size)
      PROVE  Kept
  BY <1>3 DEF Write, IInv, TypeOK, File
<1>4. ASSUME NEW h \in Handle, NEW flags \in SUBSET Flag, NEW timesGiven \in BOOLEAN,
             SetBasicInfo(h, flags, timesGiven)
      PROVE  Kept
  <2>1. Free(h) /\ file' \in {FlushedFile(ctx[h]), [FlushedFile(ctx[h]) EXCEPT !.flags = flags]}
    BY <1>4 DEF SetBasicInfo
  <2> QED
    BY <1>1, <2>1 DEF File
<1>5. ASSUME NEW h \in Handle, NEW mode \in Mode, SetSecurity(h, mode)
      PROVE  Kept
  <2>1. Free(h) /\ file' \in {FlushedFile(ctx[h]), Permitted(FlushedFile(ctx[h]), mode)}
    BY <1>5 DEF SetSecurity
  <2> QED
    BY <1>1, <2>1, PermittedType
<1>6. ASSUME NEW h \in Handle, Open(h) \/ \E target \in EaValue \cup {None} : BeginReparse(h, target)
      PROVE  Kept
  BY <1>6 DEF Open, BeginReparse
<1>7. UNCHANGED vars => Kept
  BY DEF vars
<1> QED
  BY <1>2, <1>3, <1>4, <1>5, <1>6, <1>7 DEF Next

(* A list is committed as a whole, by a call that has checked it against   *)
(* the names the file still has.                                           *)
LEMMA SetEaStep ==
  ASSUME IInv, NEW h \in Handle, EndSetEa(h), file' # file
  PROVE  /\ file'.symlink = file.symlink
         /\ file'.ea = Stored(file.ea, call[h].list)
         /\ call[h].list \in Seq(Wire) /\ call[h].names \in SUBSET EaName
         /\ Validated(call[h].names, call[h].list)
         /\ \A k \in 1..Len(call[h].list) : Mutable(file, call[h].list[k].name)
         /\ call[h].names \ Critical = NamesOf(file) \ Critical
<1>1. /\ call[h] # None /\ call[h].op = "ea"
      /\ file' = [file EXCEPT !.ea = Stored(@, call[h].list)]
      /\ Validated(call[h].names, call[h].list)
      /\ \A k \in 1..Len(call[h].list) : Mutable(file, call[h].list[k].name)
  BY DEF EndSetEa
<1>2. call[h].list \in Seq(Wire) /\ call[h].names \in SUBSET EaName
  BY <1>1, MetadataAssumption DEF IInv, TypeOK, Call
<1> QED
  BY <1>1, <1>2 DEF IInv, TypeOK, File, CallInv

LEMMA ReparseStep ==
  ASSUME IInv, NEW h \in Handle, EndReparse(h), file' # file
  PROVE  /\ \A n \in EaName \ {SymlinkEa} : file'.ea[n] = file.ea[n]
         /\ file'.symlink => file.size = 0
<1>1. /\ call[h] # None /\ call[h].op = "reparse"
      /\ file' = Converted(file, call[h].target) /\ MayConvert(file, call[h].target)
  BY DEF EndReparse
<1>2. call[h].target \in EaValue \cup {None}
  BY <1>1 DEF IInv, TypeOK, Call
<1> QED
  BY <1>1, <1>2, ConvertedType DEF IInv, TypeOK, MayConvert

CollisionIsOld ==
  \A m \in NamesOf(file') \ Critical, n \in NamesOf(file') \ Critical :
    m # n /\ CaseKey[m] = CaseKey[n] => {m, n} \subseteq NamesOf(file)

(* No call makes two attributes Windows sees whose names differ in case    *)
(* only: a list is checked against the names that are there when it is     *)
(* committed.                                                              *)
THEOREM NamesStayDistinct == Spec => NoNewCollision
<1>1. IInv /\ [Next]_vars => [CollisionIsOld]_vars
  <2>1. SUFFICES ASSUME IInv, [Next]_vars,
                        NEW m \in NamesOf(file') \ Critical, NEW n \in NamesOf(file') \ Critical,
                        m # n, CaseKey[m] = CaseKey[n]
                 PROVE  {m, n} \subseteq NamesOf(file)
    BY DEF CollisionIsOld
  <2>2. m \in EaName /\ n \in EaName /\ file'.ea[m] # None /\ file'.ea[n] # None
    BY <2>1 DEF NamesOf
  <2>3. CASE file'.ea[m] = file.ea[m] /\ file'.ea[n] = file.ea[n]
    BY <2>2, <2>3 DEF NamesOf
  <2>4. CASE \E h \in Handle : EndReparse(h) /\ file' # file
    BY <2>1, <2>2, <2>3, <2>4, ReparseStep, MetadataAssumption
  <2>5. CASE \E h \in Handle : EndSetEa(h) /\ file' # file
    <3>1. PICK h \in Handle : EndSetEa(h) /\ file' # file
      BY <2>5
    <3> DEFINE list == call[h].list
               names == call[h].names
    <3>2. /\ file'.ea = Stored(file.ea, list) /\ list \in Seq(Wire) /\ names \in SUBSET EaName
          /\ Validated(names, list) /\ names \ Critical = NamesOf(file) \ Critical
      BY <2>1, <3>1, SetEaStep
    <3> HIDE DEF list, names
    <3>3. \A x \in {m, n} : x \in EaName \ Critical /\ (x \in names <=> file.ea[x] # None)
      BY <2>1, <2>2, <3>2 DEF NamesOf
    <3>4. {m, n} \subseteq NamesAfter(names, list, Len(list))
      <4>1. ASSUME NEW x \in {m, n}
            PROVE  x \in NamesAfter(names, list, Len(list))
        <5>1. Stored(file.ea, list)[x] # None
          BY <2>2, <3>2
        <5> QED
          BY <2>1, <3>2, <3>3, <5>1, StoredNames DEF IInv, TypeOK
      <4> QED
        BY <4>1
    <3>5. {m, n} \subseteq names
      BY <2>1, <2>2, <3>2, <3>4, ValidatedLists
    <3> QED
      BY <2>1, <3>2, <3>5
  <2> QED
    BY <2>1, <2>2, <2>3, <2>4, <2>5, EaSteps
<1>2. Spec => [][CollisionIsOld]_vars
  BY <1>1, InvariantHolds, PTL DEF Spec
<1> QED
  BY <1>2 DEF NoNewCollision, CollisionIsOld

Protected ==
  /\ \A n \in FileSystemOwned : file.ea[n] # None => file'.ea[n] = file.ea[n]
  /\ \A n \in Critical : file'.ea[n] # file.ea[n] =>
       n = SymlinkEa /\ \E h \in Handle : EndReparse(h)

(* Attributes of the file system stay, and content-critical ones change    *)
(* through the calls that are made for them only.                          *)
THEOREM ProtectedStay == Spec => ProtectedStays
<1>1. IInv /\ [Next]_vars => [Protected]_vars
  <2>1. SUFFICES ASSUME IInv, [Next]_vars
                 PROVE  Protected
    OBVIOUS
  <2>2. CASE file'.ea = file.ea
    BY <2>2 DEF Protected
  <2>3. ASSUME NEW h \in Handle, EndSetEa(h), file' # file
        PROVE  Protected
    <3>1. /\ file'.ea = Stored(file.ea, call[h].list) /\ call[h].list \in Seq(Wire)
          /\ \A k \in 1..Len(call[h].list) : Mutable(file, call[h].list[k].name)
      BY <2>1, <2>3, SetEaStep
    <3>2. \A n \in Critical : file'.ea[n] = file.ea[n]
      BY <3>1, StoredElsewhere, MetadataAssumption DEF Mutable
    <3>3. \A n \in FileSystemOwned : file.ea[n] # None => file'.ea[n] = file.ea[n]
      BY <3>1, StoredElsewhere, MetadataAssumption DEF Mutable
    <3> QED
      BY <3>2, <3>3 DEF Protected
  <2>4. ASSUME NEW h \in Handle, EndReparse(h), file' # file
        PROVE  Protected
    BY <2>1, <2>4, ReparseStep, MetadataAssumption DEF Protected
  <2> QED
    BY <2>1, <2>2, <2>3, <2>4, EaSteps
<1>2. Spec => [][Protected]_vars
  BY <1>1, InvariantHolds, PTL DEF Spec
<1> QED
  BY <1>2 DEF ProtectedStays, Protected

BecomesLink == ~file.symlink /\ file'.symlink => file.size = 0

(* A file does not become a symbolic link while it holds data.             *)
THEOREM LinksWereEmpty == Spec => LinksAreMadeOfEmptyFiles
<1>1. IInv /\ [Next]_vars => [BecomesLink]_vars
  <2>1. SUFFICES ASSUME IInv, [Next]_vars, ~file.symlink, file'.symlink
                 PROVE  file.size = 0
    BY DEF BecomesLink
  <2>2. file' # file
    BY <2>1
  <2> QED
    BY <2>1, <2>2, EaSteps, SetEaStep, ReparseStep
<1>2. Spec => [][BecomesLink]_vars
  BY <1>1, InvariantHolds, PTL DEF Spec
<1> QED
  BY <1>2 DEF LinksAreMadeOfEmptyFiles, BecomesLink

=============================================================================
