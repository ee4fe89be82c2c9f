------------------------------ MODULE Metadata ------------------------------
(***************************************************************************)
(* The metadata of one file in apfs_winfs_worker: Windows attributes,      *)
(* permissions, extended attributes and the symbolic link target, changed  *)
(* through open handles whose contexts keep a copy of some of it.  Handles *)
(* are of different hard links of the file: WinFsp runs the changes made   *)
(* through one name one at a time, those through two names side by side.   *)
(*                                                                         *)
(* A commit is one step.  ioMutex_ is released between what a call reads   *)
(* and what it commits; only SetEa holds a lock of its own in between.     *)
(* Every commit may fail.  A call that changes nothing is no step.         *)
(*                                                                         *)
(* Abstracted: times, the bytes of the file (its size tells whether it has *)
(* any), base32 of alias names (a name is written directly or as an alias),*)
(* and whether a value is embedded in its record or kept in a stream.      *)
(***************************************************************************)
EXTENDS Naturals, Sequences, FiniteSetsExt

CONSTANTS
  Handle,          (* open handles, each of another link of the file         *)
  Flag,            (* the BSD flags that stand for Windows attributes        *)
  Mode,            (* permission bits                                        *)
  DefaultMode,     (* what a file gets that becomes a link, or no link       *)
  EaName,          (* names of extended attributes                           *)
  CaseKey,         (* the case-folded form of a name                         *)
  Direct,          (* names Windows can use as they are                      *)
  Critical,        (* content-critical names                                 *)
  SymlinkEa,       (* the one of them that holds a link's target             *)
  FileSystemOwned, (* other names, of what is flagged as the file system's   *)
  EaValue, Empty,  (* values, and the one without bytes                      *)
  None,
  EaRequests,      (* the lists of attributes that callers set               *)
  FirstFiles       (* what the file may be at first                          *)

File == [symlink : BOOLEAN, mode : Mode, flags : SUBSET Flag, size : 0..1,
         ea : [EaName -> EaValue \cup {None}]]

(* An entry of an EA list: its value is None if it has no bytes at all. *)
Wire == [name : EaName, aliased : BOOLEAN, value : EaValue \cup {None}]

ASSUME MetadataAssumption ==
  /\ None \notin EaValue \cup Handle
  /\ Empty \in EaValue
  /\ DefaultMode \in Mode
  /\ SymlinkEa \in Critical
  /\ Critical \subseteq EaName /\ Direct \subseteq EaName /\ FileSystemOwned \subseteq EaName
  /\ DOMAIN CaseKey = EaName
  /\ EaRequests \subseteq Seq(Wire)
  /\ Critical \cap FileSystemOwned = {}
  /\ FirstFiles \subseteq File
  /\ \A f \in FirstFiles : f.symlink <=> f.ea[SymlinkEa] # None

VARIABLES
  file,    (* what the volume stores                                         *)
  ctx,     (* the context of each handle, or None                            *)
  call,    (* a call that has read what it needs and not committed, or None  *)
  eaLock,  (* who holds eaMutationMutex_                                     *)
  asked    (* history: the attributes as the successful calls on a handle    *)
           (* that has had the file alone say, or None                       *)

vars == <<file, ctx, call, eaLock, asked>>

(* What is staged is the size of the staged data. *)
Context == [flags : SUBSET Flag, symlink : BOOLEAN, size : 0..1,
            staged : (0..1) \cup {None}, dirty : BOOLEAN]

Call ==
       [op : {"ea"}, list : EaRequests, names : SUBSET EaName]
  \cup [op : {"reparse"}, target : EaValue \cup {None}]

ASSUME NoneIsNoContext == None \notin Context \cup Call

TypeOK ==
  /\ file \in File
  /\ ctx \in [Handle -> Context \cup {None}]
  /\ call \in [Handle -> Call \cup {None}]
  /\ eaLock \in Handle \cup {None}
  /\ asked \in [Handle -> (SUBSET Flag) \cup {None}]

-----------------------------------------------------------------------------
(* Extended attributes as Windows sees them.                               *)

NamesOf(f) == {n \in EaName : f.ea[n] # None}

TwinIn(names, n) == \E m \in names \ {n} : CaseKey[m] = CaseKey[n]

ListedPlainly(f) ==  \* mutant: names that differ in case only are not told apart
  {[name |-> n, aliased |-> n \notin Direct, value |-> f.ea[n]] : n \in NamesOf(f) \ Critical}

(* What GetEa returns: a name Windows cannot use, or one that differs from *)
(* another listed one in case only, is listed under its alias.             *)
Listed(f) ==
  LET names == NamesOf(f) \ Critical
  IN  {[name |-> n, aliased |-> n \notin Direct \/ TwinIn(names, n), value |-> f.ea[n]] :
         n \in names}

(* The entries SetEa takes; one that it does not take refuses the list. *)
WellFormed(w) == (w.aliased \/ w.name \in Direct) /\ w.name \notin Critical

(* A value without bytes removes the attribute; under an alias a version   *)
(* byte comes before the value, so that only there it can be empty.        *)
NewValue(w) == IF ~w.aliased /\ w.value = Empty THEN None ELSE w.value

(* The entries of a list name what they change; the last of those with one *)
(* name, among the first k of the list, says what becomes of it.           *)
Naming(list, k, n) == {j \in 1..k : list[j].name = n}

Last(list, k, n) == list[Max(Naming(list, k, n))]

NamesAfter(names, list, k) ==
  {n \in EaName : IF Naming(list, k, n) = {} THEN n \in names
                  ELSE NewValue(Last(list, k, n)) # None}

Stored(ea, list) ==
  [n \in EaName |-> IF Naming(list, Len(list), n) = {} THEN ea[n]
                    ELSE NewValue(Last(list, Len(list), n))]

(* validateWindowsEaMutations: a name that another one differs from in     *)
(* case only can be set or removed only if it is there, by its alias.      *)
Validated(names, list) ==
  \A k \in 1..Len(list) :
    LET before == NamesAfter(names, list, k - 1)
    IN  TwinIn(before, list[k].name) => list[k].name \in before /\ list[k].aliased

MutableUnlessCritical(f, n) == n \notin Critical  \* mutant: the flags are not looked at

(* The attributes the writer changes. *)
Mutable(f, n) == n \notin Critical /\ ~(n \in FileSystemOwned /\ f.ea[n] # None)

-----------------------------------------------------------------------------
(* Contexts and commits.                                                   *)

Opened(f) == [flags |-> f.flags, symlink |-> f.symlink, size |-> f.size,
              staged |-> None, dirty |-> FALSE]

RefreshedSize(x, f) ==  \* mutant: only the size is taken from the volume
  [x EXCEPT !.size = f.size]

(* A commit ends with the context being taken from the volume again. *)
Refreshed(x, f) == [x EXCEPT !.flags = f.flags, !.symlink = f.symlink, !.size = f.size]

Overwritten(x) == [x EXCEPT !.staged = 0, !.dirty = x.size # 0, !.size = 0]

FlushedFile(x) == IF x.dirty THEN [file EXCEPT !.size = x.staged] ELSE file

FlushedStillDirty(x) ==  \* mutant: the mark to flush is not taken back
  IF x.dirty THEN Refreshed([x EXCEPT !.staged = None], FlushedFile(x)) ELSE x

Flushed(x) ==
  IF x.dirty THEN Refreshed([x EXCEPT !.staged = None, !.dirty = FALSE], FlushedFile(x)) ELSE x

PermittedAll(f, mode) ==  \* mutant: the mode is stored with its type bits
  [f EXCEPT !.mode = mode, !.symlink = FALSE]

(* The type in the mode stays what it is. *)
Permitted(f, mode) == [f EXCEPT !.mode = mode]

MayConvertAlways(f, target) == TRUE  \* mutant: the writer trusts the worker

(* The writer makes a link of an empty file only. *)
MayConvert(f, target) == target = None \/ f.size = 0

Converted(f, target) ==
  [f EXCEPT !.symlink = target # None, !.mode = DefaultMode, !.ea[SymlinkEa] = target]

Init ==
  /\ file \in FirstFiles
  /\ ctx = [h \in Handle |-> None]
  /\ call = [h \in Handle |-> None]
  /\ eaLock = None
  /\ asked = [h \in Handle |-> None]

-----------------------------------------------------------------------------
(* The callbacks.                                                          *)

Free(h) == ctx[h] # None /\ call[h] = None

Open(h) ==
  LET others == {g \in Handle : ctx[g] # None}
  IN  /\ ctx[h] = None
      /\ ctx' \in {[ctx EXCEPT ![h] = Opened(file)], [ctx EXCEPT ![h] = Overwritten(Opened(file))]}
      /\ asked' = IF others = {} THEN [asked EXCEPT ![h] = file.flags]
                  ELSE [g \in Handle |-> None]
      /\ UNCHANGED <<file, call, eaLock>>

(* A write or a new size, staged if the handle stages its changes. *)
Write(h, size) ==
  /\ Free(h)
  /\ \/ /\ ctx[h].staged # None
        /\ ctx' = [ctx EXCEPT ![h] = [@ EXCEPT !.staged = size, !.dirty = TRUE, !.size = size]]
        /\ UNCHANGED file
     \/ /\ ctx[h].staged = None
        /\ file' = [file EXCEPT !.size = size]
        /\ ctx' = [ctx EXCEPT ![h] = Refreshed(@, file')]
  /\ UNCHANGED <<call, eaLock, asked>>

Flush(h) ==
  /\ Free(h)
  /\ ctx[h].dirty
  /\ file' = FlushedFile(ctx[h])
  /\ ctx' = [ctx EXCEPT ![h] = Flushed(@)]
  /\ UNCHANGED <<call, eaLock, asked>>

(* A flush, and a commit if the attributes differ from those in the        *)
(* context or a time is given.  When the commit fails the flush remains.   *)
SetBasicInfo(h, flags, timesGiven) ==
  LET x == Flushed(ctx[h])
      changed == flags # x.flags \/ timesGiven
  IN  /\ Free(h)
      /\ \/ /\ file' = IF flags # x.flags THEN [FlushedFile(ctx[h]) EXCEPT !.flags = flags]
                       ELSE FlushedFile(ctx[h])
            /\ ctx' = [ctx EXCEPT ![h] = IF changed THEN Refreshed(x, file') ELSE x]
            /\ asked' = [asked EXCEPT ![h] = IF @ = None THEN None ELSE flags]
         \/ /\ changed
            /\ file' = FlushedFile(ctx[h])
            /\ ctx' = [ctx EXCEPT ![h] = x]
            /\ UNCHANGED asked
      /\ UNCHANGED <<call, eaLock>>

SetSecurity(h, mode) ==
  LET x == Flushed(ctx[h])
  IN  /\ Free(h)
      /\ \/ /\ file' = Permitted(FlushedFile(ctx[h]), mode)
            /\ ctx' = [ctx EXCEPT ![h] = Refreshed(x, file')]
         \/ /\ file' = FlushedFile(ctx[h])
            /\ ctx' = [ctx EXCEPT ![h] = x]
      /\ UNCHANGED <<call, eaLock, asked>>

BeginSetEaUnlocked(h, list) ==  \* mutant: eaMutationMutex_ is not taken
  /\ Free(h)
  /\ \A k \in 1..Len(list) : WellFormed(list[k])
  /\ file' = FlushedFile(ctx[h])
  /\ ctx' = [ctx EXCEPT ![h] = Flushed(@)]
  /\ call' = [call EXCEPT ![h] = [op |-> "ea", list |-> list, names |-> NamesOf(file)]]
  /\ UNCHANGED <<eaLock, asked>>

(* SetEa flushes, waits for its mutex and reads the names ...              *)
BeginSetEa(h, list) ==
  /\ Free(h)
  /\ \A k \in 1..Len(list) : WellFormed(list[k])
  /\ eaLock = None
  /\ eaLock' = h
  /\ file' = FlushedFile(ctx[h])
  /\ ctx' = [ctx EXCEPT ![h] = Flushed(@)]
  /\ call' = [call EXCEPT ![h] = [op |-> "ea", list |-> list, names |-> NamesOf(file)]]
  /\ UNCHANGED asked

(* ... checks the list against them and commits all of it or nothing.      *)
EndSetEa(h) ==
  /\ call[h] # None
  /\ call[h].op = "ea"
  /\ \/ /\ Validated(call[h].names, call[h].list)
        /\ \A k \in 1..Len(call[h].list) : Mutable(file, call[h].list[k].name)
        /\ file' = [file EXCEPT !.ea = Stored(@, call[h].list)]
        /\ ctx' = [ctx EXCEPT ![h] = Refreshed(@, file')]
     \/ UNCHANGED <<file, ctx>>
  /\ call' = [call EXCEPT ![h] = None]
  /\ eaLock' = IF eaLock = h THEN None ELSE eaLock
  /\ UNCHANGED asked

(* A new target, or none: both are decided by the context; the target a    *)
(* link has is read before it is replaced or removed.                      *)
BeginReparse(h, target) ==
  /\ Free(h)
  /\ IF target = None THEN ctx[h].symlink ELSE ctx[h].size = 0
  /\ ctx[h].symlink => file.ea[SymlinkEa] # None
  /\ call' = [call EXCEPT ![h] = [op |-> "reparse", target |-> target]]
  /\ UNCHANGED <<file, ctx, eaLock, asked>>

EndReparse(h) ==
  /\ call[h] # None
  /\ call[h].op = "reparse"
  /\ \/ /\ MayConvert(file, call[h].target)
        /\ file' = Converted(file, call[h].target)
        /\ ctx' = [ctx EXCEPT ![h] = Refreshed(@, file')]
     \/ UNCHANGED <<file, ctx>>
  /\ call' = [call EXCEPT ![h] = None]
  /\ UNCHANGED <<eaLock, asked>>

(* The last use of a handle flushes, which may fail. *)
Close(h) ==
  /\ Free(h)
  /\ file' \in {FlushedFile(ctx[h]), file}
  /\ ctx' = [ctx EXCEPT ![h] = None]
  /\ asked' = [asked EXCEPT ![h] = None]
  /\ UNCHANGED <<call, eaLock>>

Next ==
  \E h \in Handle :
    \/ Open(h) \/ Flush(h) \/ Close(h)
    \/ \E size \in 0..1 : Write(h, size)
    \/ \E flags \in SUBSET Flag, timesGiven \in BOOLEAN : SetBasicInfo(h, flags, timesGiven)
    \/ \E mode \in Mode : SetSecurity(h, mode)
    \/ \E list \in EaRequests : BeginSetEa(h, list)
    \/ EndSetEa(h)
    \/ \E target \in (EaValue \ {Empty}) \cup {None} : BeginReparse(h, target)
    \/ EndReparse(h)

Spec == Init /\ [][Next]_vars

-----------------------------------------------------------------------------
(* Properties.                                                             *)

(* No call gives the file two attributes Windows sees whose names differ   *)
(* in case only, however the calls of two handles interleave.  Files from  *)
(* elsewhere may have such attributes already.                             *)
NoNewCollision ==
  [][\A m \in NamesOf(file') \ Critical, n \in NamesOf(file') \ Critical :
       m # n /\ CaseKey[m] = CaseKey[n] => {m, n} \subseteq NamesOf(file)]_vars

(* What GetEa lists can be written back by SetEa, one entry or all of them,*)
(* and leaves the file as it is.  Not so: an attribute of the file system, *)
(* an empty value of a name that has no alias (it is removed), and a name  *)
(* that differs in case only from a content-critical one.                  *)
ListedWritesBack ==
  \A w \in Listed(file) :
    /\ w.name \notin FileSystemOwned
    /\ w.aliased \/ w.value # Empty
    /\ ~TwinIn(Critical \cap NamesOf(file), w.name)
    => /\ WellFormed(w)
       /\ Validated(NamesOf(file), <<w>>)
       /\ Mutable(file, w.name)
       /\ Stored(file.ea, <<w>>) = file.ea

(* The file is of the type of a symbolic link exactly while it has a       *)
(* target, whatever permissions, attributes and targets are set.           *)
SymlinkHasTarget == file.symlink <=> file.ea[SymlinkEa] # None

(* Attributes of the file system stay, and content-critical ones change    *)
(* through the calls that are made for them only.                          *)
ProtectedStays ==
  [][/\ \A n \in FileSystemOwned : file.ea[n] # None => file'.ea[n] = file.ea[n]
     /\ \A n \in Critical : file'.ea[n] # file.ea[n] =>
          n = SymlinkEa /\ \E h \in Handle : EndReparse(h)]_vars

(* A file does not become a symbolic link while it holds data, although a  *)
(* context that calls it empty may be older than what another link wrote.  *)
LinksAreMadeOfEmptyFiles ==
  [][~file.symlink /\ file'.symlink => file.size = 0]_vars

(* While nobody else has the file open it has the attributes that the last *)
(* successful call asked for, also when that call found nothing to change. *)
AttributesAsAsked ==
  \A h \in Handle : asked[h] # None => file.flags = asked[h]

=============================================================================
