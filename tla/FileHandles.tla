----------------------------- MODULE FileHandles -----------------------------
(***************************************************************************)
(* What apfs_winfs_worker keeps for an open file (FileContext) and how the *)
(* callbacks of WinFsp use it.  A handle that created or overwrote its     *)
(* file gathers writes in memory until it is flushed; every other handle   *)
(* reads the file, changes the bytes and commits the whole file, with      *)
(* ioMutex_ released between the reading and the commit.                   *)
(*                                                                         *)
(* A commit is one step here (module ImageCommit has its steps): it is     *)
(* carried out or fails.  A call that changes nothing is no step.          *)
(*                                                                         *)
(* Abstracted: one directory, the times and attributes of a file, and the  *)
(* stages that raw devices keep in files.                                  *)
(***************************************************************************)
EXTENDS Volume, Sequences

CONSTANTS
  Handle,       (* open files                                                *)
  Byte,         (* what a file is made of                                    *)
  MaxSize,      (* kDefaultMaxMutationBytes                                  *)
  Shared,       (* in place of the view of a file that others may change     *)
  FirstContent, (* what the volume contains at first                         *)
  MaxFailures   (* bound for TLC                                             *)

ASSUME FileHandlesAssumption ==
  /\ MaxSize \in Nat
  /\ Data = UNION {[1..k -> Byte] : k \in 0..MaxSize}
  /\ None \notin Seq(Byte)
  /\ Shared \notin Seq(Byte) \cup {None}
  /\ FirstContent \in Content /\ Consistent(FirstContent)
  /\ IsFiniteSet(Name)
  /\ MaxFailures \in Nat

VARIABLES
  volume,  (* what the image stores                                          *)
  ctx,     (* the context of each handle, or None                            *)
  change,  (* a change that has been read for and not committed, or None     *)
  view,    (* history: the file as the successful calls on the handle say    *)
  failures (* commits that have failed                                       *)

vars == <<volume, ctx, change, view, failures>>

(* The entry the handle was opened with (path, inode, size, links) and     *)
(* what it has staged.                                                     *)
Context ==
  [path : Name, inode : Node, size : 0..MaxSize, links : 0..Cardinality(Name),
   created : BOOLEAN, active : BOOLEAN, dirty : BOOLEAN, staged : Data,
   deletePending : BOOLEAN, cleaned : BOOLEAN]

ASSUME NoneIsNoContext == None \notin Context

(* "fill" is what the memory holds that a longer file takes in without     *)
(* writing it: QByteArray::resize does not initialize it.                  *)
Request ==
       [op : {"write"}, at : 1..(MaxSize + 1), byte : Byte, fill : Byte]
  \cup [op : {"append"}, byte : Byte]
  \cup [op : {"size"}, size : 0..MaxSize, allocation : BOOLEAN, fill : Byte]

TypeOK ==
  /\ volume \in Content
  /\ ctx \in [Handle -> Context \cup {None}]
  /\ change \in [Handle -> [request : Request, base : Data] \cup {None}]
  /\ view \in [Handle -> Seq(Byte) \cup {None, Shared}]
  /\ failures \in Nat

-----------------------------------------------------------------------------
(* Files and contexts.                                                     *)

(* A path stands for the file of that name or, without one, for a file     *)
(* whose name differs in case only.                                        *)
Matches(c, n) ==
  IF Exists(c, n) THEN {n} ELSE {m \in Name : Exists(c, m) /\ FoldOf[m] = FoldOf[n]}

Lookup(c, n) == CHOOSE m \in Matches(c, n) : TRUE

(* The context with what the volume says of its path.                      *)
Resolved(x, c) ==
  LET m == Lookup(c, x.path)
  IN  [x EXCEPT !.inode = c.node[m], !.size = Len(DataOf(c, m)),
                !.links = LinkCount(c, c.node[m])]

NewContext(n, created) ==
  [path |-> n, inode |-> 0, size |-> 0, links |-> 0, created |-> created,
   active |-> FALSE, dirty |-> FALSE, staged |-> <<>>,
   deletePending |-> FALSE, cleaned |-> FALSE]

OverwrittenClean(x) ==  \* mutant: truncating alone is nothing to flush
  [x EXCEPT !.active = TRUE, !.dirty = FALSE, !.staged = <<>>, !.size = 0]

Overwritten(x) ==
  [x EXCEPT !.active = TRUE, !.dirty = x.size # 0, !.staged = <<>>, !.size = 0]

(* The bytes a change starts from: no more than the size in the context.   *)
Readable(x) == x.size = 0 \/ Matches(volume, x.path) # {}

Prefix(d, k) == SubSeq(d, 1, IF k < Len(d) THEN k ELSE Len(d))

MutableBytes(x) ==
  IF x.size = 0 THEN <<>> ELSE Prefix(DataOf(volume, Lookup(volume, x.path)), x.size)

StageLoadedEmpty(x) ==  \* mutant: a file this handle created is taken to be empty
  IF x.active THEN x
  ELSE [x EXCEPT !.active = TRUE,
                 !.staged = IF x.created THEN <<>> ELSE MutableBytes(x)]

StageLoaded(x) ==
  IF x.active THEN x ELSE [x EXCEPT !.active = TRUE, !.staged = MutableBytes(x)]

SizeAfter(d, q) ==
  CASE q.op = "write"  -> IF q.at > Len(d) THEN q.at ELSE Len(d)
    [] q.op = "append" -> Len(d) + 1
    [] q.op = "size"   -> q.size

Changed(d, q) ==
  LET written == IF q.op = "write" THEN {q.at}
                 ELSE IF q.op = "append" THEN {Len(d) + 1} ELSE {}
  IN  [i \in 1..SizeAfter(d, q) |->
         IF i \in written THEN q.byte ELSE IF i <= Len(d) THEN d[i] ELSE q.fill]

TooLargeOffByOne(d, q) == SizeAfter(d, q) > MaxSize + 1  \* mutant

TooLarge(d, q) == SizeAfter(d, q) > MaxSize

(* A flush commits what is staged.                                         *)
CanFlush(x) == x.dirty => LegalWrite(volume, x.path)

VolumeFlushed(x) == IF x.dirty THEN Written(volume, x.path, x.staged) ELSE volume

Flushed(x) ==
  IF x.dirty
  THEN Resolved([x EXCEPT !.dirty = FALSE, !.active = FALSE, !.staged = <<>>], VolumeFlushed(x))
  ELSE x

(* A new link: every open context of the inode gets the new link count.    *)
RelinkedOwn(c, h, x, inode, links) ==  \* mutant: the other contexts keep the old one
  [c EXCEPT ![h] = [x EXCEPT !.links = links]]

Relinked(c, h, x, inode, links) ==
  [g \in Handle |->
     LET y == IF g = h THEN x ELSE c[g]
     IN  IF y # None /\ (g = h \/ y.inode = inode) THEN [y EXCEPT !.links = links] ELSE y]

Discarded(x) == [x EXCEPT !.active = FALSE, !.dirty = FALSE, !.staged = <<>>]

(* No history is kept of a file that several handles may have changed.     *)
Noted(d, q) == IF d = Shared THEN Shared ELSE Changed(d, q)

Init ==
  /\ volume = FirstContent
  /\ ctx = [h \in Handle |-> None]
  /\ change = [h \in Handle |-> None]
  /\ view = [h \in Handle |-> None]
  /\ failures = 0

-----------------------------------------------------------------------------
(* The callbacks.                                                          *)

(* A commit the writer would carry out fails, or one it refuses is refused. *)
CommitFails(legal) ==
  IF legal THEN failures < MaxFailures /\ failures' = failures + 1
  ELSE UNCHANGED failures

(* A name is in use at most once; other names of its inode may be in use.  *)
MayOpen(n) == \A g \in Handle : ctx[g] # None /\ ~ctx[g].cleaned => ctx[g].path # n

Create(h, n) ==
  /\ ctx[h] = None
  /\ MayOpen(n)
  /\ Matches(volume, n) = {}
  /\ LegalWrite(volume, n)
  /\ volume' = Written(volume, n, <<>>)
  /\ ctx' = [ctx EXCEPT ![h] = Resolved(NewContext(n, TRUE), volume')]
  /\ view' = [view EXCEPT ![h] = <<>>]
  /\ UNCHANGED <<change, failures>>

(* WinFsp follows an open that is to empty the file with Overwrite.        *)
Open(h, n) ==
  LET opened == Resolved(NewContext(n, FALSE), volume)
      others == {g \in Handle : ctx[g] # None /\ ~ctx[g].cleaned /\ ctx[g].inode = opened.inode}
  IN  /\ ctx[h] = None
      /\ MayOpen(n)
      /\ Matches(volume, n) # {}
      /\ \E overwritten \in BOOLEAN :
           /\ ctx' = [ctx EXCEPT ![h] = IF overwritten THEN Overwritten(opened) ELSE opened]
           /\ view' = [g \in Handle |->
                IF g \in others \/ (g = h /\ others # {}) THEN Shared
                ELSE IF g # h THEN view[g]
                ELSE IF overwritten THEN <<>> ELSE DataOf(volume, Lookup(volume, n))]
      /\ UNCHANGED <<volume, change, failures>>

InUse(h) == ctx[h] # None /\ ~ctx[h].cleaned /\ change[h] = None

(* An allocation that does not make the file smaller changes nothing.      *)
Ignored(x, q) == q.op = "size" /\ q.allocation /\ q.size >= x.size

(* A write or a new size of a handle that stages its writes.               *)
ChangeStage(h, q) ==
  LET x == StageLoaded(ctx[h])
  IN  /\ InUse(h)
      /\ ctx[h].created \/ ctx[h].active
      /\ ~Ignored(ctx[h], q)
      /\ ctx[h].active \/ Readable(ctx[h])
      /\ IF TooLarge(x.staged, q)
         THEN /\ ctx' = [ctx EXCEPT ![h] = x]
              /\ UNCHANGED view
         ELSE /\ ctx' = [ctx EXCEPT ![h] =
                   [x EXCEPT !.staged = Changed(@, q), !.dirty = TRUE,
                             !.size = SizeAfter(x.staged, q)]]
              /\ view' = [view EXCEPT ![h] = Noted(@, q)]
      /\ UNCHANGED <<volume, change, failures>>

(* A write or a new size of any other handle: the file is read ...         *)
ReadForChange(h, q) ==
  LET base == MutableBytes(ctx[h])
  IN  /\ InUse(h)
      /\ ~ctx[h].created /\ ~ctx[h].active
      /\ ~Ignored(ctx[h], q)
      /\ Readable(ctx[h])
      /\ ~TooLarge(base, q)
      /\ change' = [change EXCEPT ![h] = [request |-> q, base |-> base]]
      /\ UNCHANGED <<volume, ctx, view, failures>>

(* ... and committed with the change.                                      *)
CommitChange(h) ==
  LET x == ctx[h]
      data == Changed(change[h].base, change[h].request)
  IN  /\ change[h] # None
      /\ \/ /\ LegalWrite(volume, x.path)
            /\ volume' = Written(volume, x.path, data)
            /\ ctx' = [ctx EXCEPT ![h] = Resolved(x, volume')]
            /\ view' = [view EXCEPT ![h] = Noted(@, change[h].request)]
            /\ UNCHANGED failures
         \/ /\ CommitFails(LegalWrite(volume, x.path))
            /\ UNCHANGED <<volume, ctx, view>>
      /\ change' = [change EXCEPT ![h] = None]

Flush(h) ==
  /\ InUse(h)
  /\ ctx[h].dirty
  /\ CanFlush(ctx[h])
  /\ volume' = VolumeFlushed(ctx[h])
  /\ ctx' = [ctx EXCEPT ![h] = Flushed(ctx[h])]
  /\ UNCHANGED <<change, view, failures>>

(* A rename flushes, deletes a file that has the new name if it may        *)
(* replace it, and renames.  When the last commit fails or is refused the  *)
(* first two remain.                                                       *)
Rename(h, to, replaceIfExists) ==
  LET x == Flushed(ctx[h])
      flushed == VolumeFlushed(ctx[h])
      replaces == /\ replaceIfExists
                  /\ Matches(flushed, to) # {}
                  /\ flushed.node[Lookup(flushed, to)] # x.inode
      cleared == IF replaces THEN Deleted(flushed, to) ELSE flushed
  IN  /\ InUse(h)
      /\ \A g \in Handle \ {h} : ctx[g] # None /\ ~ctx[g].cleaned => ctx[g].path # to
      /\ CanFlush(ctx[h])
      /\ replaces => Exists(flushed, to)
      /\ \/ /\ LegalRename(cleared, x.path, to)
            /\ volume' = Renamed(cleared, x.path, to)
            /\ ctx' = [ctx EXCEPT ![h] = Resolved([x EXCEPT !.path = to], volume')]
            /\ UNCHANGED failures
         \/ /\ CommitFails(LegalRename(cleared, x.path, to))
            /\ volume' = cleared
            /\ ctx' = [ctx EXCEPT ![h] = x]
      /\ UNCHANGED <<change, view>>

CreateHardLink(h, to) ==
  LET x == Flushed(ctx[h])
      flushed == VolumeFlushed(ctx[h])
  IN  /\ InUse(h)
      /\ CanFlush(ctx[h])
      /\ LegalLink(flushed, x.path, to)
      /\ volume' = Linked(flushed, x.path, to)
      /\ LET inode == volume'.node[to]
         IN  ctx' = Relinked(ctx, h, x, inode, LinkCount(volume', inode))
      /\ UNCHANGED <<change, view, failures>>

CleanupUnflushed(h, delete) ==  \* mutant: what is staged is dropped
  LET x == ctx[h]
  IN  /\ InUse(h)
      /\ volume' = IF delete /\ Exists(volume, x.path) THEN Deleted(volume, x.path) ELSE volume
      /\ ctx' = [ctx EXCEPT ![h] =
                   [Discarded(x) EXCEPT !.deletePending = delete, !.cleaned = TRUE]]
      /\ view' = [view EXCEPT ![h] = None]
      /\ UNCHANGED <<change, failures>>

(* The last use of a handle deletes the file or flushes; how that ends is  *)
(* only traced.                                                            *)
Cleanup(h, delete) ==
  LET x == ctx[h]
  IN  /\ InUse(h)
      /\ \/ /\ delete
            /\ volume' = IF Exists(volume, x.path) THEN Deleted(volume, x.path) ELSE volume
            /\ ctx' = [ctx EXCEPT ![h] =
                         [Discarded(x) EXCEPT !.deletePending = TRUE, !.cleaned = TRUE]]
            /\ UNCHANGED failures
         \/ /\ ~delete
            /\ CanFlush(x)
            /\ volume' = VolumeFlushed(x)
            /\ ctx' = [ctx EXCEPT ![h] = [Flushed(x) EXCEPT !.cleaned = TRUE]]
            /\ UNCHANGED failures
         \/ /\ delete \/ x.dirty
            /\ CommitFails(delete \/ CanFlush(x))
            /\ ctx' = [ctx EXCEPT ![h] = [(IF delete THEN Discarded(x) ELSE x) EXCEPT
                         !.deletePending = delete, !.cleaned = TRUE]]
            /\ UNCHANGED volume
      /\ view' = [view EXCEPT ![h] = None]
      /\ UNCHANGED change

Close(h) ==
  /\ ctx[h] # None
  /\ ctx[h].cleaned
  /\ ctx' = [ctx EXCEPT ![h] = None]
  /\ UNCHANGED <<volume, change, view, failures>>

Next ==
  \E h \in Handle :
    \/ \E n \in Name :
         \/ Create(h, n) \/ Open(h, n) \/ CreateHardLink(h, n)
         \/ \E replaceIfExists \in BOOLEAN : Rename(h, n, replaceIfExists)
    \/ \E q \in Request : ChangeStage(h, q) \/ ReadForChange(h, q)
    \/ CommitChange(h)
    \/ Flush(h)
    \/ \E delete \in BOOLEAN : Cleanup(h, delete)
    \/ Close(h)

Spec == Init /\ [][Next]_vars

-----------------------------------------------------------------------------
(* Properties.                                                             *)

(* What a read of the whole file through the handle returns.               *)
Contents(x) ==
  IF x.active THEN x.staged
  ELSE IF Matches(volume, x.path) = {} THEN <<>>
  ELSE Prefix(DataOf(volume, Lookup(volume, x.path)), x.size)

(* While nobody else has had the file open a handle reads what it has      *)
(* written, whether that is staged, flushed, renamed, linked or failed to  *)
(* commit.                                                                 *)
ReadsSeeWrites ==
  \A h \in Handle : InUse(h) /\ view[h] # Shared => Contents(ctx[h]) = view[h]

(* A handle with nothing to flush has nothing that is not stored.          *)
FlushedIsStored ==
  \A h \in Handle :
    InUse(h) /\ view[h] # Shared /\ ~ctx[h].dirty =>
      Exists(volume, ctx[h].path) /\ DataOf(volume, ctx[h].path) = view[h]

(* The last use of a handle leaves the file as it was last seen through    *)
(* it, or no file if it is to be deleted, unless a commit fails.           *)
CleanupStores ==
  [][\A h \in Handle :
       /\ view[h] # Shared /\ failures' = failures
       /\ InUse(h) /\ ctx'[h] # None /\ ctx'[h].cleaned
       => IF ctx'[h].deletePending THEN ~Exists(volume', ctx[h].path)
          ELSE Exists(volume', ctx[h].path) /\ DataOf(volume', ctx[h].path) = view[h]]_vars

(* Every inode that is kept has a name and every name an inode that is     *)
(* kept, whatever is linked, replaced and deleted through several handles. *)
NoOrphans ==
  \A i \in Node : volume.data[i] # None <=> \E n \in Name : volume.node[n] = i

(* A new link is seen through every open alias of the file at once.        *)
LinksSeen ==
  [][\A i \in Node :
       0 < LinkCount(volume, i) /\ LinkCount(volume, i) < LinkCount(volume', i) =>
         \A g \in Handle : ctx'[g] # None /\ ctx'[g].inode = i =>
           ctx'[g].links = LinkCount(volume', i)]_vars

(* No two names of the directory have the same key on the disk.            *)
NamesApart ==
  \A m, n \in Name : m # n /\ Exists(volume, m) /\ Exists(volume, n) => FoldOf[m] # FoldOf[n]

=============================================================================
