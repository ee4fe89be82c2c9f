-------------------------- MODULE ImageCommitProofs --------------------------
(***************************************************************************)
(* Theorems of ImageCommit, for every value of its constants:              *)
(*                                                                         *)
(*   TypeCorrect       the type invariant                                  *)
(*   ImageKept         the image is never lost, whatever crashes, failures *)
(*                     and reuses of process identifiers happen            *)
(*   NothingKept       a worker at rest keeps no copy of the image         *)
(*   AnswersStored     an answer says what survives                        *)
(*   CommitsAreAtomic  the worker implements AtomicVolume                  *)
(*                                                                         *)
(* All rest on one inductive invariant, TypeOK /\ CommitInv: a step has    *)
(* the types it needs only because the call in progress has a mutation     *)
(* left and its copy is there.  What each of the last three adds to it     *)
(* (ProcsInv, RestInv, AnswerInv, StoreInv) is stated where it is needed.  *)
(***************************************************************************)
EXTENDS ImageCommit, FiniteSetTheorems, SequenceTheorems, TLAPS

-----------------------------------------------------------------------------
(* The mutations of a volume.                                              *)

(* The writer makes a volume of a volume. *)
LEMMA ApplyType ==
  ASSUME NEW c \in Content, NEW m \in Mutation, Legal(c, m)
  PROVE  Apply(c, m) \in Content
<1>1. CASE m.op = "write"
  <2>1. /\ m.name \in Name /\ m.data \in Data /\ LegalWrite(c, m.name)
        /\ Apply(c, m) = Written(c, m.name, m.data)
    BY <1>1 DEF Mutation, Legal, Apply
  <2>2. CASE Exists(c, m.name)
    <3>1. c.node[m.name] \in Node
      BY <2>1, <2>2 DEF Exists, Content
    <3> QED
      BY <2>1, <2>2, <3>1 DEF Written, Content
  <2>3. CASE ~Exists(c, m.name)
    <3>1. c.next \in Node /\ c.next + 1 \in 1..(MaxNode + 1)
      BY <2>1, <2>3, VolumeAssumption DEF LegalWrite, Node
    <3> QED
      BY <2>1, <2>3, <3>1 DEF Written, Content
  <2> QED
    BY <2>2, <2>3
<1>2. CASE m.op = "delete"
  <2>1. m.name \in Name /\ Exists(c, m.name) /\ Apply(c, m) = Deleted(c, m.name)
    BY <1>2 DEF Mutation, Legal, Apply
  <2>2. c.node[m.name] \in Node
    BY <2>1 DEF Exists, Content
  <2>3. \A n \in Name : c.node[n] \in Node => Deleted(c, n) \in Content
    BY DEF Deleted, Content
  <2> QED
    BY <2>1, <2>2, <2>3
<1>3. CASE m.op = "rename"
  BY <1>3 DEF Mutation, Legal, Apply, Renamed, Content
<1>4. CASE m.op = "link"
  BY <1>4 DEF Mutation, Legal, Apply, Linked, Content
<1> QED
  BY <1>1, <1>2, <1>3, <1>4 DEF Mutation

(* What the writer has carried out is done.                                *)
LEMMA ApplyDone ==
  ASSUME NEW c \in Content, NEW m \in Mutation, Legal(c, m)
  PROVE  Done(m, Apply(c, m))
<1>1. CASE m.op = "write"
  <2>1. /\ m.name \in Name /\ m.data \in Data /\ LegalWrite(c, m.name)
        /\ Apply(c, m) = Written(c, m.name, m.data)
    BY <1>1 DEF Mutation, Legal, Apply
  <2>2. CASE Exists(c, m.name)
    <3>1. c.node[m.name] \in Node
      BY <2>1, <2>2 DEF Exists, Content
    <3> QED
      BY <1>1, <2>1, <2>2, <3>1 DEF Done, Written, Content, Exists, DataOf
  <2>3. CASE ~Exists(c, m.name)
    <3>1. c.next \in Node /\ c.next # None
      BY <2>1, <2>3, VolumeAssumption DEF LegalWrite, Node
    <3> QED
      BY <1>1, <2>1, <2>3, <3>1 DEF Done, Written, Content, Exists, DataOf
  <2> QED
    BY <2>2, <2>3
<1>2. CASE m.op = "delete"
  BY <1>2 DEF Mutation, Apply, Done, Deleted, Exists, Content
<1>3. CASE m.op = "rename"
  <2>1. /\ m.from \in Name /\ m.to \in Name
        /\ Exists(c, m.from) /\ ~Collides(c, m.to, {m.from})
        /\ Apply(c, m) = Renamed(c, m.from, m.to)
    BY <1>3 DEF Mutation, Legal, LegalRename, Apply
  <2>2. m.from # m.to => ~Exists(c, m.to)
    BY <2>1 DEF Collides
  <2> QED
    BY <1>3, <2>1, <2>2 DEF Done, Renamed, Content, Exists
<1>4. CASE m.op = "link"
  <2>1. /\ m.from \in Name /\ m.to \in Name
        /\ Exists(c, m.from) /\ ~Collides(c, m.to, {})
        /\ Apply(c, m) = Linked(c, m.from, m.to)
    BY <1>4 DEF Mutation, Legal, LegalLink, Apply
  <2>2. ~Exists(c, m.to)
    BY <2>1 DEF Collides
  <2> QED
    BY <1>4, <2>1, <2>2 DEF Done, Linked, Content, Exists
<1> QED
  BY <1>1, <1>2, <1>3, <1>4 DEF Mutation

-----------------------------------------------------------------------------
(* What a commit in progress can rely on.                                  *)

IInv == TypeOK /\ CommitInv

LEMMA SpendType ==
  ASSUME used \in [call : Nat, crash : Nat, failure : Nat, rename : Nat, reuse : Nat],
         NEW kind \in {"call", "crash", "failure", "rename", "reuse"}, NEW bound,
         Spend(kind, bound)
  PROVE  used' \in [call : Nat, crash : Nat, failure : Nat, rename : Nat, reuse : Nat]
BY DEF Spend

(* The copy of the commit is the one unfinished file of this time.         *)
LEMMA WorkIsThere ==
  ASSUME IInv, pc \in {"commit", "replace", "moved"}
  PROVE  /\ Work \in temps /\ Work.kind = "work" /\ Work.time = clock
         /\ Work \in Temp
         /\ pc # "commit" => Work.content \in Content
         /\ \A f \in temps : f.kind = "work" /\ f.time = clock => f = Work
<1>1. Work \in temps /\ Work.kind = "work" /\ Work.time = clock
  BY DEF IInv, CommitInv, Work
<1>2. \A f \in temps : f.kind = "work" /\ f.time = clock => f = Work
  BY <1>1 DEF IInv, CommitInv
<1>3. Work \in Temp
  BY <1>1 DEF IInv, TypeOK
<1>4. pc # "commit" => Work.content # None
  BY <1>2 DEF IInv, CommitInv
<1> QED
  BY <1>1, <1>2, <1>3, <1>4 DEF Temp

(* The thread that holds the mutex has a mutation to do.                   *)
LEMMA HolderHasWork ==
  ASSUME IInv, pc \in Busy
  PROVE  /\ holder \in Thread
         /\ calls[holder] \in Call
         /\ calls[holder].todo # <<>>
         /\ Head(calls[holder].todo) \in Mutation
         /\ Tail(calls[holder].todo) \in Seq(Mutation)
<1>1. holder \in Thread /\ calls[holder] # None
  BY DEF IInv, TypeOK, CommitInv
<1>2. calls[holder] \in Call /\ calls[holder].todo # <<>>
  BY <1>1 DEF IInv, TypeOK, CommitInv
<1>3. calls[holder].todo \in Seq(Mutation)
  BY <1>2 DEF Call
<1> QED
  BY <1>1, <1>2, <1>3, HeadTailProperties

(* A call is one mutation, or two for a rename that replaces.              *)
LEMMA MutationsType ==
  ASSUME NEW q \in Mutation \cup Replace
  PROVE  /\ Mutations(q) \in Seq(Mutation)
         /\ Mutations(q) # <<>>
         /\ Len(Mutations(q)) # 2 => Head(Mutations(q)) \in Mutation
<1>1. CASE q.op # "replace"
  <2>1. q \in Mutation
    BY <1>1 DEF Replace
  <2> QED
    BY <1>1, <2>1 DEF Mutations
<1>2. CASE q.op = "replace"
  <2>1. q \in Replace
    BY <1>2 DEF Mutation
  <2>2. [op |-> "rename", from |-> q.from, to |-> q.to] \in Mutation
    BY <2>1 DEF Replace, Mutation
  <2>3. [op |-> "delete", name |-> q.to] \in Mutation
    BY <2>1 DEF Replace, Mutation
  <2> QED
    BY <1>2, <2>2, <2>3 DEF Mutations
<1> QED
  BY <1>1, <1>2

-----------------------------------------------------------------------------
(* The invariant, action by action.                                        *)

LEMMA InitInv ==
  ASSUME Init
  PROVE  IInv
<1>1. TypeOK
  BY ImageCommitAssumption DEF Init, TypeOK, File, Points
<1>2. CommitInv
  BY ImageCommitAssumption, NoneIsNoContent DEF Init, CommitInv, Busy, Backups, ImageNeverLost, File
<1> QED
  BY <1>1, <1>2 DEF IInv

LEMMA StartWorkerInv ==
  ASSUME IInv, NEW p \in Pid, StartWorker(p)
  PROVE  IInv'
<1>1. used' \in [call : Nat, crash : Nat, failure : Nat, rename : Nat, reuse : Nat]
  BY SpendType DEF StartWorker, ReusesPid, IInv, TypeOK
<1>2. TypeOK'
  BY <1>1 DEF IInv, TypeOK, StartWorker, fileVars, callVars, Points
<1>3. CommitInv'
  BY ImageCommitAssumption
  DEF IInv, CommitInv, StartWorker, fileVars, callVars, Busy, Backups, ImageNeverLost
<1> QED
  BY <1>2, <1>3 DEF IInv

LEMMA OtherProcessInv ==
  ASSUME IInv, NEW p \in Pid, OtherProcessStarts(p) \/ OtherProcessExits(p)
  PROVE  IInv'
<1>1. used' \in [call : Nat, crash : Nat, failure : Nat, rename : Nat, reuse : Nat]
  BY SpendType DEF OtherProcessStarts, OtherProcessExits, ReusesPid, IInv, TypeOK
<1>2. TypeOK'
  BY <1>1 DEF IInv, TypeOK, OtherProcessStarts, OtherProcessExits, fileVars, callVars
<1>3. CommitInv'
  BY DEF IInv, CommitInv, OtherProcessStarts, OtherProcessExits, fileVars, callVars, Backups,
         ImageNeverLost
<1> QED
  BY <1>2, <1>3 DEF IInv

(* However the worker dies, the files stay as they are.                    *)
LEMMA DiesInv ==
  ASSUME IInv, worker # None, Dies,
         used' \in [call : Nat, crash : Nat, failure : Nat, rename : Nat, reuse : Nat]
  PROVE  IInv'
<1>1. worker \in Pid
  BY DEF IInv, TypeOK
<1>2. BeingReplaced \subseteq Name
  <2>1. SUFFICES ASSUME NEW t \in Thread, calls[t] # None, calls[t].request.op = "replace"
                 PROVE  calls[t].request.to \in Name
    BY DEF BeingReplaced
  <2>2. calls[t].request \in Mutation \cup Replace
    BY <2>1 DEF IInv, TypeOK, Call
  <2>3. calls[t].request \in Replace
    BY <2>1, <2>2 DEF Mutation
  <2> QED
    BY <2>3 DEF Replace
<1>3. TypeOK'
  BY <1>1, <1>2 DEF IInv, TypeOK, Dies, fileVars, Points
<1>4. CommitInv'
  BY DEF IInv, CommitInv, Dies, fileVars, Busy, Backups, ImageNeverLost
<1> QED
  BY <1>3, <1>4 DEF IInv

LEMMA RecoverInv ==
  ASSUME IInv, Recover
  PROVE  IInv'
<1>1. used' \in [call : Nat, crash : Nat, failure : Nat, rename : Nat, reuse : Nat]
  BY SpendType DEF Recover, IInv, TypeOK
<1>2. CASE \E b \in Backups(DeadTemps) : Restore(b)
  <2>1. PICK b \in Backups(DeadTemps) : target' = ImageOf(b) /\ temps' = temps \ {b}
    BY <1>2 DEF Restore
  <2>2. b \in Backups(temps) /\ b \in Temp
    BY <2>1 DEF Backups, DeadTemps, IInv, TypeOK
  <2>3. b.content \in Content /\ b.time \in Nat /\ b.time <= clock
    BY <2>2 DEF Temp, IInv, CommitInv, Backups
  <2>4. target' \in File /\ target' # None /\ target'.time = b.time
    BY <2>1, <2>3, NoneIsNoContent DEF File, ImageOf
  <2>5. TypeOK'
    BY <1>1, <2>1, <2>4 DEF IInv, TypeOK, Recover, Points, callVars, procVars
  <2>6. CommitInv'
    BY <2>1, <2>3, <2>4
    DEF IInv, CommitInv, Recover, Busy, Backups, ImageNeverLost, callVars, procVars
  <2> QED
    BY <2>5, <2>6 DEF IInv
<1>3. CASE UNCHANGED <<target, temps>>
  <2>1. TypeOK'
    BY <1>1, <1>3 DEF IInv, TypeOK, Recover, Points, callVars, procVars
  <2>2. CommitInv'
    BY <1>3 DEF IInv, CommitInv, Recover, Busy, Backups, ImageNeverLost, callVars, procVars
  <2> QED
    BY <2>1, <2>2 DEF IInv
<1> QED
  BY <1>2, <1>3 DEF Recover, Newest

(* Files go only while there is an image.                                  *)
LEMMA CleanInv ==
  ASSUME IInv, Clean
  PROVE  IInv'
<1>1. used' \in [call : Nat, crash : Nat, failure : Nat, rename : Nat, reuse : Nat]
  BY SpendType DEF Clean, IInv, TypeOK
<1>2. temps' \subseteq temps
  BY DEF Clean
<1>3. TypeOK'
  BY <1>1, <1>2 DEF IInv, TypeOK, Clean, Points, callVars, procVars
<1>4. CommitInv'
  BY <1>2 DEF IInv, CommitInv, Clean, Busy, Backups, ImageNeverLost, callVars, procVars
<1> QED
  BY <1>3, <1>4 DEF IInv

LEMMA OpenInv ==
  ASSUME IInv, Open \/ OpenFails
  PROVE  IInv'
<1>1. TypeOK'
  BY DEF IInv, TypeOK, CommitInv, Open, OpenFails, Points, fileVars, callVars, procVars
<1>2. CommitInv'
  BY DEF IInv, CommitInv, Open, OpenFails, Busy, Backups, ImageNeverLost, fileVars, callVars,
         procVars
<1> QED
  BY <1>1, <1>2 DEF IInv

LEMMA CallArrivesInv ==
  ASSUME IInv, NEW t \in Thread, NEW q \in Calls, CallArrives(t, q)
  PROVE  IInv'
<1> DEFINE todo == Mutations(q)
           call == [request |-> IF Len(todo) = 2 THEN q ELSE Head(todo), todo |-> todo]
<1>1. call \in Call /\ call.todo # <<>>
  BY ImageCommitAssumption, MutationsType DEF Call
<1>2. calls' = [calls EXCEPT ![t] = call]
  BY DEF CallArrives
<1>3. used' \in [call : Nat, crash : Nat, failure : Nat, rename : Nat, reuse : Nat]
  BY SpendType DEF CallArrives, IInv, TypeOK
<1> HIDE DEF call
<1>4. TypeOK'
  BY <1>1, <1>2, <1>3 DEF IInv, TypeOK, CallArrives, fileVars, procVars
<1>5. pc \in Busy => holder \in Thread /\ calls'[holder] # None
  <2>1. SUFFICES ASSUME pc \in Busy
                 PROVE  holder \in Thread /\ calls'[holder] # None
    OBVIOUS
  <2>2. holder \in Thread /\ calls[holder] # None /\ holder # t
    BY <2>1, HolderHasWork DEF IInv, CommitInv, CallArrives
  <2> QED
    BY <1>2, <2>2 DEF IInv, TypeOK
<1>6. \A u \in Thread : calls'[u] # None => calls'[u].todo # <<>>
  BY <1>1, <1>2 DEF IInv, TypeOK, CommitInv
<1>7. CommitInv'
  BY <1>5, <1>6
  DEF IInv, CommitInv, CallArrives, Busy, Backups, ImageNeverLost, fileVars, procVars
<1> QED
  BY <1>4, <1>7 DEF IInv

LEMMA CommitBeginsInv ==
  ASSUME IInv, NEW t \in Thread, CommitBegins(t)
  PROVE  IInv'
<1> DEFINE copy == [kind |-> "work", pid |-> worker, time |-> clock + 1, content |-> None]
<1>1. copy \in Temp /\ copy.kind = "work" /\ copy.time = clock + 1
  BY DEF IInv, TypeOK, CommitInv, CommitBegins, Temp
<1>2. temps' = temps \cup {copy}
  BY DEF CommitBegins
<1> HIDE DEF copy
<1>3. TypeOK'
  <2>1. temps' \subseteq Temp /\ clock' \in Nat
    BY <1>1, <1>2 DEF IInv, TypeOK, CommitBegins
  <2> QED
    BY <2>1 DEF IInv, TypeOK, CommitBegins, Points, Busy, procVars
<1>4. copy \notin temps /\ \A f \in temps : f.time # copy.time
  BY <1>1 DEF IInv, TypeOK, CommitInv, Temp
<1>5. \A f, g \in temps' : f.kind = "work" /\ g.kind = "work" /\ f.time = g.time => f = g
  BY <1>2, <1>4 DEF IInv, CommitInv
<1>6. \A f \in temps' : f.time <= clock'
  BY <1>1, <1>2 DEF IInv, TypeOK, CommitInv, CommitBegins, Temp
<1>7. target' # None => target'.time <= clock'
  BY DEF IInv, TypeOK, CommitInv, CommitBegins, File
<1>8. Backups(temps') = Backups(temps)
  BY <1>1, <1>2 DEF Backups
<1>9. CommitInv'
  <2>1. holder' # None /\ calls'[holder'] # None
    BY ImageCommitAssumption DEF CommitBegins
  <2>2. \E f \in temps' : f.kind = "work" /\ f.time = clock'
    BY <1>1, <1>2 DEF CommitBegins
  <2>3. UNCHANGED <<target, worker, calls>> /\ pc' = "commit" /\ pc = "ready"
    BY DEF CommitBegins, procVars
  <2>4. worker # None
    BY <2>3 DEF IInv, CommitInv
  <2> QED
    BY <1>5, <1>6, <1>7, <1>8, <2>1, <2>2, <2>3, <2>4 DEF IInv, CommitInv, ImageNeverLost
<1> QED
  BY <1>3, <1>9 DEF IInv

(* The finished copy replaces the unfinished one.                          *)
LEMMA WriterSucceedsInv ==
  ASSUME IInv, WriterSucceeds
  PROVE  IInv'
<1> DEFINE content == Apply(target.content, Head(calls[holder].todo))
           copy == [Work EXCEPT !.content = content]
<1>1. /\ pc = "commit" /\ pc \in Busy /\ target # None
      /\ Legal(target.content, Head(calls[holder].todo))
  BY DEF WriterSucceeds, Busy
<1>2. target.content \in Content
  BY <1>1 DEF IInv, TypeOK, File
<1>3. content \in Content /\ content # None
  BY <1>1, <1>2, HolderHasWork, ApplyType, NoneIsNoContent
<1> HIDE DEF content
<1>4. /\ copy \in Temp /\ copy.kind = "work" /\ copy.time = clock
      /\ copy.content # None
  BY <1>1, <1>3, WorkIsThere DEF Temp
<1>5. temps' = (temps \ {Work}) \cup {copy}
  BY DEF WriterSucceeds, content
<1> HIDE DEF copy
<1>6. TypeOK'
  BY <1>4, <1>5 DEF IInv, TypeOK, WriterSucceeds, Points, Busy, procVars, callVars
<1>7. \A f, g \in temps' : f.kind = "work" /\ g.kind = "work" /\ f.time = g.time => f = g
  BY <1>1, <1>4, <1>5, WorkIsThere DEF IInv, CommitInv
<1>8. \A f \in temps' : f.time <= clock
  BY <1>4, <1>5 DEF IInv, TypeOK, CommitInv
<1>9. Backups(temps') = Backups(temps)
  BY <1>1, <1>4, <1>5, WorkIsThere DEF Backups
<1>10. CommitInv'
  BY <1>1, <1>4, <1>5, <1>7, <1>8, <1>9
  DEF IInv, CommitInv, WriterSucceeds, Busy, ImageNeverLost, procVars, callVars
<1> QED
  BY <1>6, <1>10 DEF IInv

(* A commit that fails removes its own copy and nothing else.              *)
LEMMA CommitFailsInv ==
  ASSUME IInv, WriterFails \/ ReplaceFails
  PROVE  IInv'
<1>1. used' \in [call : Nat, crash : Nat, failure : Nat, rename : Nat, reuse : Nat]
  BY SpendType DEF WriterFails, ReplaceFails, IInv, TypeOK
<1>2. temps' = temps \ {Work} /\ pc' = "failed" /\ pc \in {"commit", "replace", "moved"}
  BY DEF WriterFails, ReplaceFails
<1>3. UNCHANGED <<target, clock, procVars, session, callVars, interrupted>>
  BY DEF WriterFails, ReplaceFails
<1>4. TypeOK'
  BY <1>1, <1>2, <1>3 DEF IInv, TypeOK, Points, Busy, procVars, callVars
<1>5. Backups(temps') = Backups(temps)
  BY <1>2, WorkIsThere DEF Backups
<1>6. CommitInv'
  BY <1>2, <1>3, <1>5 DEF IInv, CommitInv, Busy, ImageNeverLost, procVars, callVars
<1> QED
  BY <1>4, <1>6 DEF IInv

(* Before the image goes from its name it is a backup.                     *)
LEMMA ReplaceMovesTargetInv ==
  ASSUME IInv, ReplaceMovesTarget
  PROVE  IInv'
<1> DEFINE backup == [kind |-> "backup", pid |-> worker, time |-> target.time,
                      content |-> target.content]
<1>1. pc = "replace" /\ target # None /\ worker \in Pid
  BY DEF IInv, TypeOK, CommitInv, ReplaceMovesTarget
<1>2. target \in File
  BY <1>1 DEF IInv, TypeOK
<1>3. /\ backup \in Temp /\ backup.kind = "backup" /\ backup.time = target.time
      /\ backup.content # None
  BY <1>1, <1>2, NoneIsNoContent DEF File, Temp
<1>4. temps' = temps \cup {backup} /\ target' = None
  BY DEF ReplaceMovesTarget
<1> HIDE DEF backup
<1>5. TypeOK'
  BY <1>3, <1>4 DEF IInv, TypeOK, ReplaceMovesTarget, Points, Busy, procVars, callVars
<1>6. \A f \in temps' : f.time <= clock
  BY <1>1, <1>3, <1>4 DEF IInv, CommitInv
<1>7. \A f, g \in temps' : f.kind = "work" /\ g.kind = "work" /\ f.time = g.time => f = g
  BY <1>3, <1>4 DEF IInv, CommitInv
<1>8. backup \in Backups(temps') /\ \A b \in Backups(temps') : b.content # None
  BY <1>3, <1>4 DEF Backups, IInv, CommitInv
<1>9. CommitInv'
  BY <1>1, <1>4, <1>6, <1>7, <1>8
  DEF IInv, CommitInv, ReplaceMovesTarget, Busy, ImageNeverLost, procVars, callVars
<1> QED
  BY <1>5, <1>9 DEF IInv

LEMMA ReplaceMovesCopyInv ==
  ASSUME IInv, ReplaceMovesCopy
  PROVE  IInv'
<1>1. pc = "moved" /\ target' = ImageOf(Work) /\ temps' = temps \ {Work}
  BY DEF ReplaceMovesCopy
<1>2. Work \in Temp /\ Work.content \in Content /\ Work.time = clock
  BY <1>1, WorkIsThere
<1>3. target' \in File /\ target' # None /\ target'.time = clock
  BY <1>1, <1>2, NoneIsNoContent DEF ImageOf, File, IInv, TypeOK
<1>4. TypeOK'
  BY <1>1, <1>3 DEF IInv, TypeOK, ReplaceMovesCopy, Points, Busy, procVars, callVars
<1>5. CommitInv'
  BY <1>1, <1>3
  DEF IInv, TypeOK, CommitInv, ReplaceMovesCopy, Busy, Backups, ImageNeverLost, procVars, callVars
<1> QED
  BY <1>4, <1>5 DEF IInv

(* Backups go only after the copy is in the image's place.                 *)
LEMMA RemoveBackupInv ==
  ASSUME IInv, RemoveBackup
  PROVE  IInv'
<1>1. used' \in [call : Nat, crash : Nat, failure : Nat, rename : Nat, reuse : Nat]
  BY SpendType DEF RemoveBackup, IInv, TypeOK
<1>2. temps' \subseteq temps
  BY DEF RemoveBackup
<1>3. TypeOK'
  BY <1>1, <1>2 DEF IInv, TypeOK, RemoveBackup, Points, Busy, procVars, callVars
<1>4. CommitInv'
  BY <1>2 DEF IInv, CommitInv, RemoveBackup, Busy, Backups, ImageNeverLost, procVars, callVars
<1> QED
  BY <1>3, <1>4 DEF IInv

(* A call goes on only with a mutation that it still has to do.            *)
LEMMA ReloadInv ==
  ASSUME IInv, Reload
  PROVE  IInv'
<1> DEFINE rest == Tail(calls[holder].todo)
<1>1. holder \in Thread /\ calls[holder] \in Call /\ rest \in Seq(Mutation)
  BY HolderHasWork DEF Reload, Busy
<1>2. CASE rest = <<>>
  <2>1. /\ calls' = [calls EXCEPT ![holder] = None]
        /\ answer' = [answer EXCEPT ![holder] = "ok"]
    BY <1>2 DEF Reload
  <2>2. TypeOK'
    BY <1>1, <2>1 DEF IInv, TypeOK, Reload, Unlock, Points, fileVars, procVars
  <2>3. CommitInv'
    BY <1>1, <2>1
    DEF IInv, TypeOK, CommitInv, Reload, Unlock, Busy, Backups, ImageNeverLost, fileVars, procVars
  <2> QED
    BY <2>2, <2>3 DEF IInv
<1>3. CASE rest # <<>>
  <2>1. calls' = [calls EXCEPT ![holder].todo = rest] /\ UNCHANGED answer
    BY <1>3 DEF Reload
  <2>2. [calls[holder] EXCEPT !.todo = rest] \in Call
    BY <1>1 DEF Call
  <2>3. TypeOK'
    BY <1>1, <2>1, <2>2 DEF IInv, TypeOK, Reload, Unlock, Points, fileVars, procVars
  <2>4. \A t \in Thread : calls'[t] # None => calls'[t].todo # <<>>
    BY <1>1, <1>3, <2>1 DEF IInv, TypeOK, CommitInv, Call
  <2>5. CommitInv'
    BY <2>4
    DEF IInv, CommitInv, Reload, Unlock, Busy, Backups, ImageNeverLost, fileVars, procVars
  <2> QED
    BY <2>3, <2>5 DEF IInv
<1> QED
  BY <1>2, <1>3

LEMMA EndsWithErrorInv ==
  ASSUME IInv, ReloadAfterFailure \/ ReloadFails
  PROVE  IInv'
<1>1. used' \in [call : Nat, crash : Nat, failure : Nat, rename : Nat, reuse : Nat]
  BY SpendType DEF ReloadAfterFailure, ReloadFails, IInv, TypeOK
<1>2. session' \in BOOLEAN /\ EndsWithError /\ pc \in Busy
  BY DEF ReloadAfterFailure, ReloadFails, Busy
<1>3. holder \in Thread
  BY <1>2, HolderHasWork
<1>4. TypeOK'
  BY <1>1, <1>2, <1>3 DEF IInv, TypeOK, EndsWithError, Unlock, Points, fileVars, procVars
<1>5. CommitInv'
  BY <1>2, <1>3
  DEF IInv, TypeOK, CommitInv, EndsWithError, Unlock, Busy, Backups, ImageNeverLost, fileVars,
      procVars
<1> QED
  BY <1>4, <1>5 DEF IInv

LEMMA StutterInv ==
  ASSUME IInv, UNCHANGED vars
  PROVE  IInv'
<1>1. TypeOK'
  BY DEF IInv, TypeOK, vars, fileVars, procVars, callVars
<1>2. CommitInv'
  BY DEF IInv, CommitInv, vars, fileVars, procVars, callVars, Backups, ImageNeverLost
<1> QED
  BY <1>1, <1>2 DEF IInv

LEMMA NextInv ==
  ASSUME IInv, [Next]_vars
  PROVE  IInv'
<1>1. CASE Starting
  BY <1>1, StartWorkerInv, RecoverInv, CleanInv, OpenInv DEF Starting
<1>2. CASE Committing
  BY <1>2, CommitBeginsInv, WriterSucceedsInv, CommitFailsInv, ReplaceMovesTargetInv,
     ReplaceMovesCopyInv, RemoveBackupInv, ReloadInv, EndsWithErrorInv
  DEF Committing
<1>3. CASE \E t \in Thread, q \in Calls : CallArrives(t, q)
  BY <1>3, CallArrivesInv
<1>4. CASE \E p \in Pid : OtherProcessStarts(p) \/ OtherProcessExits(p)
  BY <1>4, OtherProcessInv
<1>5. CASE Crash
  <2>1. used' \in [call : Nat, crash : Nat, failure : Nat, rename : Nat, reuse : Nat]
    BY <1>5, SpendType DEF Crash, IInv, TypeOK
  <2> QED
    BY <1>5, <2>1, DiesInv DEF Crash
<1>6. CASE UsesNoSession
  <2>1. worker # None
    BY <1>6 DEF UsesNoSession, IInv, CommitInv
  <2>2. used' \in [call : Nat, crash : Nat, failure : Nat, rename : Nat, reuse : Nat]
    BY <1>6 DEF UsesNoSession, IInv, TypeOK
  <2> QED
    BY <1>6, <2>1, <2>2, DiesInv DEF UsesNoSession
<1>7. CASE Stops \/ UNCHANGED vars
  BY <1>7, StutterInv DEF Stops
<1> QED
  BY <1>1, <1>2, <1>3, <1>4, <1>5, <1>6, <1>7 DEF Next

-----------------------------------------------------------------------------
(* The invariant holds in every state of every behaviour.                  *)
THEOREM InvariantHolds == Spec => []IInv
<1>1. Init => IInv
  BY InitInv
<1>2. IInv /\ [Next]_vars => IInv'
  BY NextInv
<1> QED
  BY <1>1, <1>2, PTL DEF Spec

(* Every variable keeps its type: the commits only ever store volumes, and *)
(* no step looks for a copy or a call that is not there.                   *)
THEOREM TypeCorrect == Spec => []TypeOK
<1>1. IInv => TypeOK
  BY DEF IInv
<1> QED
  BY <1>1, InvariantHolds, PTL

(* While there is no image, the commit in progress, or the worker that     *)
(* died in it, has left what the next one needs.                           *)
THEOREM CommitInvHolds == Spec => []CommitInv
<1>1. IInv => CommitInv
  BY DEF IInv
<1> QED
  BY <1>1, InvariantHolds, PTL

(* There is always an image or a backup that recovery can put in its place.*)
THEOREM ImageKept == Spec => []ImageNeverLost
<1>1. CommitInv => ImageNeverLost
  BY DEF CommitInv
<1> QED
  BY <1>1, CommitInvHolds, PTL

-----------------------------------------------------------------------------
(* Who has a process identifier.                                           *)

Usage == [call : Nat, crash : Nat, failure : Nat, rename : Nat, reuse : Nat]

LEMMA SpendCounts ==
  ASSUME used \in Usage, NEW kind \in {"call", "crash", "failure", "rename", "reuse"},
         NEW bound \in Nat, Spend(kind, bound)
  PROVE  /\ used[kind] < bound /\ used'[kind] = used[kind] + 1 /\ used'[kind] # 0
         /\ \A other \in {"call", "crash", "failure", "rename", "reuse"} \ {kind} :
              used'[other] = used[other]
BY DEF Spend, Usage

(* The bounds say how often what they bound has happened.                  *)
LEMMA UsedGrows ==
  ASSUME IInv, [Next]_vars
  PROVE  /\ used.reuse <= MaxReuse => used'.reuse <= MaxReuse
         /\ used.rename <= MaxRenameFailures => used'.rename <= MaxRenameFailures
         /\ used'.reuse = 0 => used.reuse = 0
         /\ used'.rename = 0 => used.rename = 0
         /\ used'.failure = 0 => used.failure = 0
<1>1. used \in Usage /\ used' \in Usage
  BY NextInv DEF IInv, TypeOK, Usage
<1>2. {MaxCalls, MaxCrashes, MaxFailures, MaxRenameFailures, MaxReuse} \subseteq Nat
  BY ImageCommitAssumption
<1>3. ASSUME NEW kind \in {"call", "crash", "failure"}, NEW bound \in Nat, Spend(kind, bound)
      PROVE  /\ used'.reuse = used.reuse /\ used'.rename = used.rename
             /\ used'.failure = 0 => used.failure = 0
  BY <1>1, <1>3, SpendCounts DEF Usage
<1>4. ASSUME Spend("reuse", MaxReuse)
      PROVE  /\ used'.reuse <= MaxReuse /\ used'.reuse # 0
             /\ used'.failure = used.failure /\ used'.rename = used.rename
  <2>1. used["reuse"] < MaxReuse /\ used'["reuse"] = used["reuse"] + 1
        /\ used'["failure"] = used["failure"] /\ used'["rename"] = used["rename"]
    BY <1>1, <1>2, <1>4, SpendCounts
  <2> QED
    BY <1>1, <1>2, <2>1 DEF Usage
<1>5. ASSUME Spend("rename", MaxRenameFailures)
      PROVE  /\ used'.rename <= MaxRenameFailures /\ used'.rename # 0
             /\ used'.failure = used.failure /\ used'.reuse = used.reuse
  <2>1. used["rename"] < MaxRenameFailures /\ used'["rename"] = used["rename"] + 1
        /\ used'["failure"] = used["failure"] /\ used'["reuse"] = used["reuse"]
    BY <1>1, <1>2, <1>5, SpendCounts
  <2> QED
    BY <1>1, <1>2, <2>1 DEF Usage
<1>6. \/ UNCHANGED used
      \/ Spend("reuse", MaxReuse) \/ Spend("rename", MaxRenameFailures)
      \/ \E kind \in {"call", "crash", "failure"}, bound \in Nat : Spend(kind, bound)
  <2>1. CASE Starting
    BY <1>2, <2>1 DEF Starting, StartWorker, ReusesPid, Recover, Clean, Open, OpenFails
  <2>2. CASE Committing
    BY <1>2, <2>2
    DEF Committing, CommitBegins, WriterSucceeds, WriterFails, ReplaceMovesTarget,
        ReplaceMovesCopy, ReplaceFails, RemoveBackup, Reload, ReloadAfterFailure, ReloadFails,
        EndsWithError
  <2>3. CASE \E t \in Thread, q \in Calls : CallArrives(t, q)
    BY <1>2, <2>3 DEF CallArrives
  <2>4. CASE \E p \in Pid : OtherProcessStarts(p) \/ OtherProcessExits(p)
    BY <1>2, <2>4 DEF OtherProcessStarts, OtherProcessExits, ReusesPid
  <2>5. CASE Crash \/ UsesNoSession \/ Stops \/ UNCHANGED vars
    BY <1>2, <2>5 DEF Crash, UsesNoSession, Stops, vars
  <2> QED
    BY <2>1, <2>2, <2>3, <2>4, <2>5 DEF Next
<1> QED
  BY <1>1, <1>3, <1>4, <1>5, <1>6 DEF Usage

(* A step that spends of a bound shows it.                                 *)
LEMMA Spent ==
  ASSUME IInv
  PROVE  /\ Spend("failure", MaxFailures) => used'.failure # 0
         /\ Spend("rename", MaxRenameFailures) => used'.rename # 0
<1>1. used \in Usage /\ MaxFailures \in Nat /\ MaxRenameFailures \in Nat
  BY ImageCommitAssumption DEF IInv, TypeOK, Usage
<1>2. Spend("failure", MaxFailures) => used'["failure"] # 0
  BY <1>1, SpendCounts
<1>3. Spend("rename", MaxRenameFailures) => used'["rename"] # 0
  BY <1>1, SpendCounts
<1> QED
  BY <1>2, <1>3

(* As long as no identifier is reused, only the worker has one, and the    *)
(* files that recovery finds are those of the dead.                        *)
ProcsInv ==
  /\ pc = "down" => worker = None
  /\ used.reuse <= MaxReuse
  /\ used.reuse = 0 =>
       /\ \A p \in Pid : procs[p] # "free" => p = worker
       /\ pc \in {"recover", "clean"} => \A f \in temps : f.pid # worker

LEMMA NextProcsInv ==
  ASSUME IInv, ProcsInv, [Next]_vars
  PROVE  ProcsInv'
<1>0. used'.reuse <= MaxReuse /\ (used'.reuse = 0 => used.reuse = 0)
  BY UsedGrows DEF ProcsInv
<1>1. ASSUME NEW p \in Pid, ReusesPid(p), used'.reuse = 0
      PROVE  \A f \in temps : f.pid # p
  <2>1. used'["reuse"] = 0
    BY <1>1
  <2>2. used \in Usage /\ MaxReuse \in Nat
    BY ImageCommitAssumption DEF IInv, TypeOK, Usage
  <2>3. ~Spend("reuse", MaxReuse)
    BY <2>1, <2>2, SpendCounts
  <2> QED
    BY <1>1, <2>3 DEF ReusesPid
<1>2. ASSUME NEW p \in Pid, StartWorker(p)
      PROVE  ProcsInv'
  <2>1. procs' = [procs EXCEPT ![p] = "worker"] /\ worker' = p /\ pc' = "recover" /\ temps' = temps
    BY <1>2 DEF StartWorker, fileVars
  <2>2. worker = None /\ ReusesPid(p) /\ p # None
    BY <1>2, ImageCommitAssumption DEF StartWorker
  <2>3. \A g \in Pid \ {p} : procs'[g] = procs[g] /\ g # None
    BY <2>1, ImageCommitAssumption DEF IInv, TypeOK
  <2> QED
    BY <1>0, <1>1, <2>1, <2>2, <2>3 DEF ProcsInv
<1>3. ASSUME NEW p \in Pid, OtherProcessStarts(p)
      PROVE  ProcsInv'
  BY <1>0, <1>1, <1>3 DEF ProcsInv, OtherProcessStarts, fileVars, callVars
<1>4. ASSUME NEW p \in Pid, OtherProcessExits(p)
      PROVE  ProcsInv'
  BY <1>0, <1>4 DEF ProcsInv, OtherProcessExits, fileVars, callVars, IInv, TypeOK
<1>5. CASE Dies /\ worker # None
  BY <1>0, <1>5, ImageCommitAssumption DEF ProcsInv, Dies, IInv, TypeOK
<1>6. CASE Recover \/ Clean \/ Open
  <2>1. temps' \subseteq temps /\ UNCHANGED procVars
    BY <1>6 DEF Recover, Restore, Clean, Open, fileVars, procVars
  <2>2. pc' # "down" /\ (pc' \in {"recover", "clean"} => pc \in {"recover", "clean"})
    BY <1>6 DEF Recover, Clean, Open
  <2> QED
    BY <1>0, <2>1, <2>2 DEF ProcsInv, procVars
<1>7. CASE OpenFails
  BY <1>0, <1>7 DEF ProcsInv, OpenFails, fileVars, IInv, TypeOK, CommitInv
<1>8. CASE Committing
  <2>1. UNCHANGED procVars /\ pc' \notin {"down", "recover", "clean"}
    BY <1>8
    DEF Committing, CommitBegins, WriterSucceeds, WriterFails, ReplaceMovesTarget,
        ReplaceMovesCopy, ReplaceFails, RemoveBackup, Reload, ReloadAfterFailure, ReloadFails,
        EndsWithError, Unlock
  <2> QED
    BY <1>0, <2>1 DEF ProcsInv, procVars
<1>9. CASE \E t \in Thread, q \in Calls : CallArrives(t, q)
  BY <1>0, <1>9 DEF ProcsInv, CallArrives, fileVars, procVars
<1>10. CASE Stops \/ UNCHANGED vars
  BY <1>0, <1>10 DEF ProcsInv, Stops, vars, fileVars, procVars
<1>11. UsesNoSession => worker # None
  BY DEF UsesNoSession, IInv, CommitInv
<1>12. CASE Starting
  BY <1>2, <1>6, <1>7, <1>12 DEF Starting
<1>13. CASE Crash \/ UsesNoSession
  BY <1>5, <1>11, <1>13 DEF Crash, UsesNoSession
<1> QED
  BY <1>3, <1>4, <1>8, <1>9, <1>10, <1>12, <1>13 DEF Next

LEMMA ProcsInvHolds == Spec => [](IInv /\ ProcsInv)
<1>1. Init => IInv /\ ProcsInv
  <2>1. MaxReuse \in Nat
    BY ImageCommitAssumption
  <2>2. Init => ProcsInv
    BY <2>1 DEF Init, ProcsInv
  <2> QED
    BY <2>2, InitInv
<1>2. IInv /\ ProcsInv /\ [Next]_vars => (IInv /\ ProcsInv)'
  BY NextInv, NextProcsInv
<1> QED
  BY <1>1, <1>2, PTL DEF Spec

(* Without a reuse recovery looks at all files beside the image.           *)
LEMMA AllDead ==
  ASSUME IInv, ProcsInv, used.reuse = 0, pc \in {"recover", "clean"}
  PROVE  DeadTemps = temps
<1>1. \A f \in temps : f.pid \in Pid /\ f.pid # worker
  BY DEF ProcsInv, IInv, TypeOK, Temp
<1> QED
  BY <1>1 DEF ProcsInv, DeadTemps
-----------------------------------------------------------------------------
(* What is beside the image while nothing fails: nothing at rest, the copy *)
(* while the writer is at work, and then the one backup.                   *)
RestInv ==
  used.failure = 0 /\ used.reuse = 0 =>
    /\ pc \in {"ready", "reload", "failed"} \/ (pc = "open" /\ target # None) => temps = {}
    /\ pc \in {"commit", "replace"} => \A f \in temps : f.kind = "work" /\ f.time = clock
    /\ pc = "moved" =>
         \A f \in temps :
           \/ f.kind = "work" /\ f.time = clock
           \/ f.kind = "backup" /\ f.pid = worker /\ Backups(temps) = {f}
    /\ pc = "tidy" => \A f \in temps : f.kind = "backup" /\ f.pid = worker /\ temps = {f}

LEMMA NextRestInv ==
  ASSUME IInv, ProcsInv, RestInv, [Next]_vars
  PROVE  RestInv'
<1> SUFFICES ASSUME used'.failure = 0, used'.reuse = 0
             PROVE  RestInv'
  BY DEF RestInv
<1>0. used.failure = 0 /\ used.reuse = 0 /\ ~Spend("failure", MaxFailures)
  BY UsedGrows, Spent
<1>1. CASE \E p \in Pid : StartWorker(p)
  BY <1>1 DEF StartWorker, RestInv
<1>2. CASE Recover
  BY <1>2 DEF Recover, RestInv
<1>3. CASE Clean
  <2>1. temps' = temps \ DeadTemps /\ pc = "clean" /\ pc' = "open"
    BY <1>0, <1>3 DEF Clean
  <2>2. temps' = {}
    BY <1>0, <2>1, AllDead
  <2> QED
    BY <2>1, <2>2 DEF RestInv
<1>4. CASE Open
  BY <1>0, <1>4 DEF Open, RestInv, fileVars
<1>5. CASE OpenFails \/ Crash \/ UsesNoSession
  BY <1>5 DEF OpenFails, Crash, UsesNoSession, Dies, RestInv
<1>6. CASE \E t \in Thread : CommitBegins(t)
  BY <1>0, <1>6 DEF CommitBegins, RestInv
<1>7. CASE WriterSucceeds
  <2>1. Work \in Temp /\ Work.kind = "work" /\ Work.time = clock /\ pc = "commit"
    BY <1>7, WorkIsThere DEF WriterSucceeds
  <2> DEFINE copy == [Work EXCEPT !.content = Apply(target.content, Head(calls[holder].todo))]
  <2>2. copy.kind = "work" /\ copy.time = clock
    BY <2>1 DEF Temp
  <2>3. temps' = (temps \ {Work}) \cup {copy} /\ clock' = clock /\ pc' = "replace"
    BY <1>7 DEF WriterSucceeds
  <2> HIDE DEF copy
  <2> QED
    BY <1>0, <2>1, <2>2, <2>3 DEF RestInv
<1>8. CASE WriterFails
  <2>1. pc = "commit" /\ pc' = "failed" /\ temps' = temps \ {Work}
    BY <1>8 DEF WriterFails
  <2>2. temps' = {}
    BY <1>0, <2>1, WorkIsThere DEF RestInv
  <2> QED
    BY <2>1, <2>2 DEF RestInv
<1>9. CASE ReplaceMovesTarget
  <2> DEFINE backup == [kind |-> "backup", pid |-> worker, time |-> target.time,
                        content |-> target.content]
  <2>1. /\ temps' = temps \cup {backup} /\ pc = "replace" /\ pc' = "moved"
        /\ clock' = clock /\ worker' = worker
    BY <1>9 DEF ReplaceMovesTarget, procVars
  <2>2. backup.kind = "backup" /\ backup.pid = worker
    OBVIOUS
  <2> HIDE DEF backup
  <2>3. \A f \in temps : f.kind = "work" /\ f.time = clock
    BY <1>0, <2>1 DEF RestInv
  <2>4. Backups(temps') = {backup}
    BY <2>1, <2>2, <2>3 DEF Backups
  <2>5. \A f \in temps' :
          \/ f.kind = "work" /\ f.time = clock'
          \/ f.kind = "backup" /\ f.pid = worker' /\ Backups(temps') = {f}
    BY <2>1, <2>2, <2>3, <2>4
  <2> QED
    BY <2>1, <2>5 DEF RestInv
<1>10. CASE ReplaceMovesCopy
  <2>1. /\ pc = "moved" /\ pc' = "tidy" /\ temps' = temps \ {Work} /\ worker' = worker
    BY <1>10 DEF ReplaceMovesCopy, procVars
  <2>2. \A f \in temps' : f.kind = "backup" /\ f.pid = worker /\ Backups(temps) = {f}
    BY <1>0, <2>1, WorkIsThere DEF RestInv
  <2>3. \A f \in temps' : temps' = {f}
    BY <2>1, <2>2 DEF Backups
  <2> QED
    BY <2>1, <2>2, <2>3 DEF RestInv
<1>11. CASE ReplaceFails
  BY <1>0, <1>11 DEF ReplaceFails
<1>12. CASE RemoveBackup
  <2>1. /\ pc = "tidy" /\ pc' = "reload"
        /\ temps' = temps \ Newest({f \in Backups(temps) : f.pid = worker})
    BY <1>0, <1>12 DEF RemoveBackup
  <2>2. ASSUME NEW b \in temps
        PROVE  b \in Newest({f \in Backups(temps) : f.pid = worker})
    <3>1. b.kind = "backup" /\ b.pid = worker /\ temps = {b}
      BY <1>0, <2>1 DEF RestInv
    <3>2. b.time <= b.time
      BY DEF IInv, TypeOK, Temp
    <3> QED
      BY <3>1, <3>2 DEF Newest, Backups
  <2> QED
    BY <2>1, <2>2 DEF RestInv
<1>13. CASE Reload \/ ReloadAfterFailure \/ ReloadFails
  <2>1. pc \in {"reload", "failed"} /\ pc' = "ready" /\ temps' = temps
    BY <1>13 DEF Reload, ReloadAfterFailure, ReloadFails, EndsWithError, Unlock, fileVars
  <2> QED
    BY <1>0, <2>1 DEF RestInv
<1>14. CASE \/ \E t \in Thread, q \in Calls : CallArrives(t, q)
            \/ Stops \/ UNCHANGED vars
  <2>1. UNCHANGED <<fileVars, procVars, pc>>
    BY <1>14 DEF CallArrives, Stops, vars
  <2> QED
    BY <1>0, <2>1 DEF RestInv, fileVars, procVars
<1>15. CASE \E p \in Pid : OtherProcessStarts(p) \/ OtherProcessExits(p)
  <2>1. UNCHANGED <<fileVars, worker, pc>>
    BY <1>15 DEF OtherProcessStarts, OtherProcessExits
  <2> QED
    BY <1>0, <2>1 DEF RestInv, fileVars
<1> QED
  BY <1>1, <1>2, <1>3, <1>4, <1>5, <1>6, <1>7, <1>8, <1>9, <1>10, <1>11, <1>12, <1>13, <1>14, <1>15
  DEF Next, Starting, Committing

(* A worker at rest keeps no copy of the image, unless a removal failed or *)
(* somebody was given the identifier of a dead worker.                     *)
THEOREM NothingKept == Spec => []RestingKeepsNoCopy
<1>1. Init => RestInv
  BY DEF Init, RestInv
<1>2. IInv /\ ProcsInv /\ RestInv /\ [Next]_vars => RestInv'
  BY NextRestInv
<1>3. RestInv => RestingKeepsNoCopy
  BY DEF RestInv, RestingKeepsNoCopy
<1> QED
  BY <1>1, <1>2, <1>3, ProcsInvHolds, PTL DEF Spec

-----------------------------------------------------------------------------
(* What an answer says.                                                    *)

(* The mutation of the commit in progress is done in the finished copy,    *)
(* and in the image once the copy has taken its place.                     *)
AnswerInv ==
  /\ pc \in {"replace", "moved"} => Done(Head(calls[holder].todo), Work.content)
  /\ pc \in {"tidy", "reload"} => Done(Head(calls[holder].todo), target.content)

(* The copy stays the same as long as the commit goes on.                  *)
LEMMA SameWork ==
  ASSUME IInv, IInv', pc \in {"replace", "moved"}, pc' \in {"replace", "moved"},
         clock' = clock, temps \subseteq temps'
  PROVE  Work' = Work
<1>1. Work \in temps /\ Work.kind = "work" /\ Work.time = clock
  BY WorkIsThere
<1>2. \A f \in temps' : f.kind = "work" /\ f.time = clock' => f = Work'
  <2>1. Work' \in temps' /\ Work'.kind = "work" /\ Work'.time = clock'
    BY DEF IInv, CommitInv, Work
  <2> QED
    BY <2>1 DEF IInv, CommitInv
<1> QED
  BY <1>1, <1>2

LEMMA FinishedWork ==
  ASSUME IInv, IInv', WriterSucceeds
  PROVE  Work'.content = Apply(target.content, Head(calls[holder].todo))
<1> DEFINE copy == [Work EXCEPT !.content = Apply(target.content, Head(calls[holder].todo))]
<1>1. Work \in Temp /\ Work.kind = "work" /\ Work.time = clock
  BY WorkIsThere DEF WriterSucceeds
<1>2. copy.kind = "work" /\ copy.time = clock
      /\ copy.content = Apply(target.content, Head(calls[holder].todo))
  BY <1>1 DEF Temp
<1>3. copy \in temps' /\ clock' = clock /\ pc' = "replace"
  BY DEF WriterSucceeds
<1> HIDE DEF copy
<1>4. \A f \in temps' : f.kind = "work" /\ f.time = clock' => f = Work'
  <2>1. Work' \in temps' /\ Work'.kind = "work" /\ Work'.time = clock'
    BY <1>3 DEF IInv, CommitInv, Work
  <2> QED
    BY <2>1 DEF IInv, CommitInv
<1> QED
  BY <1>2, <1>3, <1>4

LEMMA NextAnswerInv ==
  ASSUME IInv, IInv', AnswerInv, [Next]_vars
  PROVE  AnswerInv'
<1>1. CASE WriterSucceeds
  <2>1. /\ pc = "commit" /\ pc' = "replace" /\ target # None /\ UNCHANGED <<calls, holder>>
        /\ Legal(target.content, Head(calls[holder].todo))
    BY <1>1 DEF WriterSucceeds, callVars
  <2>2. target.content \in Content /\ Head(calls[holder].todo) \in Mutation
    BY <2>1, HolderHasWork DEF IInv, TypeOK, File, Busy
  <2> QED
    BY <1>1, <2>1, <2>2, ApplyDone, FinishedWork DEF AnswerInv
<1>2. CASE ReplaceMovesTarget
  <2>1. /\ pc = "replace" /\ pc' = "moved" /\ temps \subseteq temps' /\ clock' = clock
        /\ UNCHANGED <<calls, holder>>
    BY <1>2 DEF ReplaceMovesTarget, callVars
  <2> QED
    BY <2>1, SameWork DEF AnswerInv
<1>3. CASE ReplaceMovesCopy
  BY <1>3 DEF ReplaceMovesCopy, ImageOf, AnswerInv, callVars
<1>4. CASE RemoveBackup
  BY <1>4 DEF RemoveBackup, AnswerInv, callVars
<1>5. ASSUME NEW t \in Thread, NEW q \in Calls, CallArrives(t, q)
      PROVE  AnswerInv'
  <2>1. UNCHANGED <<target, temps, clock, pc, holder>>
    BY <1>5 DEF CallArrives, fileVars
  <2>2. pc \in Busy => calls'[holder] = calls[holder]
    BY <1>5, HolderHasWork DEF CallArrives, IInv, TypeOK, CommitInv
  <2>3. pc \in {"replace", "moved"} => Work' = Work
    BY <2>1, SameWork
  <2> QED
    BY <2>1, <2>2, <2>3 DEF AnswerInv, Busy
<1>6. CASE \/ \E p \in Pid : OtherProcessStarts(p) \/ OtherProcessExits(p)
           \/ Stops \/ UNCHANGED vars
  <2>1. UNCHANGED <<target, temps, clock, pc, holder, calls>>
    BY <1>6 DEF OtherProcessStarts, OtherProcessExits, Stops, vars, fileVars, callVars
  <2>2. pc \in {"replace", "moved"} => Work' = Work
    BY <2>1, SameWork
  <2> QED
    BY <2>1, <2>2 DEF AnswerInv
<1>7. CASE Starting \/ Crash \/ UsesNoSession
  <2>1. pc' \notin {"replace", "moved", "tidy", "reload"}
    BY <1>7 DEF Starting, StartWorker, Recover, Clean, Open, OpenFails, Crash, UsesNoSession, Dies
  <2> QED
    BY <2>1 DEF AnswerInv
<1>8. CASE \/ \E t \in Thread : CommitBegins(t)
           \/ WriterFails \/ ReplaceFails \/ Reload \/ ReloadAfterFailure \/ ReloadFails
  <2>1. pc' \notin {"replace", "moved", "tidy", "reload"}
    BY <1>8 DEF CommitBegins, WriterFails, ReplaceFails, Reload, ReloadAfterFailure, ReloadFails,
                EndsWithError, Unlock
  <2> QED
    BY <2>1 DEF AnswerInv
<1> QED
  BY <1>1, <1>2, <1>3, <1>4, <1>5, <1>6, <1>7, <1>8 DEF Next, Committing

LEMMA AnswerInvHolds == Spec => [](IInv /\ AnswerInv)
<1>1. Init => AnswerInv
  BY DEF Init, AnswerInv
<1>2. IInv /\ IInv' /\ AnswerInv /\ [Next]_vars => AnswerInv'
  BY NextAnswerInv
<1> QED
  BY <1>1, <1>2, InvariantHolds, PTL DEF Spec

AnswerStored ==
  \A t \in Thread :
    calls[t] # None /\ answer[t] = "none" /\ answer'[t] = "ok"
      => Done(Head(calls[t].todo), Durable')

(* A call that answers that it has succeeded has changed what survives the *)
(* worker.                                                                 *)
THEOREM AnswersStored == Spec => AnsweredIsStored
<1>1. IInv /\ AnswerInv /\ [Next]_vars => [AnswerStored]_vars
  <2>1. SUFFICES ASSUME IInv, AnswerInv, Next, NEW t \in Thread,
                        calls[t] # None, answer[t] = "none", answer'[t] = "ok"
                 PROVE  Done(Head(calls[t].todo), Durable')
    BY DEF AnswerStored
  <2>2. Reload
    <3>1. answer' # answer
      BY <2>1
    <3>2. CASE Starting \/ Crash \/ UsesNoSession \/ Stops
      BY <2>1, <3>1, <3>2
      DEF Starting, StartWorker, Recover, Clean, Open, OpenFails, Crash, UsesNoSession, Dies, Stops,
          vars, callVars
    <3>3. CASE \/ \E p \in Pid : OtherProcessStarts(p) \/ OtherProcessExits(p)
               \/ \E u \in Thread, q \in Calls : CallArrives(u, q)
      BY <2>1, <3>1, <3>3
      DEF OtherProcessStarts, OtherProcessExits, CallArrives, callVars, IInv, TypeOK
    <3>4. CASE \/ \E u \in Thread : CommitBegins(u)
               \/ WriterSucceeds \/ WriterFails
               \/ ReplaceMovesTarget \/ ReplaceMovesCopy \/ ReplaceFails \/ RemoveBackup
      BY <3>1, <3>4
      DEF CommitBegins, WriterSucceeds, WriterFails, ReplaceMovesTarget, ReplaceMovesCopy,
          ReplaceFails, RemoveBackup, callVars
    <3>5. CASE ReloadAfterFailure \/ ReloadFails
      BY <2>1, <3>5 DEF ReloadAfterFailure, ReloadFails, EndsWithError, IInv, TypeOK
    <3> QED
      BY <2>1, <3>2, <3>3, <3>4, <3>5 DEF Next, Committing
  <2>3. pc = "reload" /\ target # None /\ target' = target
    BY <2>1, <2>2 DEF Reload, IInv, CommitInv, fileVars
  <2>4. t = holder
    BY <2>1, <2>2 DEF Reload, IInv, TypeOK
  <2> QED
    BY <2>1, <2>3, <2>4 DEF AnswerInv, Durable
<1>2. Spec => [][AnswerStored]_vars
  BY <1>1, AnswerInvHolds, PTL DEF Spec
<1> QED
  BY <1>2 DEF AnsweredIsStored, AnswerStored

-----------------------------------------------------------------------------
(* Commits are atomic.                                                     *)

(* As long as recovery has had its way, the backups are older than the     *)
(* image and no two of them are of one time: the newest one is what the    *)
(* last commit found.                                                      *)
StoreInv ==
  used.reuse = 0 /\ used.rename = 0 =>
    /\ \A a, b \in Backups(temps) : a.time = b.time => a = b
    /\ target # None => \A b \in Backups(temps) : b.time < target.time
    /\ pc \in {"commit", "replace", "moved"} =>
         /\ target # None => target.time < clock
         /\ \A b \in Backups(temps) : b.time < clock

(* One backup is the newest, whoever looks for it.                         *)
LEMMA OneNewest ==
  ASSUME NEW files \in SUBSET Temp, \A a, b \in Backups(files) : a.time = b.time => a = b,
         NEW f \in Newest(Backups(files))
  PROVE  /\ Newest(Backups(files)) = {f}
         /\ \A b \in Backups(files) \ {f} : b.time < f.time
<1>1. \A b \in Backups(files) : b.time \in Nat /\ b \in Temp
  BY DEF Backups, Temp
<1>2. f \in Backups(files) /\ \A b \in Backups(files) : b.time <= f.time
  BY DEF Newest
<1>3. \A b \in Backups(files) \ {f} : b.time < f.time
  BY <1>1, <1>2
<1>4. \A b \in Newest(Backups(files)) : b \in Backups(files) /\ f.time <= b.time
  BY <1>2 DEF Newest
<1>5. \A b \in Newest(Backups(files)) : b = f
  BY <1>1, <1>2, <1>3, <1>4
<1> QED
  BY <1>3, <1>5

LEMMA NextStoreInv ==
  ASSUME IInv, IInv', ProcsInv, StoreInv, [Next]_vars
  PROVE  StoreInv'
<1> SUFFICES ASSUME used'.reuse = 0, used'.rename = 0
             PROVE  StoreInv'
  BY DEF StoreInv
<1>0. used.reuse = 0 /\ used.rename = 0 /\ ~Spend("rename", MaxRenameFailures)
  BY UsedGrows, Spent
<1>1. CASE temps' \subseteq temps /\ UNCHANGED target
           /\ pc' \notin {"commit", "replace", "moved"}
  BY <1>0, <1>1 DEF StoreInv, Backups
<1>2. CASE Recover /\ target' # target
  <2>1. PICK b \in Newest(Backups(DeadTemps)) : target' = ImageOf(b) /\ temps' = temps \ {b}
    BY <1>0, <1>2 DEF Recover, Restore
  <2>2. DeadTemps = temps /\ temps \subseteq Temp /\ pc' \notin {"commit", "replace", "moved"}
    BY <1>0, <1>2, AllDead DEF Recover, IInv, TypeOK
  <2>3. \A a \in Backups(temps') : a \in Backups(temps) \ {b}
    BY <2>1 DEF Backups
  <2>4. \A a \in Backups(temps) \ {b} : a.time < b.time
    BY <1>0, <2>1, <2>2, OneNewest DEF StoreInv
  <2>5. target'.time = b.time
    BY <2>1 DEF ImageOf
  <2> QED
    BY <1>0, <2>2, <2>3, <2>4, <2>5 DEF StoreInv
<1>3. CASE \E t \in Thread : CommitBegins(t)
  <2> DEFINE copy == [kind |-> "work", pid |-> worker, time |-> clock + 1, content |-> None]
  <2>1. temps' = temps \cup {copy} /\ clock' = clock + 1 /\ target' = target
    BY <1>3 DEF CommitBegins
  <2>2. Backups(temps') = Backups(temps)
    BY <2>1 DEF Backups
  <2>3. /\ clock \in Nat
        /\ target # None => target.time \in Nat /\ target.time <= clock
        /\ \A b \in Backups(temps) : b.time \in Nat /\ b.time <= clock
    BY DEF IInv, TypeOK, CommitInv, Backups, Temp, File
  <2>4. /\ target' # None => target'.time < clock'
        /\ \A b \in Backups(temps') : b.time < clock'
    BY <2>1, <2>2, <2>3
  <2> HIDE DEF copy
  <2> QED
    BY <1>0, <2>1, <2>2, <2>4 DEF StoreInv
<1>4. CASE WriterSucceeds
  <2> DEFINE copy == [Work EXCEPT !.content = Apply(target.content, Head(calls[holder].todo))]
  <2>1. /\ temps' = (temps \ {Work}) \cup {copy} /\ clock' = clock /\ target' = target
        /\ pc = "commit"
    BY <1>4 DEF WriterSucceeds
  <2>2. Work.kind = "work" /\ copy.kind = "work"
    BY <2>1, WorkIsThere DEF Temp
  <2> HIDE DEF copy
  <2>3. Backups(temps') = Backups(temps)
    BY <2>1, <2>2 DEF Backups
  <2> QED
    BY <1>0, <2>1, <2>3 DEF StoreInv
<1>5. CASE ReplaceMovesTarget
  <2> DEFINE backup == [kind |-> "backup", pid |-> worker, time |-> target.time,
                        content |-> target.content]
  <2>1. /\ temps' = temps \cup {backup} /\ clock' = clock /\ target' = None
        /\ pc = "replace"
    BY <1>5 DEF ReplaceMovesTarget
  <2>2. target # None /\ target.time \in Nat
    BY <2>1 DEF IInv, TypeOK, CommitInv, File
  <2>3. backup.kind = "backup" /\ backup.time = target.time
    OBVIOUS
  <2> HIDE DEF backup
  <2>4. Backups(temps') = Backups(temps) \cup {backup}
    BY <2>1, <2>3 DEF Backups
  <2>5. \A b \in Backups(temps) : b.time \in Nat /\ b.time < target.time
    BY <1>0, <2>2 DEF StoreInv, IInv, TypeOK, Backups, Temp
  <2>6. target.time < clock /\ \A b \in Backups(temps) : b.time < clock
    BY <1>0, <2>1, <2>2 DEF StoreInv
  <2>7. \A a, b \in Backups(temps') : a.time = b.time => a = b
    BY <1>0, <2>2, <2>3, <2>4, <2>5 DEF StoreInv
  <2> QED
    BY <2>1, <2>3, <2>4, <2>6, <2>7 DEF StoreInv
<1>6. CASE ReplaceMovesCopy
  <2>1. target' = ImageOf(Work) /\ temps' = temps \ {Work} /\ pc = "moved" /\ pc' = "tidy"
    BY <1>6 DEF ReplaceMovesCopy
  <2>2. target'.time = clock
    BY <2>1, WorkIsThere DEF ImageOf
  <2> QED
    BY <1>0, <2>1, <2>2 DEF StoreInv, Backups
<1>7. CASE UNCHANGED <<fileVars, pc>>
  BY <1>0, <1>7 DEF StoreInv, fileVars
<1>8. CASE Starting
  <2>1. temps' \subseteq temps /\ pc' \notin {"commit", "replace", "moved"}
    BY <1>8 DEF Starting, StartWorker, Recover, Restore, Clean, Open, OpenFails, fileVars
  <2>2. target' # target => Recover
    BY <1>8 DEF Starting, StartWorker, Clean, Open, OpenFails, fileVars
  <2> QED
    BY <1>1, <1>2, <2>1, <2>2
<1>9. CASE Committing
  <2>1. CASE WriterFails \/ ReplaceFails \/ RemoveBackup \/ Reload \/ ReloadAfterFailure
             \/ ReloadFails
    BY <1>1, <2>1
    DEF WriterFails, ReplaceFails, RemoveBackup, Reload, ReloadAfterFailure, ReloadFails,
        EndsWithError, Unlock, fileVars
  <2> QED
    BY <1>3, <1>4, <1>5, <1>6, <1>9, <2>1 DEF Committing
<1>10. CASE Crash \/ UsesNoSession
  BY <1>1, <1>10 DEF Crash, UsesNoSession, Dies, fileVars
<1>11. CASE \/ \E t \in Thread, q \in Calls : CallArrives(t, q)
            \/ \E p \in Pid : OtherProcessStarts(p) \/ OtherProcessExits(p)
            \/ Stops \/ UNCHANGED vars
  BY <1>7, <1>11 DEF CallArrives, OtherProcessStarts, OtherProcessExits, Stops, vars
<1> QED
  BY <1>8, <1>9, <1>10, <1>11 DEF Next

LEMMA StoreInvHolds ==
  ASSUME MaxReuse = 0, MaxRenameFailures = 0
  PROVE  Spec => [](IInv /\ ProcsInv /\ StoreInv /\ used.reuse = 0 /\ used.rename = 0)
<1> DEFINE Bounded == used.rename <= MaxRenameFailures
<1>1. Init => StoreInv /\ Bounded
  BY ImageCommitAssumption DEF Init, StoreInv, Backups
<1>2. IInv /\ IInv' /\ ProcsInv /\ StoreInv /\ Bounded /\ [Next]_vars
        => StoreInv' /\ Bounded'
  BY NextStoreInv, UsedGrows
<1>3. IInv /\ ProcsInv /\ Bounded => used.reuse = 0 /\ used.rename = 0
  <2>1. used \in Usage => used.reuse \in Nat /\ used.rename \in Nat
    BY DEF Usage
  <2> QED
    BY <2>1 DEF ProcsInv, IInv, TypeOK, Usage
<1> HIDE DEF Bounded
<1> QED
  BY <1>1, <1>2, <1>3, ProcsInvHolds, PTL DEF Spec

(* The contents and the mutations of the abstract volume are those of the  *)
(* image.                                                                  *)
LEMMA StoreContent == Store!Content = Content /\ Store!Mutation = Mutation
BY DEF Store!Content, Content, Store!Node, Node, Store!Mutation, Mutation

LEMMA StoreApplies ==
  ASSUME NEW c, NEW m \in Mutation
  PROVE  /\ Store!Legal(c, m) <=> Legal(c, m)
         /\ Store!Apply(c, m) = Apply(c, m)
<1>1. ASSUME NEW n
      PROVE  Store!Exists(c, n) <=> Exists(c, n)
  BY DEF Store!Exists, Exists
<1>2. ASSUME NEW n, NEW except
      PROVE  Store!Collides(c, n, except) <=> Collides(c, n, except)
  BY <1>1 DEF Store!Collides, Collides
<1>3. CASE m.op = "write"
  <2>1. Store!Legal(c, m) <=> Legal(c, m)
    BY <1>1, <1>3 DEF Store!Legal, Legal, Store!LegalWrite, LegalWrite, Store!Node, Node
  <2>2. Store!Written(c, m.name, m.data) = Written(c, m.name, m.data)
    BY <1>1 DEF Store!Written, Written
  <2> QED
    BY <1>3, <2>1, <2>2 DEF Store!Apply, Apply
<1>4. CASE m.op = "delete"
  <2>1. Store!Legal(c, m) <=> Legal(c, m)
    BY <1>1, <1>4 DEF Store!Legal, Legal
  <2>2. Store!LinkCount(c, c.node[m.name]) = LinkCount(c, c.node[m.name])
    BY DEF Store!LinkCount, LinkCount, Store!NamesOf, NamesOf, Store!Cardinality, Cardinality
  <2>3. Store!Deleted(c, m.name) = Deleted(c, m.name)
    BY <2>2, Zenon DEF Store!Deleted, Deleted
  <2> QED
    BY <1>4, <2>1, <2>3 DEF Store!Apply, Apply
<1>5. CASE m.op = "rename"
  <2>1. Store!Legal(c, m) <=> Legal(c, m)
    BY <1>1, <1>2, <1>5 DEF Store!Legal, Legal, Store!LegalRename, LegalRename
  <2>2. Store!Apply(c, m) = Apply(c, m)
    BY <1>5 DEF Store!Apply, Apply, Store!Renamed, Renamed
  <2> QED
    BY <2>1, <2>2
<1>6. CASE m.op = "link"
  <2>1. Store!Legal(c, m) <=> Legal(c, m)
    BY <1>1, <1>2, <1>6 DEF Store!Legal, Legal, Store!LegalLink, LegalLink
  <2>2. Store!Apply(c, m) = Apply(c, m)
    BY <1>6 DEF Store!Apply, Apply, Store!Linked, Linked
  <2> QED
    BY <2>1, <2>2
<1> QED
  BY <1>3, <1>4, <1>5, <1>6 DEF Mutation

(* While there is no image, the newest backup is what survives.            *)
LEMMA DurableBackup ==
  ASSUME IInv, StoreInv, used.reuse = 0, used.rename = 0, target = None,
         NEW b \in Newest(Backups(temps))
  PROVE  Durable = b.content
<1>1. Newest(Backups(temps)) = {b}
  BY OneNewest DEF StoreInv, IInv, TypeOK
<1> QED
  BY <1>1 DEF Durable

(* The image and the backups say what survives.                            *)
LEMMA SameDurable ==
  ASSUME target' = target, target # None \/ Backups(temps') = Backups(temps)
  PROVE  Durable' = Durable
<1>1. CASE target # None
  BY <1>1 DEF Durable
<1>2. CASE target = None
  <2>1. Newest(Backups(temps')) = Newest(Backups(temps))
    BY <1>2
  <2>2. Durable' = (CHOOSE b \in Newest(Backups(temps')) : TRUE).content
    BY <1>2, Zenon DEF Durable
  <2>3. Durable = (CHOOSE b \in Newest(Backups(temps)) : TRUE).content
    BY <1>2, Zenon DEF Durable
  <2> QED
    BY <2>1, <2>2, <2>3, Zenon
<1> QED
  BY <1>1, <1>2

(* Every step of the worker is one of the abstract volume, or none: the    *)
(* writer begins a mutation, the second move of ReplaceFileW installs it,  *)
(* and whatever else ends a commit forgets it.                             *)
LEMMA NextStore ==
  ASSUME IInv, IInv', ProcsInv, StoreInv, StoreInv', [Next]_vars,
         used.reuse = 0, used.rename = 0, used'.reuse = 0, used'.rename = 0
  PROVE  [Store!Next]_(Store!vars)
<1>1. ASSUME Durable' = Durable, Pending' = None \/ Pending' = Pending
      PROVE  [Store!Next]_(Store!vars)
  BY <1>1 DEF Store!Next, Store!Forget, Store!vars
<1>2. CASE /\ UNCHANGED <<target, temps, clock, pc>>
  <2>1. Pending' = Pending
    BY <1>2, SameWork DEF Pending
  <2> QED
    BY <1>1, <1>2, <2>1, SameDurable
<1>3. ASSUME UNCHANGED target, target # None \/ Backups(temps') = Backups(temps),
             pc' \notin {"replace", "moved"}
      PROVE  [Store!Next]_(Store!vars)
  BY <1>1, <1>3, SameDurable DEF Pending
<1>4. CASE /\ Recover /\ target = None
           /\ \E b \in Newest(Backups(DeadTemps)) : Restore(b)
  <2>1. PICK b \in Newest(Backups(DeadTemps)) : target' = ImageOf(b)
    BY <1>4 DEF Restore
  <2>2. DeadTemps = temps /\ target = None /\ pc' \notin {"replace", "moved"}
    BY <1>4, AllDead DEF Recover
  <2>3. Durable = b.content
    BY <2>1, <2>2, DurableBackup
  <2>4. Durable' = b.content
    <3>1. b \in Backups(temps) /\ b \in Temp
      BY <2>1, <2>2 DEF Newest, Backups, IInv, TypeOK
    <3>2. b.content \in Content /\ b.time \in Nat
      BY <3>1 DEF Temp, IInv, CommitInv
    <3>3. target' # None
      BY <2>1, <3>2, NoneIsNoContent DEF ImageOf, File
    <3> QED
      BY <2>1, <3>3 DEF Durable, ImageOf
  <2> QED
    BY <1>1, <2>2, <2>3, <2>4 DEF Pending
<1>5. CASE Starting
  <2>1. pc' \notin {"replace", "moved"}
    BY <1>5 DEF Starting, StartWorker, Recover, Clean, Open, OpenFails
  <2>2. CASE Recover
    <3>1. \/ target = None /\ \E b \in Newest(Backups(DeadTemps)) : Restore(b)
          \/ UNCHANGED <<target, temps>>
      BY <2>2, Spent DEF Recover
    <3> QED
      BY <1>3, <1>4, <2>1, <2>2, <3>1
  <2>3. CASE Clean
    BY <1>3, <2>1, <2>3 DEF Clean, IInv, CommitInv
  <2>4. CASE \/ \E p \in Pid : StartWorker(p)
             \/ Open \/ OpenFails
    BY <1>3, <2>1, <2>4 DEF StartWorker, Open, OpenFails, fileVars
  <2> QED
    BY <1>5, <2>2, <2>3, <2>4 DEF Starting
<1>6. CASE \E t \in Thread : CommitBegins(t)
  <2> DEFINE copy == [kind |-> "work", pid |-> worker, time |-> clock + 1, content |-> None]
  <2>1. temps' = temps \cup {copy} /\ target' = target /\ pc' = "commit"
    BY <1>6 DEF CommitBegins
  <2>2. Backups(temps') = Backups(temps)
    BY <2>1 DEF Backups
  <2> QED
    BY <1>3, <2>1, <2>2
<1>7. CASE WriterSucceeds
  <2> DEFINE mutation == Head(calls[holder].todo)
  <2>1. /\ pc = "commit" /\ pc' = "replace" /\ target # None /\ target' = target
        /\ Legal(target.content, mutation)
    BY <1>7 DEF WriterSucceeds
  <2>2. mutation \in Mutation
    BY <2>1, HolderHasWork DEF Busy
  <2>3. Pending' = Apply(target.content, mutation)
    BY <1>7, <2>1, FinishedWork DEF Pending
  <2>4. Pending = None /\ Durable = target.content /\ Durable' = Durable
    BY <2>1 DEF Pending, Durable
  <2> HIDE DEF mutation
  <2>5. Store!Begin
    BY <2>1, <2>2, <2>3, <2>4, StoreContent, StoreApplies DEF Store!Begin
  <2> QED
    BY <2>5 DEF Store!Next
<1>8. CASE WriterFails \/ ReplaceFails
  <2>1. temps' = temps \ {Work} /\ target' = target /\ pc' = "failed"
        /\ pc \in {"commit", "replace", "moved"}
    BY <1>8 DEF WriterFails, ReplaceFails
  <2>2. Backups(temps') = Backups(temps)
    BY <2>1, WorkIsThere DEF Backups
  <2> QED
    BY <1>3, <2>1, <2>2
<1>9. CASE ReplaceMovesTarget
  <2> DEFINE backup == [kind |-> "backup", pid |-> worker, time |-> target.time,
                        content |-> target.content]
  <2>1. /\ pc = "replace" /\ pc' = "moved" /\ target # None /\ target' = None
        /\ temps' = temps \cup {backup} /\ clock' = clock
    BY <1>9 DEF ReplaceMovesTarget, IInv, CommitInv
  <2>2. Pending' = Pending
    BY <2>1, SameWork DEF Pending
  <2>3. backup.kind = "backup" /\ backup.time = target.time /\ backup.content = target.content
    OBVIOUS
  <2> HIDE DEF backup
  <2>4. Backups(temps') = Backups(temps) \cup {backup}
    BY <2>1, <2>3 DEF Backups
  <2>5. backup \in Newest(Backups(temps'))
    <3>1. \A b \in Backups(temps) : b.time \in Nat /\ b.time < target.time
      BY <2>1 DEF StoreInv, IInv, TypeOK, Backups, Temp
    <3>2. target.time \in Nat
      BY <2>1 DEF IInv, TypeOK, File
    <3> QED
      BY <2>3, <2>4, <3>1, <3>2 DEF Newest
  <2>6. Newest(Backups(temps')) = {backup}
    <3>1. /\ temps' \in SUBSET Temp
          /\ \A a, b \in Backups(temps') : a.time = b.time => a = b
      BY DEF StoreInv, IInv, TypeOK
    <3> QED
      BY <2>5, <3>1, OneNewest
  <2>7. Durable' = target.content /\ Durable = target.content
    BY <2>1, <2>3, <2>6 DEF Durable
  <2> QED
    BY <1>1, <2>2, <2>7
<1>10. CASE ReplaceMovesCopy
  <2>1. pc = "moved" /\ pc' = "tidy" /\ target' = ImageOf(Work)
    BY <1>10 DEF ReplaceMovesCopy
  <2>2. Pending = Work.content /\ Pending # None /\ Pending' = None
    BY <2>1, WorkIsThere, NoneIsNoContent DEF Pending
  <2>3. Durable' = Pending
    <3>1. target' # None
      BY <2>1 DEF IInv, CommitInv
    <3> QED
      BY <2>1, <2>2, <3>1 DEF Durable, ImageOf
  <2>4. Store!Install
    BY <2>2, <2>3 DEF Store!Install
  <2> QED
    BY <2>4 DEF Store!Next
<1>11. CASE RemoveBackup \/ Reload \/ ReloadAfterFailure \/ ReloadFails
  <2>1. UNCHANGED target /\ pc' \notin {"replace", "moved"}
    BY <1>11
    DEF RemoveBackup, Reload, ReloadAfterFailure, ReloadFails, EndsWithError, Unlock, fileVars
  <2>2. CASE RemoveBackup
    BY <1>3, <2>1, <2>2 DEF RemoveBackup, IInv, CommitInv
  <2>3. CASE Reload \/ ReloadAfterFailure \/ ReloadFails
    BY <1>3, <2>1, <2>3 DEF Reload, ReloadAfterFailure, ReloadFails, EndsWithError, fileVars
  <2> QED
    BY <1>11, <2>2, <2>3
<1>12. CASE Crash \/ UsesNoSession
  BY <1>3, <1>12 DEF Crash, UsesNoSession, Dies, fileVars
<1>13. CASE \/ \E t \in Thread, q \in Calls : CallArrives(t, q)
            \/ \E p \in Pid : OtherProcessStarts(p) \/ OtherProcessExits(p)
            \/ Stops \/ UNCHANGED vars
  BY <1>2, <1>13 DEF CallArrives, OtherProcessStarts, OtherProcessExits, Stops, vars, fileVars
<1> QED
  BY <1>5, <1>6, <1>7, <1>8, <1>9, <1>10, <1>11, <1>12, <1>13 DEF Next, Committing

(* The worker implements the abstract volume: the image changes by whole   *)
(* mutations only, whatever the worker dies in, provided that recovery can *)
(* rename the newest backup and sees the files of every dead worker.       *)
THEOREM CommitsAreAtomic ==
  ASSUME MaxReuse = 0, MaxRenameFailures = 0
  PROVE  Spec => OldOrNew
<1> DEFINE Inv == IInv /\ ProcsInv /\ StoreInv /\ used.reuse = 0 /\ used.rename = 0
<1>1. Init => Store!Init
  <2>1. Init => Durable = FirstContent /\ Pending = None
    BY ImageCommitAssumption, NoneIsNoContent DEF Init, Durable, Pending, File
  <2> QED
    BY <2>1, ImageCommitAssumption, StoreContent DEF Store!Init
<1>2. Inv /\ Inv' /\ [Next]_vars => [Store!Next]_(Store!vars)
  BY NextStore
<1>3. Spec => []Inv
  BY StoreInvHolds
<1> HIDE DEF Inv
<1>4. Spec => Store!Spec
  BY <1>1, <1>2, <1>3, PTL DEF Spec, Store!Spec
<1> QED
  BY <1>4 DEF OldOrNew

=============================================================================
