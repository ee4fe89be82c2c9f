----------------------------- MODULE ImageCommit -----------------------------
(***************************************************************************)
(* How apfs_winfs_worker changes an image file: the writer commits one     *)
(* mutation into a copy of the image, ReplaceFileW puts the copy in the    *)
(* image's place, and the read session is opened again.  A worker can die  *)
(* at any point; the next one decides from the names and the times of the  *)
(* files beside the image what to restore and what to remove.              *)
(*                                                                         *)
(* Several dispatcher threads call the worker.  A commit holds ioMutex_    *)
(* from its first to its last step; a rename that replaces a file is two   *)
(* commits and releases the mutex in between.                              *)
(*                                                                         *)
(* Abstracted: the content of the image is one directory (module Volume),  *)
(* the time of a file is the number of the commit that wrote it.           *)
(***************************************************************************)
EXTENDS Volume, Sequences

CONSTANTS
  Pid,          (* process identifiers                                       *)
  Thread,       (* dispatcher threads of a worker                            *)
  Calls,        (* the calls threads make: mutations, and "replace"          *)
  FirstContent, (* what the image contains at first                          *)
  MaxCalls, MaxCrashes, MaxFailures, MaxRenameFailures, MaxReuse  (* bounds for TLC *)

Replace == [op : {"replace"}, from : Name, to : Name]

ASSUME ImageCommitAssumption ==
  /\ Calls \subseteq Mutation \cup Replace
  /\ FirstContent \in Content
  /\ None \notin Pid \cup Thread
  /\ None \notin Mutation \cup Replace
  /\ {MaxCalls, MaxCrashes, MaxFailures, MaxRenameFailures, MaxReuse} \subseteq Nat

VARIABLES
  target,      (* the image file: content and time, or None                  *)
  temps,       (* the worker's files beside the image                        *)
  procs,       (* who has a process identifier                               *)
  worker,      (* the identifier of the running worker, or None              *)
  pc,          (* what the worker is doing                                   *)
  session,     (* there is a read session                                    *)
  calls,       (* per thread: the call and the mutations it still has to do  *)
  holder,      (* the thread that holds ioMutex_, or None                    *)
  answer,      (* per thread: how its last call ended                        *)
  clock,       (* the time                                                   *)
  interrupted, (* history: names that were being replaced when a worker died *)
  used         (* how much of each bound is used up                          *)

fileVars == <<target, temps, clock>>
procVars == <<procs, worker>>
callVars == <<calls, holder, answer>>
vars == <<fileVars, procVars, pc, session, callVars, interrupted, used>>

File == [content : Content, time : Nat]

ASSUME NoneIsNoContent == None \notin Content /\ None \notin File

(* The content is None while the writer is still at work on the copy. *)
Temp == [kind : {"work", "backup"}, pid : Pid, time : Nat, content : Content \cup {None}]

(* A thread holds ioMutex_. *)
Busy == {"commit", "replace", "moved", "tidy", "reload", "failed"}

Points == {"down", "recover", "clean", "open", "ready"} \cup Busy

Call == [request : Mutation \cup Replace, todo : Seq(Mutation)]

TypeOK ==
  /\ target \in File \cup {None}
  /\ temps \subseteq Temp
  /\ procs \in [Pid -> {"free", "worker", "other"}]
  /\ worker \in Pid \cup {None}
  /\ pc \in Points
  /\ session \in BOOLEAN
  /\ calls \in [Thread -> Call \cup {None}]
  /\ holder \in Thread \cup {None}
  /\ answer \in [Thread -> {"none", "ok", "error"}]
  /\ clock \in Nat
  /\ interrupted \subseteq Name
  /\ used \in [call : Nat, crash : Nat, failure : Nat, rename : Nat, reuse : Nat]

-----------------------------------------------------------------------------
Backups(files) == {f \in files : f.kind = "backup"}

Newest(files) == {f \in files : \A g \in files : g.time <= f.time}

ImageOf(temp) == [content |-> temp.content, time |-> temp.time]

(* What survives: the image, or the latest backup while there is no image. *)
Durable ==
  IF target # None THEN target.content
  ELSE (CHOOSE b \in Newest(Backups(temps)) : TRUE).content

Spend(kind, bound) == used[kind] < bound /\ used' = [used EXCEPT ![kind] = @ + 1]

(* processIsAlive: also true of the worker itself and of a process that    *)
(* has been given the identifier of a dead worker.                         *)
DeadTemps == {f \in temps : procs[f.pid] = "free"}

Init ==
  /\ target = [content |-> FirstContent, time |-> 0]
  /\ temps = {}
  /\ procs = [p \in Pid |-> "free"]
  /\ worker = None
  /\ pc = "down"
  /\ session = FALSE
  /\ calls = [t \in Thread |-> None]
  /\ holder = None
  /\ answer = [t \in Thread |-> "none"]
  /\ clock = 0
  /\ interrupted = {}
  /\ used = [call |-> 0, crash |-> 0, failure |-> 0, rename |-> 0, reuse |-> 0]

-----------------------------------------------------------------------------
(* Processes.                                                              *)

(* The service starts a worker.  Whoever gets the identifier of a dead     *)
(* worker whose files are still there reuses it.                           *)
ReusesPid(p) ==
  IF \E f \in temps : f.pid = p THEN Spend("reuse", MaxReuse) ELSE UNCHANGED used

StartWorker(p) ==
  /\ worker = None
  /\ procs[p] = "free"
  /\ ReusesPid(p)
  /\ procs' = [procs EXCEPT ![p] = "worker"]
  /\ worker' = p
  /\ pc' = "recover"
  /\ UNCHANGED <<fileVars, session, callVars, interrupted>>

OtherProcessStarts(p) ==
  /\ procs[p] = "free"
  /\ \E f \in temps : f.pid = p
  /\ ReusesPid(p)
  /\ procs' = [procs EXCEPT ![p] = "other"]
  /\ UNCHANGED <<fileVars, worker, pc, session, callVars, interrupted>>

OtherProcessExits(p) ==
  /\ procs[p] = "other"
  /\ procs' = [procs EXCEPT ![p] = "free"]
  /\ UNCHANGED <<fileVars, worker, pc, session, callVars, interrupted, used>>

BeingReplaced ==
  {calls[t].request.to :
     t \in {u \in Thread : calls[u] # None /\ calls[u].request.op = "replace"}}

Dies ==
  /\ procs' = [procs EXCEPT ![worker] = "free"]
  /\ worker' = None
  /\ pc' = "down"
  /\ session' = FALSE
  /\ calls' = [t \in Thread |-> None]
  /\ holder' = None
  /\ answer' = [t \in Thread |-> "none"]
  /\ interrupted' = interrupted \cup BeingReplaced
  /\ UNCHANGED fileVars

Crash ==
  /\ worker # None
  /\ Dies
  /\ Spend("crash", MaxCrashes)

(* Any use of the read session after a reload that failed. *)
UsesNoSession ==
  /\ pc = "ready"
  /\ ~session
  /\ Dies
  /\ UNCHANGED used

-----------------------------------------------------------------------------
(* Recovery.                                                               *)

Restore(b) == target' = ImageOf(b) /\ temps' = temps \ {b}

RecoverOldest ==  \* mutant: the list is read from its end
  LET backups == Backups(DeadTemps)
  IN  /\ pc = "recover"
      /\ \/ /\ target = None
            /\ \E b \in backups : Restore(b) /\ \A c \in backups : b.time <= c.time
         \/ /\ target # None \/ backups = {}
            /\ UNCHANGED <<target, temps>>
      /\ pc' = IF target' = None THEN "open" ELSE "clean"
      /\ UNCHANGED <<clock, procVars, session, callVars, interrupted, used>>

RecoverNothing ==  \* mutant: the image is never put back
  /\ pc = "recover"
  /\ pc' = IF target = None THEN "open" ELSE "clean"
  /\ UNCHANGED <<fileVars, procVars, session, callVars, interrupted, used>>

(* Without an image the newest backup of a dead worker takes its place.    *)
(* When it cannot be renamed the next one is tried.                        *)
Recover ==
  LET backups == Backups(DeadTemps)
  IN  /\ pc = "recover"
      /\ \/ /\ target = None
            /\ \E b \in Newest(backups) : Restore(b)
            /\ UNCHANGED used
         \/ /\ target = None /\ backups # {}
            /\ \/ \E b \in backups \ Newest(backups) : Restore(b)
               \/ UNCHANGED <<target, temps>>
            /\ Spend("rename", MaxRenameFailures)
         \/ /\ target # None \/ backups = {}
            /\ UNCHANGED <<target, temps, used>>
      /\ pc' = IF target' = None THEN "open" ELSE "clean"
      /\ UNCHANGED <<clock, procVars, session, callVars, interrupted>>

(* With an image all files of dead workers go; a removal that fails is     *)
(* ignored.                                                                *)
Clean ==
  /\ pc = "clean"
  /\ \/ temps' = temps \ DeadTemps /\ UNCHANGED used
     \/ \E kept \in SUBSET DeadTemps \ {{}} :
          /\ temps' = temps \ (DeadTemps \ kept)
          /\ Spend("failure", MaxFailures)
  /\ pc' = "open"
  /\ UNCHANGED <<target, clock, procVars, session, callVars, interrupted>>

Open ==
  /\ pc = "open"
  /\ target # None
  /\ pc' = "ready"
  /\ session' = TRUE
  /\ interrupted' = {}
  /\ UNCHANGED <<fileVars, procVars, callVars, used>>

OpenFails ==
  /\ pc = "open"
  /\ target = None
  /\ procs' = [procs EXCEPT ![worker] = "free"]
  /\ worker' = None
  /\ pc' = "down"
  /\ UNCHANGED <<fileVars, session, callVars, interrupted, used>>

-----------------------------------------------------------------------------
(* Calls.                                                                  *)

(* A rename that replaces deletes a file that has the new name first,      *)
(* unless it is the same inode.                                            *)
Mutations(q) ==
  IF q.op # "replace" THEN <<q>>
  ELSE LET rename == [op |-> "rename", from |-> q.from, to |-> q.to]
       IN  IF /\ Exists(target.content, q.to)
              /\ target.content.node[q.to] # target.content.node[q.from]
           THEN <<[op |-> "delete", name |-> q.to], rename>>
           ELSE <<rename>>

(* WinFsp runs structural calls alone; writes go on beside them. *)
Structural(q) == q.op # "write"

Subject(q) == IF q.op \in {"write", "delete"} THEN q.name ELSE q.from

(* Before it commits, a call resolves its names in the read session, which *)
(* a write of staged data does without.                                    *)
CallArrives(t, q) ==
  /\ pc \notin {"down", "recover", "clean", "open"}
  /\ calls[t] = None
  /\ Structural(q) =>
       \A u \in Thread : calls[u] # None => ~Structural(calls[u].request)
  /\ Structural(q) => session /\ holder = None /\ Exists(target.content, Subject(q))
  /\ LET todo == Mutations(q)
     IN  calls' = [calls EXCEPT ![t] =
           [request |-> IF Len(todo) = 2 THEN q ELSE Head(todo), todo |-> todo]]
  /\ answer' = [answer EXCEPT ![t] = "none"]
  /\ Spend("call", MaxCalls)
  /\ UNCHANGED <<fileVars, procVars, pc, session, holder, interrupted>>

(* The copy of the commit in progress: its name is a fresh UUID. *)
Work == CHOOSE f \in temps : f.kind = "work" /\ f.time = clock

(* Lock ioMutex_, drop the session, copy the image. *)
CommitBegins(t) ==
  /\ pc = "ready"
  /\ calls[t] # None
  /\ holder' = t
  /\ session' = FALSE
  /\ clock' = clock + 1
  /\ temps' = temps \cup
       {[kind |-> "work", pid |-> worker, time |-> clock + 1, content |-> None]}
  /\ pc' = "commit"
  /\ UNCHANGED <<target, procVars, calls, answer, interrupted, used>>

WriterSucceeds ==
  LET mutation == Head(calls[holder].todo)
  IN  /\ pc = "commit"
      /\ target # None
      /\ Legal(target.content, mutation)
      /\ temps' = (temps \ {Work})
                    \cup {[Work EXCEPT !.content = Apply(target.content, mutation)]}
      /\ pc' = "replace"
      /\ UNCHANGED <<target, clock, procVars, session, callVars, interrupted, used>>

WriterFailsKeepingCopy ==  \* mutant: the copy is left behind
  /\ pc = "commit"
  /\ IF target # None /\ Legal(target.content, Head(calls[holder].todo))
     THEN Spend("failure", MaxFailures)
     ELSE UNCHANGED used
  /\ pc' = "failed"
  /\ UNCHANGED <<fileVars, procVars, session, callVars, interrupted>>

WriterFails ==
  /\ pc = "commit"
  /\ IF target # None /\ Legal(target.content, Head(calls[holder].todo))
     THEN Spend("failure", MaxFailures)
     ELSE UNCHANGED used
  /\ temps' = temps \ {Work}
  /\ pc' = "failed"
  /\ UNCHANGED <<target, clock, procVars, session, callVars, interrupted>>

(* ReplaceFileW: the image becomes the backup, the copy becomes the image. *)
ReplaceMovesTarget ==
  /\ pc = "replace"
  /\ temps' = temps \cup {[kind |-> "backup", pid |-> worker,
                            time |-> target.time, content |-> target.content]}
  /\ target' = None
  /\ pc' = "moved"
  /\ UNCHANGED <<clock, procVars, session, callVars, interrupted, used>>

ReplaceMovesCopy ==
  /\ pc = "moved"
  /\ target' = ImageOf(Work)
  /\ temps' = temps \ {Work}
  /\ pc' = "tidy"
  /\ UNCHANGED <<clock, procVars, session, callVars, interrupted, used>>

ReplaceFailsAnswersOk ==  \* mutant: the result of ReplaceFileW is not looked at
  /\ pc \in {"replace", "moved"}
  /\ Spend("failure", MaxFailures)
  /\ temps' = temps \ {Work}
  /\ pc' = "reload"
  /\ UNCHANGED <<target, clock, procVars, session, callVars, interrupted>>

ReplaceFailsRemovingBackup ==  \* mutant: the error path tidies up as the normal one does
  /\ pc \in {"replace", "moved"}
  /\ Spend("failure", MaxFailures)
  /\ temps' = temps \ ({Work} \cup {f \in Backups(temps) : f.pid = worker})
  /\ pc' = "failed"
  /\ UNCHANGED <<target, clock, procVars, session, callVars, interrupted>>

(* ReplaceFileW gives up before its first or after its first move. *)
ReplaceFails ==
  /\ pc \in {"replace", "moved"}
  /\ Spend("failure", MaxFailures)
  /\ temps' = temps \ {Work}
  /\ pc' = "failed"
  /\ UNCHANGED <<target, clock, procVars, session, callVars, interrupted>>

(* Whether the removal of the backup succeeds is not looked at. *)
RemoveBackup ==
  /\ pc = "tidy"
  /\ \/ /\ temps' = temps \ Newest({f \in Backups(temps) : f.pid = worker})
        /\ UNCHANGED used
     \/ /\ Spend("failure", MaxFailures)
        /\ UNCHANGED temps
  /\ pc' = "reload"
  /\ UNCHANGED <<target, clock, procVars, session, callVars, interrupted>>

Unlock ==
  /\ holder' = None
  /\ pc' = "ready"

(* A call whose last mutation is done answers that it has succeeded. *)
Reload ==
  LET rest == Tail(calls[holder].todo)
  IN  /\ pc = "reload"
      /\ session' = TRUE
      /\ IF rest = <<>>
         THEN /\ calls' = [calls EXCEPT ![holder] = None]
              /\ answer' = [answer EXCEPT ![holder] = "ok"]
         ELSE /\ calls' = [calls EXCEPT ![holder].todo = rest]
              /\ UNCHANGED answer
      /\ Unlock
      /\ UNCHANGED <<fileVars, procVars, interrupted, used>>

EndsWithErrorLocked ==  \* mutant: an early return that keeps the mutex
  /\ calls' = [calls EXCEPT ![holder] = None]
  /\ answer' = [answer EXCEPT ![holder] = "error"]
  /\ pc' = "failed"
  /\ UNCHANGED <<fileVars, procVars, holder, interrupted>>

(* After a failed commit, or when the image cannot be opened again, the    *)
(* call ends with an error.                                                *)
EndsWithError ==
  /\ calls' = [calls EXCEPT ![holder] = None]
  /\ answer' = [answer EXCEPT ![holder] = "error"]
  /\ Unlock
  /\ UNCHANGED <<fileVars, procVars, interrupted>>

ReloadAfterFailure ==
  /\ pc = "failed"
  /\ target # None
  /\ session' = TRUE
  /\ EndsWithError
  /\ UNCHANGED used

ReloadFails ==
  /\ pc \in {"reload", "failed"}
  /\ IF target = None THEN UNCHANGED used ELSE Spend("failure", MaxFailures)
  /\ session' = FALSE
  /\ EndsWithError

Committing ==
  \/ \E t \in Thread : CommitBegins(t)
  \/ WriterSucceeds \/ WriterFails
  \/ ReplaceMovesTarget \/ ReplaceMovesCopy \/ ReplaceFails \/ RemoveBackup
  \/ Reload \/ ReloadAfterFailure \/ ReloadFails

Starting ==
  \/ \E p \in Pid : StartWorker(p)
  \/ Recover \/ Clean \/ Open \/ OpenFails

Stops ==
  /\ pc = "ready"
  /\ used.call = MaxCalls
  /\ \A t \in Thread : calls[t] = None
  /\ UNCHANGED vars

Next ==
  \/ Starting \/ Committing
  \/ \E t \in Thread, q \in Calls : CallArrives(t, q)
  \/ \E p \in Pid : OtherProcessStarts(p) \/ OtherProcessExits(p)
  \/ Crash \/ UsesNoSession \/ Stops

Spec == Init /\ [][Next]_vars

(* A worker's threads run, the service starts a worker again when one is   *)
(* gone, and a process that has got a dead worker's identifier ends.       *)
Fairness ==
  /\ WF_vars(Starting)
  /\ WF_vars(Committing)
  /\ \A p \in Pid : WF_vars(OtherProcessExits(p))

FairSpec == Spec /\ Fairness

-----------------------------------------------------------------------------
(* Properties.                                                             *)

Pending == IF pc \in {"replace", "moved"} THEN Work.content ELSE None

Store == INSTANCE AtomicVolume WITH stored <- Durable, pending <- Pending

(* The image changes by whole mutations only: a worker that dies at any    *)
(* point of a commit leaves the old or the new image to the next one, and  *)
(* recovery never brings back an older one.                                *)
OldOrNew == Store!Spec

(* There always is an image or a backup that recovery can put in its place.*)
ImageNeverLost == target = None => Backups(temps) # {}

(* What keeps ImageNeverLost true from step to step: while there is no     *)
(* image, the commit in progress has a finished copy and a backup, and no  *)
(* other step removes a backup before there is an image again.             *)
CommitInv ==
  /\ pc # "down" => worker # None
  /\ pc \in Busy => holder # None /\ calls[holder] # None
  /\ \A t \in Thread : calls[t] # None => calls[t].todo # <<>>
  /\ \A f \in temps : f.time <= clock
  /\ target # None => target.time <= clock
  /\ \A f, g \in temps : f.kind = "work" /\ g.kind = "work" /\ f.time = g.time => f = g
  /\ \A b \in Backups(temps) : b.content # None
  /\ pc \in {"clean", "replace", "tidy", "reload"} => target # None
  /\ pc \in {"commit", "replace", "moved"} =>
       \E f \in temps : /\ f.kind = "work" /\ f.time = clock
                        /\ pc # "commit" => f.content # None
  /\ ImageNeverLost

Done(m, c) ==
  CASE m.op = "write"  -> Exists(c, m.name) /\ DataOf(c, m.name) = m.data
    [] m.op = "delete" -> ~Exists(c, m.name)
    [] m.op = "rename" -> Exists(c, m.to) /\ (m.from = m.to \/ ~Exists(c, m.from))
    [] m.op = "link"   -> Exists(c, m.to) /\ c.node[m.to] = c.node[m.from]

(* A call that answers that it has succeeded has changed what survives.    *)
AnsweredIsStored ==
  [][\A t \in Thread :
       calls[t] # None /\ answer[t] = "none" /\ answer'[t] = "ok"
         => Done(Head(calls[t].todo), Durable')]_vars

(* A worker at rest keeps no copy of the image, unless a removal failed.   *)
RestingKeepsNoCopy ==
  pc = "ready" /\ used.failure = 0 /\ used.reuse = 0 => temps = {}

(* A name that was being replaced when a worker died still stands for the  *)
(* old file or for the new one.                                            *)
ReplacedNameSurvives == \A n \in interrupted : Exists(Durable, n)

(* However a worker ends, a later one serves the image again.              *)
Recovers == pc = "down" ~> pc = "ready" /\ session

(* Every call ends: with an answer, or with the worker.                    *)
CallsEnd == \A t \in Thread : calls[t] # None ~> calls[t] = None

=============================================================================
