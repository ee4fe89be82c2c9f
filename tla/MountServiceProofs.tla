-------------------------- MODULE MountServiceProofs --------------------------
(***************************************************************************)
(* Theorems of MountService, for every value of its constants.             *)
(*                                                                         *)
(* TypeCorrect is the type invariant; that the functions of MountPolicy    *)
(* map mount tables to mount tables is proved in MountPolicyProofs.        *)
(* OneWorker is the invariant OneWorkerPerTarget, by way of the inductive  *)
(* invariant WorkerInv, and StopKillsWorkers says what a stop leaves.      *)
(*                                                                         *)
(* RegionsServedOnce and OneWorkerEachRegion are OneWorkerPerRegion, which *)
(* needs that names of a region are resolved by the time workers start:    *)
(* because no disk arrives after the scan, or because there is one name.   *)
(* LettersStayApart and PoliciesKept say what the file holds while the     *)
(* service is its only writer; WriterInv says that the loop then works on  *)
(* what the file holds.                                                    *)
(***************************************************************************)
EXTENDS MountService, MountPolicyProofs

-----------------------------------------------------------------------------
(* The policy saved for a set of names is a policy. *)
LEMMA SavedPolicyType ==
  ASSUME NEW m \in Mounts, NEW names
  PROVE  SavedPolicy(m, names) \in PolicySet \cup {None}
<1>1. CASE names \cap Configured(m) = {}
  BY <1>1 DEF SavedPolicy
<1>2. CASE names \cap Configured(m) # {}
  <2> DEFINE t == CHOOSE t \in names \cap Configured(m) : TRUE
  <2>1. t \in names \cap Configured(m)
    BY <1>2
  <2>2. m[t] \in Entry
    BY <2>1 DEF Configured, Mounts
  <2>3. SavedPolicy(m, names) = Policy(m[t])
    BY <1>2 DEF SavedPolicy
  <2> HIDE DEF t
  <2>4. Policy(m[t]) \in PolicySet
    BY <2>2 DEF Policy, PolicySet, Entry
  <2> QED
    BY <2>3, <2>4
<1> QED
  BY <1>1, <1>2

-----------------------------------------------------------------------------
(* The pieces of the actions.                                              *)

(* The configurations of the running workers are a mount table. *)
LEMMA PreferredType ==
  ASSUME workers \subseteq Handle
  PROVE  PreferredMounts \in Mounts
<1>1. SUFFICES ASSUME NEW t \in Target
               PROVE  PreferredMounts[t] \in Entry \cup {None}
  BY DEF PreferredMounts, Mounts
<1>2. CASE \E h \in workers : h.target = t
  <2> DEFINE k == CHOOSE h \in workers : h.target = t
  <2>1. k \in workers
    BY <1>2
  <2>2. PreferredMounts[t] = k.entry
    BY <1>2 DEF PreferredMounts
  <2> HIDE DEF k
  <2> QED
    BY <2>1, <2>2 DEF Handle
<1>3. CASE ~\E h \in workers : h.target = t
  BY <1>3 DEF PreferredMounts
<1> QED
  BY <1>2, <1>3

LEMMA SpendType ==
  ASSUME used \in Bounds, NEW kind \in {"edit", "media", "fault", "crash", "stop"},
         NEW bound, Spend(kind, bound)
  PROVE  used' \in Bounds
BY DEF Spend, Bounds

(* Opening mounts.json for writing. *)
LEMMA TruncateType ==
  ASSUME TypeOK, NEW a \in Actor, TruncateConfig(a)
  PROVE  /\ writing' \in [Actor -> Writing \cup {None}]
         /\ file' \in Mounts \cup {Torn}
         /\ intent' \in [Region -> PolicySet \cup {None}]
<1>1. writing[a] \in Writing
  BY DEF TypeOK, TruncateConfig
<1>2. [writing[a] EXCEPT !.truncated = TRUE] \in Writing
  BY <1>1 DEF Writing
<1>3. writing' = [writing EXCEPT ![a] = [writing[a] EXCEPT !.truncated = TRUE]]
  BY DEF TruncateConfig, TypeOK
<1>4. writing' \in [Actor -> Writing \cup {None}]
  BY <1>2, <1>3 DEF TypeOK
<1> QED
  BY <1>4 DEF TypeOK, TruncateConfig

(* Writing the contents of mounts.json. *)
LEMMA WriteType ==
  ASSUME TypeOK, NEW a \in Actor, WriteConfig(a)
  PROVE  /\ writing' \in [Actor -> Writing \cup {None}]
         /\ file' \in Mounts \cup {Torn}
         /\ intent' \in [Region -> PolicySet \cup {None}]
<1>1. writing[a] \in Writing
  BY DEF TypeOK, WriteConfig
<1>2. writing[a].mounts \in Mounts
  BY <1>1 DEF Writing
<1>3. file' \in Mounts \cup {Torn}
  BY <1>2 DEF WriteConfig
<1>4. writing' \in [Actor -> Writing \cup {None}]
  BY DEF TypeOK, WriteConfig
<1>5. \A names : SavedPolicy(writing[a].mounts, names) \in PolicySet \cup {None}
  BY <1>2, SavedPolicyType
<1>6. intent' \in [Region -> PolicySet \cup {None}]
  BY <1>5 DEF TypeOK, WriteConfig
<1> QED
  BY <1>3, <1>4, <1>6

(* The beginning of an edit. *)
LEMMA BeginEditType ==
  ASSUME TypeOK, NEW a \in Actor, NEW q \in Request, BeginEdit(a, q)
  PROVE  /\ writing' \in [Actor -> Writing \cup {None}]
         /\ UNCHANGED <<file, intent>>
         /\ used' \in Bounds
<1> DEFINE before == IF q.op = "clear_mounts" THEN NoMounts ELSE file
           after == Applied(before, q)
           touched == IF q.op = "clear_mounts" THEN Target
                      ELSE {q.target} \cup {t \in Target : after[t] # before[t]}
<1>1. before \in Mounts
  BY DEF TypeOK, BeginEdit, NoMounts, Mounts
<1>2. ~Refused(before, q, a = "service", media, LettersInUse)
  BY DEF BeginEdit
<1>3. writing' = [writing EXCEPT ![a] =
                   [mounts |-> after, touched |-> touched, truncated |-> FALSE]]
  BY DEF BeginEdit
<1> HIDE DEF before
<1>4. after \in Mounts
  BY <1>1, <1>2, AppliedType
<1>5. touched \subseteq Target
  <2>1. q.op # "clear_mounts" => q.target \in Target
    BY DEF Request
  <2> QED
    BY <2>1
<1> HIDE DEF after, touched
<1>6. [mounts |-> after, touched |-> touched, truncated |-> FALSE] \in Writing
  BY <1>4, <1>5 DEF Writing
<1>7. writing' \in [Actor -> Writing \cup {None}]
  BY <1>3, <1>6 DEF TypeOK
<1>8. used' \in Bounds
  BY SpendType DEF TypeOK, BeginEdit
<1> QED
  BY <1>7, <1>8 DEF BeginEdit

(* startWorker and stopWorker. *)
LEMMA StartWorkerType ==
  ASSUME TypeOK, NEW h \in Handle, StartWorker(h)
  PROVE  /\ workers' \subseteq Handle
         /\ procs' \in [Pid -> Proc \cup {None}]
         /\ orphans' = orphans
         /\ used' \in Bounds
<1>1. ASSUME NEW p \in FreePids(h),
             procs' = [procs EXCEPT ![p] =
                         [target |-> h.target, entry |-> h.entry, mounted |-> FALSE]],
             workers' = (workers \ {h}) \cup {[h EXCEPT !.pid = p, !.cooling = TRUE]},
             UNCHANGED <<orphans, used>>
      PROVE  /\ workers' \subseteq Handle
             /\ procs' \in [Pid -> Proc \cup {None}]
             /\ orphans' = orphans
             /\ used' \in Bounds
  <2>1. p \in Pid
    BY DEF FreePids
  <2>2. [target |-> h.target, entry |-> h.entry, mounted |-> FALSE] \in Proc
    BY DEF Handle, Proc
  <2>3. [h EXCEPT !.pid = p, !.cooling = TRUE] \in Handle
    BY <2>1 DEF Handle
  <2> QED
    BY <1>1, <2>1, <2>2, <2>3 DEF TypeOK
<1>2. ASSUME workers' = (workers \ {h}) \cup {[h EXCEPT !.pid = None, !.cooling = TRUE]},
             Spend("fault", MaxFaults),
             UNCHANGED <<procs, orphans>>
      PROVE  /\ workers' \subseteq Handle
             /\ procs' \in [Pid -> Proc \cup {None}]
             /\ orphans' = orphans
             /\ used' \in Bounds
  <2>1. [h EXCEPT !.pid = None, !.cooling = TRUE] \in Handle
    BY DEF Handle
  <2>2. used' \in Bounds
    BY <1>2, SpendType DEF TypeOK
  <2> QED
    BY <1>2, <2>1, <2>2 DEF TypeOK
<1> QED
  BY <1>1, <1>2 DEF StartWorker

LEMMA StopWorkerType ==
  ASSUME TypeOK, NEW h \in workers, StopWorker(h)
  PROVE  /\ workers' \subseteq Handle
         /\ procs' \in [Pid -> Proc \cup {None}]
         /\ orphans' = orphans
BY DEF TypeOK, StopWorker

(* The end of a sync. *)
LEMMA EndSyncType ==
  ASSUME TypeOK, workers' \subseteq Handle, EndSync
  PROVE  /\ scm' \in ScmState
         /\ pc' \in Points
         /\ ticks' \in Nat
         /\ booting' \in BOOLEAN
         /\ deviceSync' \in BOOLEAN
         /\ desired' \in Mounts
         /\ due' \subseteq Handle
<1>1. desired' \in Mounts
  BY DEF EndSync, NoMounts, Mounts
<1>2. CASE booting
  BY <1>1, <1>2 DEF EndSync, TypeOK, Points, ScmState
<1>3. CASE ~booting
  BY <1>1, <1>3 DEF EndSync, BeginSupervision, TypeOK, Points
<1> QED
  BY <1>2, <1>3

-----------------------------------------------------------------------------
(* Type correctness.                                                       *)

LEMMA TypeInit == Init => TypeOK
<1> SUFFICES ASSUME Init PROVE TypeOK
  OBVIOUS
<1>1. file \in Mounts
  BY MountServiceAssumption DEF Init
<1>2. intent \in [Region -> PolicySet \cup {None}]
  BY <1>1, SavedPolicyType DEF Init
<1>3. NoMounts \in Mounts
  BY DEF NoMounts, Mounts
<1>4. used \in Bounds
  BY MountServiceAssumption DEF Init, Bounds
<1> QED
  BY <1>1, <1>2, <1>3, <1>4 DEF Init, TypeOK, ScmState, Points

LEMMA TypeStep == TypeOK /\ [Next]_vars => TypeOK'
<1> SUFFICES ASSUME TypeOK, [Next]_vars PROVE TypeOK'
  OBVIOUS
<1> USE DEF fileVars, loopVars, procVars
<1>1. CASE WaitForEvents
  BY <1>1 DEF WaitForEvents, TypeOK, Points
<1>2. CASE RequestWrites
  BY <1>2, TruncateType, WriteType DEF RequestWrites, TypeOK, Actor
<1>3. CASE ControlDone
  <2>1. due' \subseteq Handle /\ ticks' \in Nat /\ pc' \in Points
    BY <1>3 DEF ControlDone, BeginSync, BeginSupervision, TypeOK, Points
  <2> QED
    BY <1>3, <2>1 DEF ControlDone, TypeOK
<1>4. CASE SyncRead
  <2>1. CASE file = Torn
    BY <1>4, <2>1, EndSyncType DEF SyncRead, TypeOK
  <2>2. CASE file # Torn
    BY <1>4, <2>2 DEF SyncRead, TypeOK, Points
  <2> QED
    BY <2>1, <2>2
<1>5. CASE SyncScan
  <2>1. PreferredMounts \in Mounts
    BY PreferredType DEF TypeOK
  <2>2. snapshot' \in Mounts
    BY <1>5, <2>1, DiscoveryType DEF SyncScan, TypeOK
  <2>3. CASE snapshot' # snapshot
    <3>1. [mounts |-> snapshot', touched |-> {}, truncated |-> FALSE] \in Writing
      BY <2>2 DEF Writing
    <3>2. writing' \in [Actor -> Writing \cup {None}]
      BY <1>5, <2>3, <3>1 DEF SyncScan, TypeOK, Actor
    <3> QED
      BY <1>5, <2>2, <2>3, <3>2 DEF SyncScan, TypeOK, Points
  <2>4. CASE snapshot' = snapshot
    BY <1>5, <2>4 DEF SyncScan, TypeOK, Points
  <2> QED
    BY <2>3, <2>4
<1>6. CASE SyncSave
  BY <1>6, TruncateType, WriteType DEF SyncSave, TypeOK, Points, Actor
<1>7. CASE SyncCheck
  <2>1. desired' \in Mounts
    BY <1>7 DEF SyncCheck, TypeOK, Mounts
  <2>2. NoMounts \in Mounts
    BY DEF NoMounts, Mounts
  <2> QED
    BY <1>7, <2>1, <2>2 DEF SyncCheck, TypeOK, Points
<1>8. CASE SyncStop
  BY <1>8, StopWorkerType DEF SyncStop, TypeOK, Points
<1>9. CASE SyncStart
  <2>1. ASSUME NEW t \in Configured(desired),
               StartWorker([target |-> t, entry |-> desired[t], pid |-> None,
                            cooling |-> FALSE]),
               UNCHANGED <<scm, loopVars>>
        PROVE  TypeOK'
    <3>1. [target |-> t, entry |-> desired[t], pid |-> None, cooling |-> FALSE] \in Handle
      BY DEF TypeOK, Configured, Mounts, Handle
    <3> QED
      BY <1>9, <2>1, <3>1, StartWorkerType DEF SyncStart, TypeOK
  <2>2. CASE UNCHANGED <<procVars, used>> /\ EndSync /\ UNCHANGED snapshot
    BY <1>9, <2>2, EndSyncType DEF SyncStart, TypeOK
  <2> QED
    BY <1>9, <2>1, <2>2 DEF SyncStart
<1>10. CASE Supervise
  BY <1>10, StartWorkerType DEF Supervise, TypeOK, Points
<1>11. CASE Shutdown
  BY <1>11, StopWorkerType DEF Shutdown, TypeOK, Points, ScmState
<1>12. CASE StartService \/ RestartService
  BY <1>12 DEF StartService, RestartService, Starts, BeginSync, TypeOK, Points, ScmState
<1>13. CASE StopControl
  <2>1. used' \in Bounds
    BY <1>13, SpendType DEF StopControl, TypeOK
  <2> QED
    BY <1>13, <2>1 DEF StopControl, TypeOK, ScmState
<1>14. CASE ServiceCrash
  <2>1. used' \in Bounds
    BY <1>14, SpendType DEF ServiceCrash, TypeOK
  <2>2. NoMounts \in Mounts
    BY DEF NoMounts, Mounts
  <2> QED
    BY <1>14, <2>1, <2>2 DEF ServiceCrash, TypeOK, Points, ScmState, Live
<1>15. ASSUME NEW q \in SvcRequests, HandleRequest(q) PROVE TypeOK'
  <2>1. q \in Request
    BY MountServiceAssumption
  <2>2. /\ writing' \in [Actor -> Writing \cup {None}]
        /\ UNCHANGED <<file, intent>>
        /\ used' \in Bounds
    BY <1>15, <2>1, BeginEditType DEF HandleRequest, Actor
  <2> QED
    BY <1>15, <2>2 DEF HandleRequest, TypeOK
<1>16. ASSUME NEW q \in CliRequests, CliBegin(q) PROVE TypeOK'
  <2>1. q \in Request
    BY MountServiceAssumption
  <2>2. /\ writing' \in [Actor -> Writing \cup {None}]
        /\ UNCHANGED <<file, intent>>
        /\ used' \in Bounds
    BY <1>16, <2>1, BeginEditType DEF CliBegin, Actor
  <2> QED
    BY <1>16, <2>2 DEF CliBegin, TypeOK
<1>17. CASE CliWrites
  BY <1>17, TruncateType, WriteType DEF CliWrites, TypeOK, Actor
<1>18. CASE CliDies
  <2>1. used' \in Bounds
    BY <1>18, SpendType DEF CliDies, TypeOK
  <2> QED
    BY <1>18, <2>1 DEF CliDies, TypeOK, Actor
<1>19. ASSUME NEW p \in Pid, WorkerMounts(p) PROVE TypeOK'
  <2>1. [procs[p] EXCEPT !.mounted = TRUE] \in Proc
    BY <1>19 DEF WorkerMounts, TypeOK, Live, Proc
  <2>2. procs' \in [Pid -> Proc \cup {None}]
    BY <1>19, <2>1 DEF WorkerMounts, TypeOK
  <2> QED
    BY <1>19, <2>2 DEF WorkerMounts, TypeOK
<1>20. ASSUME NEW p \in Pid, WorkerGivesUp(p) PROVE TypeOK'
  BY <1>20 DEF WorkerGivesUp, Exits, TypeOK
<1>21. ASSUME NEW p \in Pid, WorkerDies(p) PROVE TypeOK'
  <2>1. used' \in Bounds
    BY <1>21, SpendType DEF WorkerDies, TypeOK
  <2> QED
    BY <1>21, <2>1 DEF WorkerDies, Exits, TypeOK
<1>22. ASSUME NEW t \in Target, CooldownElapses(t) PROVE TypeOK'
  <2>1. workers' \subseteq Handle
    BY <1>22 DEF CooldownElapses, TypeOK, Handle
  <2> QED
    BY <1>22, <2>1 DEF CooldownElapses, TypeOK
<1>23. CASE MediaChanges
  <2>1. used' \in Bounds
    BY <1>23, SpendType DEF MediaChanges, TypeOK
  <2>2. media' \subseteq Region
    BY <1>23 DEF MediaChanges, TypeOK
  <2> QED
    BY <1>23, <2>1, <2>2 DEF MediaChanges, TypeOK
<1>24. CASE UNCHANGED vars
  BY <1>24 DEF vars, TypeOK
<1> QED
  BY <1>1, <1>2, <1>3, <1>4, <1>5, <1>6, <1>7, <1>8, <1>9, <1>10, <1>11, <1>12, <1>13,
     <1>14, <1>15, <1>16, <1>17, <1>18, <1>19, <1>20, <1>21, <1>22, <1>23, <1>24
     DEF Next, MainLoop

(* Every state of the service has the declared types: no request, scan,    *)
(* crash or device event produces a table, a handle or a process that is   *)
(* not one.                                                                *)
THEOREM TypeCorrect == Spec => []TypeOK
BY TypeInit, TypeStep, PTL DEF Spec

-----------------------------------------------------------------------------
(* One worker per target.                                                  *)

(* What startWorker preserves, when h's target has no other handle and h no *)
(* running process.                                                        *)
LEMMA StartWorkerKeepsHandles ==
  ASSUME TypeOK, WorkerInv, NEW h \in Handle, StartWorker(h),
         \A k \in workers \ {h} : k.target # h.target,
         h \in workers => ~IsRunning(h)
  PROVE  /\ \A a, b \in workers' : a.target = b.target => a = b
         /\ \A p \in Live' \ orphans' :
              \E k \in workers' : k.pid = p /\ k.target = procs'[p].target
         /\ \A k \in workers' : k \in workers \ {h} \/ (k.target = h.target /\ k.entry = h.entry)
         /\ \A k \in workers \ {h} : k \in workers' /\ (~IsRunning(k) => ~IsRunning(k)')
<1>1. ASSUME NEW p \in FreePids(h), NEW k,
             k = [h EXCEPT !.pid = p, !.cooling = TRUE],
             procs' = [procs EXCEPT ![p] =
                         [target |-> h.target, entry |-> h.entry, mounted |-> FALSE]],
             workers' = (workers \ {h}) \cup {k},
             orphans' = orphans
      PROVE  /\ \A a, b \in workers' : a.target = b.target => a = b
             /\ \A q \in Live' \ orphans' :
                  \E a \in workers' : a.pid = q /\ a.target = procs'[q].target
             /\ \A a \in workers' : a \in workers \ {h} \/ (a.target = h.target /\ a.entry = h.entry)
             /\ \A a \in workers \ {h} : a \in workers' /\ (~IsRunning(a) => ~IsRunning(a)')
    <2>1. k.target = h.target /\ k.entry = h.entry /\ k.pid = p
      BY <1>1 DEF Handle
    <2>2. p \in Pid /\ p \notin Live /\ \A a \in workers \ {h} : a.pid # p
      BY DEF FreePids
    <2>3. Live' \subseteq Live \cup {p}
      BY <1>1, <2>2 DEF Live, TypeOK
    <2>4. procs'[p].target = h.target
      BY <1>1, <2>2 DEF TypeOK
    <2>5. \A a, b \in workers' : a.target = b.target => a = b
      <3>1. ASSUME NEW a \in workers', NEW b \in workers', a.target = b.target
            PROVE  a = b
        <4>1. a \in workers \ {h} \/ a = k
          BY <1>1
        <4>2. b \in workers \ {h} \/ b = k
          BY <1>1
        <4>3. \A c \in workers \ {h} : c.target # k.target
          BY <2>1
        <4> QED
          BY <3>1, <4>1, <4>2, <4>3 DEF WorkerInv
      <3> QED
        BY <3>1
    <2>6. ASSUME NEW q \in Live' \ orphans'
          PROVE  \E a \in workers' : a.pid = q /\ a.target = procs'[q].target
      <3>1. CASE q = p
        BY <1>1, <2>1, <2>4, <3>1
      <3>2. CASE q # p
        <4>1. q \in Live \ orphans /\ procs'[q] = procs[q]
          BY <1>1, <2>2, <2>3, <3>2 DEF TypeOK, Live
        <4>2. PICK a \in workers : a.pid = q /\ a.target = procs[q].target
          BY <4>1 DEF WorkerInv
        <4>3. IsRunning(a)
          BY <4>1, <4>2, MountServiceAssumption DEF IsRunning, Live
        <4>4. a # h
          BY <4>3
        <4> QED
          BY <1>1, <4>1, <4>2, <4>4
      <3> QED
        BY <3>1, <3>2
    <2>7. \A a \in workers \ {h} : a \in workers' /\ (~IsRunning(a) => ~IsRunning(a)')
      BY <1>1, <2>2, <2>3 DEF IsRunning
    <2> QED
      BY <1>1, <2>1, <2>5, <2>6, <2>7
<1>2. ASSUME NEW k,
             k = [h EXCEPT !.pid = None, !.cooling = TRUE],
             workers' = (workers \ {h}) \cup {k},
             UNCHANGED <<procs, orphans>>
      PROVE  /\ \A a, b \in workers' : a.target = b.target => a = b
             /\ \A q \in Live' \ orphans' :
                  \E a \in workers' : a.pid = q /\ a.target = procs'[q].target
             /\ \A a \in workers' : a \in workers \ {h} \/ (a.target = h.target /\ a.entry = h.entry)
             /\ \A a \in workers \ {h} : a \in workers' /\ (~IsRunning(a) => ~IsRunning(a)')
    <2>1. k.target = h.target /\ k.entry = h.entry
      BY <1>2 DEF Handle
    <2>2. Live' = Live
      BY <1>2 DEF Live
    <2>3. \A a, b \in workers' : a.target = b.target => a = b
      <3>1. ASSUME NEW a \in workers', NEW b \in workers', a.target = b.target
            PROVE  a = b
        <4>1. a \in workers \ {h} \/ a = k
          BY <1>2
        <4>2. b \in workers \ {h} \/ b = k
          BY <1>2
        <4>3. \A c \in workers \ {h} : c.target # k.target
          BY <2>1
        <4> QED
          BY <3>1, <4>1, <4>2, <4>3 DEF WorkerInv
      <3> QED
        BY <3>1
    <2>4. ASSUME NEW q \in Live' \ orphans'
          PROVE  \E a \in workers' : a.pid = q /\ a.target = procs'[q].target
      <3>1. PICK a \in workers : a.pid = q /\ a.target = procs[q].target
        BY <1>2, <2>2 DEF WorkerInv
      <3>2. IsRunning(a)
        BY <2>2, <3>1, MountServiceAssumption DEF IsRunning, Live
      <3> QED
        BY <1>2, <3>1, <3>2
    <2>5. \A a \in workers \ {h} : a \in workers' /\ (~IsRunning(a) => ~IsRunning(a)')
      BY <1>2, <2>2 DEF IsRunning
    <2> QED
      BY <1>2, <2>1, <2>3, <2>4, <2>5
<1> QED
  BY <1>1, <1>2 DEF StartWorker

(* What stopWorker preserves. *)
LEMMA StopWorkerKeepsHandles ==
  ASSUME TypeOK, WorkerInv, NEW h \in workers, StopWorker(h)
  PROVE  /\ \A a, b \in workers' : a.target = b.target => a = b
         /\ \A p \in Live' \ orphans' :
              \E k \in workers' : k.pid = p /\ k.target = procs'[p].target
<1>1. workers' = workers \ {h} /\ orphans' = orphans
  BY DEF StopWorker
<1>2. ASSUME NEW p \in Live' \ orphans'
      PROVE  \E k \in workers' : k.pid = p /\ k.target = procs'[p].target
  <2>1. p \in Live \ orphans /\ procs'[p] = procs[p] /\ p # h.pid
    <3>1. CASE IsRunning(h)
      BY <1>1, <3>1 DEF StopWorker, TypeOK, Live, IsRunning
    <3>2. CASE ~IsRunning(h)
      BY <1>1, <3>2, MountServiceAssumption DEF StopWorker, IsRunning, Live
    <3> QED
      BY <3>1, <3>2
  <2>2. PICK k \in workers : k.pid = p /\ k.target = procs[p].target
    BY <2>1 DEF WorkerInv
  <2> QED
    BY <1>1, <2>1, <2>2
<1> QED
  BY <1>1, <1>2 DEF WorkerInv

(* When processes only go away and handles stay, nothing is disturbed. *)
LEMMA ExitKeepsWorkerInv ==
  ASSUME TypeOK, WorkerInv, UNCHANGED <<pc, due, desired, workers>>,
         NEW p \in Pid, procs' = [procs EXCEPT ![p] = None], orphans' = orphans \ {p}
  PROVE  WorkerInv'
<1>1. p \notin Live' /\ Live' \subseteq Live
  BY DEF Live, TypeOK
<1>2. \A q \in Live' : procs'[q] = procs[q]
  BY <1>1 DEF Live, TypeOK
<1>3. \A q \in Live' \ orphans' : q \in Live \ orphans
  BY <1>1
<1> QED
  BY <1>1, <1>2, <1>3 DEF WorkerInv, IsRunning

(* Supervision looks at handles that exist and have no running process. *)
LEMMA BeginSupervisionKeepsWorkerInv ==
  ASSUME TypeOK, WorkerInv, BeginSupervision, UNCHANGED <<workers, procs, orphans>>
  PROVE  WorkerInv'
<1>1. Live' = Live
  BY DEF Live
<1>2. pc' = "supervise" /\ \A h \in due' : h \in workers' /\ ~h.cooling /\ ~IsRunning(h)'
  <2>1. ASSUME NEW h \in due' PROVE h \in workers' /\ ~h.cooling /\ ~IsRunning(h)'
    <3>1. h \in workers' /\ ~h.cooling /\ ~(h.pid # None /\ procs'[h.pid] # None)
      BY DEF BeginSupervision
    <3> QED
      BY <3>1 DEF IsRunning, Live
  <2> QED
    BY <2>1 DEF BeginSupervision
<1> QED
  BY <1>1, <1>2 DEF WorkerInv

LEMMA EndSyncKeepsWorkerInv ==
  ASSUME TypeOK, WorkerInv, EndSync, UNCHANGED <<workers, procs, orphans>>
  PROVE  WorkerInv'
<1>1. CASE booting
  <2>1. Live' = Live
    BY DEF Live
  <2> QED
    BY <1>1, <2>1 DEF EndSync, WorkerInv
<1>2. CASE ~booting
  BY <1>2, BeginSupervisionKeepsWorkerInv DEF EndSync
<1> QED
  BY <1>1, <1>2

(* A step that leaves handles and processes alone and takes the loop to a  *)
(* point other than "start" and "supervise", or leaves it where it is.     *)
LEMMA UntouchedKeepsWorkerInv ==
  ASSUME WorkerInv, UNCHANGED <<workers, procs, orphans>>,
         \/ UNCHANGED <<pc, due, desired>>
         \/ pc' \notin {"start", "supervise"}
  PROVE  WorkerInv'
<1>1. Live' = Live
  BY DEF Live
<1>2. \A h : IsRunning(h)' = IsRunning(h)
  BY <1>1 DEF IsRunning
<1> QED
  BY <1>1, <1>2 DEF WorkerInv

LEMMA WorkerInvInit == Init => WorkerInv
BY DEF Init, WorkerInv, Live

LEMMA WorkerInvStep == TypeOK /\ WorkerInv /\ [Next]_vars => WorkerInv'
<1> SUFFICES ASSUME TypeOK, WorkerInv, [Next]_vars PROVE WorkerInv'
  OBVIOUS
<1> USE DEF fileVars, loopVars, procVars
<1>1. CASE WaitForEvents
  BY <1>1, UntouchedKeepsWorkerInv DEF WaitForEvents
<1>2. CASE RequestWrites
  BY <1>2, UntouchedKeepsWorkerInv DEF RequestWrites
<1>3. CASE ControlDone
  <2>1. CASE BeginSync
    BY <1>3, <2>1, UntouchedKeepsWorkerInv DEF ControlDone, BeginSync
  <2>2. CASE BeginSupervision
    BY <1>3, <2>2, BeginSupervisionKeepsWorkerInv DEF ControlDone
  <2> QED
    BY <1>3, <2>1, <2>2 DEF ControlDone
<1>4. CASE SyncRead
  <2>1. CASE file = Torn
    BY <1>4, <2>1, EndSyncKeepsWorkerInv DEF SyncRead
  <2>2. CASE file # Torn
    BY <1>4, <2>2, UntouchedKeepsWorkerInv DEF SyncRead
  <2> QED
    BY <2>1, <2>2
<1>5. CASE SyncScan
  BY <1>5, UntouchedKeepsWorkerInv DEF SyncScan
<1>6. CASE SyncSave
  BY <1>6, UntouchedKeepsWorkerInv DEF SyncSave
<1>7. CASE SyncCheck
  BY <1>7, UntouchedKeepsWorkerInv DEF SyncCheck
<1>8. CASE SyncStop
  <2>1. ASSUME NEW h \in workers, StopWorker(h), UNCHANGED pc
        PROVE  WorkerInv'
    BY <1>8, <2>1, StopWorkerKeepsHandles DEF SyncStop, WorkerInv
  <2>2. CASE (\A h \in workers : ~Stale(h)) /\ pc' = "start" /\ UNCHANGED procVars
    <3>1. Live' = Live
      BY <2>2 DEF Live
    <3> QED
      BY <1>8, <2>2, <3>1 DEF SyncStop, Stale, WorkerInv
  <2> QED
    BY <1>8, <2>1, <2>2 DEF SyncStop
<1>9. CASE SyncStart
  <2>1. ASSUME NEW t \in Configured(desired), NEW h,
               h = [target |-> t, entry |-> desired[t], pid |-> None, cooling |-> FALSE],
               ~HasWorker(t),
               StartWorker(h),
               UNCHANGED <<scm, loopVars>>
        PROVE  WorkerInv'
    <3>1. h \in Handle
      BY <2>1 DEF TypeOK, Configured, Mounts, Handle
    <3>2. \A k \in workers : k.target # t
      BY <1>9, <2>1 DEF SyncStart, HasWorker, WorkerInv
    <3>3. h.target = t /\ h.entry = desired[t] /\ ~IsRunning(h)
      BY <2>1 DEF IsRunning
    <3>4. /\ \A a, b \in workers' : a.target = b.target => a = b
          /\ \A p \in Live' \ orphans' :
               \E k \in workers' : k.pid = p /\ k.target = procs'[p].target
          /\ \A k \in workers' : k \in workers \ {h} \/ (k.target = h.target /\ k.entry = h.entry)
      BY <2>1, <3>1, <3>2, <3>3, StartWorkerKeepsHandles
    <3>5. pc = "start" /\ pc' = "start" /\ desired' = desired
      BY <1>9, <2>1 DEF SyncStart
    <3>6. \A k \in workers' : desired'[k.target] = k.entry
      BY <3>3, <3>4, <3>5 DEF WorkerInv
    <3> QED
      BY <3>4, <3>5, <3>6 DEF WorkerInv
  <2>2. CASE UNCHANGED procVars /\ EndSync
    BY <2>2, EndSyncKeepsWorkerInv
  <2> QED
    BY <1>9, <2>1, <2>2 DEF SyncStart
<1>10. CASE Supervise
  <2>1. ASSUME NEW h \in due, due' = due \ {h}, StartWorker(h), UNCHANGED pc
        PROVE  WorkerInv'
    <3>1. pc = "supervise" /\ pc' = "supervise" /\ desired' = desired
      BY <1>10, <2>1 DEF Supervise
    <3>2. h \in workers /\ h \in Handle /\ ~IsRunning(h)
      BY <3>1 DEF WorkerInv, TypeOK
    <3>3. /\ \A a, b \in workers' : a.target = b.target => a = b
          /\ \A p \in Live' \ orphans' :
               \E k \in workers' : k.pid = p /\ k.target = procs'[p].target
          /\ \A k \in workers \ {h} : k \in workers' /\ (~IsRunning(k) => ~IsRunning(k)')
      <4>1. \A k \in workers \ {h} : k.target # h.target
        BY <3>2 DEF WorkerInv
      <4> QED
        BY <2>1, <3>2, <4>1, StartWorkerKeepsHandles
    <3>4. \A k \in due' : k \in workers \ {h} /\ ~IsRunning(k) /\ ~k.cooling
      BY <2>1, <3>1 DEF WorkerInv
    <3>5. \A k \in due' : k \in workers' /\ ~IsRunning(k)' /\ ~k.cooling
      BY <3>3, <3>4
    <3> QED
      BY <3>1, <3>3, <3>5 DEF WorkerInv
  <2>2. CASE pc' = "wait" /\ UNCHANGED procVars
    BY <2>2, UntouchedKeepsWorkerInv
  <2> QED
    BY <1>10, <2>1, <2>2 DEF Supervise
<1>11. CASE Shutdown
  <2>1. ASSUME NEW h \in workers, StopWorker(h), UNCHANGED pc
        PROVE  WorkerInv'
    BY <1>11, <2>1, StopWorkerKeepsHandles DEF Shutdown, WorkerInv
  <2>2. CASE pc' = "down" /\ UNCHANGED procVars
    BY <2>2, UntouchedKeepsWorkerInv
  <2> QED
    BY <1>11, <2>1, <2>2 DEF Shutdown
<1>12. CASE StartService \/ RestartService
  BY <1>12, UntouchedKeepsWorkerInv DEF StartService, RestartService, Starts, BeginSync
<1>13. CASE StopControl
  BY <1>13, UntouchedKeepsWorkerInv DEF StopControl
<1>14. CASE ServiceCrash
  <2>1. Live' = Live
    BY <1>14 DEF ServiceCrash, Live
  <2> QED
    BY <1>14, <2>1 DEF ServiceCrash, WorkerInv
<1>15. ASSUME NEW q \in SvcRequests, HandleRequest(q) PROVE WorkerInv'
  BY <1>15, UntouchedKeepsWorkerInv DEF HandleRequest
<1>16. ASSUME NEW q \in CliRequests, CliBegin(q) PROVE WorkerInv'
  BY <1>16, UntouchedKeepsWorkerInv DEF CliBegin
<1>17. CASE CliWrites \/ CliDies
  BY <1>17, UntouchedKeepsWorkerInv DEF CliWrites, CliDies
<1>18. ASSUME NEW p \in Pid, WorkerMounts(p) PROVE WorkerInv'
  <2>1. procs[p] \in Proc
    BY <1>18 DEF WorkerMounts, Live, TypeOK
  <2>2. Live' \subseteq Live
    BY <1>18 DEF WorkerMounts, Live, TypeOK
  <2>3. \A q \in Live' : procs'[q].target = procs[q].target
    BY <1>18, <2>1 DEF WorkerMounts, TypeOK, Proc
  <2> QED
    BY <1>18, <2>2, <2>3 DEF WorkerMounts, WorkerInv, IsRunning
<1>19. ASSUME NEW p \in Pid, WorkerGivesUp(p) \/ WorkerDies(p) PROVE WorkerInv'
  BY <1>19, ExitKeepsWorkerInv DEF WorkerGivesUp, WorkerDies, Exits
<1>20. ASSUME NEW t \in Target, CooldownElapses(t) PROVE WorkerInv'
  <2>1. PICK h \in workers : /\ h.cooling
                             /\ workers' = (workers \ {h}) \cup {[h EXCEPT !.cooling = FALSE]}
    BY <1>20 DEF CooldownElapses
  <2> DEFINE k == [h EXCEPT !.cooling = FALSE]
  <2>2. k.target = h.target /\ k.entry = h.entry /\ k.pid = h.pid
    BY <2>1 DEF TypeOK, Handle
  <2> HIDE DEF k
  <2>3. workers' = (workers \ {h}) \cup {k}
    BY <2>1 DEF k
  <2>4. UNCHANGED <<pc, due, desired, procs, orphans>> /\ Live' = Live
    BY <1>20 DEF CooldownElapses, Live
  <2>5. pc = "supervise" => h \notin due
    BY <2>1 DEF WorkerInv
  <2>6. ASSUME NEW a \in workers', NEW b \in workers', a.target = b.target PROVE a = b
    <3>1. a \in workers \ {h} \/ a = k
      BY <2>3
    <3>2. b \in workers \ {h} \/ b = k
      BY <2>3
    <3>3. \A c \in workers \ {h} : c.target # k.target
      BY <2>1, <2>2 DEF WorkerInv
    <3> QED
      BY <2>6, <3>1, <3>2, <3>3 DEF WorkerInv
  <2>7. ASSUME NEW p \in Live' \ orphans'
        PROVE  \E a \in workers' : a.pid = p /\ a.target = procs'[p].target
    <3>1. PICK a \in workers : a.pid = p /\ a.target = procs[p].target
      BY <2>4 DEF WorkerInv
    <3> QED
      BY <2>2, <2>3, <2>4, <3>1
  <2>8. pc' = "start" => \A a \in workers' : desired'[a.target] = a.entry
    BY <2>1, <2>2, <2>3, <2>4 DEF WorkerInv
  <2>9. pc' = "supervise" => \A a \in due' : a \in workers' /\ ~IsRunning(a)' /\ ~a.cooling
    BY <2>3, <2>4, <2>5 DEF WorkerInv, IsRunning
  <2> QED
    BY <2>6, <2>7, <2>8, <2>9 DEF WorkerInv
<1>21. CASE MediaChanges
  BY <1>21, UntouchedKeepsWorkerInv DEF MediaChanges
<1>22. CASE UNCHANGED vars
  BY <1>22, UntouchedKeepsWorkerInv DEF vars
<1> QED
  BY <1>1, <1>2, <1>3, <1>4, <1>5, <1>6, <1>7, <1>8, <1>9, <1>10, <1>11, <1>12, <1>13,
     <1>14, <1>15, <1>16, <1>17, <1>18, <1>19, <1>20, <1>21, <1>22 DEF Next, MainLoop

LEMMA WorkerInvGivesOneWorker == TypeOK /\ WorkerInv => OneWorkerPerTarget
BY DEF WorkerInv, OneWorkerPerTarget

(* Supervision and synchronization never run two workers for one target,   *)
(* whatever requests, device events, exits, failed starts and crashes      *)
(* happen between their steps and however many targets there are.          *)
THEOREM OneWorker == Spec => []OneWorkerPerTarget
BY TypeInit, TypeStep, WorkerInvInit, WorkerInvStep, WorkerInvGivesOneWorker, PTL DEF Spec

(* The strengthening itself, which a run checks too. *)
THEOREM WorkerInvHolds == Spec => []WorkerInv
BY TypeInit, TypeStep, WorkerInvInit, WorkerInvStep, PTL DEF Spec

-----------------------------------------------------------------------------
(* A stopped service.                                                      *)

(* The service control manager sees a stopped or crashed service exactly   *)
(* while the loop is down, and a loop that is down has no worker handles.  *)
StoppedInv ==
  /\ scm \in {"stopped", "crashed"} <=> pc = "down"
  /\ pc = "down" => workers = {}

LEMMA StoppedInvInit == Init => StoppedInv
BY DEF Init, StoppedInv

LEMMA StoppedInvStep == StoppedInv /\ [Next]_vars => StoppedInv'
<1> SUFFICES ASSUME StoppedInv, [Next]_vars PROVE StoppedInv'
  OBVIOUS
<1> USE DEF fileVars, loopVars, procVars, StoppedInv
<1>1. CASE WaitForEvents \/ RequestWrites \/ ControlDone
  BY <1>1 DEF WaitForEvents, RequestWrites, ControlDone, BeginSync, BeginSupervision
<1>2. CASE SyncRead \/ SyncScan \/ SyncSave \/ SyncCheck
  BY <1>2 DEF SyncRead, SyncScan, SyncSave, SyncCheck, EndSync, BeginSupervision
<1>3. CASE SyncStop
  BY <1>3 DEF SyncStop
<1>4. CASE SyncStart
  BY <1>4 DEF SyncStart, EndSync, BeginSupervision
<1>5. CASE Supervise
  BY <1>5 DEF Supervise
<1>6. CASE Shutdown
  BY <1>6 DEF Shutdown
<1>7. CASE StartService \/ RestartService \/ StopControl \/ ServiceCrash
  BY <1>7 DEF StartService, RestartService, Starts, BeginSync, StopControl, ServiceCrash
<1>8. CASE \/ \E q \in SvcRequests : HandleRequest(q)
           \/ \E q \in CliRequests : CliBegin(q)
           \/ CliWrites \/ CliDies \/ MediaChanges
  BY <1>8 DEF HandleRequest, CliBegin, CliWrites, CliDies, MediaChanges
<1>9. CASE \E p \in Pid : WorkerMounts(p) \/ WorkerGivesUp(p) \/ WorkerDies(p)
  BY <1>9 DEF WorkerMounts, WorkerGivesUp, WorkerDies, Exits
<1>10. CASE \E t \in Target : CooldownElapses(t)
  BY <1>10 DEF CooldownElapses
<1>11. CASE UNCHANGED vars
  BY <1>11 DEF vars
<1> QED
  BY <1>1, <1>2, <1>3, <1>4, <1>5, <1>6, <1>7, <1>8, <1>9, <1>10, <1>11 DEF Next, MainLoop

(* Whoever runs a worker has a handle for it (WorkerInv), and a stopped    *)
(* service has none.                                                       *)
LEMMA StoppedHasNoWorker == WorkerInv /\ StoppedInv => StoppedLeavesNoWorker
BY DEF WorkerInv, StoppedInv, StoppedLeavesNoWorker

(* A service that has stopped leaves none of its workers behind: the stop  *)
(* kills every one that a sync or the supervisor has started.              *)
THEOREM StopKillsWorkers == Spec => []StoppedLeavesNoWorker
BY TypeInit, TypeStep, WorkerInvInit, WorkerInvStep, StoppedInvInit, StoppedInvStep,
   StoppedHasNoWorker, PTL DEF Spec

-----------------------------------------------------------------------------
(* One worker per region.                                                  *)

(* What the handles are for: a step keeps the targets of handles, and only *)
(* a sync that starts workers adds targets, those of its table.            *)
LEMMA HandlesComeFrom ==
  ASSUME TypeOK, WorkerInv, [Next]_vars, NEW k \in workers'
  PROVE  \/ \E h \in workers : h.target = k.target
         \/ pc = "start" /\ k.target \in Configured(desired)
<1> USE DEF fileVars, loopVars, procVars
<1>1. ASSUME NEW h \in Handle, StartWorker(h)
      PROVE  k \in workers \/ k.target = h.target
  <2>1. \A p : [h EXCEPT !.pid = p, !.cooling = TRUE].target = h.target
    BY DEF Handle
  <2>2. k \in workers \/ \E p : k = [h EXCEPT !.pid = p, !.cooling = TRUE]
    BY <1>1 DEF StartWorker
  <2> QED
    BY <2>1, <2>2
<1>2. CASE SyncStart
  <2>1. ASSUME NEW t \in Configured(desired), NEW h,
               h = [target |-> t, entry |-> desired[t], pid |-> None, cooling |-> FALSE],
               StartWorker(h)
        PROVE  k \in workers \/ k.target = t
    <3>1. h \in Handle /\ h.target = t
      BY <2>1 DEF TypeOK, Configured, Mounts, Handle
    <3> QED
      BY <1>1, <2>1, <3>1
  <2> QED
    BY <1>2, <2>1 DEF SyncStart
<1>3. CASE Supervise
  <2>1. ASSUME NEW h \in due, StartWorker(h)
        PROVE  h \in workers /\ (k \in workers \/ k.target = h.target)
    BY <1>1, <1>3, <2>1 DEF Supervise, TypeOK, WorkerInv
  <2>2. CASE UNCHANGED procVars
    BY <2>2
  <2> QED
    BY <1>3, <2>1, <2>2 DEF Supervise
<1>4. CASE SyncStop \/ Shutdown
  BY <1>4 DEF SyncStop, Shutdown, StopWorker
<1>5. CASE WaitForEvents \/ RequestWrites \/ ControlDone \/ SyncRead \/ SyncScan
           \/ SyncSave \/ SyncCheck
  BY <1>5 DEF WaitForEvents, RequestWrites, ControlDone, SyncRead, SyncScan, SyncSave, SyncCheck
<1>6. CASE StartService \/ RestartService \/ StopControl \/ ServiceCrash \/ MediaChanges
  BY <1>6 DEF StartService, RestartService, Starts, StopControl, ServiceCrash, MediaChanges
<1>7. CASE \/ \E q \in SvcRequests : HandleRequest(q)
           \/ \E q \in CliRequests : CliBegin(q)
           \/ CliWrites \/ CliDies
  BY <1>7 DEF HandleRequest, CliBegin, CliWrites, CliDies
<1>8. CASE \E p \in Pid : WorkerMounts(p) \/ WorkerGivesUp(p) \/ WorkerDies(p)
  BY <1>8 DEF WorkerMounts, WorkerGivesUp, WorkerDies, Exits
<1>9. CASE \E t \in Target : CooldownElapses(t)
  <2>1. PICK h \in workers : workers' = (workers \ {h}) \cup {[h EXCEPT !.cooling = FALSE]}
    BY <1>9 DEF CooldownElapses
  <2>2. [h EXCEPT !.cooling = FALSE].target = h.target
    BY DEF TypeOK, Handle
  <2> QED
    BY <2>1, <2>2
<1>10. CASE UNCHANGED vars
  BY <1>10 DEF vars
<1> QED
  BY <1>2, <1>3, <1>4, <1>5, <1>6, <1>7, <1>8, <1>9, <1>10 DEF Next, MainLoop

(* Every handle has a region for itself, and so has every entry of the     *)
(* table from which workers are started.                                   *)
RegionInv ==
  /\ \A h, k \in workers : RegionOf[h.target] = RegionOf[k.target] => h = k
  /\ pc \in {"stop", "start"} => OnePerRegion(desired, Region)

LEMMA RegionInvInit == Init => RegionInv
BY DEF Init, RegionInv

(* It holds on as long as the table that is checked against the disks has  *)
(* one entry for each region that is there.                                *)
LEMMA RegionInvStep ==
  ASSUME TypeOK, WorkerInv, RegionInv, [Next]_vars,
         pc = "check" => OnePerRegion(snapshot, media)
  PROVE  RegionInv'
<1>1. WorkerInv'
  BY WorkerInvStep
<1>2. ASSUME NEW h \in workers', NEW k \in workers', RegionOf[h.target] = RegionOf[k.target]
      PROVE  h = k
  <2>1. CASE pc = "start"
    <3>1. ASSUME NEW a \in workers PROVE a.target \in Configured(desired)
      <4>1. a.target \in Target /\ a.entry \in Entry /\ desired[a.target] = a.entry
        BY <2>1 DEF WorkerInv, TypeOK, Handle
      <4> QED
        BY <4>1, NoneIsNoRecord DEF Configured
    <3>2. h.target \in Configured(desired) /\ k.target \in Configured(desired)
      BY <3>1, HandlesComeFrom
    <3>3. RegionOf[h.target] \in Region
      BY <3>2, MountPolicyAssumption DEF Configured
    <3>4. h.target = k.target
      BY <1>2, <2>1, <3>2, <3>3 DEF RegionInv, OnePerRegion
    <3> QED
      BY <1>1, <3>4 DEF WorkerInv
  <2>2. CASE pc # "start"
    <3>1. PICK a \in workers : a.target = h.target
      BY <2>2, HandlesComeFrom
    <3>2. PICK b \in workers : b.target = k.target
      BY <2>2, HandlesComeFrom
    <3>3. a = b
      BY <1>2, <3>1, <3>2 DEF RegionInv
    <3> QED
      BY <1>1, <3>1, <3>2, <3>3 DEF WorkerInv
  <2> QED
    BY <2>1, <2>2
<1>3. ASSUME pc' \in {"stop", "start"} PROVE OnePerRegion(desired, Region)'
  <2>1. CASE SyncCheck
    <3>1. ASSUME NEW t \in Configured(desired)'
          PROVE  t \in Configured(snapshot) /\ RegionOf[t] \in media
      BY <2>1 DEF SyncCheck, Configured
    <3> QED
      BY <2>1, <3>1 DEF SyncCheck, OnePerRegion
  <2>2. CASE ~SyncCheck
    <3>1. pc \in {"stop", "start"} /\ desired' = desired
      BY <1>3, <2>2 DEF Next, MainLoop, WaitForEvents, RequestWrites, ControlDone, SyncRead,
           SyncScan, SyncSave, SyncStop, SyncStart, Supervise, Shutdown, StartService,
           RestartService, Starts, BeginSync, BeginSupervision, EndSync, StopControl,
           ServiceCrash, HandleRequest, CliBegin, CliWrites, CliDies, WorkerMounts,
           WorkerGivesUp, WorkerDies, Exits, CooldownElapses, MediaChanges, vars, loopVars
    <3> QED
      BY <3>1 DEF RegionInv, OnePerRegion, Configured
  <2> QED
    BY <2>1, <2>2
<1> QED
  BY <1>2, <1>3 DEF RegionInv

LEMMA RegionInvGivesOneWorker ==
  TypeOK /\ WorkerInv /\ RegionInv => OneWorkerPerRegion
BY DEF WorkerInv, RegionInv, OneWorkerPerRegion

(* No disk arrives between the resolution of aliases and the end of the    *)
(* check of targets that works on its result.                              *)
NoArrivalBeforeCheck ==
  MediaChanges /\ pc \in {"save", "check"} => media' \subseteq media

(* From the scan to the check the aliases are resolved. *)
ResolvedInv == pc \in {"save", "check"} => OnePerRegion(snapshot, media)

LEMMA ResolvedInvInit == Init => ResolvedInv
BY DEF Init, ResolvedInv

LEMMA ResolvedInvStep ==
  ASSUME TypeOK, ResolvedInv, [Next]_vars, [NoArrivalBeforeCheck]_vars
  PROVE  ResolvedInv'
<1> USE DEF fileVars, loopVars, procVars
<1>1. CASE SyncScan
  <2>1. PreferredMounts \in Mounts
    BY PreferredType DEF TypeOK
  <2>2. OnePerRegion(AutoDiscovery(snapshot, media, PreferredMounts, LettersInUse), media)
    BY <2>1, DiscoveryResolves DEF TypeOK
  <2> QED
    BY <1>1, <2>2 DEF SyncScan, ResolvedInv, OnePerRegion, Configured
<1>2. CASE MediaChanges
  <2>1. UNCHANGED <<pc, snapshot>> /\ media' # media
    BY <1>2 DEF MediaChanges
  <2>2. pc \in {"save", "check"} => media' \subseteq media
    BY <1>2, <2>1 DEF NoArrivalBeforeCheck, vars
  <2> QED
    BY <2>1, <2>2 DEF ResolvedInv, OnePerRegion, Configured
<1>3. CASE ~SyncScan /\ ~MediaChanges /\ pc' \in {"save", "check"}
  <2>1. pc \in {"save", "check"} /\ UNCHANGED <<snapshot, media>>
    BY <1>3 DEF Next, MainLoop, WaitForEvents, RequestWrites, ControlDone, SyncRead,
         SyncSave, SyncCheck, SyncStop, SyncStart, Supervise, Shutdown, StartService,
         RestartService, Starts, BeginSync, BeginSupervision, EndSync, StopControl,
         ServiceCrash, HandleRequest, CliBegin, CliWrites, CliDies, WorkerMounts,
         WorkerGivesUp, WorkerDies, Exits, CooldownElapses, vars
  <2> QED
    BY <2>1 DEF ResolvedInv, OnePerRegion, Configured
<1> QED
  BY <1>1, <1>2, <1>3 DEF ResolvedInv

(* Whatever names users give to regions, whatever requests, command lines, *)
(* crashes and device events do, no region is ever served by two workers   *)
(* of the running service, unless a disk arrives between the scan of a     *)
(* sync and the check of its targets.                                      *)
THEOREM RegionsServedOnce ==
  Spec /\ [][NoArrivalBeforeCheck]_vars => []OneWorkerPerRegion
<1> DEFINE Inv == TypeOK /\ WorkerInv /\ RegionInv /\ ResolvedInv
<1>1. Init => Inv
  BY TypeInit, WorkerInvInit, RegionInvInit, ResolvedInvInit
<1>2. Inv /\ [Next]_vars /\ [NoArrivalBeforeCheck]_vars => Inv'
  <2> SUFFICES ASSUME Inv, [Next]_vars, [NoArrivalBeforeCheck]_vars PROVE Inv'
    OBVIOUS
  <2>1. TypeOK' /\ WorkerInv' /\ ResolvedInv'
    BY TypeStep, WorkerInvStep, ResolvedInvStep
  <2>2. RegionInv'
    BY RegionInvStep DEF ResolvedInv
  <2> QED
    BY <2>1, <2>2
<1>3. Inv => OneWorkerPerRegion
  BY RegionInvGivesOneWorker
<1> QED
  BY <1>1, <1>2, <1>3, PTL DEF Spec

-----------------------------------------------------------------------------
(* The tables on their way to mounts.json.                                 *)

(* Opening the file for writing leaves the tables alone. *)
LEMMA TruncateKeepsTables ==
  ASSUME TypeOK, NEW a \in Actor, TruncateConfig(a)
  PROVE  /\ file' = Torn /\ intent' = intent
         /\ writing[a] # None
         /\ writing'[a].mounts = writing[a].mounts
         /\ writing'[a].touched = writing[a].touched
         /\ \A b \in Actor \ {a} : writing'[b] = writing[b]
<1>1. writing[a] \in Writing /\ writing[a] # None
  BY DEF TypeOK, TruncateConfig
<1>2. writing'[a] = [writing[a] EXCEPT !.truncated = TRUE]
  BY DEF TruncateConfig, TypeOK
<1> QED
  BY <1>1, <1>2 DEF TruncateConfig, TypeOK, Writing

(* What a write leaves in the file is its table, or a text that does not   *)
(* parse.                                                                  *)
LEMMA WriteStoresTable ==
  ASSUME TypeOK, NEW a \in Actor, WriteConfig(a)
  PROVE  /\ writing[a] # None
         /\ file' \in {writing[a].mounts, Torn}
         /\ writing'[a] = None
         /\ \A b \in Actor \ {a} : writing'[b] = writing[b]
BY DEF WriteConfig, TypeOK

(* A request sets out to write the table it has computed. *)
LEMMA EditComputes ==
  ASSUME TypeOK, NEW a \in Actor, NEW q \in Request, BeginEdit(a, q),
         q.op # "clear_mounts"
  PROVE  /\ file \in Mounts
         /\ ~Refused(file, q, a = "service", media, LettersInUse)
         /\ writing'[a].mounts = Applied(file, q)
         /\ writing'[a].touched =
              {q.target} \cup {t \in Target : Applied(file, q)[t] # file[t]}
         /\ \A b \in Actor \ {a} : writing'[b] = writing[b]
         /\ UNCHANGED <<file, intent>>
<1>1. file \in Mounts
  BY DEF BeginEdit, TypeOK
<1>2. ~Refused(file, q, a = "service", media, LettersInUse)
  BY DEF BeginEdit
<1>3. writing' = [writing EXCEPT ![a] =
                   [mounts    |-> Applied(file, q),
                    touched   |-> {q.target} \cup {t \in Target : Applied(file, q)[t] # file[t]},
                    truncated |-> FALSE]]
  BY DEF BeginEdit
<1> QED
  BY <1>1, <1>2, <1>3 DEF BeginEdit, TypeOK

LEMMA ClearComputes ==
  ASSUME TypeOK, NEW a \in Actor, NEW q \in Request, BeginEdit(a, q),
         q.op = "clear_mounts"
  PROVE  /\ a # "service"
         /\ writing'[a].mounts = NoMounts
         /\ \A b \in Actor \ {a} : writing'[b] = writing[b]
         /\ UNCHANGED <<file, intent>>
<1>1. ~Refused(NoMounts, q, a = "service", media, LettersInUse)
  BY DEF BeginEdit
<1>2. writing' = [writing EXCEPT ![a] =
                   [mounts    |-> Applied(NoMounts, q),
                    touched   |-> Target,
                    truncated |-> FALSE]]
  BY DEF BeginEdit
<1>3. Applied(NoMounts, q) = NoMounts
  BY DEF Applied
<1> QED
  BY <1>1, <1>2, <1>3 DEF BeginEdit, TypeOK, Refused

-----------------------------------------------------------------------------
(* One name for each region.                                               *)

(* The first table has one name for each region, and no request adds       *)
(* another name of a region that has several.                              *)
OneNameEach ==
  /\ \A m \in InitialMounts : OnePerRegion(m, Region)
  /\ \A q \in SvcRequests \cup CliRequests : q.op = "add_mount" =>
       \A t \in Target : RegionOf[t] = RegionOf[q.target] => t = q.target

(* Then no table anywhere has two entries for one region. *)
NameInv ==
  /\ file # Torn => OnePerRegion(file, Region)
  /\ OnePerRegion(snapshot, Region)
  /\ \A a \in Actor : writing[a] # None => OnePerRegion(writing[a].mounts, Region)

LEMMA NoMountsOnePerRegion == OnePerRegion(NoMounts, Region)
BY DEF OnePerRegion, Configured, NoMounts

LEMMA NameInvInit == OneNameEach /\ Init => NameInv
BY NoMountsOnePerRegion DEF Init, NameInv, OneNameEach

LEMMA WritesKeepNameInv ==
  ASSUME TypeOK, NameInv, UNCHANGED snapshot, NEW a \in Actor,
         TruncateConfig(a) \/ WriteConfig(a)
  PROVE  NameInv'
<1>1. CASE TruncateConfig(a)
  BY <1>1, TruncateKeepsTables DEF NameInv, OnePerRegion, Configured
<1>2. CASE WriteConfig(a)
  BY <1>2, WriteStoresTable DEF NameInv, OnePerRegion, Configured
<1> QED
  BY <1>1, <1>2

LEMMA EditKeepsNameInv ==
  ASSUME TypeOK, NameInv, OneNameEach, UNCHANGED snapshot,
         NEW a \in Actor, NEW q \in SvcRequests \cup CliRequests, BeginEdit(a, q)
  PROVE  NameInv'
<1>1. q \in Request
  BY MountServiceAssumption
<1>2. CASE q.op = "clear_mounts"
  BY <1>1, <1>2, ClearComputes, NoMountsOnePerRegion DEF NameInv, OnePerRegion, Configured
<1>3. CASE q.op # "clear_mounts"
  <2>1. /\ file \in Mounts
        /\ ~Refused(file, q, a = "service", media, LettersInUse)
        /\ writing'[a].mounts = Applied(file, q)
        /\ \A b \in Actor \ {a} : writing'[b] = writing[b]
        /\ UNCHANGED <<file, intent>>
    BY <1>1, <1>3, EditComputes
  <2>2. OnePerRegion(file, Region)
    BY <2>1, MountServiceAssumption DEF NameInv
  <2>3. OnePerRegion(Applied(file, q), Region)
    BY <1>1, <2>1, <2>2, AppliedKeepsOne DEF OneNameEach
  <2> QED
    BY <2>1, <2>3 DEF NameInv, OnePerRegion, Configured
<1> QED
  BY <1>2, <1>3

LEMMA NameInvStep ==
  ASSUME TypeOK, NameInv, OneNameEach, [Next]_vars
  PROVE  NameInv'
<1> USE DEF fileVars, loopVars, procVars
<1>1. CASE UNCHANGED <<file, writing, snapshot>>
  BY <1>1 DEF NameInv, OnePerRegion, Configured
<1>2. CASE RequestWrites \/ SyncSave \/ CliWrites
  BY <1>2, WritesKeepNameInv DEF RequestWrites, SyncSave, CliWrites, Actor
<1>3. CASE \/ \E q \in SvcRequests : HandleRequest(q)
           \/ \E q \in CliRequests : CliBegin(q)
  BY <1>3, EditKeepsNameInv DEF HandleRequest, CliBegin, Actor
<1>4. CASE SyncRead
  BY <1>4 DEF SyncRead, EndSync, NameInv, OnePerRegion, Configured
<1>5. CASE SyncScan
  <2>1. PreferredMounts \in Mounts
    BY PreferredType DEF TypeOK
  <2>2. OnePerRegion(AutoDiscovery(snapshot, media, PreferredMounts, LettersInUse), Region)
    BY <2>1, DiscoveryKeepsOne DEF TypeOK, NameInv
  <2>3. OnePerRegion(snapshot, Region)'
    BY <1>5, <2>2 DEF SyncScan, OnePerRegion, Configured
  <2>4. ASSUME NEW a \in Actor, writing'[a] # None
        PROVE  OnePerRegion(writing[a].mounts, Region)'
    <3>1. writing'[a] = writing[a] \/ writing'[a].mounts = snapshot'
      BY <1>5 DEF SyncScan, TypeOK, Actor
    <3> QED
      BY <2>3, <2>4, <3>1 DEF NameInv, OnePerRegion, Configured
  <2> QED
    BY <1>5, <2>3, <2>4 DEF SyncScan, NameInv, OnePerRegion, Configured
<1>6. CASE SyncCheck \/ ServiceCrash \/ CliDies
  <2>1. file' = file /\ snapshot' \in {snapshot, NoMounts}
    BY <1>6 DEF SyncCheck, ServiceCrash, CliDies
  <2>2. \A a \in Actor : writing'[a] \in {writing[a], None}
    BY <1>6 DEF SyncCheck, ServiceCrash, CliDies, TypeOK
  <2> QED
    BY <2>1, <2>2, NoMountsOnePerRegion DEF NameInv, OnePerRegion, Configured
<1>7. CASE WaitForEvents \/ ControlDone \/ SyncStop \/ SyncStart \/ Supervise \/ Shutdown
  BY <1>1, <1>7 DEF WaitForEvents, ControlDone, SyncStop, SyncStart, Supervise, Shutdown
<1>8. CASE StartService \/ RestartService \/ StopControl \/ MediaChanges
  BY <1>1, <1>8 DEF StartService, RestartService, Starts, StopControl, MediaChanges
<1>9. CASE \/ \E p \in Pid : WorkerMounts(p) \/ WorkerGivesUp(p) \/ WorkerDies(p)
           \/ \E t \in Target : CooldownElapses(t)
  BY <1>1, <1>9 DEF WorkerMounts, WorkerGivesUp, WorkerDies, Exits, CooldownElapses
<1>10. CASE UNCHANGED vars
  BY <1>1, <1>10 DEF vars
<1> QED
  BY <1>2, <1>3, <1>4, <1>5, <1>6, <1>7, <1>8, <1>9, <1>10 DEF Next, MainLoop

(* Where users give every region one name, no region is ever served by two *)
(* workers of the running service, whenever disks arrive and leave.        *)
THEOREM OneWorkerEachRegion ==
  ASSUME OneNameEach
  PROVE  Spec => []OneWorkerPerRegion
<1> DEFINE Inv == TypeOK /\ WorkerInv /\ RegionInv /\ NameInv
<1>1. Init => Inv
  BY TypeInit, WorkerInvInit, RegionInvInit, NameInvInit
<1>2. Inv /\ [Next]_vars => Inv'
  <2> SUFFICES ASSUME Inv, [Next]_vars PROVE Inv'
    OBVIOUS
  <2>1. TypeOK' /\ WorkerInv' /\ NameInv'
    BY TypeStep, WorkerInvStep, NameInvStep
  <2>2. OnePerRegion(snapshot, media)
    BY DEF NameInv, OnePerRegion, TypeOK
  <2>3. RegionInv'
    BY <2>2, RegionInvStep
  <2> QED
    BY <2>1, <2>3
<1>3. Inv => OneWorkerPerRegion
  BY RegionInvGivesOneWorker
<1> QED
  BY <1>1, <1>2, <1>3, PTL DEF Spec

-----------------------------------------------------------------------------
(* The service as the only writer of mounts.json.                          *)

OnlyTheService == CliRequests = {}

(* What the loop has in hand agrees with the file: what a sync scans is    *)
(* what the file holds, and what it checks is what it has saved, unless    *)
(* the write went wrong.                                                   *)
WriterInv ==
  /\ writing["cli"] = None
  /\ writing["service"] # None => pc \in {"control", "save"}
  /\ pc = "scan" => file = snapshot
  /\ pc = "save" /\ writing["service"] # None => writing["service"].mounts = snapshot
  /\ pc = "check" => file \in {snapshot, Torn}

LEMMA WriterInvInit == Init => WriterInv
BY DEF Init, WriterInv, Actor

LEMMA WriterInvStep ==
  ASSUME TypeOK, WriterInv, OnlyTheService, [Next]_vars
  PROVE  WriterInv'
<1> USE DEF fileVars, loopVars, procVars
<1>1. CASE RequestWrites
  <2>1. CASE TruncateConfig("service")
    BY <1>1, <2>1, TruncateKeepsTables DEF RequestWrites, WriterInv, Actor
  <2>2. CASE WriteConfig("service")
    BY <1>1, <2>2, WriteStoresTable DEF RequestWrites, WriterInv, Actor
  <2> QED
    BY <1>1, <2>1, <2>2 DEF RequestWrites
<1>2. CASE SyncSave
  <2>1. CASE TruncateConfig("service") /\ UNCHANGED pc
    BY <1>2, <2>1, TruncateKeepsTables DEF SyncSave, WriterInv, Actor
  <2>2. CASE WriteConfig("service") /\ pc' = "check"
    BY <1>2, <2>2, WriteStoresTable DEF SyncSave, WriterInv, Actor
  <2> QED
    BY <1>2, <2>1, <2>2 DEF SyncSave
<1>3. CASE CliWrites \/ CliDies \/ \E q \in CliRequests : CliBegin(q)
  BY <1>3 DEF CliWrites, CliDies, TruncateConfig, WriteConfig, WriterInv, OnlyTheService
<1>4. ASSUME NEW q \in SvcRequests, HandleRequest(q) PROVE WriterInv'
  <2>1. q \in Request
    BY MountServiceAssumption
  <2>2. writing'["cli"] = writing["cli"]
    BY <1>4, <2>1, EditComputes, ClearComputes DEF HandleRequest, Actor
  <2> QED
    BY <1>4, <2>2 DEF HandleRequest, WriterInv
<1>5. CASE SyncRead
  BY <1>5 DEF SyncRead, EndSync, BeginSupervision, WriterInv
<1>6. CASE SyncScan
  <2>1. CASE snapshot' # snapshot
    BY <1>6, <2>1 DEF SyncScan, TypeOK, WriterInv, Actor
  <2>2. CASE snapshot' = snapshot
    BY <1>6, <2>2 DEF SyncScan, WriterInv
  <2> QED
    BY <2>1, <2>2
<1>7. CASE SyncCheck
  BY <1>7 DEF SyncCheck, WriterInv
<1>8. CASE ServiceCrash
  BY <1>8 DEF ServiceCrash, TypeOK, WriterInv, Actor
<1>9. CASE WaitForEvents \/ ControlDone \/ SyncStop \/ SyncStart \/ Supervise \/ Shutdown
  BY <1>9 DEF WaitForEvents, ControlDone, BeginSync, BeginSupervision, SyncStop, SyncStart,
              EndSync, Supervise, Shutdown, WriterInv
<1>10. CASE StartService \/ RestartService \/ StopControl \/ MediaChanges
  BY <1>10 DEF StartService, RestartService, Starts, BeginSync, StopControl, MediaChanges,
               WriterInv
<1>11. CASE \/ \E p \in Pid : WorkerMounts(p) \/ WorkerGivesUp(p) \/ WorkerDies(p)
            \/ \E t \in Target : CooldownElapses(t)
  BY <1>11 DEF WorkerMounts, WorkerGivesUp, WorkerDies, Exits, CooldownElapses, WriterInv
<1>12. CASE UNCHANGED vars
  BY <1>12 DEF vars, WriterInv
<1> QED
  BY <1>1, <1>2, <1>3, <1>4, <1>5, <1>6, <1>7, <1>8, <1>9, <1>10, <1>11, <1>12
     DEF Next, MainLoop

-----------------------------------------------------------------------------
(* Drive letters.                                                          *)

(* Users only change the letters, policies and flags of the entries that   *)
(* discovery has made, by way of the service, and the first table gives no *)
(* letter twice.                                                           *)
OnlySettings ==
  /\ OnlyTheService
  /\ \A q \in SvcRequests : q.op \in SetOps
  /\ \A m \in InitialMounts : LettersApart(m)

(* A table with no letter twice and an entry for every region that has a   *)
(* worker: discovery has then no reason to add an entry with the letter of *)
(* a running worker.                                                       *)
Sound(m) == LettersApart(m) /\ \A h \in workers : RegionOf[h.target] \in RegionsOf(m)

LetterInv ==
  /\ file # Torn => Sound(file)
  /\ writing["service"] # None => Sound(writing["service"].mounts)
  /\ pc \in {"stop", "start"} /\ file # Torn => RegionsOf(desired) \subseteq RegionsOf(file)

LEMMA LetterInvInit == OnlySettings /\ Init => LetterInv
BY DEF Init, LetterInv, Sound, OnlySettings, Actor

LEMMA WritesKeepLetterInv ==
  ASSUME TypeOK, LetterInv, TruncateConfig("service") \/ WriteConfig("service"),
         workers' = workers, pc' \notin {"stop", "start"}
  PROVE  LetterInv'
<1>1. CASE TruncateConfig("service")
  <2>1. /\ file' = Torn /\ writing["service"] # None
        /\ writing'["service"].mounts = writing["service"].mounts
    BY <1>1, TruncateKeepsTables DEF Actor
  <2> QED
    BY <2>1 DEF LetterInv, Sound, LettersApart, RegionsOf, Configured
<1>2. CASE WriteConfig("service")
  <2>1. /\ file' \in {writing["service"].mounts, Torn}
        /\ writing["service"] # None /\ writing'["service"] = None
    BY <1>2, WriteStoresTable DEF Actor
  <2> QED
    BY <2>1 DEF LetterInv, Sound, LettersApart, RegionsOf, Configured
<1> QED
  BY <1>1, <1>2

(* A step that leaves the tables alone and starts workers for regions of   *)
(* the file only.                                                          *)
LEMMA TablesStayLetterInv ==
  ASSUME TypeOK, WorkerInv, WriterInv, LetterInv, [Next]_vars,
         UNCHANGED <<file, writing>>,
         UNCHANGED desired \/ pc' \notin {"stop", "start"},
         pc' \in {"stop", "start"} => pc \in {"stop", "start"}
  PROVE  LetterInv'
<1>1. ASSUME NEW k \in workers'
      PROVE  /\ file # Torn => RegionOf[k.target] \in RegionsOf(file)
             /\ writing["service"] # None =>
                  RegionOf[k.target] \in RegionsOf(writing["service"].mounts)
  <2>1. CASE \E h \in workers : h.target = k.target
    BY <2>1 DEF LetterInv, Sound
  <2>2. CASE pc = "start" /\ k.target \in Configured(desired)
    BY <2>2 DEF LetterInv, WriterInv, RegionsOf
  <2> QED
    BY <2>1, <2>2, HandlesComeFrom
<1> QED
  BY <1>1 DEF LetterInv, Sound, LettersApart, RegionsOf, Configured

LEMMA LetterInvStep ==
  ASSUME TypeOK, WorkerInv, WriterInv, LetterInv, OnlySettings, [Next]_vars
  PROVE  LetterInv'
<1> USE DEF fileVars, loopVars, procVars
<1>1. CASE RequestWrites \/ SyncSave
  <2>1. pc' \notin {"stop", "start"} /\ workers' = workers
    BY <1>1 DEF RequestWrites, SyncSave
  <2> QED
    BY <1>1, <2>1, WritesKeepLetterInv DEF RequestWrites, SyncSave
<1>2. CASE CliWrites \/ CliDies \/ \E q \in CliRequests : CliBegin(q)
  BY <1>2 DEF CliWrites, CliDies, TruncateConfig, WriteConfig, WriterInv, OnlySettings,
              OnlyTheService
<1>3. ASSUME NEW q \in SvcRequests, HandleRequest(q) PROVE LetterInv'
  <2>1. q \in Request /\ q.op \in SetOps /\ q.op # "clear_mounts"
    BY MountServiceAssumption DEF OnlySettings, SetOps
  <2>2. /\ file \in Mounts
        /\ ~Refused(file, q, TRUE, media, LettersInUse)
        /\ writing'["service"].mounts = Applied(file, q)
        /\ UNCHANGED <<file, intent>>
    BY <1>3, <2>1, EditComputes DEF HandleRequest, Actor
  <2>3. Sound(file)
    BY <2>2, MountServiceAssumption DEF LetterInv
  <2>4. LettersApart(Applied(file, q)) /\ Configured(Applied(file, q)) = Configured(file)
    BY <2>1, <2>2, <2>3, AppliedKeepsLettersApart, AppliedNames DEF Sound
  <2>5. UNCHANGED <<pc, desired, workers>>
    BY <1>3 DEF HandleRequest
  <2>6. Sound(Applied(file, q))
    BY <2>3, <2>4 DEF Sound, RegionsOf
  <2>7. pc = "control"
    BY <1>3 DEF HandleRequest
  <2> QED
    BY <2>2, <2>3, <2>5, <2>6, <2>7 DEF LetterInv, Sound, LettersApart, RegionsOf, Configured
<1>4. CASE SyncScan
  <2> DEFINE after == AutoDiscovery(snapshot, media, PreferredMounts, LettersInUse)
  <2>1. file = snapshot /\ snapshot \in Mounts /\ file # Torn
    BY <1>4, MountServiceAssumption DEF SyncScan, WriterInv, TypeOK
  <2>2. PreferredMounts \in Mounts
    BY PreferredType DEF TypeOK
  <2>3. ASSUME NEW t \in Configured(PreferredMounts) PROVE RegionOf[t] \in RegionsOf(snapshot)
    <3>1. t \in Target /\ \E h \in workers : h.target = t
      BY DEF PreferredMounts, Configured
    <3> QED
      BY <2>1, <3>1 DEF LetterInv, Sound
  <2>4. LettersApart(after)
    BY <2>1, <2>2, <2>3, DiscoveryKeepsLettersApart DEF LetterInv, Sound, TypeOK
  <2>5. RegionsOf(snapshot) \subseteq RegionsOf(after)
    BY <2>1, <2>2, DiscoveryKeepsRegions DEF TypeOK
  <2>6. Sound(after)
    BY <2>1, <2>4, <2>5 DEF LetterInv, Sound
  <2>7. workers' = workers /\ file' = file /\ pc' \in {"save", "check"}
    BY <1>4 DEF SyncScan
  <2>8. writing'["service"] # None =>
          \/ writing'["service"] = writing["service"]
          \/ writing'["service"].mounts = after
    BY <1>4 DEF SyncScan, TypeOK, Actor
  <2> HIDE DEF after
  <2> QED
    BY <2>6, <2>7, <2>8 DEF LetterInv, Sound, LettersApart, RegionsOf, Configured
<1>5. CASE SyncCheck
  <2>1. UNCHANGED <<file, writing, workers>> /\ file \in {snapshot, Torn}
    BY <1>5 DEF SyncCheck, WriterInv
  <2>2. Configured(desired)' \subseteq Configured(snapshot)
    BY <1>5 DEF SyncCheck, Configured
  <2>3. RegionsOf(desired)' \subseteq RegionsOf(snapshot)
    BY <2>2 DEF RegionsOf
  <2> QED
    BY <2>1, <2>3 DEF LetterInv, Sound, LettersApart, RegionsOf, Configured
<1>6. CASE ServiceCrash
  <2>1. writing'["service"] = None /\ file' = file /\ workers' = {} /\ pc' = "down"
    BY <1>6 DEF ServiceCrash, TypeOK, Actor
  <2> QED
    BY <2>1 DEF LetterInv, Sound, LettersApart, RegionsOf, Configured
<1>7. CASE WaitForEvents \/ ControlDone \/ SyncRead \/ SyncStop \/ SyncStart \/ Supervise \/ Shutdown
  <2>1. UNCHANGED <<file, writing>>
    BY <1>7 DEF WaitForEvents, ControlDone, SyncRead, SyncStop, SyncStart, Supervise, Shutdown
  <2>2. /\ UNCHANGED desired \/ pc' \notin {"stop", "start"}
        /\ pc' \in {"stop", "start"} => pc \in {"stop", "start"}
    BY <1>7 DEF WaitForEvents, ControlDone, BeginSync, BeginSupervision, SyncRead, SyncStop,
                SyncStart, EndSync, Supervise, Shutdown
  <2> QED
    BY <2>1, <2>2, TablesStayLetterInv
<1>8. CASE \/ StartService \/ RestartService \/ StopControl \/ MediaChanges
           \/ \E p \in Pid : WorkerMounts(p) \/ WorkerGivesUp(p) \/ WorkerDies(p)
           \/ \E t \in Target : CooldownElapses(t)
           \/ UNCHANGED vars
  <2>1. /\ UNCHANGED <<file, writing, desired>>
        /\ pc' \in {"stop", "start"} => pc \in {"stop", "start"}
    BY <1>8 DEF StartService, RestartService, Starts, BeginSync, StopControl, MediaChanges,
                WorkerMounts, WorkerGivesUp, WorkerDies, Exits, CooldownElapses, vars
  <2> QED
    BY <2>1, TablesStayLetterInv
<1> QED
  BY <1>1, <1>2, <1>3, <1>4, <1>5, <1>6, <1>7, <1>8 DEF Next, MainLoop

(* While users only change settings, and do it by way of the service, no   *)
(* two entries of a readable mounts.json claim one letter: not through     *)
(* requests, and not through the letters that syncs give to the volumes of *)
(* disks that come and go beside workers that start, mount and die.        *)
THEOREM LettersStayApart ==
  ASSUME OnlySettings
  PROVE  Spec => []LettersUnique
<1> DEFINE Inv == TypeOK /\ WorkerInv /\ WriterInv /\ LetterInv
<1>1. Init => Inv
  BY TypeInit, WorkerInvInit, WriterInvInit, LetterInvInit
<1>2. Inv /\ [Next]_vars => Inv'
  BY TypeStep, WorkerInvStep, WriterInvStep, LetterInvStep DEF OnlySettings
<1>3. Inv => LettersUnique
  BY DEF LetterInv, Sound, LettersApart, LettersUnique
<1> QED
  BY <1>1, <1>2, <1>3, PTL DEF Spec

-----------------------------------------------------------------------------
(* Saved policies.                                                         *)

(* The table holds the policies the user has saved, except for the regions *)
(* whose entries are being changed.                                        *)
HoldsPolicies(m, touched) ==
  \A r \in Region : intent[r] # None /\ (\A t \in touched : RegionOf[t] # r) =>
    \E t \in Configured(m) : RegionOf[t] = r /\ Policy(m[t]) = intent[r]

PolicyInv ==
  /\ file # Torn => HoldsPolicies(file, {})
  /\ writing["service"] # None =>
       HoldsPolicies(writing["service"].mounts, writing["service"].touched)

(* A policy saved for some names of a region is that of an entry.          *)
LEMMA SavedPolicyHasEntry ==
  ASSUME NEW m \in Mounts, NEW names, SavedPolicy(m, names) # None
  PROVE  \E t \in Configured(m) : t \in names /\ Policy(m[t]) = SavedPolicy(m, names)
<1>1. names \cap Configured(m) # {}
  BY DEF SavedPolicy
<1> DEFINE t == CHOOSE t \in names \cap Configured(m) : TRUE
<1>2. t \in names \cap Configured(m)
  BY <1>1
<1>3. SavedPolicy(m, names) = Policy(m[t])
  BY <1>1 DEF SavedPolicy
<1> QED
  BY <1>2, <1>3

LEMMA PolicyInvInit == Init => PolicyInv
<1> SUFFICES ASSUME Init PROVE PolicyInv
  OBVIOUS
<1>1. file \in Mounts
  BY MountServiceAssumption DEF Init
<1>2. ASSUME NEW r \in Region, intent[r] # None
      PROVE  \E t \in Configured(file) : RegionOf[t] = r /\ Policy(file[t]) = intent[r]
  <2>1. intent[r] = SavedPolicy(file, {t \in Target : RegionOf[t] = r})
    BY DEF Init
  <2> QED
    BY <1>1, <1>2, <2>1, SavedPolicyHasEntry
<1> QED
  BY <1>2 DEF Init, PolicyInv, HoldsPolicies, Actor

LEMMA WritesKeepPolicyInv ==
  ASSUME TypeOK, PolicyInv, TruncateConfig("service") \/ WriteConfig("service")
  PROVE  PolicyInv'
<1>1. CASE TruncateConfig("service")
  <2>1. /\ file' = Torn /\ intent' = intent /\ writing["service"] # None
        /\ writing'["service"].mounts = writing["service"].mounts
        /\ writing'["service"].touched = writing["service"].touched
    BY <1>1, TruncateKeepsTables DEF Actor
  <2> QED
    BY <2>1 DEF PolicyInv, HoldsPolicies, Configured
<1>2. CASE WriteConfig("service")
  <2> DEFINE m == writing["service"].mounts
             touched(r) == {t \in writing["service"].touched : RegionOf[t] = r}
  <2>1. /\ file' \in {m, Torn} /\ writing["service"] # None
        /\ writing'["service"] = None
    BY <1>2, WriteStoresTable DEF Actor
  <2>2. m \in Mounts /\ writing["service"].touched \subseteq Target
    BY <2>1 DEF TypeOK, Actor, Writing
  <2>3. ASSUME NEW r \in Region, intent'[r] # None
        PROVE  \E t \in Configured(m) : RegionOf[t] = r /\ Policy(m[t]) = intent'[r]
    <3>1. intent'[r] = IF touched(r) = {} THEN intent[r] ELSE SavedPolicy(m, touched(r))
      BY <1>2 DEF WriteConfig
    <3>2. CASE touched(r) = {}
      <4>1. \A t \in writing["service"].touched : RegionOf[t] # r
        BY <3>2
      <4> QED
        BY <2>1, <2>3, <3>1, <3>2, <4>1 DEF PolicyInv, HoldsPolicies
    <3>3. CASE touched(r) # {}
      <4>1. intent'[r] = SavedPolicy(m, touched(r))
        BY <3>1, <3>3
      <4>2. PICK t \in Configured(m) : t \in touched(r) /\ Policy(m[t]) = intent'[r]
        BY <2>2, <2>3, <4>1, SavedPolicyHasEntry
      <4> QED
        BY <4>2
    <3> QED
      BY <3>2, <3>3
  <2> HIDE DEF m
  <2> QED
    BY <2>1, <2>3 DEF PolicyInv, HoldsPolicies, Configured
<1> QED
  BY <1>1, <1>2

LEMMA PolicyInvStep ==
  ASSUME TypeOK, NameInv, WriterInv, PolicyInv, OnlyTheService, [Next]_vars
  PROVE  PolicyInv'
<1> USE DEF fileVars, loopVars, procVars
<1>1. CASE RequestWrites \/ SyncSave
  BY <1>1, WritesKeepPolicyInv DEF RequestWrites, SyncSave
<1>2. CASE CliWrites \/ CliDies \/ \E q \in CliRequests : CliBegin(q)
  BY <1>2 DEF CliWrites, CliDies, TruncateConfig, WriteConfig, WriterInv, OnlyTheService
<1>3. ASSUME NEW q \in SvcRequests, HandleRequest(q) PROVE PolicyInv'
  <2>1. q \in Request
    BY MountServiceAssumption
  <2>2. BeginEdit("service", q) /\ "service" \in Actor
    BY <1>3 DEF HandleRequest, Actor
  <2>3. q.op # "clear_mounts"
    BY <2>1, <2>2, ClearComputes
  <2>4. /\ file \in Mounts /\ file # Torn
        /\ writing'["service"].mounts = Applied(file, q)
        /\ writing'["service"].touched =
             {q.target} \cup {t \in Target : Applied(file, q)[t] # file[t]}
        /\ UNCHANGED <<file, intent>>
    BY <2>1, <2>2, <2>3, EditComputes, MountServiceAssumption
  <2>5. ASSUME NEW r \in Region, intent[r] # None,
               \A t \in writing'["service"].touched : RegionOf[t] # r
        PROVE  \E t \in Configured(Applied(file, q)) :
                 RegionOf[t] = r /\ Policy(Applied(file, q)[t]) = intent[r]
    <3>1. PICK t \in Configured(file) : RegionOf[t] = r /\ Policy(file[t]) = intent[r]
      BY <2>4, <2>5 DEF PolicyInv, HoldsPolicies
    <3>2. t \in Target /\ file[t] # None
      BY DEF Configured
    <3>3. Applied(file, q)[t] = file[t]
      BY <2>4, <2>5, <3>1, <3>2
    <3> QED
      BY <3>1, <3>2, <3>3 DEF Configured
  <2> QED
    BY <2>4, <2>5 DEF PolicyInv, HoldsPolicies, Configured
<1>4. CASE SyncScan
  <2> DEFINE after == AutoDiscovery(snapshot, media, PreferredMounts, LettersInUse)
  <2>1. file = snapshot /\ snapshot \in Mounts /\ file # Torn
    BY <1>4, MountServiceAssumption DEF SyncScan, WriterInv, TypeOK
  <2>2. PreferredMounts \in Mounts
    BY PreferredType DEF TypeOK
  <2>3. ASSUME NEW r \in Region, intent[r] # None
        PROVE  \E t \in Configured(after) : RegionOf[t] = r /\ Policy(after[t]) = intent[r]
    <3>1. PICK s \in Configured(snapshot) : RegionOf[s] = r /\ Policy(snapshot[s]) = intent[r]
      BY <2>1, <2>3 DEF PolicyInv, HoldsPolicies
    <3>2. \A u \in Configured(snapshot) : RegionOf[u] = RegionOf[s] => u = s
      BY <3>1 DEF NameInv, OnePerRegion
    <3>3. PICK t \in Configured(after) : RegionOf[t] = RegionOf[s] /\ after[t] = snapshot[s]
      BY <2>1, <2>2, <3>2, DiscoveryKeepsEntry DEF TypeOK
    <3> QED
      BY <3>1, <3>3
  <2>4. UNCHANGED <<file, intent>>
    BY <1>4 DEF SyncScan
  <2>5. \/ writing'["service"] = writing["service"]
        \/ writing'["service"].mounts = after
    BY <1>4 DEF SyncScan, TypeOK, Actor
  <2> HIDE DEF after
  <2> QED
    BY <2>3, <2>4, <2>5 DEF PolicyInv, HoldsPolicies, Configured
<1>5. CASE ServiceCrash
  <2>1. writing'["service"] = None /\ UNCHANGED <<file, intent>>
    BY <1>5 DEF ServiceCrash, TypeOK, Actor
  <2> QED
    BY <2>1 DEF PolicyInv, HoldsPolicies, Configured
<1>6. CASE UNCHANGED <<file, writing, intent>>
  BY <1>6 DEF PolicyInv, HoldsPolicies, Configured
<1>7. CASE \/ WaitForEvents \/ ControlDone \/ SyncRead \/ SyncCheck \/ SyncStop
           \/ SyncStart \/ Supervise \/ Shutdown
  BY <1>6, <1>7 DEF WaitForEvents, ControlDone, SyncRead, SyncCheck, SyncStop, SyncStart,
                    Supervise, Shutdown
<1>8. CASE \/ StartService \/ RestartService \/ StopControl \/ MediaChanges
           \/ \E p \in Pid : WorkerMounts(p) \/ WorkerGivesUp(p) \/ WorkerDies(p)
           \/ \E t \in Target : CooldownElapses(t)
           \/ UNCHANGED vars
  BY <1>6, <1>8 DEF StartService, RestartService, Starts, StopControl, MediaChanges,
                    WorkerMounts, WorkerGivesUp, WorkerDies, Exits, CooldownElapses, vars
<1> QED
  BY <1>1, <1>2, <1>3, <1>4, <1>5, <1>7, <1>8 DEF Next, MainLoop

(* While nobody edits mounts.json beside the service, and every region has *)
(* one name, the policy a user has saved is what a readable file holds for *)
(* the region: requests for other regions, the repair of names, the        *)
(* volumes that syncs add and the disks that come and go do not change it. *)
THEOREM PoliciesKept ==
  ASSUME OnlyTheService, OneNameEach
  PROVE  Spec => []SavedPolicyPreserved
<1> DEFINE Inv == TypeOK /\ NameInv /\ WriterInv /\ PolicyInv
<1>1. Init => Inv
  BY TypeInit, NameInvInit, WriterInvInit, PolicyInvInit
<1>2. Inv /\ [Next]_vars => Inv'
  BY TypeStep, NameInvStep, WriterInvStep, PolicyInvStep
<1>3. Inv => SavedPolicyPreserved
  BY DEF PolicyInv, HoldsPolicies, SavedPolicyPreserved
<1> QED
  BY <1>1, <1>2, <1>3, PTL DEF Spec

=============================================================================
