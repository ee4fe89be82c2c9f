----------------------------- MODULE MountService -----------------------------
(***************************************************************************)
(* apfs_mount_service: the main loop of the Windows service, the control   *)
(* requests it serves, the command line processes that edit mounts.json    *)
(* beside it, the workers it supervises and the disks that come and go.    *)
(*                                                                         *)
(* The main loop is one thread: "pc" names the point it has reached, and   *)
(* every point where it waits or where another process can get in between  *)
(* ends an action.  A write of mounts.json is two steps, the open that     *)
(* truncates the file and the write of its new contents.                   *)
(*                                                                         *)
(* Abstracted: time (SyncTicks loop turns stand for the 5 s sync interval, *)
(* CooldownElapses for the 5 s between two starts of a worker), the        *)
(* answers to requests, logs.                                              *)
(***************************************************************************)
EXTENDS MountPolicy

CONSTANTS
  SysLetters,    (* letters taken by other volumes of the machine           *)
  Pid,           (* process identifiers of workers                          *)
  Torn,          (* contents of mounts.json that do not parse               *)
  InitialMounts, (* the mount tables the service may find at first          *)
  SvcRequests,   (* requests clients send to the service                    *)
  CliRequests,   (* requests command line processes apply                   *)
  SyncTicks,     (* loop turns after which a sync is due                    *)
  MaxEdits, MaxMediaEvents, MaxFaults, MaxCrashes,  (* bounds for TLC       *)
  MaxStops,
  FirstUsed      (* what may be used up of each bound at first: one run     *)
                 (* covers several combinations of events with it           *)

ASSUME MountServiceAssumption ==
  /\ SysLetters \subseteq Letter
  /\ InitialMounts \subseteq Mounts
  /\ SvcRequests \subseteq Request
  /\ CliRequests \subseteq Request
  /\ None \notin Pid
  /\ Torn \notin Mounts
  /\ SyncTicks \in Nat
  /\ MaxEdits \in Nat /\ MaxMediaEvents \in Nat /\ MaxFaults \in Nat
  /\ MaxCrashes \in Nat /\ MaxStops \in Nat
  /\ FirstUsed \subseteq [edit : Nat, media : Nat, fault : Nat, crash : Nat, stop : Nat]

VARIABLES
  file,        (* contents of mounts.json                                    *)
  writing,     (* per actor: the table it is about to write, or None         *)
  scm,         (* the state the service control manager sees                 *)
  pc,          (* where the main loop is                                     *)
  resync,      (* g_resyncEvent, an auto-reset event                         *)
  deviceSync,  (* this turn of the loop was woken by g_resyncEvent           *)
  ticks,       (* turns since the last sync                                  *)
  booting,     (* the sync in progress is the one of the service's start     *)
  snapshot,    (* the table the sync in progress works on                    *)
  desired,     (* the table of workers the sync in progress wants            *)
  due,         (* the workers the supervision pass still has to look at      *)
  workers,     (* the service's worker handles                               *)
  procs,       (* the worker processes of the machine                        *)
  orphans,     (* processes a service that crashed has left behind           *)
  media,       (* the regions that are readable now                          *)
  intent,      (* history: the policies the user has saved                   *)
  used         (* how much of each bound is used up                          *)

loopVars == <<pc, deviceSync, ticks, booting, snapshot, desired, due>>
fileVars == <<file, writing, intent>>
procVars == <<workers, procs, orphans>>
vars == <<fileVars, scm, resync, loopVars, procVars, media, used>>

Actor == {"service", "cli"}

Points == {"down", "wait", "control", "read", "scan", "save", "check",
           "stop", "start", "supervise", "shutdown"}

ScmState == {"stopped", "crashed", "start_pending", "running", "stop_pending"}

Bounds == [edit : Nat, media : Nat, fault : Nat, crash : Nat, stop : Nat]

(* A table on its way to the file.  "touched" is empty for the service's   *)
(* own sync and names the entries a request creates, changes or removes.   *)
Writing == [mounts : Mounts, touched : SUBSET Target, truncated : BOOLEAN]

Handle == [target : Target, entry : Entry, pid : Pid \cup {None}, cooling : BOOLEAN]

Proc == [target : Target, entry : Entry, mounted : BOOLEAN]

TypeOK ==
  /\ file \in Mounts \cup {Torn}
  /\ writing \in [Actor -> Writing \cup {None}]
  /\ scm \in ScmState
  /\ pc \in Points
  /\ resync \in BOOLEAN
  /\ deviceSync \in BOOLEAN
  /\ ticks \in Nat
  /\ booting \in BOOLEAN
  /\ snapshot \in Mounts
  /\ desired \in Mounts
  /\ workers \subseteq Handle
  /\ due \subseteq Handle
  /\ procs \in [Pid -> Proc \cup {None}]
  /\ orphans \subseteq Pid
  /\ media \subseteq Region
  /\ intent \in [Region -> PolicySet \cup {None}]
  /\ used \in Bounds

-----------------------------------------------------------------------------
Live == {p \in Pid : procs[p] # None}

IsRunning(h) == h.pid # None /\ h.pid \in Live

(* GetLogicalDrives: the letters that exist on the machine. *)
LettersInUse == SysLetters \cup {procs[p].entry.mount : p \in {q \in Live : procs[q].mounted}}

(* Identifiers for a new process of handle h. *)
FreePids(h) == (Pid \ Live) \ {k.pid : k \in workers \ {h}}

(* activeWorkerConfigs, looked up by target. *)
PreferredMounts ==
  [t \in Target |-> IF \E h \in workers : h.target = t
                    THEN (CHOOSE h \in workers : h.target = t).entry
                    ELSE None]

(* The policy a table saves for a set of names of one region. *)
SavedPolicy(m, names) ==
  IF names \cap Configured(m) = {} THEN None
  ELSE Policy(m[CHOOSE t \in names \cap Configured(m) : TRUE])

Init ==
  /\ file \in InitialMounts
  /\ writing = [a \in Actor |-> None]
  /\ scm = "stopped"
  /\ pc = "down"
  /\ resync = FALSE
  /\ deviceSync = FALSE
  /\ ticks = 0
  /\ booting = FALSE
  /\ snapshot = NoMounts
  /\ desired = NoMounts
  /\ due = {}
  /\ workers = {}
  /\ procs = [p \in Pid |-> None]
  /\ orphans = {}
  /\ media \in SUBSET Region
  /\ intent = [r \in Region |-> SavedPolicy(file, {t \in Target : RegionOf[t] = r})]
  /\ used \in FirstUsed

Spend(kind, bound) == used[kind] < bound /\ used' = [used EXCEPT ![kind] = @ + 1]

-----------------------------------------------------------------------------
(* mounts.json.                                                            *)

TruncateConfig(a) ==
  /\ writing[a] # None
  /\ ~writing[a].truncated
  /\ writing' = [writing EXCEPT ![a].truncated = TRUE]
  /\ file' = Torn
  /\ UNCHANGED intent

(* Each writer writes from the start of the file.  When another one has    *)
(* written since this one truncated, a shorter text leaves its tail behind.*)
WriteConfig(a) ==
  /\ writing[a] # None
  /\ writing[a].truncated
  /\ file' \in IF file \in {Torn, writing[a].mounts}
               THEN {writing[a].mounts}
               ELSE {writing[a].mounts, Torn}
  /\ writing' = [writing EXCEPT ![a] = None]
  /\ intent' = [r \in Region |->
                  LET touched == {t \in writing[a].touched : RegionOf[t] = r}
                  IN  IF touched = {} THEN intent[r]
                      ELSE SavedPolicy(writing[a].mounts, touched)]

(* A request reads the file, checks the request against what it read and   *)
(* sets out to write the new table; clear_mounts does not read.  A request *)
(* that is refused, or finds a file it cannot parse, changes nothing.      *)
BeginEdit(a, q) ==
  /\ writing[a] = None
  /\ q.op = "clear_mounts" \/ file # Torn
  /\ LET before == IF q.op = "clear_mounts" THEN NoMounts ELSE file
         after  == Applied(before, q)
     IN  /\ ~Refused(before, q, a = "service", media, LettersInUse)
         /\ writing' = [writing EXCEPT ![a] =
              [mounts    |-> after,
               touched   |-> IF q.op = "clear_mounts" THEN Target
                             ELSE {q.target} \cup {t \in Target : after[t] # before[t]},
               truncated |-> FALSE]]
  /\ UNCHANGED <<file, intent>>
  /\ Spend("edit", MaxEdits)

(* The command line process. *)
CliBegin(q) ==
  /\ BeginEdit("cli", q)
  /\ UNCHANGED <<scm, resync, loopVars, procVars, media>>

CliWrites ==
  /\ TruncateConfig("cli") \/ WriteConfig("cli")
  /\ UNCHANGED <<scm, resync, loopVars, procVars, media, used>>

(* A command line process can be killed at any point of its edit. *)
CliDies ==
  /\ writing["cli"] # None
  /\ writing' = [writing EXCEPT !["cli"] = None]
  /\ Spend("fault", MaxFaults)
  /\ UNCHANGED <<file, intent, scm, resync, loopVars, procVars, media>>

-----------------------------------------------------------------------------
(* Worker processes.                                                       *)

CanMount(p) ==
  /\ RegionOf[procs[p].target] \in media
  /\ \/ procs[p].entry.read_only
     \/ procs[p].entry.allow_raw_writes
     \/ procs[p].target \in Image
  /\ procs[p].entry.mount \notin LettersInUse

WorkerMounts(p) ==
  /\ p \in Live
  /\ ~procs[p].mounted
  /\ CanMount(p)
  /\ procs' = [procs EXCEPT ![p].mounted = TRUE]
  /\ UNCHANGED <<fileVars, scm, resync, loopVars, workers, orphans, media, used>>

Exits(p) ==
  /\ procs' = [procs EXCEPT ![p] = None]
  /\ orphans' = orphans \ {p}
  /\ UNCHANGED <<fileVars, scm, resync, loopVars, workers, media>>

(* The target is gone or refused, or the drive letter is taken. *)
WorkerGivesUp(p) ==
  /\ p \in Live
  /\ ~procs[p].mounted
  /\ ~CanMount(p)
  /\ Exits(p)
  /\ UNCHANGED used

WorkerDies(p) ==
  /\ p \in Live
  /\ Exits(p)
  /\ Spend("fault", MaxFaults)

(* startWorker on handle h: the new process, or a start that failed. *)
StartWorker(h) ==
  \/ \E p \in FreePids(h) :
       /\ procs' = [procs EXCEPT ![p] =
                      [target |-> h.target, entry |-> h.entry, mounted |-> FALSE]]
       /\ workers' = (workers \ {h}) \cup {[h EXCEPT !.pid = p, !.cooling = TRUE]}
       /\ UNCHANGED <<orphans, used>>
  \/ /\ workers' = (workers \ {h}) \cup {[h EXCEPT !.pid = None, !.cooling = TRUE]}
     /\ Spend("fault", MaxFaults)
     /\ UNCHANGED <<procs, orphans>>

StopWorkerWithoutWaiting(h) ==  \* mutant: the process is not killed
  /\ workers' = workers \ {h}
  /\ UNCHANGED <<procs, orphans>>

(* stopWorker on handle h, which the service then forgets: terminate() does *)
(* nothing to a console process, so the process is killed.                 *)
StopWorker(h) ==
  /\ workers' = workers \ {h}
  /\ procs' = IF IsRunning(h) THEN [procs EXCEPT ![h.pid] = None] ELSE procs
  /\ UNCHANGED orphans

(* Five seconds since the last start of a worker have passed. *)
CooldownElapses(t) ==
  /\ \E h \in workers :
       /\ h.target = t
       /\ h.cooling
       /\ workers' = (workers \ {h}) \cup {[h EXCEPT !.cooling = FALSE]}
  /\ UNCHANGED <<fileVars, scm, resync, loopVars, procs, orphans, media, used>>

-----------------------------------------------------------------------------
(* The main loop.                                                          *)

BeginSync == pc' = "read"

BeginSupervisionOfExited ==  \* mutant: a worker whose start failed is skipped
  /\ pc' = "supervise"
  /\ due' = {h \in workers' : h.pid # None /\ procs'[h.pid] = None /\ ~h.cooling}

BeginSupervision ==
  /\ pc' = "supervise"
  /\ due' = {h \in workers' : ~(h.pid # None /\ procs'[h.pid] # None) /\ ~h.cooling}

Starts ==
  /\ pc = "down"
  /\ scm' = "start_pending"
  /\ booting' = TRUE
  /\ BeginSync
  /\ UNCHANGED <<fileVars, resync, deviceSync, ticks, snapshot, desired, due,
                 procVars, media, used>>

StartService == scm = "stopped" /\ Starts

(* The service's recovery policy starts it again when it has crashed. *)
RestartService == scm = "crashed" /\ Starts

WaitForEvents ==
  /\ pc = "wait"
  /\ IF scm = "stop_pending"
     THEN /\ pc' = "shutdown"
          /\ UNCHANGED <<resync, deviceSync>>
     ELSE /\ pc' = "control"
          /\ deviceSync' = resync
          /\ resync' = FALSE
  /\ UNCHANGED <<fileVars, scm, ticks, booting, snapshot, desired, due,
                 procVars, media, used>>

HandleRequest(q) ==
  /\ pc = "control"
  /\ BeginEdit("service", q)
  /\ UNCHANGED <<scm, resync, loopVars, procVars, media>>

RequestWrites ==
  /\ pc = "control"
  /\ \/ TruncateConfig("service") /\ UNCHANGED resync
     \/ WriteConfig("service") /\ resync' = TRUE
  /\ UNCHANGED <<scm, loopVars, procVars, media, used>>

ControlDone ==
  /\ pc = "control"
  /\ writing["service"] = None
  /\ UNCHANGED <<fileVars, scm, resync, deviceSync, booting, snapshot, desired,
                 procVars, media, used>>
  /\ \/ /\ BeginSync
        /\ UNCHANGED <<ticks, due>>
     \/ /\ ~deviceSync
        /\ ticks < SyncTicks
        /\ ticks' = ticks + 1
        /\ BeginSupervision

EndSyncReportingRunning ==  \* mutant: every sync reports SERVICE_RUNNING
  /\ ticks' = 0
  /\ booting' = FALSE
  /\ deviceSync' = FALSE
  /\ desired' = NoMounts
  /\ scm' = "running"
  /\ IF booting THEN pc' = "wait" /\ UNCHANGED due ELSE BeginSupervision

(* The end of a sync: the service's start reports that it is running, a    *)
(* later sync goes on to supervision.                                      *)
EndSync ==
  /\ ticks' = 0
  /\ booting' = FALSE
  /\ deviceSync' = FALSE
  /\ desired' = NoMounts
  /\ IF booting
     THEN /\ pc' = "wait"
          /\ scm' = "running"
          /\ UNCHANGED due
     ELSE /\ BeginSupervision
          /\ UNCHANGED scm

SyncRead ==
  /\ pc = "read"
  /\ IF file = Torn
     THEN /\ UNCHANGED procVars
          /\ EndSync
          /\ UNCHANGED snapshot
     ELSE /\ snapshot' = file
          /\ pc' = "scan"
          /\ UNCHANGED <<scm, deviceSync, ticks, booting, desired, due, procVars>>
  /\ UNCHANGED <<fileVars, resync, media, used>>

(* The scan opens up to 32 drives; the table it works on was read before.  *)
SyncScan ==
  /\ pc = "scan"
  /\ snapshot' = AutoDiscovery(snapshot, media, PreferredMounts, LettersInUse)
  /\ IF snapshot' # snapshot
     THEN /\ pc' = "save"
          /\ writing' = [writing EXCEPT !["service"] =
               [mounts |-> snapshot', touched |-> {}, truncated |-> FALSE]]
     ELSE /\ pc' = "check"
          /\ UNCHANGED writing
  /\ UNCHANGED <<file, intent, scm, resync, deviceSync, ticks, booting, desired, due,
                 procVars, media, used>>

SyncSave ==
  /\ pc = "save"
  /\ \/ TruncateConfig("service") /\ UNCHANGED pc
     \/ WriteConfig("service") /\ pc' = "check"
  /\ UNCHANGED <<scm, resync, deviceSync, ticks, booting, snapshot, desired, due,
                 procVars, media, used>>

(* runnableMounts: the enabled entries whose target opens as APFS now. *)
SyncCheck ==
  /\ pc = "check"
  /\ pc' = "stop"
  /\ desired' = [t \in Target |->
                   IF t \in Configured(snapshot) /\ snapshot[t].enabled /\ RegionOf[t] \in media
                   THEN snapshot[t] ELSE None]
  /\ snapshot' = NoMounts
  /\ UNCHANGED <<fileVars, scm, resync, deviceSync, ticks, booting, due, procVars, media, used>>

StaleWhenUnwanted(h) == desired[h.target] = None  \* mutant: changed entries are not noticed

Stale(h) == desired[h.target] # h.entry

SyncStop ==
  /\ pc = "stop"
  /\ \/ /\ \E h \in workers : Stale(h) /\ StopWorker(h)
        /\ UNCHANGED pc
     \/ /\ \A h \in workers : ~Stale(h)
        /\ pc' = "start"
        /\ UNCHANGED procVars
  /\ UNCHANGED <<fileVars, scm, resync, deviceSync, ticks, booting, snapshot, desired, due,
                 media, used>>

HasWorker(t) == \E h \in workers : h.target = t /\ h.entry = desired[t]

SyncStart ==
  /\ pc = "start"
  /\ \/ /\ \E t \in Configured(desired) :
             /\ ~HasWorker(t)
             /\ StartWorker([target |-> t, entry |-> desired[t], pid |-> None, cooling |-> FALSE])
        /\ UNCHANGED <<scm, loopVars>>
     \/ /\ \A t \in Configured(desired) : HasWorker(t)
        /\ UNCHANGED <<procVars, used>>
        /\ EndSync
        /\ UNCHANGED snapshot
  /\ UNCHANGED <<fileVars, resync, media>>

Supervise ==
  /\ pc = "supervise"
  /\ \/ /\ \E h \in due : due' = due \ {h} /\ StartWorker(h)
        /\ UNCHANGED pc
     \/ /\ due = {}
        /\ pc' = "wait"
        /\ UNCHANGED <<due, procVars, used>>
  /\ UNCHANGED <<fileVars, scm, resync, deviceSync, ticks, booting, snapshot, desired, media>>

ShutdownForgets ==  \* mutant: the handles are dropped, the workers live on
  /\ pc = "shutdown"
  /\ workers' = {}
  /\ pc' = "down"
  /\ scm' = "stopped"
  /\ resync' = FALSE
  /\ UNCHANGED <<fileVars, deviceSync, ticks, booting, snapshot, desired, due, procs,
                 orphans, media, used>>

Shutdown ==
  /\ pc = "shutdown"
  /\ \/ /\ \E h \in workers : StopWorker(h)
        /\ UNCHANGED <<pc, scm, resync>>
     \/ /\ workers = {}
        /\ pc' = "down"
        /\ scm' = "stopped"
        /\ resync' = FALSE
        /\ UNCHANGED procVars
  /\ UNCHANGED <<fileVars, deviceSync, ticks, booting, snapshot, desired, due, media, used>>

MainLoop ==
  \/ WaitForEvents \/ RequestWrites \/ ControlDone
  \/ SyncRead \/ SyncScan \/ SyncSave \/ SyncCheck \/ SyncStop \/ SyncStart
  \/ Supervise \/ Shutdown

-----------------------------------------------------------------------------
(* The environment.                                                        *)

(* serviceControlHandler runs on a thread of its own; the stop control is  *)
(* accepted only while the service reports that it is running.             *)
StopControl ==
  /\ scm = "running"
  /\ scm' = "stop_pending"
  /\ Spend("stop", MaxStops)
  /\ UNCHANGED <<fileVars, resync, loopVars, procVars, media>>

ServiceCrash ==
  /\ pc # "down"
  /\ scm' = "crashed"
  /\ pc' = "down"
  /\ resync' = FALSE
  /\ deviceSync' = FALSE
  /\ ticks' = 0
  /\ booting' = FALSE
  /\ snapshot' = NoMounts
  /\ desired' = NoMounts
  /\ due' = {}
  /\ workers' = {}
  /\ orphans' = Live
  /\ writing' = [writing EXCEPT !["service"] = None]
  /\ Spend("crash", MaxCrashes)
  /\ UNCHANGED <<file, intent, procs, media>>

(* A disk arrives or leaves; a service that runs gets a device event. *)
MediaChanges ==
  /\ \E r \in Region : media' = IF r \in media THEN media \ {r} ELSE media \cup {r}
  /\ resync' = (resync \/ pc # "down")
  /\ Spend("media", MaxMediaEvents)
  /\ UNCHANGED <<fileVars, scm, loopVars, procVars>>

Next ==
  \/ MainLoop
  \/ StartService \/ RestartService \/ StopControl \/ ServiceCrash
  \/ \E q \in SvcRequests : HandleRequest(q)
  \/ \E q \in CliRequests : CliBegin(q)
  \/ CliWrites \/ CliDies
  \/ \E p \in Pid : WorkerMounts(p) \/ WorkerGivesUp(p) \/ WorkerDies(p)
  \/ \E t \in Target : CooldownElapses(t)
  \/ MediaChanges

Spec == Init /\ [][Next]_vars

(* The loop's thread, the workers, the clock and the service control       *)
(* manager keep going; clients, disks, crashes and faults need not.        *)
Fairness ==
  /\ WF_vars(MainLoop)
  /\ WF_vars(RestartService)
  /\ WF_vars(CliWrites)
  /\ \A p \in Pid : WF_vars(WorkerMounts(p) \/ WorkerGivesUp(p))
  /\ \A t \in Target : WF_vars(CooldownElapses(t))

FairSpec == Spec /\ Fairness

-----------------------------------------------------------------------------
(* Properties.                                                             *)

(* Two worker processes of the running service never serve the same target *)
(* name: syncConfiguredWorkers stops what no longer matches before it      *)
(* starts anything, and the supervisor restarts only what has exited.      *)
OneWorkerPerTarget ==
  \A p, q \in Live \ orphans : procs[p].target = procs[q].target => p = q

(* What keeps OneWorkerPerTarget true from step to step.  Every worker of  *)
(* the running service has the handle of its target; when a sync starts    *)
(* workers, no handle is left that disagrees with the table it works from; *)
(* a handle that supervision has still to look at has no running process,  *)
(* which the other starts of the pass do not change.                       *)
WorkerInv ==
  /\ \A h, k \in workers : h.target = k.target => h = k
  /\ \A p \in Live \ orphans : \E h \in workers : h.pid = p /\ h.target = procs[p].target
  /\ pc = "start" => \A h \in workers : desired[h.target] = h.entry
  /\ pc = "supervise" => \A h \in due : h \in workers /\ ~IsRunning(h) /\ ~h.cooling

(* No two workers of the running service have the same raw region open,    *)
(* under whatever names: aliases are resolved before workers are started.  *)
(* It does not know the workers that outlived the crash of an earlier one. *)
OneWorkerPerRegion ==
  \A p, q \in Live \ orphans :
    RegionOf[procs[p].target] = RegionOf[procs[q].target] => p = q

(* Two saved entries never claim the same drive letter. *)
LettersUnique ==
  file # Torn =>
    \A t, u \in Configured(file) : file[t].mount = file[u].mount => t = u

(* A policy a request has saved is the policy the file holds for the region *)
(* until another request changes it, whatever discovery and device events  *)
(* do in between.                                                          *)
SavedPolicyPreserved ==
  file # Torn =>
    \A r \in Region : intent[r] # None =>
      \E t \in Configured(file) : RegionOf[t] = r /\ Policy(file[t]) = intent[r]

(* A service that has stopped leaves no worker behind. *)
StoppedLeavesNoWorker == scm = "stopped" => Live \subseteq orphans

(* A stop request is carried out. *)
StopCompletes == scm = "stop_pending" ~> scm \in {"stopped", "crashed"}

Mountable(t) ==
  /\ file[t].enabled
  /\ RegionOf[t] \in media
  /\ t \in Image \/ file[t].read_only \/ file[t].allow_raw_writes

(* The mounted workers are those the file asks for, with its letters and   *)
(* policies.                                                               *)
Settled ==
  /\ file # Torn
  /\ {[target |-> t, entry |-> file[t]] : t \in {u \in Configured(file) : Mountable(u)}}
       = {[target |-> procs[p].target, entry |-> procs[p].entry] :
            p \in {q \in Live : procs[q].mounted}}

(* When requests, disks and faults have died down, a service that keeps    *)
(* running and finds a file it can read brings the mounts in line with it  *)
(* and keeps them so.                                                      *)
Converges == <>[](scm = "running") /\ []<>(file # Torn) => <>[]Settled

=============================================================================
