---------------------------- MODULE ControlClients ----------------------------
(***************************************************************************)
(* The command line processes of apfs_mount_service, the socket they fall  *)
(* back to and the manager window that runs them.                          *)
(*                                                                         *)
(* A command first edits mounts.json itself.  When that is refused, most   *)
(* often because the user may not write the file, it sends the request to  *)
(* the running service and waits for the answer, three seconds at a time.  *)
(* The service takes one connection after the other.  The manager shows a  *)
(* table it has read some time ago, runs one command at a time on a row of *)
(* it, kills a command that takes too long and reads the table again.      *)
(*                                                                         *)
(* Abstracted: the service's syncs and workers (module MountService), the  *)
(* texts of answers.  A time-out may come at any time the wait allows it.  *)
(***************************************************************************)
EXTENDS MountPolicy, SequencesExt

CONSTANTS
  Client,      (* command line processes                                    *)
  Service,     (* the service as a writer of mounts.json                    *)
  Torn,        (* contents of mounts.json that do not parse                 *)
  FirstTables, (* what mounts.json may hold at first                        *)
  Commands,    (* commands users type                                       *)
  Present,     (* the regions that are readable                             *)
  DriveSets,   (* the letters that may be in use at one time                *)
  MaxFaults    (* bound for TLC on kills, stops and write errors            *)

Discover == [op |-> "configure_discovered"]

ASSUME ControlClientsAssumption ==
  /\ Service \notin Client
  /\ None \notin Client
  /\ FirstTables \subseteq Mounts
  /\ Torn \notin Mounts /\ None \notin Mounts
  /\ Commands \subseteq Request \cup {Discover}
  /\ None \notin Request \cup {Discover, "ok", "refused"}
  /\ MaxFaults \in Nat

VARIABLES
  file,      (* contents of mounts.json                                      *)
  pc,        (* where each writer of mounts.json is                          *)
  command,   (* the command of each process                                  *)
  elevated,  (* the processes that may write mounts.json                     *)
  table,     (* what a writer has computed and is about to write             *)
  outcome,   (* how each process ended                                       *)
  queue,     (* connections the service has not closed                       *)
  sent,      (* the processes that have sent their request                   *)
  answer,    (* the service's answers                                        *)
  shown,     (* the table the manager shows                                  *)
  managed,   (* the process the manager waits for                            *)
  first,     (* history: what mounts.json held at first                      *)
  written,   (* history: the commands whose table has been written, a bag    *)
  torn,      (* history: an edit broke off or two of them overlapped         *)
  faults     (* how much of the bound is used up                             *)

fileVars == <<file, table, torn, first>>
procVars == <<command, elevated, outcome>>
wireVars == <<queue, sent, answer>>
managerVars == <<shown, managed>>
vars == <<fileVars, pc, procVars, wireVars, managerVars, written, faults>>

Writer == Client \cup {Service}

ClientPoints == {"new", "started", "truncate", "fill", "written", "connect",
                 "send", "wait", "done"}
ServicePoints == {"down", "ready", "truncate", "fill", "written"}
Outcome == {"ok", "refused", "unknown", "killed"}

TypeOK ==
  /\ file \in Mounts \cup {Torn}
  /\ pc \in [Writer -> ClientPoints \cup ServicePoints]
  /\ pc[Service] \in ServicePoints /\ \A c \in Client : pc[c] \in ClientPoints
  /\ command \in [Client -> Request \cup {Discover, None}]
  /\ elevated \subseteq Client
  /\ table \in [Writer -> Mounts \cup {None}]
  /\ outcome \in [Client -> Outcome \cup {None}]
  /\ queue \in Seq(Client)
  /\ sent \subseteq Client
  /\ answer \in [Client -> {"ok", "refused", None}]
  /\ shown \in Mounts
  /\ managed \in Client \cup {None}
  /\ first \in Mounts
  /\ written \in [Client -> Nat]
  /\ torn \in BOOLEAN
  /\ faults \in Nat

Init ==
  /\ file \in FirstTables
  /\ pc = [w \in Writer |-> IF w = Service THEN "down" ELSE "new"]
  /\ command = [c \in Client |-> None]
  /\ elevated = {}
  /\ table = [w \in Writer |-> None]
  /\ outcome = [c \in Client |-> None]
  /\ queue = <<>>
  /\ sent = {}
  /\ answer = [c \in Client |-> None]
  /\ shown = NoMounts
  /\ managed = None
  /\ first = file
  /\ written = [c \in Client |-> 0]
  /\ torn = FALSE
  /\ faults = 0

Fault == faults < MaxFaults /\ faults' = faults + 1

Goes(w, point) == pc' = [pc EXCEPT ![w] = point]

Ends(c, how) ==
  /\ Goes(c, "done")
  /\ outcome' = [outcome EXCEPT ![c] = how]

-----------------------------------------------------------------------------
(* An edit of mounts.json, by a process or by the service.                 *)

ReadsTornAsEmpty(q) ==  \* mutant: the error of the read is not looked at
  {IF file = Torn \/ q.op = "clear_mounts" THEN NoMounts ELSE file}

(* The tables an edit may start from: none when the file does not parse.   *)
(* clear_mounts does not read.                                             *)
ReadFor(q) ==
  IF q.op = "clear_mounts" THEN {NoMounts}
  ELSE IF file = Torn THEN {} ELSE {file}

(* The tables a command asks to be written.                                *)
Edits(q, viaService) ==
  IF q = Discover
  THEN {AutoDiscovery(m, Present, NoMounts, d) : m \in ReadFor(q), d \in DriveSets}
  ELSE {Applied(m, q) :
          m \in {n \in ReadFor(q) : \E d \in DriveSets : ~Refused(n, q, viaService, Present, d)}}

MayBeRefused(q, viaService) ==
  \/ ReadFor(q) = {}
  \/ /\ q # Discover
     /\ {m \in ReadFor(q) : \E d \in DriveSets : Refused(m, q, viaService, Present, d)} # {}

BeginWrite(w, m) ==
  /\ table' = [table EXCEPT ![w] = m]
  /\ Goes(w, "truncate")
  /\ UNCHANGED <<file, torn, first>>

(* Two writers overlap when one truncates the file between the other's two *)
(* steps.                                                                  *)
TruncateConfig(w) ==
  /\ pc[w] = "truncate"
  /\ file' = Torn
  /\ torn' = (torn \/ \E v \in Writer \ {w} : pc[v] = "fill")
  /\ Goes(w, "fill")
  /\ UNCHANGED <<table, first>>

(* Each writes from the start of the file, so a shorter text leaves a tail *)
(* of a longer one.  An error of the write itself goes unnoticed.          *)
FillConfig(w) ==
  /\ pc[w] = "fill"
  /\ Goes(w, "written")
  /\ table' = [table EXCEPT ![w] = None]
  /\ UNCHANGED first
  /\ \/ /\ file' \in IF file \in {Torn, table[w]} THEN {table[w]} ELSE {table[w], Torn}
        /\ UNCHANGED <<torn, faults>>
     \/ /\ Fault
        /\ file' = Torn
        /\ torn' = TRUE

-----------------------------------------------------------------------------
(* A command line process.                                                 *)

Starts(c, q) ==
  /\ pc[c] = "new"
  /\ command' = [command EXCEPT ![c] = q]
  /\ elevated' \in {elevated, elevated \cup {c}}
  /\ Goes(c, "started")
  /\ UNCHANGED <<fileVars, outcome, wireVars, written, faults>>

UserStarts(c) ==
  /\ \E q \in Commands : Starts(c, q)
  /\ UNCHANGED managerVars

(* Only the five requests of the socket have the service to fall back to.  *)
FallsBack(q) == q # Discover /\ q.op # "clear_mounts"

(* A discovery that changes nothing does not write. *)
DirectEdit(c) ==
  /\ pc[c] = "started"
  /\ \/ /\ c \in elevated
        /\ \E m \in Edits(command[c], FALSE) :
             IF command[c] = Discover /\ m = file
             THEN Ends(c, "ok") /\ UNCHANGED fileVars
             ELSE BeginWrite(c, m) /\ UNCHANGED outcome
     \/ /\ c \notin elevated \/ MayBeRefused(command[c], FALSE)
        /\ IF FallsBack(command[c])
           THEN Goes(c, "connect") /\ UNCHANGED outcome
           ELSE Ends(c, "refused")
        /\ UNCHANGED fileVars
  /\ UNCHANGED <<command, elevated, wireVars, managerVars, written, faults>>

DirectWrite(c) ==
  /\ \/ TruncateConfig(c) /\ UNCHANGED <<written, faults>>
     \/ FillConfig(c) /\ written' = [written EXCEPT ![c] = @ + 1]
  /\ UNCHANGED <<procVars, wireVars, managerVars>>

ReportsDirect(c) ==
  /\ pc[c] = "written"
  /\ Ends(c, "ok")
  /\ UNCHANGED <<fileVars, command, elevated, wireVars, managerVars, written, faults>>

(* A connection is refused while the service is down, or when it is too    *)
(* busy to accept one for three seconds.                                   *)
Connect(c) ==
  /\ pc[c] = "connect"
  /\ \/ /\ pc[Service] # "down"
        /\ queue' = Append(queue, c)
        /\ Goes(c, "send")
        /\ UNCHANGED outcome
     \/ /\ Ends(c, "refused")
        /\ UNCHANGED queue
  /\ UNCHANGED <<fileVars, command, elevated, sent, answer, managerVars, written, faults>>

Connected(c) == c \in ToSet(queue)

(* The service may have closed the connection before the request is sent.  *)
Send(c) ==
  /\ pc[c] = "send"
  /\ IF Connected(c)
     THEN sent' = sent \cup {c} /\ Goes(c, "wait") /\ UNCHANGED outcome
     ELSE Ends(c, "refused") /\ UNCHANGED sent
  /\ UNCHANGED <<fileVars, command, elevated, queue, answer, managerVars, written, faults>>

GivesUpAsRefused(c) ==  \* mutant: an answer that does not come counts as a refusal
  /\ pc[c] = "wait"
  /\ Ends(c, IF answer[c] = None THEN "refused" ELSE answer[c])
  /\ UNCHANGED <<fileVars, command, elevated, wireVars, managerVars, written, faults>>

(* The answer, or three seconds without one: the process cannot know then  *)
(* what has become of its request.                                         *)
Receive(c) ==
  /\ pc[c] = "wait"
  /\ Ends(c, IF answer[c] = None THEN "unknown" ELSE answer[c])
  /\ UNCHANGED <<fileVars, command, elevated, wireVars, managerVars, written, faults>>

(* A process can be killed at any point; the manager does so after thirty  *)
(* seconds.                                                                *)
Killed(c) ==
  /\ pc[c] \notin {"new", "done"}
  /\ Fault
  /\ Ends(c, "killed")
  /\ torn' = (torn \/ pc[c] = "fill")
  /\ table' = [table EXCEPT ![c] = None]
  /\ UNCHANGED <<file, first, command, elevated, wireVars, managerVars, written>>

ClientStep(c) ==
  \/ DirectEdit(c) \/ DirectWrite(c) \/ ReportsDirect(c)
  \/ Connect(c) \/ Send(c) \/ Receive(c)

-----------------------------------------------------------------------------
(* The service.                                                            *)

ServiceStarts ==
  /\ pc[Service] = "down"
  /\ Goes(Service, "ready")
  /\ UNCHANGED <<fileVars, procVars, wireVars, managerVars, written, faults>>

Answers(a) ==
  /\ answer' = [answer EXCEPT ![Head(queue)] = a]
  /\ queue' = Tail(queue)
  /\ Goes(Service, "ready")
  /\ UNCHANGED sent

(* The request of the first connection. *)
TakesRequest ==
  /\ pc[Service] = "ready"
  /\ queue # <<>>
  /\ Head(queue) \in sent
  /\ LET q == command[Head(queue)]
     IN  \/ \E m \in Edits(q, TRUE) : BeginWrite(Service, m) /\ UNCHANGED wireVars
         \/ MayBeRefused(q, TRUE) /\ Answers("refused") /\ UNCHANGED fileVars
  /\ UNCHANGED <<procVars, managerVars, written, faults>>

ServiceWrites ==
  /\ \/ TruncateConfig(Service) /\ UNCHANGED <<written, faults>>
     \/ FillConfig(Service) /\ written' = [written EXCEPT ![Head(queue)] = @ + 1]
  /\ UNCHANGED <<procVars, wireVars, managerVars>>

ServiceReports ==
  /\ pc[Service] = "written"
  /\ Answers("ok")
  /\ UNCHANGED <<fileVars, procVars, managerVars, written, faults>>

WaitsForPayload ==  \* mutant: the service waits until there is a payload
  /\ pc[Service] = "ready"
  /\ queue # <<>>
  /\ Head(queue) \in sent
  /\ pc[Head(queue)] = "done"
  /\ Answers("refused")
  /\ UNCHANGED <<fileVars, procVars, managerVars, written, faults>>

(* Three seconds without a request, or a connection that its process has   *)
(* closed and whose request the service does not get to read any more.     *)
PayloadTimesOut ==
  /\ pc[Service] = "ready"
  /\ queue # <<>>
  /\ Head(queue) \notin sent \/ pc[Head(queue)] = "done"
  /\ Answers("refused")
  /\ UNCHANGED <<fileVars, procVars, managerVars, written, faults>>

(* A stop waits for the end of the loop's turn, a crash does not. *)
ServiceEnds ==
  /\ pc[Service] # "down"
  /\ Fault
  /\ Goes(Service, "down")
  /\ queue' = <<>>
  /\ table' = [table EXCEPT ![Service] = None]
  /\ torn' = (torn \/ pc[Service] = "fill")
  /\ UNCHANGED <<file, first, procVars, sent, answer, managerVars, written>>

ServiceStep == TakesRequest \/ ServiceWrites \/ ServiceReports \/ PayloadTimesOut

-----------------------------------------------------------------------------
(* The manager.                                                            *)

(* What the buttons of a row of the table ask for. *)
RowCommands(t) ==
     {[op |-> "remove_mount", target |-> t],
      [op |-> "set_enabled", target |-> t, enabled |-> ~shown[t].enabled],
      [op |-> "set_policy", target |-> t, read_only |-> ~shown[t].read_only,
       allow_raw_writes |-> shown[t].read_only /\ t \notin Image]}
  \cup {[op |-> "set_mount", target |-> t, mount |-> l] : l \in Letter}

ManagerStarts(c) ==
  /\ managed = None
  /\ \E q \in UNION {RowCommands(t) : t \in Configured(shown)} : Starts(c, q)
  /\ managed' = c
  /\ UNCHANGED shown

ManagerDiscovers(c) ==
  /\ managed = None
  /\ Starts(c, Discover)
  /\ managed' = c
  /\ UNCHANGED shown

ManagerShowsWhatItReads ==  \* mutant: the error of the health report is not looked at
  /\ managed # None => pc[managed] = "done"
  /\ shown' = file
  /\ managed' = None
  /\ UNCHANGED <<fileVars, pc, procVars, wireVars, written, faults>>

(* After the command, or on the Refresh button, --health reads the table;  *)
(* one that does not parse is shown as empty.                              *)
ManagerRefreshes ==
  /\ managed # None => pc[managed] = "done"
  /\ shown' = IF file = Torn THEN NoMounts ELSE file
  /\ managed' = None
  /\ UNCHANGED <<fileVars, pc, procVars, wireVars, written, faults>>

Next ==
  \/ \E c \in Client : UserStarts(c) \/ ManagerStarts(c) \/ ManagerDiscovers(c)
                       \/ ClientStep(c) \/ Killed(c)
  \/ ServiceStarts \/ ServiceStep \/ ServiceEnds
  \/ ManagerRefreshes

Fairness ==
  /\ \A c \in Client : WF_vars(ClientStep(c))
  /\ WF_vars(ServiceStep)

Spec == Init /\ [][Next]_vars /\ Fairness

-----------------------------------------------------------------------------
(* Properties.                                                             *)

(* A command that exits with success has been applied exactly once, one    *)
(* that reports a refusal has not been applied and will not be, and no     *)
(* command is applied twice, although the process edits the file itself    *)
(* first, falls back to the service, gives up waiting or is killed while   *)
(* its request waits.  (A discovery that finds nothing new writes nothing.)*)
AnswersAreTrue ==
  \A c \in Client :
    /\ written[c] <= 1
    /\ outcome[c] = "ok" => written[c] = 1 \/ command[c] = Discover
    /\ outcome[c] = "refused" => written[c] = 0

(* What a command may take out of the table, for itself or for a letter.   *)
Takes(q, t) ==
  \/ q = Discover
  \/ /\ q # Discover
     /\ \/ q.op = "clear_mounts"
        \/ q.op = "remove_mount" /\ q.target = t
        \/ q.op = "add_mount" /\ q.target # t

Taken == {t \in Target : \E c \in Client : command[c] # None /\ Takes(command[c], t)}

(* A volume that was configured at first and that no command has been told *)
(* to take out is in every table that parses: edits that race, break off   *)
(* or find a file without a table never start over from an empty one.  And *)
(* mounts.json is without a table only while somebody writes it, unless an *)
(* edit broke off or two of them overlapped.                               *)
TableKept ==
  /\ file # Torn => Configured(first) \ Taken \subseteq Configured(file)
  /\ file = Torn => torn \/ \E w \in Writer : pc[w] = "fill"

(* Every command ends and every connection is closed, whatever happens to  *)
(* the process or the service in between: both sides wait with a time-out. *)
CommandsEnd ==
  \A c \in Client :
    /\ pc[c] = "started" ~> pc[c] = "done"
    /\ Connected(c) ~> ~Connected(c)

=============================================================================
