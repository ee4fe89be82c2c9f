------------------------- MODULE ControlClientsProofs -------------------------
(***************************************************************************)
(* Theorems of ControlClients, for any number of processes, volumes and    *)
(* letters, and any number of faults.                                      *)
(*                                                                         *)
(* TypeCorrect is the type invariant, Truthful that answers are true (by   *)
(* way of WireInv, which follows a request from its process to the queue   *)
(* and the answer) and TablesKept that the table is kept (by way of        *)
(* KeptInv, which also follows the tables that writers hold).              *)
(***************************************************************************)
EXTENDS ControlClients, MountPolicyProofs

-----------------------------------------------------------------------------
(* Types.                                                                  *)

LEMMA ReadForType ==
  ASSUME TypeOK, NEW q
  PROVE  ReadFor(q) \subseteq Mounts
BY DEF ReadFor, TypeOK, NoMounts, Mounts

(* Whatever an edit starts from, its result is a mount table. *)
LEMMA EditsType ==
  ASSUME TypeOK, NEW q \in Request \cup {Discover}, NEW viaService
  PROVE  Edits(q, viaService) \subseteq Mounts
<1>0. NoMounts \in Mounts
  BY DEF NoMounts, Mounts
<1>1. CASE q = Discover
  <2>1. \A m \in ReadFor(q), d \in DriveSets : AutoDiscovery(m, Present, NoMounts, d) \in Mounts
    BY <1>0, DiscoveryType, ReadForType
  <2> QED
    BY <1>1, <2>1 DEF Edits
<1>2. CASE q # Discover
  <2>1. SUFFICES ASSUME NEW m \in ReadFor(q), NEW d \in DriveSets,
                        ~Refused(m, q, viaService, Present, d)
                 PROVE  Applied(m, q) \in Mounts
    BY <1>2 DEF Edits
  <2>2. q \in Request /\ m \in Mounts
    BY <1>2, ReadForType
  <2> QED
    BY <2>1, <2>2, AppliedType
<1> QED
  BY <1>1, <1>2

(* Where the writers are, apart from the rest of the types. *)
PcOK ==
  /\ pc \in [Writer -> ClientPoints \cup ServicePoints]
  /\ pc[Service] \in ServicePoints
  /\ \A c \in Client : pc[c] \in ClientPoints

LEMMA PcInit == Init => PcOK
BY ControlClientsAssumption DEF Init, PcOK, Writer, ClientPoints, ServicePoints

LEMMA ClientGoes ==
  ASSUME PcOK, NEW c \in Client, NEW p \in ClientPoints, Goes(c, p)
  PROVE  PcOK'
BY ControlClientsAssumption DEF PcOK, Goes, Writer

LEMMA ServiceGoes ==
  ASSUME PcOK, NEW p \in ServicePoints, Goes(Service, p)
  PROVE  PcOK'
BY ControlClientsAssumption DEF PcOK, Goes, Writer

LEMMA TypeInit == Init => TypeOK
<1> SUFFICES ASSUME Init PROVE TypeOK
  OBVIOUS
<1>1. PcOK
  BY PcInit
<1>2. NoMounts \in Mounts
  BY DEF NoMounts, Mounts
<1>3. queue \in Seq(Client)
  BY DEF Init
<1>4. file \in Mounts /\ first \in Mounts
  BY ControlClientsAssumption DEF Init
<1> QED
  BY <1>1, <1>2, <1>3, <1>4 DEF Init, TypeOK, PcOK

(* Facts about the queue. *)
Distinct(s) == \A i, j \in DOMAIN s : s[i] = s[j] => i = j

LEMMA QueueAppend ==
  ASSUME NEW s \in Seq(Client), Distinct(s), NEW c \in Client, c \notin ToSet(s)
  PROVE  /\ Append(s, c) \in Seq(Client)
         /\ ToSet(Append(s, c)) = ToSet(s) \cup {c}
         /\ Distinct(Append(s, c))
         /\ s # <<>> => Head(Append(s, c)) = Head(s)
<1> DEFINE a == Append(s, c)
<1>1. a \in Seq(Client) /\ Len(a) = Len(s) + 1 /\ Len(s) \in Nat
  OBVIOUS
<1>2. DOMAIN s = 1 .. Len(s) /\ DOMAIN a = 1 .. (Len(s) + 1)
  OBVIOUS
<1>3. a[Len(s) + 1] = c /\ \A i \in 1 .. Len(s) : a[i] = s[i]
  OBVIOUS
<1>4. s # <<>> => Head(a) = Head(s)
  OBVIOUS
<1> HIDE DEF a
<1>5. \A i \in 1 .. Len(s) : s[i] \in ToSet(s)
  BY <1>2 DEF ToSet
<1>6. Distinct(a)
  BY <1>1, <1>2, <1>3, <1>5 DEF Distinct
<1>7. ToSet(a) = ToSet(s) \cup {c}
  BY <1>1, <1>2, <1>3 DEF ToSet
<1> QED
  BY <1>1, <1>4, <1>6, <1>7 DEF a

LEMMA QueueTail ==
  ASSUME NEW s \in Seq(Client), Distinct(s), s # <<>>
  PROVE  /\ Head(s) \in ToSet(s)
         /\ Head(s) \in Client
         /\ Tail(s) \in Seq(Client)
         /\ ToSet(Tail(s)) = ToSet(s) \ {Head(s)}
         /\ Distinct(Tail(s))
<1>1. Head(s) = s[1] /\ 1 \in DOMAIN s /\ Tail(s) \in Seq(Client)
  OBVIOUS
<1>2. DOMAIN Tail(s) = 1 .. (Len(s) - 1) /\ DOMAIN s = 1 .. Len(s)
  OBVIOUS
<1>3. \A i \in 1 .. (Len(s) - 1) : Tail(s)[i] = s[i + 1]
  OBVIOUS
<1>4. Distinct(Tail(s))
  BY <1>2, <1>3 DEF Distinct
<1>5. ToSet(Tail(s)) \subseteq ToSet(s) \ {Head(s)}
  BY <1>1, <1>2, <1>3 DEF Distinct, ToSet
<1>6. ASSUME NEW x \in ToSet(s) \ {Head(s)}
      PROVE  x \in ToSet(Tail(s))
  <2>1. PICK i \in DOMAIN s : x = s[i]
    BY DEF ToSet
  <2>2. i - 1 \in 1 .. (Len(s) - 1) /\ (i - 1) + 1 = i
    BY <1>1, <1>2, <1>6, <2>1
  <2>3. Tail(s)[i - 1] = x
    BY <1>3, <2>1, <2>2
  <2> QED
    BY <1>2, <2>2, <2>3 DEF ToSet
<1>7. Head(s) \in ToSet(s) /\ Head(s) \in Client
  BY <1>1 DEF ToSet
<1>8. ToSet(Tail(s)) = ToSet(s) \ {Head(s)}
  BY <1>5, <1>6
<1> QED
  BY <1>1, <1>4, <1>7, <1>8

LEMMA QueueEmpty == ToSet(<<>>) = {} /\ Distinct(<<>>) /\ <<>> \in Seq(Client)
BY DEF ToSet, Distinct

(* What the queue, the requests that were sent and the answers say about   *)
(* the processes and about how often each command has been written.        *)
QueueInv ==
  /\ Distinct(queue)
  /\ \A c \in ToSet(queue) :
       /\ pc[c] \in {"send", "wait", "done"}
       /\ answer[c] = None
       /\ outcome[c] \notin {"ok", "refused"}
       /\ written[c] = IF pc[Service] = "written" /\ c = Head(queue) THEN 1 ELSE 0
  /\ pc[Service] \in {"truncate", "fill", "written"} => queue # <<>> /\ Head(queue) \in sent
  /\ pc[Service] = "down" => queue = <<>>

ProcInv ==
  /\ \A c \in Client :
       /\ pc[c] # "new" => command[c] # None
       /\ pc[c] \in {"new", "started", "truncate", "fill", "connect"} =>
            written[c] = 0 /\ answer[c] = None /\ c \notin sent
       /\ pc[c] = "written" => written[c] = 1
       /\ pc[c] = "send" => written[c] = 0 /\ c \notin sent
       /\ written[c] <= 1
       /\ answer[c] = "ok" => written[c] = 1
       /\ answer[c] = "refused" => written[c] = 0
       /\ outcome[c] = "ok" => written[c] = 1 \/ command[c] = Discover
       /\ outcome[c] = "refused" => written[c] = 0
       /\ outcome[c] # None => pc[c] = "done"
  /\ \A w \in Writer : pc[w] \in {"truncate", "fill"} => table[w] # None

WireInv == TypeOK /\ QueueInv /\ ProcInv

LEMMA WireInit == Init => WireInv
<1> SUFFICES ASSUME Init PROVE WireInv
  OBVIOUS
<1>1. TypeOK
  BY TypeInit
<1>2. QueueInv
  BY QueueEmpty, ControlClientsAssumption DEF Init, QueueInv, Writer
<1>3. ASSUME NEW c \in Client
      PROVE  pc[c] = "new" /\ command[c] = None /\ answer[c] = None /\ c \notin sent
             /\ written[c] = 0 /\ outcome[c] = None
  BY ControlClientsAssumption DEF Init, Writer
<1>4. \A w \in Writer : pc[w] \notin {"truncate", "fill"}
  BY DEF Init
<1>5. None \notin {"ok", "refused"}
  BY ControlClientsAssumption
<1>6. ProcInv
  BY <1>3, <1>4, <1>5 DEF ProcInv
<1> QED
  BY <1>1, <1>2, <1>6 DEF WireInv

-----------------------------------------------------------------------------
(* One lemma for each action: it keeps WireInv.                            *)

LEMMA StartsWire ==
  ASSUME WireInv, NEW c \in Client, NEW q \in Request \cup {Discover},
         Starts(c, q), shown' = shown, managed' \in Client \cup {None}
  PROVE  WireInv'
<1> USE ControlClientsAssumption
<1>0. q # None
  BY DEF Discover
<1>1. PcOK'
  BY ClientGoes DEF WireInv, TypeOK, PcOK, Starts, ClientPoints
<1>2. TypeOK'
  BY <1>1 DEF WireInv, TypeOK, PcOK, Starts, fileVars, wireVars
<1>3. pc' = [pc EXCEPT ![c] = "started"] /\ pc[c] = "new" /\ c # Service
  BY DEF Starts, Goes
<1>4. QueueInv'
  BY <1>3 DEF WireInv, TypeOK, QueueInv, Starts, wireVars, Writer
<1>5. ProcInv'
  BY <1>0, <1>3 DEF WireInv, TypeOK, ProcInv, Starts, fileVars, wireVars, Writer
<1> QED
  BY <1>2, <1>4, <1>5 DEF WireInv

LEMMA RowCommandsType ==
  ASSUME TypeOK, NEW t \in Configured(shown)
  PROVE  RowCommands(t) \subseteq Request
<1>1. t \in Target /\ shown[t] \in Entry
  BY DEF TypeOK, Configured, Mounts
<1>2. shown[t].enabled \in BOOLEAN /\ shown[t].read_only \in BOOLEAN
  BY <1>1 DEF Entry
<1>3. \A x \in BOOLEAN : (~x) \in BOOLEAN
  BY Zenon
<1>4. \A x, y \in BOOLEAN : (x /\ y) \in BOOLEAN
  BY Zenon
<1>7. (t \notin Image) \in BOOLEAN
  BY Zenon
<1> DEFINE on == ~shown[t].enabled
           ro == ~shown[t].read_only
           raw == shown[t].read_only /\ t \notin Image
<1>5. RowCommands(t) =
        {[op |-> "remove_mount", target |-> t],
         [op |-> "set_enabled", target |-> t, enabled |-> on],
         [op |-> "set_policy", target |-> t, read_only |-> ro, allow_raw_writes |-> raw]}
        \cup {[op |-> "set_mount", target |-> t, mount |-> l] : l \in Letter}
  BY DEF RowCommands
<1> HIDE DEF on, ro, raw
<1>6. on \in BOOLEAN /\ ro \in BOOLEAN /\ raw \in BOOLEAN
  BY <1>2, <1>3, <1>4, <1>7 DEF on, ro, raw
<1> QED
  BY <1>1, <1>5, <1>6 DEF Request

(* An edit of a writer: what a step of a process or of the service has in  *)
(* common.                                                                 *)
LEMMA TruncateType ==
  ASSUME TypeOK, NEW w \in Writer, TruncateConfig(w)
  PROVE  /\ file' \in Mounts \cup {Torn} /\ torn' \in BOOLEAN /\ first' \in Mounts
         /\ table' \in [Writer -> Mounts \cup {None}]
<1>1. torn' \in BOOLEAN
  BY Zenon DEF TruncateConfig, TypeOK
<1> QED
  BY <1>1 DEF TypeOK, TruncateConfig

LEMMA FillType ==
  ASSUME WireInv, NEW w \in Writer, FillConfig(w), faults' \in Nat
  PROVE  /\ file' \in Mounts \cup {Torn} /\ torn' \in BOOLEAN /\ first' \in Mounts
         /\ table' \in [Writer -> Mounts \cup {None}]
<1>1. table[w] \in Mounts
  BY DEF WireInv, TypeOK, ProcInv, FillConfig
<1> QED
  BY <1>1 DEF WireInv, TypeOK, FillConfig

(* A process whose connection is closed, if it ends with an answer. *)
LEMMA EndsWire ==
  ASSUME WireInv, NEW c \in Client, pc[c] # "new", NEW how \in Outcome, Ends(c, how),
         file' \in Mounts \cup {Torn}, torn' \in BOOLEAN, first' \in Mounts,
         table' \in [Writer -> Mounts \cup {None}],
         \A w \in Writer \ {c} : table'[w] = table[w],
         UNCHANGED <<command, elevated, wireVars, managerVars, written>>, faults' \in Nat,
         how \in {"ok", "refused"} => c \notin ToSet(queue),
         how = "ok" => written[c] = 1 \/ command[c] = Discover,
         how = "refused" => written[c] = 0
  PROVE  WireInv'
<1> USE ControlClientsAssumption
<1>1. PcOK'
  BY ClientGoes DEF WireInv, TypeOK, PcOK, Ends, ClientPoints
<1>2. outcome' \in [Client -> Outcome \cup {None}]
  BY DEF WireInv, TypeOK, Ends
<1>3. TypeOK'
  BY <1>1, <1>2 DEF WireInv, TypeOK, PcOK, wireVars, managerVars
<1>4. /\ pc' = [pc EXCEPT ![c] = "done"]
      /\ outcome' = [outcome EXCEPT ![c] = how]
      /\ pc' [Service] = pc[Service]
  BY DEF Ends, Goes, WireInv, TypeOK, Writer
<1>5. QueueInv'
  BY <1>4 DEF WireInv, TypeOK, QueueInv, wireVars, Writer, Outcome
<1>6. ProcInv'
  BY <1>4 DEF WireInv, TypeOK, ProcInv, wireVars, Writer, Outcome
<1> QED
  BY <1>3, <1>5, <1>6 DEF WireInv

(* A process that is not connected is not in the queue. *)
LEMMA NotInQueue ==
  ASSUME WireInv, NEW c \in Client, pc[c] \notin {"send", "wait", "done"}
  PROVE  c \notin ToSet(queue)
BY DEF WireInv, QueueInv

LEMMA BeginWriteWire ==
  ASSUME WireInv, NEW c \in Client, pc[c] = "started", NEW m \in Mounts, BeginWrite(c, m),
         UNCHANGED <<procVars, wireVars, managerVars, written, faults>>
  PROVE  WireInv'
<1> USE ControlClientsAssumption
<1>1. PcOK'
  BY ClientGoes DEF WireInv, TypeOK, PcOK, BeginWrite, ClientPoints
<1>2. TypeOK'
  BY <1>1 DEF WireInv, TypeOK, PcOK, BeginWrite, procVars, wireVars, managerVars
<1>3. pc' = [pc EXCEPT ![c] = "truncate"] /\ pc'[Service] = pc[Service]
  BY DEF BeginWrite, Goes, WireInv, TypeOK, Writer
<1>4. QueueInv'
  BY <1>3 DEF WireInv, TypeOK, QueueInv, procVars, wireVars, Writer
<1>5. ProcInv'
  BY <1>3 DEF WireInv, TypeOK, ProcInv, BeginWrite, procVars, wireVars, Writer
<1> QED
  BY <1>2, <1>4, <1>5 DEF WireInv

LEMMA DirectEditWire ==
  ASSUME WireInv, NEW c \in Client, DirectEdit(c)
  PROVE  WireInv'
<1> USE ControlClientsAssumption
<1>1. command[c] \in Request \cup {Discover}
  BY DEF WireInv, TypeOK, ProcInv, DirectEdit
<1>2. Edits(command[c], FALSE) \subseteq Mounts
  BY <1>1, EditsType DEF WireInv
<1>3. pc[c] = "started" /\ c \notin ToSet(queue) /\ written[c] = 0
  BY NotInQueue DEF DirectEdit, WireInv, ProcInv
<1>4. UNCHANGED <<command, elevated, wireVars, managerVars, written, faults>>
  BY DEF DirectEdit
<1>5. ASSUME NEW m \in Edits(command[c], FALSE), BeginWrite(c, m), UNCHANGED outcome
      PROVE  WireInv'
  BY <1>2, <1>3, <1>4, <1>5, BeginWriteWire DEF procVars
<1>6. ASSUME command[c] = Discover, Ends(c, "ok"), UNCHANGED fileVars
      PROVE  WireInv'
  BY <1>3, <1>4, <1>6, EndsWire DEF fileVars, Outcome, WireInv, TypeOK
<1>7. ASSUME Ends(c, "refused"), UNCHANGED fileVars
      PROVE  WireInv'
  BY <1>3, <1>4, <1>7, EndsWire DEF fileVars, Outcome, WireInv, TypeOK
<1>8. ASSUME Goes(c, "connect"), UNCHANGED <<outcome, fileVars>>
      PROVE  WireInv'
  <2>1. PcOK'
    BY <1>8, ClientGoes DEF WireInv, TypeOK, PcOK, ClientPoints
  <2>2. TypeOK'
    BY <1>4, <1>8, <2>1 DEF WireInv, TypeOK, PcOK, fileVars, wireVars, managerVars
  <2>3. pc' = [pc EXCEPT ![c] = "connect"] /\ pc'[Service] = pc[Service]
    BY <1>8 DEF Goes, WireInv, TypeOK, Writer
  <2>4. QueueInv'
    BY <1>3, <1>4, <1>8, <2>3 DEF WireInv, TypeOK, QueueInv, wireVars, Writer
  <2>5. ProcInv'
    BY <1>3, <1>4, <1>8, <2>3 DEF WireInv, TypeOK, ProcInv, fileVars, wireVars, Writer
  <2> QED
    BY <2>2, <2>4, <2>5 DEF WireInv
<1> QED
  BY <1>5, <1>6, <1>7, <1>8 DEF DirectEdit

LEMMA DirectWriteWire ==
  ASSUME WireInv, NEW c \in Client, DirectWrite(c)
  PROVE  WireInv'
<1> USE ControlClientsAssumption
<1>0. c \in Writer /\ c # Service
  BY DEF Writer
<1>1. UNCHANGED <<procVars, wireVars, managerVars>>
  BY DEF DirectWrite
<1>2. CASE TruncateConfig(c) /\ UNCHANGED <<written, faults>>
  <2>1. PcOK'
    BY <1>2, ClientGoes DEF WireInv, TypeOK, PcOK, TruncateConfig, ClientPoints
  <2>2. TypeOK'
    BY <1>0, <1>1, <1>2, <2>1, TruncateType DEF WireInv, TypeOK, PcOK, procVars, wireVars, managerVars
  <2>3. pc' = [pc EXCEPT ![c] = "fill"] /\ pc'[Service] = pc[Service] /\ pc[c] = "truncate"
        /\ table' = table
    BY <1>0, <1>2 DEF TruncateConfig, Goes, WireInv, TypeOK
  <2>4. QueueInv'
    BY <1>1, <1>2, <2>3 DEF WireInv, TypeOK, QueueInv, procVars, wireVars, Writer
  <2>5. ProcInv'
    BY <1>1, <1>2, <2>3 DEF WireInv, TypeOK, ProcInv, procVars, wireVars, Writer
  <2> QED
    BY <2>2, <2>4, <2>5 DEF WireInv
<1>3. CASE FillConfig(c) /\ written' = [written EXCEPT ![c] = @ + 1]
  <2>1. PcOK'
    BY <1>3, ClientGoes DEF WireInv, TypeOK, PcOK, FillConfig, ClientPoints
  <2>2. faults' \in Nat /\ written' \in [Client -> Nat]
    BY <1>3 DEF WireInv, TypeOK, FillConfig, Fault
  <2>3. TypeOK'
    BY <1>0, <1>1, <1>3, <2>1, <2>2, FillType DEF WireInv, TypeOK, PcOK, procVars, wireVars, managerVars
  <2>4. pc' = [pc EXCEPT ![c] = "written"] /\ pc'[Service] = pc[Service] /\ pc[c] = "fill"
        /\ table' = [table EXCEPT ![c] = None]
    BY <1>0, <1>3 DEF FillConfig, Goes, WireInv, TypeOK
  <2>5. c \notin ToSet(queue) /\ written[c] = 0 /\ written'[c] = 1
        /\ \A d \in Client \ {c} : written'[d] = written[d]
    <3>1. c \notin ToSet(queue)
      BY <2>4, NotInQueue
    <3>2. written \in [Client -> Nat] /\ written[c] = 0
      BY <2>4 DEF WireInv, TypeOK, ProcInv
    <3>3. written' = [written EXCEPT ![c] = @ + 1]
      BY <1>3
    <3> QED
      BY <3>1, <3>2, <3>3
  <2>6. ToSet(queue) \subseteq Client
    BY DEF WireInv, TypeOK, ToSet
  <2>7. QueueInv'
    BY <1>1, <2>4, <2>5, <2>6 DEF WireInv, TypeOK, QueueInv, procVars, wireVars, Writer
  <2>8. ProcInv'
    BY <1>1, <2>4, <2>5 DEF WireInv, TypeOK, ProcInv, procVars, wireVars, Writer
  <2> QED
    BY <2>3, <2>7, <2>8 DEF WireInv
<1> QED
  BY <1>2, <1>3 DEF DirectWrite

LEMMA ReportsDirectWire ==
  ASSUME WireInv, NEW c \in Client, ReportsDirect(c)
  PROVE  WireInv'
<1>1. pc[c] = "written" /\ c \notin ToSet(queue) /\ written[c] = 1
  BY NotInQueue DEF ReportsDirect, WireInv, ProcInv
<1> QED
  BY <1>1, EndsWire DEF ReportsDirect, fileVars, Outcome, WireInv, TypeOK

LEMMA ConnectWire ==
  ASSUME WireInv, NEW c \in Client, Connect(c)
  PROVE  WireInv'
<1> USE ControlClientsAssumption
<1>1. pc[c] = "connect" /\ c \notin ToSet(queue) /\ written[c] = 0
      /\ c \notin sent /\ answer[c] = None /\ outcome[c] = None
  BY NotInQueue DEF Connect, WireInv, ProcInv
<1>2. CASE Ends(c, "refused") /\ UNCHANGED queue
  BY <1>1, <1>2, EndsWire DEF Connect, fileVars, wireVars, Outcome, WireInv, TypeOK
<1>3. CASE /\ pc[Service] # "down"
           /\ queue' = Append(queue, c)
           /\ Goes(c, "send")
           /\ UNCHANGED outcome
  <2>1. PcOK'
    BY <1>3, ClientGoes DEF WireInv, TypeOK, PcOK, ClientPoints
  <2>2. /\ queue' \in Seq(Client) /\ ToSet(queue') = ToSet(queue) \cup {c} /\ Distinct(queue')
        /\ queue # <<>> => Head(queue') = Head(queue)
        /\ queue' # <<>>
    <3>1. queue \in Seq(Client) /\ Distinct(queue)
      BY DEF WireInv, TypeOK, QueueInv
    <3>2. queue' = Append(queue, c)
      BY <1>3
    <3>3. Append(queue, c) # <<>>
      BY <3>1
    <3> QED
      BY <1>1, <3>1, <3>2, <3>3, QueueAppend
  <2>3. TypeOK'
    BY <1>3, <2>1, <2>2 DEF WireInv, TypeOK, PcOK, Connect, fileVars, managerVars
  <2>4. pc' = [pc EXCEPT ![c] = "send"] /\ pc'[Service] = pc[Service]
    BY <1>3 DEF Goes, WireInv, TypeOK, Writer
  <2>5. \A d \in ToSet(queue) : d # c /\ d \in Client
    BY <1>1 DEF WireInv, TypeOK, ToSet
  <2>6. pc[Service] = "written" => queue # <<>>
    BY DEF WireInv, QueueInv
  <2>7. QueueInv'
    <3>1. ASSUME NEW d \in ToSet(queue)
          PROVE  /\ pc'[d] \in {"send", "wait", "done"}
                 /\ answer'[d] = None
                 /\ outcome'[d] \notin {"ok", "refused"}
                 /\ written'[d] = IF pc'[Service] = "written" /\ d = Head(queue') THEN 1 ELSE 0
      BY <1>3, <2>2, <2>4, <2>5, <2>6 DEF Connect, WireInv, TypeOK, QueueInv, Writer
    <3>2. /\ pc'[c] \in {"send", "wait", "done"}
          /\ answer'[c] = None
          /\ outcome'[c] \notin {"ok", "refused"}
          /\ written'[c] = IF pc'[Service] = "written" /\ c = Head(queue') THEN 1 ELSE 0
      <4>1. pc[Service] = "written" => Head(queue) \in ToSet(queue)
        BY <2>6, QueueTail DEF WireInv, TypeOK, QueueInv
      <4>2. pc'[c] = "send"
        BY <2>4 DEF WireInv, TypeOK, Writer
      <4> QED
        BY <1>1, <1>3, <2>2, <2>4, <2>5, <2>6, <4>1, <4>2 DEF Connect
    <3> QED
      BY <1>3, <2>2, <2>4, <3>1, <3>2 DEF Connect, WireInv, QueueInv
  <2>8. ProcInv'
    BY <1>1, <1>3, <2>4 DEF WireInv, TypeOK, ProcInv, Connect, fileVars, Writer
  <2> QED
    BY <2>3, <2>7, <2>8 DEF WireInv
<1> QED
  BY <1>2, <1>3 DEF Connect

LEMMA SendWire ==
  ASSUME WireInv, NEW c \in Client, Send(c)
  PROVE  WireInv'
<1> USE ControlClientsAssumption
<1>1. pc[c] = "send" /\ written[c] = 0 /\ c \notin sent
  BY DEF Send, WireInv, ProcInv
<1>2. CASE ~Connected(c)
  <2>1. Ends(c, "refused") /\ UNCHANGED sent
    BY <1>2 DEF Send
  <2> QED
    BY <1>1, <1>2, <2>1, EndsWire DEF Send, Connected, fileVars, wireVars, Outcome, WireInv, TypeOK
<1>3. CASE Connected(c)
  <2>0. sent' = sent \cup {c} /\ Goes(c, "wait") /\ UNCHANGED outcome
    BY <1>3 DEF Send
  <2>1. PcOK'
    BY <2>0, ClientGoes DEF WireInv, TypeOK, PcOK, ClientPoints
  <2>2. TypeOK'
    BY <2>0, <2>1 DEF WireInv, TypeOK, PcOK, Send, fileVars, managerVars
  <2>3. pc' = [pc EXCEPT ![c] = "wait"] /\ pc'[Service] = pc[Service]
    BY <2>0 DEF Goes, WireInv, TypeOK, Writer
  <2>4. QueueInv'
    BY <2>0, <2>3 DEF Send, WireInv, TypeOK, QueueInv, Writer
  <2>5. ProcInv'
    BY <1>1, <2>0, <2>3 DEF Send, WireInv, TypeOK, ProcInv, fileVars, Writer
  <2> QED
    BY <2>2, <2>4, <2>5 DEF WireInv
<1> QED
  BY <1>2, <1>3

LEMMA ReceiveWire ==
  ASSUME WireInv, NEW c \in Client, Receive(c)
  PROVE  WireInv'
<1> USE ControlClientsAssumption
<1> DEFINE how == IF answer[c] = None THEN "unknown" ELSE answer[c]
<1>1. how \in Outcome /\ (how = "ok" => written[c] = 1) /\ (how = "refused" => written[c] = 0)
  BY DEF WireInv, TypeOK, ProcInv, Outcome
<1>2. how \in {"ok", "refused"} => c \notin ToSet(queue)
  BY DEF WireInv, QueueInv
<1>3. Ends(c, how) /\ pc[c] # "new"
  BY DEF Receive
<1> HIDE DEF how
<1> QED
  BY <1>1, <1>2, <1>3, EndsWire DEF Receive, fileVars, WireInv, TypeOK

LEMMA KilledWire ==
  ASSUME WireInv, NEW c \in Client, Killed(c)
  PROVE  WireInv'
<1>1. torn' \in BOOLEAN /\ faults' \in Nat
  BY DEF Killed, Fault, WireInv, TypeOK
<1>2. /\ table' \in [Writer -> Mounts \cup {None}]
      /\ \A w \in Writer \ {c} : table'[w] = table[w]
  BY DEF Killed, WireInv, TypeOK
<1> QED
  BY <1>1, <1>2, EndsWire DEF Killed, Outcome, WireInv, TypeOK

(* A step of the service that only says where it is. *)
LEMMA ServiceStartsWire ==
  ASSUME WireInv, ServiceStarts
  PROVE  WireInv'
<1> USE ControlClientsAssumption
<1>1. PcOK'
  BY ServiceGoes DEF WireInv, TypeOK, PcOK, ServiceStarts, ServicePoints
<1>2. TypeOK'
  BY <1>1 DEF WireInv, TypeOK, PcOK, ServiceStarts, fileVars, procVars, wireVars, managerVars
<1>3. pc' = [pc EXCEPT ![Service] = "ready"] /\ pc[Service] = "down" /\ pc'[Service] = "ready"
  BY DEF ServiceStarts, Goes, WireInv, TypeOK, Writer
<1>4. ToSet(queue) \subseteq Client
  BY DEF WireInv, TypeOK, ToSet
<1>5. QueueInv'
  BY <1>3, <1>4 DEF WireInv, TypeOK, QueueInv, ServiceStarts, procVars, wireVars, Writer
<1>6. ProcInv'
  BY <1>3 DEF WireInv, TypeOK, ProcInv, ServiceStarts, fileVars, procVars, wireVars, Writer
<1> QED
  BY <1>2, <1>5, <1>6 DEF WireInv

(* The service closes the first connection with an answer. *)
LEMMA AnswersWire ==
  ASSUME WireInv, queue # <<>>, NEW a \in {"ok", "refused"}, Answers(a),
         pc[Service] # "down",
         a = "ok" => pc[Service] = "written",
         a = "refused" => pc[Service] # "written",
         UNCHANGED <<fileVars, procVars, managerVars, written, faults>>
  PROVE  WireInv'
<1> USE ControlClientsAssumption
<1> DEFINE h == Head(queue)
<1>1. PcOK'
  BY ServiceGoes DEF WireInv, TypeOK, PcOK, Answers, ServicePoints
<1>2. /\ h \in ToSet(queue) /\ h \in Client /\ queue' \in Seq(Client)
      /\ ToSet(queue') = ToSet(queue) \ {h} /\ Distinct(queue')
  BY QueueTail DEF WireInv, TypeOK, QueueInv, Answers
<1>3. written[h] = IF a = "ok" THEN 1 ELSE 0
  BY <1>2 DEF WireInv, QueueInv
<1>4. pc[h] \in {"send", "wait", "done"}
  BY <1>2 DEF WireInv, QueueInv
<1>5. ToSet(queue) \subseteq Client
  BY DEF WireInv, TypeOK, ToSet
<1> HIDE DEF h
<1>6. answer' = [answer EXCEPT ![h] = a] /\ sent' = sent
  BY DEF Answers, h
<1>7. pc' = [pc EXCEPT ![Service] = "ready"] /\ pc'[Service] = "ready"
      /\ \A c \in Client : pc'[c] = pc[c]
  BY DEF Answers, Goes, WireInv, TypeOK, Writer
<1>8. TypeOK'
  BY <1>1, <1>2, <1>6 DEF WireInv, TypeOK, PcOK, fileVars, procVars, managerVars
<1>9. QueueInv'
  <2>1. ASSUME NEW c \in ToSet(queue')
        PROVE  c \in Client /\ c # h /\ c \in ToSet(queue)
    BY <1>2, <1>5
  <2>2. h = Head(queue)
    BY DEF h
  <2>3. ASSUME NEW c \in ToSet(queue')
        PROVE  /\ pc'[c] \in {"send", "wait", "done"}
               /\ answer'[c] = None
               /\ outcome'[c] \notin {"ok", "refused"}
               /\ written'[c] = 0
    BY <1>6, <1>7, <2>1, <2>2 DEF WireInv, TypeOK, QueueInv, procVars
  <2> QED
    BY <1>2, <1>7, <2>3 DEF QueueInv
<1>10. ProcInv'
  <2>1. /\ command' = command /\ outcome' = outcome /\ written' = written /\ table' = table
        /\ answer'[h] = a /\ \A c \in Client \ {h} : answer'[c] = answer[c]
    BY <1>2, <1>6 DEF WireInv, TypeOK, fileVars, procVars
  <2>2. ProcInv
    BY DEF WireInv
  <2>3. \A w \in Writer : pc'[w] \in {"truncate", "fill"} => table'[w] # None
    BY <1>7, <2>1, <2>2 DEF ProcInv, Writer
  <2>4. ASSUME NEW c \in Client
        PROVE  /\ answer'[c] = "ok" => written'[c] = 1
               /\ answer'[c] = "refused" => written'[c] = 0
    BY <1>3, <2>1, <2>2 DEF ProcInv
  <2>5. ASSUME NEW c \in Client,
               pc'[c] \in {"new", "started", "truncate", "fill", "connect"}
        PROVE  written'[c] = 0 /\ answer'[c] = None /\ c \notin sent'
    BY <1>4, <1>6, <1>7, <2>1, <2>2, <2>5 DEF ProcInv
  <2> QED
    BY <1>6, <1>7, <2>1, <2>2, <2>3, <2>4, <2>5 DEF ProcInv
<1> QED
  BY <1>8, <1>9, <1>10 DEF WireInv

LEMMA TakesRequestWire ==
  ASSUME WireInv, TakesRequest
  PROVE  WireInv'
<1> USE ControlClientsAssumption
<1> DEFINE h == Head(queue)
<1>1. pc[Service] = "ready" /\ queue # <<>> /\ h \in sent
  BY DEF TakesRequest
<1>2. h \in Client /\ h \in ToSet(queue)
  BY <1>1, QueueTail DEF WireInv, TypeOK, QueueInv
<1>3. command[h] \in Request \cup {Discover}
  <2>1. pc[h] \in {"send", "wait", "done"}
    BY <1>2 DEF WireInv, QueueInv
  <2>2. command[h] # None
    BY <1>2, <2>1 DEF WireInv, ProcInv
  <2>3. command \in [Client -> Request \cup {Discover, None}]
    BY DEF WireInv, TypeOK
  <2> QED
    BY <1>2, <2>2, <2>3
<1>4. UNCHANGED <<procVars, managerVars, written, faults>>
  BY DEF TakesRequest
<1>5. ASSUME Answers("refused"), UNCHANGED fileVars
      PROVE  WireInv'
  BY <1>1, <1>4, <1>5, AnswersWire
<1>6. ASSUME NEW m \in Edits(command[h], TRUE), BeginWrite(Service, m), UNCHANGED wireVars
      PROVE  WireInv'
  <2>1. m \in Mounts
    BY <1>3, EditsType DEF WireInv
  <2>2. PcOK'
    BY <1>6, ServiceGoes DEF WireInv, TypeOK, PcOK, BeginWrite, ServicePoints
  <2>3. TypeOK'
    BY <1>4, <1>6, <2>1, <2>2 DEF WireInv, TypeOK, PcOK, BeginWrite, procVars, wireVars, managerVars
  <2>4. pc' = [pc EXCEPT ![Service] = "truncate"] /\ pc'[Service] = "truncate"
        /\ \A c \in Client : pc'[c] = pc[c]
    BY <1>6 DEF BeginWrite, Goes, WireInv, TypeOK, Writer
  <2>5. ToSet(queue) \subseteq Client
    BY DEF WireInv, TypeOK, ToSet
  <2>6. QueueInv'
    BY <1>1, <1>4, <1>6, <2>4, <2>5 DEF WireInv, TypeOK, QueueInv, procVars, wireVars
  <2>7. table' = [table EXCEPT ![Service] = m] /\ m # None
    BY <1>6, <2>1 DEF BeginWrite
  <2>8. ProcInv'
    BY <1>4, <1>6, <2>4, <2>7 DEF WireInv, TypeOK, ProcInv, procVars, wireVars, Writer
  <2> QED
    BY <2>3, <2>6, <2>8 DEF WireInv
<1> QED
  BY <1>5, <1>6 DEF TakesRequest

LEMMA ServiceWritesWire ==
  ASSUME WireInv, ServiceWrites
  PROVE  WireInv'
<1> USE ControlClientsAssumption
<1> DEFINE h == Head(queue)
<1>0. Service \in Writer
  BY DEF Writer
<1>1. UNCHANGED <<procVars, wireVars, managerVars>>
  BY DEF ServiceWrites
<1>2. pc[Service] \in {"truncate", "fill"}
  BY DEF ServiceWrites, TruncateConfig, FillConfig
<1>3. queue # <<>> /\ h \in sent
  BY <1>2 DEF WireInv, QueueInv
<1>4. h \in Client /\ h \in ToSet(queue) /\ written[h] = 0 /\ answer[h] = None
      /\ outcome[h] \notin {"ok", "refused"}
      /\ pc[h] \in {"send", "wait", "done"}
  BY <1>2, <1>3, QueueTail DEF WireInv, TypeOK, QueueInv
<1>5. ToSet(queue) \subseteq Client
  BY DEF WireInv, TypeOK, ToSet
<1>6. CASE TruncateConfig(Service) /\ UNCHANGED <<written, faults>>
  <2>1. PcOK'
    BY <1>6, ServiceGoes DEF WireInv, TypeOK, PcOK, TruncateConfig, ServicePoints
  <2>2. TypeOK'
    BY <1>0, <1>1, <1>6, <2>1, TruncateType DEF WireInv, TypeOK, PcOK, procVars, wireVars, managerVars
  <2>3. pc' = [pc EXCEPT ![Service] = "fill"] /\ pc[Service] = "truncate" /\ pc'[Service] = "fill"
        /\ table' = table /\ \A c \in Client : pc'[c] = pc[c]
    BY <1>0, <1>6 DEF TruncateConfig, Goes, WireInv, TypeOK
  <2>4. QueueInv'
    BY <1>1, <1>3, <1>5, <1>6, <2>3 DEF WireInv, TypeOK, QueueInv, procVars, wireVars
  <2>5. ProcInv'
    BY <1>1, <1>6, <2>3 DEF WireInv, TypeOK, ProcInv, procVars, wireVars, Writer
  <2> QED
    BY <2>2, <2>4, <2>5 DEF WireInv
<1>7. CASE FillConfig(Service) /\ written' = [written EXCEPT ![h] = @ + 1]
  <2>1. PcOK'
    BY <1>7, ServiceGoes DEF WireInv, TypeOK, PcOK, FillConfig, ServicePoints
  <2>2. faults' \in Nat /\ written' \in [Client -> Nat]
    BY <1>4, <1>7 DEF WireInv, TypeOK, FillConfig, Fault
  <2>3. TypeOK'
    BY <1>0, <1>1, <1>7, <2>1, <2>2, FillType DEF WireInv, TypeOK, PcOK, procVars, wireVars, managerVars
  <2>4. pc' = [pc EXCEPT ![Service] = "written"] /\ pc[Service] = "fill"
        /\ pc'[Service] = "written" /\ \A c \in Client : pc'[c] = pc[c]
        /\ table' = [table EXCEPT ![Service] = None]
    BY <1>0, <1>7 DEF FillConfig, Goes, WireInv, TypeOK
  <2>5. written'[h] = 1 /\ \A c \in Client \ {h} : written'[c] = written[c]
    BY <1>4, <1>7 DEF WireInv, TypeOK
  <2>6. QueueInv'
    BY <1>1, <1>3, <1>5, <2>4, <2>5 DEF WireInv, TypeOK, QueueInv, procVars, wireVars
  <2>7. h \in sent /\ outcome[h] # "refused" /\ answer[h] # "refused"
    BY <1>3, <1>4
  <2> HIDE DEF h
  <2>8. ProcInv'
    BY <1>1, <1>4, <2>4, <2>5, <2>7 DEF WireInv, TypeOK, ProcInv, procVars, wireVars, Writer
  <2> QED
    BY <2>3, <2>6, <2>8 DEF WireInv
<1> QED
  BY <1>6, <1>7 DEF ServiceWrites

LEMMA ServiceEndsWire ==
  ASSUME WireInv, ServiceEnds
  PROVE  WireInv'
<1> USE ControlClientsAssumption
<1>1. PcOK'
  BY ServiceGoes DEF WireInv, TypeOK, PcOK, ServiceEnds, ServicePoints
<1>2. torn' \in BOOLEAN
  BY Zenon DEF WireInv, TypeOK, ServiceEnds
<1>3. faults' \in Nat
  BY DEF WireInv, TypeOK, ServiceEnds, Fault
<1>4. queue' = <<>> /\ pc'[Service] = "down" /\ \A c \in Client : pc'[c] = pc[c]
  BY DEF ServiceEnds, Goes, WireInv, TypeOK, Writer
<1>5. TypeOK'
  BY <1>1, <1>2, <1>3, <1>4, QueueEmpty
  DEF WireInv, TypeOK, PcOK, ServiceEnds, procVars, managerVars
<1>6. QueueInv'
  BY <1>4, QueueEmpty DEF QueueInv
<1>7. ProcInv'
  BY <1>4 DEF WireInv, TypeOK, ProcInv, ServiceEnds, procVars, Writer
<1> QED
  BY <1>5, <1>6, <1>7 DEF WireInv

LEMMA RefreshesWire ==
  ASSUME WireInv, ManagerRefreshes
  PROVE  WireInv'
<1> USE ControlClientsAssumption
<1>1. NoMounts \in Mounts
  BY DEF NoMounts, Mounts
<1>2. TypeOK'
  BY <1>1 DEF WireInv, TypeOK, ManagerRefreshes, fileVars, procVars, wireVars
<1>3. QueueInv'
  BY DEF WireInv, QueueInv, ManagerRefreshes, procVars, wireVars
<1>4. ProcInv'
  BY DEF WireInv, ProcInv, ManagerRefreshes, fileVars, procVars, wireVars
<1> QED
  BY <1>2, <1>3, <1>4 DEF WireInv

LEMMA WireStutter ==
  ASSUME WireInv, UNCHANGED vars
  PROVE  WireInv'
BY DEF WireInv, TypeOK, QueueInv, ProcInv, vars, fileVars, procVars, wireVars, managerVars

LEMMA WireStep == WireInv /\ [Next]_vars => WireInv'
<1> SUFFICES ASSUME WireInv, [Next]_vars PROVE WireInv'
  OBVIOUS
<1> USE ControlClientsAssumption
<1>1. ASSUME NEW c \in Client, UserStarts(c) PROVE WireInv'
  BY <1>1, StartsWire DEF UserStarts, managerVars, WireInv, TypeOK
<1>2. ASSUME NEW c \in Client, ManagerStarts(c) PROVE WireInv'
  <2>1. PICK t \in Configured(shown) : \E q \in RowCommands(t) : Starts(c, q)
    BY <1>2 DEF ManagerStarts
  <2> QED
    BY <1>2, <2>1, StartsWire, RowCommandsType DEF ManagerStarts, WireInv
<1>3. ASSUME NEW c \in Client, ManagerDiscovers(c) PROVE WireInv'
  BY <1>3, StartsWire DEF ManagerDiscovers
<1>4. ASSUME NEW c \in Client, ClientStep(c) PROVE WireInv'
  BY <1>4, DirectEditWire, DirectWriteWire, ReportsDirectWire, ConnectWire, SendWire, ReceiveWire
  DEF ClientStep
<1>5. ASSUME ServiceStep PROVE WireInv'
  <2>1. CASE ServiceReports
    <3>1. pc[Service] = "written" /\ queue # <<>>
      BY <2>1 DEF ServiceReports, WireInv, QueueInv
    <3> QED
      BY <2>1, <3>1, AnswersWire DEF ServiceReports
  <2>2. CASE PayloadTimesOut
    BY <2>2, AnswersWire DEF PayloadTimesOut
  <2> QED
    BY <1>5, <2>1, <2>2, TakesRequestWire, ServiceWritesWire DEF ServiceStep
<1> QED
  BY <1>1, <1>2, <1>3, <1>4, <1>5, KilledWire, ServiceStartsWire, ServiceEndsWire,
     RefreshesWire, WireStutter DEF Next

LEMMA WireHolds == Spec => []WireInv
BY WireInit, WireStep, PTL DEF Spec

(* Every variable has its type. *)
THEOREM TypeCorrect == Spec => []TypeOK
<1>1. WireInv => TypeOK
  BY DEF WireInv
<1> QED
  BY <1>1, WireHolds, PTL

(* No command is applied twice, one that exits with success has been       *)
(* applied, and one that reports a refusal never is, over every order of   *)
(* connections, answers, time-outs, kills and crashes.                     *)
THEOREM Truthful == Spec => []AnswersAreTrue
<1>1. WireInv => AnswersAreTrue
  BY DEF WireInv, ProcInv, AnswersAreTrue
<1> QED
  BY <1>1, WireHolds, PTL

-----------------------------------------------------------------------------
(* The table.                                                              *)

(* The volumes that every table has to keep. *)
Kept == Configured(first) \ Taken

(* Not only mounts.json keeps them: what a writer is about to write does,  *)
(* too.  While somebody fills the file it is empty, unless an overlap has  *)
(* been noted, and so has one if two fill it.                              *)
KeptInv ==
  /\ file # Torn => Kept \subseteq Configured(file)
  /\ \A w \in Writer : table[w] # None => Kept \subseteq Configured(table[w])
  /\ file = Torn => torn \/ \E w \in Writer : pc[w] = "fill"
  /\ \A w \in Writer : pc[w] = "fill" /\ file # Torn => torn
  /\ \A v, w \in Writer : pc[v] = "fill" /\ pc[w] = "fill" => v = w \/ torn
  /\ \A c \in Client : pc[c] = "new" => command[c] = None

LEMMA KeptInit == Init => KeptInv
<1> SUFFICES ASSUME Init PROVE KeptInv
  OBVIOUS
<1>1. file = first /\ file # Torn
  BY ControlClientsAssumption DEF Init
<1>2. \A w \in Writer : table[w] = None /\ pc[w] # "fill"
  BY DEF Init
<1>3. \A c \in Client : command[c] = None
  BY DEF Init
<1> QED
  BY <1>1, <1>2, <1>3 DEF KeptInv, Kept

(* A request leaves what it is not told to take out. *)
LEMMA AppliedKeeps ==
  ASSUME NEW m \in Mounts, NEW q \in Request, NEW viaService, NEW d,
         ~Refused(m, q, viaService, Present, d), q # Discover,
         NEW t \in Configured(m), ~Takes(q, t)
  PROVE  t \in Configured(Applied(m, q))
<1> USE ControlClientsAssumption, NoneIsNoRecord
<1>1. t \in Target /\ m[t] # None /\ m[t] \in Entry
  BY DEF Configured, Mounts
<1>2. SUFFICES Applied(m, q)[t] # None
  BY <1>1 DEF Configured
<1>3. CASE q.op = "add_mount"
  <2>1. q \in [op : {"add_mount"}, target : Target, mount : Letter,
               read_only : BOOLEAN, allow_raw_writes : BOOLEAN]
    BY <1>3 DEF Request
  <2>2. q.target = t
    BY <1>3 DEF Takes
  <2> DEFINE e == [mount |-> q.mount, read_only |-> q.read_only,
                   allow_raw_writes |-> q.allow_raw_writes, enabled |-> TRUE]
  <2>3. e \in Entry
    BY <2>1 DEF Entry
  <2>4. Applied(m, q)[t] = e
    BY <1>1, <1>3, <2>2 DEF Applied, AddMount
  <2> QED
    BY <2>3, <2>4
<1>4. CASE q.op = "remove_mount"
  BY <1>1, <1>4 DEF Takes, Applied, RemoveMount, Mounts
<1>5. CASE q.op \in {"set_mount", "set_enabled", "set_policy"}
  <2>1. CASE t = q.target
    <3>1. Applied(m, q) \in Mounts
      BY AppliedType
    <3>2. CASE q.op = "set_mount"
      <4>1. q \in [op : {"set_mount"}, target : Target, mount : Letter]
        BY <3>2 DEF Request
      <4>2. [m[t] EXCEPT !.mount = q.mount] \in Entry
        BY <1>1, <4>1 DEF Entry
      <4>3. Applied(m, q)[t] = [m[t] EXCEPT !.mount = q.mount]
        BY <1>1, <2>1, <3>2 DEF Applied, SetMount, Mounts
      <4> QED
        BY <4>2, <4>3
    <3>3. CASE q.op = "set_enabled"
      <4>1. q \in [op : {"set_enabled"}, target : Target, enabled : BOOLEAN]
        BY <3>3 DEF Request
      <4>2. [m[t] EXCEPT !.enabled = q.enabled] \in Entry
        BY <1>1, <4>1 DEF Entry
      <4>3. Applied(m, q)[t] = [m[t] EXCEPT !.enabled = q.enabled]
        BY <1>1, <2>1, <3>3 DEF Applied, SetEnabled, Mounts
      <4> QED
        BY <4>2, <4>3
    <3>4. CASE q.op = "set_policy"
      <4>1. q \in [op : {"set_policy"}, target : Target,
                   read_only : BOOLEAN, allow_raw_writes : BOOLEAN]
        BY <3>4 DEF Request
      <4> DEFINE raw == ~q.read_only /\ q.allow_raw_writes
                 e == [m[t] EXCEPT !.read_only = q.read_only, !.allow_raw_writes = raw]
      <4>2. raw \in BOOLEAN
        OBVIOUS
      <4>3. Applied(m, q)[t] = e
        BY <1>1, <2>1, <3>4 DEF Applied, SetPolicy, Mounts, Entry
      <4> HIDE DEF raw
      <4>4. e \in Entry
        BY <1>1, <4>1, <4>2 DEF Entry
      <4> QED
        BY <4>3, <4>4
    <3> QED
      BY <1>5, <3>2, <3>3, <3>4
  <2>2. CASE t # q.target
    BY <1>1, <1>5, <2>2 DEF Applied, SetMount, SetEnabled, SetPolicy, Mounts
  <2> QED
    BY <2>1, <2>2
<1>6. CASE q.op = "clear_mounts"
  BY <1>6 DEF Takes
<1> QED
  BY <1>3, <1>4, <1>5, <1>6 DEF Request

LEMMA EditsKeep ==
  ASSUME TypeOK, KeptInv, NEW c \in Client, command[c] # None, NEW viaService,
         NEW m \in Edits(command[c], viaService)
  PROVE  Kept \subseteq Configured(m)
<1> DEFINE q == command[c]
<1>1. q \in Request \cup {Discover}
  BY DEF TypeOK
<1>2. \A t \in Target : Takes(q, t) => t \in Taken
  BY DEF Taken
<1>3. Kept \subseteq Target
  BY DEF Kept, Configured
<1>4. CASE q = Discover \/ q.op = "clear_mounts"
  <2>1. \A t \in Target : Takes(q, t)
    BY <1>4 DEF Takes
  <2> QED
    BY <1>2, <1>3, <2>1 DEF Kept
<1>5. CASE q # Discover /\ q.op # "clear_mounts"
  <2>1. PICK d \in DriveSets :
          /\ file # Torn
          /\ m = Applied(file, q)
          /\ ~Refused(file, q, viaService, Present, d)
    BY <1>5 DEF Edits, ReadFor
  <2>2. file \in Mounts /\ Kept \subseteq Configured(file)
    BY <2>1 DEF TypeOK, KeptInv
  <2>3. ASSUME NEW t \in Kept PROVE t \in Configured(m)
    <3>1. t \in Configured(file) /\ ~Takes(q, t)
      BY <1>2, <1>3, <2>2 DEF Kept
    <3> QED
      BY <1>1, <1>5, <2>1, <2>2, <3>1, AppliedKeeps
  <2> QED
    BY <2>3
<1> QED
  BY <1>4, <1>5

(* A step that begins no write and ends none but by noting it. *)
LEMMA KeptFrame ==
  ASSUME KeptInv, UNCHANGED <<file, first>>, torn => torn',
         \A c \in Client : command[c] # None => command'[c] = command[c],
         \A c \in Client : pc'[c] = "new" => pc[c] = "new" /\ command'[c] = command[c],
         \A w \in Writer : pc'[w] = "fill" => pc[w] = "fill",
         \A w \in Writer : pc[w] = "fill" /\ pc'[w] # "fill" => torn',
         \A w \in Writer : \/ table'[w] \in {table[w], None}
                           \/ Kept \subseteq Configured(table'[w])
  PROVE  KeptInv'
<1>1. Kept' \subseteq Kept
  BY DEF Kept, Taken, Configured
<1> QED
  BY <1>1 DEF KeptInv, Configured

LEMMA TruncateKept ==
  ASSUME KeptInv, WireInv, NEW w \in Writer, TruncateConfig(w), UNCHANGED command
  PROVE  KeptInv'
<1> USE ControlClientsAssumption
<1>1. pc' = [pc EXCEPT ![w] = "fill"] /\ pc[w] = "truncate" /\ table' = table /\ first' = first
      /\ file' = Torn /\ torn' = (torn \/ \E v \in Writer \ {w} : pc[v] = "fill")
  BY DEF TruncateConfig, Goes
<1>2. Kept' = Kept
  BY <1>1 DEF Kept, Taken, Configured
<1>3. pc'[w] = "fill" /\ \A v \in Writer \ {w} : pc'[v] = pc[v]
  BY <1>1 DEF WireInv, TypeOK
<1>4. \A c \in Client : pc'[c] = "new" => pc[c] = "new"
  BY <1>1 DEF WireInv, TypeOK, Writer
<1>5. \A v \in Writer : table'[v] # None => Kept' \subseteq Configured(table'[v])
  BY <1>1, <1>2 DEF KeptInv
<1>6. \A u, v \in Writer : pc'[u] = "fill" /\ pc'[v] = "fill" => u = v \/ torn'
  BY <1>1, <1>3 DEF KeptInv
<1> QED
  BY <1>1, <1>3, <1>4, <1>5, <1>6 DEF KeptInv, Configured

LEMMA FillKept ==
  ASSUME KeptInv, WireInv, NEW w \in Writer, FillConfig(w), UNCHANGED command
  PROVE  KeptInv'
<1> USE ControlClientsAssumption
<1>1. pc' = [pc EXCEPT ![w] = "written"] /\ pc[w] = "fill" /\ first' = first
      /\ table' = [table EXCEPT ![w] = None]
  BY DEF FillConfig, Goes
<1>2. Kept' = Kept
  BY <1>1 DEF Kept, Taken, Configured
<1>3. pc'[w] = "written" /\ \A v \in Writer \ {w} : pc'[v] = pc[v]
  BY <1>1 DEF WireInv, TypeOK
<1>4. table'[w] = None /\ \A v \in Writer \ {w} : table'[v] = table[v]
  BY <1>1 DEF WireInv, TypeOK
<1>5. table[w] # None /\ table[w] # Torn /\ Kept \subseteq Configured(table[w])
  BY <1>1 DEF WireInv, TypeOK, ProcInv, KeptInv
<1>6. \A c \in Client : pc'[c] = "new" => pc[c] = "new"
  BY <1>1, <1>3 DEF Writer
<1>7. \/ file' = table[w] /\ torn' = torn
      \/ file' = Torn /\ torn'
  BY <1>1 DEF FillConfig, KeptInv
<1>8. \A v \in Writer : pc'[v] = "fill" => torn' /\ pc[v] = "fill"
  BY <1>1, <1>3, <1>7 DEF KeptInv
<1> QED
  BY <1>2, <1>4, <1>5, <1>6, <1>7, <1>8 DEF KeptInv, Configured

LEMMA KeptStep == WireInv /\ KeptInv /\ [Next]_vars => KeptInv'
<1> SUFFICES ASSUME WireInv, KeptInv, [Next]_vars PROVE KeptInv'
  OBVIOUS
<1> USE ControlClientsAssumption
<1>0. pc \in [Writer -> ClientPoints \cup ServicePoints] /\ Client \subseteq Writer /\ Service \in Writer
      /\ command \in [Client -> Request \cup {Discover, None}]
      /\ table \in [Writer -> Mounts \cup {None}]
  BY DEF WireInv, TypeOK, Writer
<1>1. ASSUME NEW c \in Client, NEW q, Starts(c, q) PROVE KeptInv'
  <2>1. pc[c] = "new" /\ command[c] = None
    BY <1>1 DEF Starts, KeptInv
  <2>2. pc' = [pc EXCEPT ![c] = "started"] /\ command' = [command EXCEPT ![c] = q]
        /\ UNCHANGED fileVars
    BY <1>1 DEF Starts, Goes
  <2> QED
    BY <1>0, <2>1, <2>2, KeptFrame DEF fileVars
<1>2. ASSUME NEW c \in Client, DirectEdit(c) PROVE KeptInv'
  <2>1. command[c] # None /\ pc[c] = "started" /\ UNCHANGED command
    BY <1>2 DEF DirectEdit, WireInv, ProcInv
  <2>2. ASSUME NEW m \in Edits(command[c], FALSE), BeginWrite(c, m) PROVE KeptInv'
    <3>1. Kept \subseteq Configured(m)
      BY <2>1, EditsKeep DEF WireInv
    <3>2. pc' = [pc EXCEPT ![c] = "truncate"] /\ table' = [table EXCEPT ![c] = m]
          /\ UNCHANGED <<file, torn, first>>
      BY <2>2 DEF BeginWrite, Goes
    <3> QED
      BY <1>0, <2>1, <3>1, <3>2, KeptFrame
  <2>3. ASSUME NEW p \in {"connect", "done"}, Goes(c, p), UNCHANGED fileVars PROVE KeptInv'
    <3>1. pc' = [pc EXCEPT ![c] = p]
      BY <2>3 DEF Goes
    <3> QED
      BY <1>0, <2>1, <2>3, <3>1, KeptFrame DEF fileVars
  <2> QED
    BY <1>2, <2>2, <2>3 DEF DirectEdit, Ends
<1>3. ASSUME NEW c \in Client, DirectWrite(c) PROVE KeptInv'
  BY <1>0, <1>3, TruncateKept, FillKept DEF DirectWrite, procVars
<1>4. ASSUME NEW c \in Client, ReportsDirect(c) \/ Connect(c) \/ Send(c) \/ Receive(c)
      PROVE  KeptInv'
  <2>1. /\ pc[c] \notin {"fill", "new"} /\ UNCHANGED <<fileVars, command>>
        /\ \E p \in {"send", "wait", "done"} : pc' = [pc EXCEPT ![c] = p]
    BY <1>4 DEF ReportsDirect, Connect, Send, Receive, Ends, Goes
  <2> QED
    BY <1>0, <2>1, KeptFrame DEF fileVars
<1>5. ASSUME NEW c \in Client, Killed(c) PROVE KeptInv'
  <2>1. pc' = [pc EXCEPT ![c] = "done"] /\ UNCHANGED <<file, first, command>>
        /\ torn' = (torn \/ pc[c] = "fill") /\ table' = [table EXCEPT ![c] = None]
    BY <1>5 DEF Killed, Ends, Goes
  <2> QED
    BY <1>0, <2>1, KeptFrame
<1>6. ASSUME TakesRequest PROVE KeptInv'
  <2> DEFINE h == Head(queue)
  <2>1. h \in Client /\ command[h] # None /\ pc[Service] = "ready" /\ UNCHANGED command
    <3>1. h \in Client /\ h \in ToSet(queue)
      BY <1>6, QueueTail DEF TakesRequest, WireInv, TypeOK, QueueInv
    <3> QED
      BY <1>6, <3>1 DEF TakesRequest, WireInv, QueueInv, ProcInv, procVars
  <2>2. ASSUME NEW m \in Edits(command[h], TRUE), BeginWrite(Service, m) PROVE KeptInv'
    <3>1. Kept \subseteq Configured(m)
      BY <2>1, EditsKeep DEF WireInv
    <3>2. pc' = [pc EXCEPT ![Service] = "truncate"] /\ table' = [table EXCEPT ![Service] = m]
          /\ UNCHANGED <<file, torn, first>>
      BY <2>2 DEF BeginWrite, Goes
    <3> QED
      BY <1>0, <2>1, <3>1, <3>2, KeptFrame
  <2>3. ASSUME Answers("refused"), UNCHANGED fileVars PROVE KeptInv'
    <3>1. pc' = [pc EXCEPT ![Service] = "ready"]
      BY <2>3 DEF Answers, Goes
    <3> QED
      BY <1>0, <2>1, <2>3, <3>1, KeptFrame DEF fileVars
  <2> QED
    BY <1>6, <2>2, <2>3 DEF TakesRequest
<1>7. ASSUME ServiceWrites PROVE KeptInv'
  BY <1>0, <1>7, TruncateKept, FillKept DEF ServiceWrites, procVars
<1>8. ASSUME ServiceReports \/ PayloadTimesOut \/ ServiceStarts PROVE KeptInv'
  <2>1. /\ pc[Service] # "fill" /\ UNCHANGED <<fileVars, command>>
        /\ pc' = [pc EXCEPT ![Service] = "ready"]
    BY <1>8 DEF ServiceReports, PayloadTimesOut, ServiceStarts, Answers, Goes, procVars
  <2> QED
    BY <1>0, <2>1, KeptFrame DEF fileVars
<1>9. ASSUME ServiceEnds PROVE KeptInv'
  <2>1. pc' = [pc EXCEPT ![Service] = "down"] /\ UNCHANGED <<file, first, command>>
        /\ torn' = (torn \/ pc[Service] = "fill") /\ table' = [table EXCEPT ![Service] = None]
    BY <1>9 DEF ServiceEnds, Goes, procVars
  <2> QED
    BY <1>0, <2>1, KeptFrame
<1>10. ASSUME ManagerRefreshes \/ UNCHANGED vars PROVE KeptInv'
  BY <1>10, KeptFrame DEF ManagerRefreshes, vars, fileVars, procVars
<1> QED
  BY <1>1, <1>2, <1>3, <1>4, <1>5, <1>6, <1>7, <1>8, <1>9, <1>10
  DEF Next, UserStarts, ManagerStarts, ManagerDiscovers, ClientStep, ServiceStep

(* No race, kill, crash or failed write loses a volume that was configured *)
(* at first and that no command was told to take out, and mounts.json is   *)
(* without a table only while it is written, or after an edit that broke   *)
(* off or overlapped another.                                              *)
THEOREM TablesKept == Spec => []TableKept
<1>1. KeptInv => TableKept
  BY DEF KeptInv, Kept, TableKept
<1>2. Spec => []KeptInv
  BY KeptInit, KeptStep, WireHolds, PTL DEF Spec
<1> QED
  BY <1>1, <1>2, PTL

=============================================================================
