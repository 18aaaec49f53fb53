------------------------------- MODULE Ports -------------------------------
(***************************************************************************)
(* GET /ports and the check of the port proxy (runtime/src/ports.rs): a    *)
(* scan of /proc, one process after the other, while processes fork, exit  *)
(* and listen.  A process's parent is read before the sockets, and the     *)
(* sockets before their owners.                                            *)
(***************************************************************************)
EXTENDS Naturals, FiniteSets

CONSTANTS
    MaxPid,     \* bound: pids are 1..MaxPid, handed out in ascending order
    Socket,     \* sockets: [port, six]
    OwnPort     \* the port of the runtime itself

(* A process has a pid, and a socket a port and a family.                  *)
ASSUME PortsAssumption ==
    /\ MaxPid \in Nat \ {0}
    /\ Socket \subseteq [port : Nat, six : BOOLEAN]

VARIABLES
    parent,     \* the parent of each process; 0: no such process
    born,       \* the last pid handed out
    holders,    \* the processes that hold each listening socket
    scan,       \* where the scan is, and what it has read
    quiet,      \* history: since the scan began nothing exited or closed,
                \* and no second listener came to a port
    steady      \* history: the sockets that listen since it began

portVars == <<parent, born, holders, scan, quiet, steady>>

Pid == 1..MaxPid
Root == 1
Living == {p \in Pid : parent[p] # 0}
Listening == {s \in Socket : holders[s] # {}}

NoScan == [pc |-> "idle", at |-> 1, ppid |-> [p \in Pid |-> 0], rows |-> {},
           owner |-> [s \in Socket |-> 0], visible |-> {}]

PortsInit ==
    /\ parent = [p \in Pid |-> IF p = Root THEN MaxPid + 1 ELSE 0]
    /\ born = Root
    /\ holders = [s \in Socket |-> IF s.port = OwnPort THEN {Root} ELSE {}]
    /\ scan = NoScan
    /\ quiet = TRUE
    /\ steady = {}

-----------------------------------------------------------------------------
(* The processes of the pod.  Sockets are inherited, but not from the      *)
(* runtime, whose own are close-on-exec; orphans go to process 1, which is *)
(* the runtime.                                                            *)
ForkChild(p) ==
    /\ p \in Living /\ born < MaxPid
    /\ born' = born + 1
    /\ parent' = [parent EXCEPT ![born'] = p]
    /\ holders' = [s \in Socket |-> IF p \in holders[s] \ {Root} THEN holders[s] \cup {born'} ELSE holders[s]]
    /\ UNCHANGED <<scan, quiet, steady>>

Listen(p, s) ==
    /\ p \in Living \ {Root} /\ s.port # OwnPort /\ holders[s] = {}
    /\ \A t \in Listening : t.port = s.port => t.six # s.six
    /\ holders' = [holders EXCEPT ![s] = {p}]
    /\ quiet' = (quiet /\ \A t \in steady : t.port # s.port)
    /\ UNCHANGED <<parent, born, scan, steady>>

Gone(p, sockets) ==
    /\ holders' = [s \in Socket |-> IF s \in sockets THEN holders[s] \ {p} ELSE holders[s]]
    /\ quiet' = FALSE
    /\ steady' = {s \in steady : holders'[s] # {}}
    /\ UNCHANGED <<born, scan>>

CloseSocket(p, s) ==
    /\ p \in holders[s] \ {Root}
    /\ Gone(p, {s})
    /\ UNCHANGED parent

ExitProcess(p) ==
    /\ p \in Living \ {Root}
    /\ Gone(p, Socket)
    /\ parent' = [q \in Pid |-> IF q = p THEN 0 ELSE IF parent[q] = p THEN Root ELSE parent[q]]

-----------------------------------------------------------------------------
(* scan_visible_ports *)
ScanVisiblePorts ==
    /\ scan.pc = "idle"
    /\ scan' = [NoScan EXCEPT !.pc = "stat"]
    /\ quiet' = TRUE
    /\ steady' = Listening
    /\ UNCHANGED <<parent, born, holders>>

Advance(now, then) == IF scan.at < MaxPid THEN [now EXCEPT !.at = @ + 1] ELSE [now EXCEPT !.at = 1, !.pc = then]

(* descendant_pids, stat_ppid: the parent of the next process. *)
StatPpid ==
    /\ scan.pc = "stat"
    /\ scan' = Advance([scan EXCEPT !.ppid[scan.at] = parent[scan.at]], "rows")
    /\ UNCHANGED <<parent, born, holders, quiet, steady>>

(* The search from the root, which is not among its descendants: the       *)
(* processes in every set that holds the root and the children it read of  *)
(* whatever the set holds.                                                 *)
Complete(S) == Root \in S /\ \A q \in Pid : scan.ppid[q] \in S => q \in S
Descendants == {p \in Pid \ {Root} : \A S \in SUBSET Pid : Complete(S) => p \in S}

(* listening_rows: one row for a port, IPv4 first. *)
ListeningRows ==
    /\ scan.pc = "rows"
    /\ scan' = [scan EXCEPT !.pc = "fds",
                            !.rows = {s \in Listening : s.six => ~ \E t \in Listening : t.port = s.port /\ ~t.six}]
    /\ UNCHANGED <<parent, born, holders, quiet, steady>>

(* Mutant: the last process that holds a socket is its owner. *)
OwnedLast(s, p) == IF p \in holders[s] THEN p ELSE scan.owner[s]

(* socket_pids: the sockets of the next process; the first owner stays. *)
Owned(s, p) == IF scan.owner[s] = 0 /\ p \in holders[s] THEN p ELSE scan.owner[s]

SocketPids ==
    /\ scan.pc = "fds"
    /\ scan' = Advance([scan EXCEPT !.owner = [s \in Socket |-> IF s \in scan.rows THEN Owned(s, scan.at) ELSE 0]],
                       "filter")
    /\ UNCHANGED <<parent, born, holders, quiet, steady>>

VisiblePorts ==
    /\ scan.pc = "filter"
    /\ scan' = [scan EXCEPT !.pc = "done",
                            !.visible = {s.port : s \in {s \in scan.rows : scan.owner[s] \in Descendants}}]
    /\ UNCHANGED <<parent, born, holders, quiet, steady>>

PortsNext ==
    \/ \E p \in Pid : ForkChild(p) \/ ExitProcess(p)
    \/ \E p \in Pid, s \in Socket : Listen(p, s) \/ CloseSocket(p, s)
    \/ ScanVisiblePorts \/ StatPpid \/ ListeningRows \/ SocketPids \/ VisiblePorts

PortsSpec == PortsInit /\ [][PortsNext]_portVars

-----------------------------------------------------------------------------
(* scan_visible_ports: unless something exited or closed meanwhile, or a   *)
(* port got a second listener, the scan shows every port a process of the  *)
(* session listened on all the time, forks and new listeners               *)
(* notwithstanding, and never the runtime's.                               *)
QuietScanComplete ==
    scan.pc = "done" =>
        /\ OwnPort \notin scan.visible
        /\ quiet => {s.port : s \in steady} \ {OwnPort} \subseteq scan.visible

(* Refuted: orphans "stay owned" (ports.rs:11-13).  A parent that exits    *)
(* between two reads hides the port of a child that lives on.              *)
OrphansStayOwned ==
    scan.pc = "done" => {s.port : s \in steady} \ {OwnPort} \subseteq scan.visible
=============================================================================
