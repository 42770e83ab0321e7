------------------------------ MODULE Startup ------------------------------
(***************************************************************************)
(* The start-up of the collector: config_read and main of src/main.cpp,    *)
(* the socket set-up at the head of every server thread, and the service   *)
(* manager that starts the process again.  The JSON text is JsonReader's   *)
(* business; here the file is the value read from it.                      *)
(*                                                                         *)
(* Thread 0 is the Modbus server, thread n the server of board n.  Ports   *)
(* are strings; what the kernel sees is their atoi.                        *)
(***************************************************************************)
EXTENDS Integers, Sequences, FiniteSets

CONSTANTS
  Files,        \* the contents Factory_config.json may have
  MaxBoards,    \* bound: boards in any of them
  PortNum,      \* atoi of the port strings
  SERV_PORT,    \* the port of the Modbus server, a number
  LastDigit,    \* boards one character can number: '1' to '9'
  MaxStarts     \* bound: starts of the process

(* A file is the six workshops' arrays in order, or does not parse.        *)
Unparsed == <<>>

ASSUME StartupAssumption ==
  /\ MaxBoards \in Nat /\ LastDigit \in Nat /\ MaxStarts \in Nat
  /\ SERV_PORT \in Nat \ {0}
  /\ "" \in DOMAIN PortNum /\ PortNum \in [DOMAIN PortNum -> Nat]
  /\ PortNum[""] = 0
  /\ \A f \in Files : DOMAIN f \subseteq Nat
  /\ \A f \in Files : \A w \in DOMAIN f :
       /\ f[w].Key \in STRING /\ f[w].IP_NUM \in 0 .. MaxBoards
       /\ f[w].Ports \in Seq(DOMAIN PortNum)

Thread == 0 .. MaxBoards

VARIABLES
  file,         \* Factory_config.json on disk
  main,         \* where main() is: "down", "spawn" or "join"
  i,            \* the next board main() starts a thread for
  ip_num,       \* Factory_map["IP_NUM"]
  ports,        \* Factory_map: the keys "Port<c>" and their strings
  thread,       \* what each thread is doing: "none", "bind" or "accept"
  arg,          \* Sever_Port, the string a thread was started with
  bound,        \* the port a thread listens on; 0 for one the kernel picked
  connected,    \* the threads with an established connection
  linger,       \* the ports still held by closed connections (TIME_WAIT)
  byOperator,   \* was this process started by hand?
  starts

procVars == <<main, i, ip_num, ports, thread, arg, bound, connected>>
vars == <<file, procVars, linger, byOperator, starts>>

-----------------------------------------------------------------------------
(* Keys.  config_read writes the number out, main() adds it to '0'.        *)
PortKey(n) == <<"number", n>>

(* Mutant: the digit starts at '0' instead of '1'.                         *)
DigitKeyOff(n) == IF n <= LastDigit THEN PortKey(n - 1) ELSE <<"character", n>>

DigitKey(n) == IF n <= LastDigit THEN PortKey(n) ELSE <<"character", n>>

(* An element past the end of the JSON array reads as "".                  *)
Port(workshop, n) == IF n <= Len(workshop.Ports) THEN workshop.Ports[n] ELSE ""

(* The first workshop whose Key is "True", if there is one.                *)
Enabled(root) == {w \in DOMAIN root : root[w].Key = "True"}
First(S) == CHOOSE w \in S : \A x \in S : w <= x

BoardsOf(root) == IF Enabled(root) = {} THEN 0 ELSE root[First(Enabled(root))].IP_NUM
PortsOf(root) ==
  [k \in {PortKey(n) : n \in 1 .. BoardsOf(root)} |->
     Port(root[First(Enabled(root))], k[2])]

(* ports[k]: a missing key is created empty.                               *)
Subscript(m, k) ==
  [x \in DOMAIN m \cup {k} |-> IF x \in DOMAIN m THEN m[x] ELSE ""]

(* The boards a thread stores a checked frame under: every board whose     *)
(* port string is the thread's own.                                        *)
StoreTargets(t) ==
  {n \in 1 .. ip_num : DigitKey(n) \in DOMAIN ports /\ ports[DigitKey(n)] = arg[t]}

-----------------------------------------------------------------------------
Nothing(x) == [t \in Thread |-> x]

Init ==
  /\ file \in Files
  /\ main = "down" /\ i = 1 /\ ip_num = 0 /\ ports = <<>>
  /\ thread = Nothing("none") /\ arg = Nothing("")
  /\ bound = Nothing(0) /\ connected = {}
  /\ linger = {} /\ byOperator = FALSE /\ starts = 0

(* The process starts and reads the file.                                  *)
Boot ==
  /\ main = "down" /\ starts < MaxStarts
  /\ main' = "spawn" /\ starts' = starts + 1
  /\ ip_num' = BoardsOf(file) /\ ports' = PortsOf(file)
  /\ UNCHANGED <<file, i, thread, arg, bound, connected, linger>>

(* Mutants: RestartSec is shorter than TIME_WAIT; Restart=no.              *)
ServiceStartsSoon == Boot /\ byOperator' = FALSE
ServiceStartsOnce == starts = 0 /\ Boot /\ byOperator' = FALSE

(* Restart=always, RestartSec=1800s: by then no port lingers.              *)
ServiceStarts == linger = {} /\ Boot /\ byOperator' = FALSE
OperatorStarts == Boot /\ byOperator' = TRUE

(* One pass of the loop of main().                                         *)
Spawn ==
  /\ main = "spawn" /\ i <= ip_num
  /\ ports' = Subscript(ports, DigitKey(i))
  /\ arg' = [arg EXCEPT ![i] = ports'[DigitKey(i)]]
  /\ thread' = [thread EXCEPT ![i] = "bind"]
  /\ i' = i + 1
  /\ UNCHANGED <<file, main, ip_num, bound, connected, linger, byOperator, starts>>

SpawnModbus ==
  /\ main = "spawn" /\ i > ip_num
  /\ thread' = [thread EXCEPT ![0] = "bind"]
  /\ main' = "join"
  /\ UNCHANGED <<file, i, ip_num, ports, arg, bound, connected, linger, byOperator, starts>>

Wanted(t) == IF t = 0 THEN SERV_PORT ELSE PortNum[arg[t]]
Taken == linger \cup {bound[t] : t \in Thread}

(***************************************************************************)
(* socket, bind, listen: the result of bind is not looked at, and a socket *)
(* without a port gets one from listen.                                    *)
(***************************************************************************)
Bind(t) ==
  /\ thread[t] = "bind"
  /\ bound' = [bound EXCEPT ![t] = IF Wanted(t) \in Taken THEN 0 ELSE Wanted(t)]
  /\ thread' = [thread EXCEPT ![t] = "accept"]
  /\ UNCHANGED <<file, main, i, ip_num, ports, arg, connected, linger, byOperator, starts>>

(* Boards and clients know the configured ports only.                      *)
Connect(t) ==
  /\ thread[t] = "accept" /\ bound[t] # 0
  /\ connected' = connected \cup {t}
  /\ UNCHANGED <<file, main, i, ip_num, ports, thread, arg, bound, linger, byOperator, starts>>

(* A thread closes first and keeps the port in TIME_WAIT, or its peer did. *)
Disconnect(t) ==
  /\ t \in connected
  /\ connected' = connected \ {t}
  /\ linger' \in {linger, linger \cup {bound[t]}}
  /\ UNCHANGED <<file, main, i, ip_num, ports, thread, arg, bound, byOperator, starts>>

Expire(p) ==
  /\ linger' = linger \ {p}
  /\ UNCHANGED <<file, procVars, byOperator, starts>>

(* An assertion, an uncaught exception, SIGPIPE or the operator.           *)
Die ==
  /\ main # "down" /\ starts < MaxStarts
  /\ main' = "down" /\ i' = 1 /\ ip_num' = 0 /\ ports' = <<>>
  /\ thread' = Nothing("none") /\ arg' = Nothing("")
  /\ bound' = Nothing(0) /\ connected' = {}
  /\ linger' = linger \cup {bound[t] : t \in connected}
  /\ UNCHANGED <<file, byOperator, starts>>

EditFile == file' \in Files /\ UNCHANGED <<procVars, linger, byOperator, starts>>

Next ==
  \/ ServiceStarts \/ OperatorStarts
  \/ Spawn \/ SpawnModbus
  \/ \E t \in Thread : Bind(t) \/ Connect(t) \/ Disconnect(t)
  \/ \E p \in linger : Expire(p)
  \/ Die \/ EditFile

(***************************************************************************)
(* The process runs when it can, TIME_WAIT ends and systemd restarts.      *)
(* Nobody has to connect, to edit the file or to start by hand.            *)
(***************************************************************************)
Fairness ==
  /\ WF_vars(ServiceStarts) /\ WF_vars(Spawn) /\ WF_vars(SpawnModbus)
  /\ \A t \in Thread : WF_vars(Bind(t))
  /\ \A p \in {SERV_PORT} \cup {PortNum[s] : s \in DOMAIN PortNum} :
       WF_vars(p \in linger /\ Expire(p))

Spec == Init /\ [][Next]_vars /\ Fairness

-----------------------------------------------------------------------------
(* Every variable keeps its type.                                          *)
TypeOK ==
  /\ file \in Files /\ main \in {"down", "spawn", "join"}
  /\ i \in 1 .. MaxBoards + 1 /\ ip_num \in 0 .. MaxBoards
  /\ DOMAIN ports \subseteq {"number", "character"} \X (1 .. MaxBoards)
  /\ \A k \in DOMAIN ports : ports[k] \in DOMAIN PortNum
  /\ thread \in [Thread -> {"none", "bind", "accept"}]
  /\ arg \in [Thread -> DOMAIN PortNum] /\ bound \in [Thread -> Nat]
  /\ connected \subseteq Thread /\ linger \subseteq Nat
  /\ byOperator \in BOOLEAN /\ starts \in 0 .. MaxStarts

Settled == main = "join" /\ \A t \in Thread : thread[t] # "bind"

(* The port number configured for board n; 0 stands for none.              *)
BoardPort(n) == PortNum[ports[PortKey(n)]]
Numbered == 1 .. IF ip_num < LastDigit THEN ip_num ELSE LastDigit
ConfiguredPorts == {SERV_PORT} \cup ({BoardPort(n) : n \in Numbered} \ {0})

Listening == \A p \in ConfiguredPorts : \E t \in Thread : bound[t] = p

(***************************************************************************)
(* A process the service manager started listens, once its threads are up, *)
(* on the Modbus port and on the port of every board one digit can number, *)
(* whatever the process before it left behind.  Boards past the ninth,     *)
(* boards without a port, and a process restarted by hand while its old    *)
(* connections linger have no such promise.                                *)
(***************************************************************************)
BoardsReachable == Settled /\ ~byOperator => Listening

(***************************************************************************)
(* What arrives on a board's port is stored under that board and no other, *)
(* as long as the file gives no other board, nor the Modbus server, the    *)
(* same number: the key main() started the thread with and the key the     *)
(* thread looks its board up by agree with the key config_read wrote.      *)
(***************************************************************************)
OwnFrames ==
  \A n \in Numbered, t \in Thread :
    /\ Settled /\ bound[t] = BoardPort(n) /\ BoardPort(n) # 0
    /\ BoardPort(n) # SERV_PORT
    /\ \A m \in (1 .. ip_num) \ {n} : BoardPort(m) # BoardPort(n)
    => t = n /\ StoreTargets(t) = {n}

(***************************************************************************)
(* However often the process dies, and whatever the operator writes into   *)
(* the file, in the end the configured ports are listened to again, unless *)
(* the last start was the operator's.                                      *)
(***************************************************************************)
ServedAgain == <>[](byOperator \/ (Settled /\ Listening))
=============================================================================
