--------------------------- MODULE StartupProofs ---------------------------
(***************************************************************************)
(* Theorems about start-up, for every configuration file, every number of  *)
(* boards and every order in which threads bind, connections come and go   *)
(* and the process dies and is started again.                              *)
(***************************************************************************)
EXTENDS Startup, SequenceTheorems, WellFoundedInduction, TLAPS

(* The bounds are numbers, and every port string has a number.             *)
LEMMA Bounds ==
  /\ MaxBoards \in Nat /\ LastDigit \in Nat /\ MaxStarts \in Nat
  /\ SERV_PORT \in Nat /\ SERV_PORT # 0
BY StartupAssumption

LEMMA Numbers ==
  /\ "" \in DOMAIN PortNum /\ PortNum[""] = 0
  /\ \A s \in DOMAIN PortNum : PortNum[s] \in Nat
BY StartupAssumption

(* A set of natural numbers that is not empty has a least element.         *)
LEMMA Least ==
  ASSUME NEW S \in SUBSET Nat, S # {}
  PROVE  \E u \in S : \A n \in S : u <= n
<1>1. PICK u \in S : \A n \in S : ~ (<<n, u>> \in OpToRel(<, Nat))
  BY WFMin, NatLessThanWellFounded, Zenon
<1>2. ASSUME NEW n \in S, n < u
      PROVE  FALSE
  <2>1. <<n, u>> \in Nat \X Nat /\ <<n, u>>[1] < <<n, u>>[2]
    BY <1>2
  <2>2. <<n, u>> \in OpToRel(<, Nat)
    BY <2>1, Zenon DEF OpToRel
  <2>3. QED
    BY <1>1, <2>2, Zenon
<1>3. \A n \in S : u <= n
  BY <1>2
<1>4. QED
  BY <1>3

(* The numbers at the ends of the ranges.                                  *)
LEMMA Corners ==
  /\ 0 \in Nat /\ 0 \in 0 .. MaxBoards /\ 1 \in 1 .. MaxBoards + 1 /\ 0 \in 0 .. MaxStarts
  /\ 1 .. 0 = {} /\ 1 .. 1 - 1 = {} /\ 1 <= 0 + 1
  /\ \A m \in Nat : 1 <= m + 1
<1>1. MaxBoards \in Nat /\ MaxStarts \in Nat
  BY Bounds
<1>2. \A m \in Nat : 0 \in 0 .. m /\ 1 \in 1 .. m + 1
  OBVIOUS
<1>3. QED
  BY <1>1, <1>2

LEMMA NoKeys == DOMAIN <<>> = {}
<1>1. <<>> \in Seq({}) /\ Len(<<>>) = 0
  BY EmptySeq
<1>2. QED
  BY <1>1, LenProperties

-----------------------------------------------------------------------------
(* What config_read takes out of the file.                                 *)

(* The first of the enabled workshops is one of them.                      *)
LEMMA FirstEnabled ==
  ASSUME NEW f \in Files, Enabled(f) # {}
  PROVE  First(Enabled(f)) \in DOMAIN f
<1>1. Enabled(f) \in SUBSET Nat /\ Enabled(f) \subseteq DOMAIN f
  BY StartupAssumption DEF Enabled
<1>2. \E w \in Enabled(f) : \A x \in Enabled(f) : w <= x
  BY <1>1, Least
<1>3. First(Enabled(f)) \in Enabled(f)
  BY <1>2 DEF First
<1>4. QED
  BY <1>1, <1>3

(* Every board of the workshop gets a key, and its port string a number.   *)
LEMMA ConfigType ==
  ASSUME NEW f \in Files
  PROVE  /\ BoardsOf(f) \in 0 .. MaxBoards
         /\ DOMAIN PortsOf(f) = {PortKey(n) : n \in 1 .. BoardsOf(f)}
         /\ \A k \in DOMAIN PortsOf(f) : PortsOf(f)[k] \in DOMAIN PortNum
<1>1. BoardsOf(f) \in 0 .. MaxBoards
  <2>1. Enabled(f) # {} => f[First(Enabled(f))].IP_NUM \in 0 .. MaxBoards
    BY FirstEnabled, StartupAssumption
  <2>2. QED
    BY <2>1, Bounds DEF BoardsOf
<1>2. DOMAIN PortsOf(f) = {PortKey(n) : n \in 1 .. BoardsOf(f)}
  BY DEF PortsOf
<1>3. ASSUME NEW n \in 1 .. BoardsOf(f)
      PROVE  PortsOf(f)[PortKey(n)] \in DOMAIN PortNum
  <2>1. PortsOf(f)[PortKey(n)] = Port(f[First(Enabled(f))], n)
    BY DEF PortsOf, PortKey
  <2>2. Enabled(f) # {} /\ n \in Nat /\ n >= 1
    BY <1>1 DEF BoardsOf
  <2>3. f[First(Enabled(f))].Ports \in Seq(DOMAIN PortNum)
    BY <2>2, FirstEnabled, StartupAssumption
  <2>4. PICK s \in Seq(DOMAIN PortNum) : s = f[First(Enabled(f))].Ports
    BY <2>3
  <2>5. n <= Len(s) => s[n] \in DOMAIN PortNum
    BY <2>2, ElementOfSeq, LenProperties
  <2>6. QED
    BY <2>1, <2>4, <2>5, Numbers DEF Port
<1>4. QED
  BY <1>1, <1>2, <1>3

-----------------------------------------------------------------------------
(* Types.                                                                  *)

LEMMA KeyType ==
  ASSUME NEW n \in 1 .. MaxBoards
  PROVE  DigitKey(n) \in {"number", "character"} \X (1 .. MaxBoards)
BY DEF DigitKey, PortKey

LEMMA InitType == Init => TypeOK
<1> SUFFICES ASSUME Init PROVE TypeOK
  OBVIOUS
<1>1. DOMAIN ports = {}
  BY NoKeys DEF Init
<1>2. 0 \in 0 .. MaxStarts /\ 0 \in 0 .. MaxBoards /\ 1 \in 1 .. MaxBoards + 1
  BY Bounds
<1>3. QED
  BY <1>1, <1>2, Numbers DEF Init, TypeOK, Nothing

LEMMA WantedType ==
  ASSUME TypeOK, NEW t \in Thread
  PROVE  Wanted(t) \in Nat
BY Bounds, Numbers DEF TypeOK, Wanted

LEMMA TypeStep == TypeOK /\ [Next]_vars => TypeOK'
<1> SUFFICES ASSUME TypeOK, [Next]_vars PROVE TypeOK'
  OBVIOUS
<1> USE DEF TypeOK
<1>1. CASE ServiceStarts \/ OperatorStarts
  <2>1. Boot /\ byOperator' \in BOOLEAN
    BY <1>1 DEF ServiceStarts, OperatorStarts
  <2>2. /\ BoardsOf(file) \in 0 .. MaxBoards
        /\ DOMAIN PortsOf(file) = {PortKey(n) : n \in 1 .. BoardsOf(file)}
        /\ \A k \in DOMAIN PortsOf(file) : PortsOf(file)[k] \in DOMAIN PortNum
    BY ConfigType
  <2>3. \A n \in 1 .. BoardsOf(file) : PortKey(n) \in {"number", "character"} \X (1 .. MaxBoards)
    BY <2>2, Bounds DEF PortKey
  <2>4. starts + 1 \in 0 .. MaxStarts
    BY <2>1, Bounds DEF Boot
  <2>5. QED
    BY <2>1, <2>2, <2>3, <2>4 DEF Boot
<1>2. CASE Spawn
  <2>1. i \in 1 .. MaxBoards /\ i \in Thread
    BY <1>2, Bounds DEF Spawn, Thread
  <2>2. DigitKey(i) \in {"number", "character"} \X (1 .. MaxBoards)
    BY <2>1, KeyType
  <2>3. /\ DOMAIN ports' = DOMAIN ports \cup {DigitKey(i)}
        /\ \A k \in DOMAIN ports' : ports'[k] \in DOMAIN PortNum
    BY <1>2, Numbers DEF Spawn, Subscript
  <2>4. i + 1 \in 1 .. MaxBoards + 1
    BY <2>1, Bounds
  <2>5. QED
    BY <1>2, <2>1, <2>2, <2>3, <2>4 DEF Spawn
<1>3. CASE SpawnModbus
  BY <1>3 DEF SpawnModbus
<1>4. ASSUME NEW t \in Thread, Bind(t) PROVE TypeOK'
  BY <1>4, WantedType DEF Bind
<1>5. ASSUME NEW t \in Thread, Connect(t) PROVE TypeOK'
  BY <1>5 DEF Connect
<1>6. ASSUME NEW t \in Thread, Disconnect(t) PROVE TypeOK'
  BY <1>6 DEF Disconnect
<1>7. ASSUME NEW p \in linger, Expire(p) PROVE TypeOK'
  BY <1>7 DEF Expire, procVars
<1>8. CASE Die
  <2>1. DOMAIN ports' = {}
    BY <1>8, NoKeys DEF Die
  <2>2. linger' \subseteq Nat
    BY <1>8 DEF Die
  <2>3. thread' = Nothing("none") /\ arg' = Nothing("") /\ bound' = Nothing(0)
    BY <1>8 DEF Die
  <2>4. /\ thread' \in [Thread -> {"none", "bind", "accept"}]
        /\ arg' \in [Thread -> DOMAIN PortNum] /\ bound' \in [Thread -> Nat]
    BY <2>3, Numbers DEF Nothing
  <2>5. i' \in 1 .. MaxBoards + 1 /\ ip_num' \in 0 .. MaxBoards
    <3>1. i' = 1 /\ ip_num' = 0
      BY <1>8 DEF Die
    <3>2. QED
      BY <3>1, Corners, Zenon
  <2>6. QED
    BY <1>8, <2>1, <2>2, <2>4, <2>5 DEF Die
<1>9. CASE EditFile
  BY <1>9 DEF EditFile, procVars
<1>10. CASE UNCHANGED vars
  BY <1>10 DEF vars, procVars
<1>11. QED
  BY <1>1, <1>2, <1>3, <1>4, <1>5, <1>6, <1>7, <1>8, <1>9, <1>10 DEF Next

(* Every variable of the start-up always has its type.                     *)
THEOREM StartupTyped == Spec => []TypeOK
BY InitType, TypeStep, PTL DEF Spec

-----------------------------------------------------------------------------
(* The inductive invariant.                                                *)

(* The threads main() has started so far.                                  *)
Started ==
  CASE main = "down"  -> {}
    [] main = "spawn" -> 1 .. i - 1
    [] main = "join"  -> 0 .. ip_num

SpawnInv ==
  /\ i <= ip_num + 1
  /\ main = "down" => i = 1 /\ ip_num = 0
  /\ main = "join" => i = ip_num + 1
  /\ \A t \in Thread : thread[t] # "none" <=> t \in Started

(* A board's key is the one config_read wrote; a key made of a character   *)
(* that is no digit is one main() created, and empty.                      *)
KeyInv ==
  /\ \A n \in 1 .. ip_num : PortKey(n) \in DOMAIN ports
  /\ \A k \in DOMAIN ports : k[1] = "character" => ports[k] = ""
  /\ \A t \in 1 .. i - 1 : DigitKey(t) \in DOMAIN ports /\ arg[t] = ports[DigitKey(t)]

(***************************************************************************)
(* A thread has the port it wanted, or none because somebody has it.  A    *)
(* process the service manager started found no port lingering, and what   *)
(* lingers since is a port one of its threads still listens on.            *)
(***************************************************************************)
PortInv ==
  /\ \A t \in Thread : bound[t] # 0 => thread[t] = "accept" /\ bound[t] = Wanted(t)
  /\ \A t \in connected : bound[t] # 0
  /\ 0 \notin linger
  /\ main # "down" /\ ~byOperator => linger \subseteq {bound[t] : t \in Thread}
  /\ ~byOperator => \A t \in Thread :
       thread[t] = "accept" /\ Wanted(t) # 0 => \E u \in Thread : bound[u] = Wanted(t)

StartInv == SpawnInv /\ KeyInv /\ PortInv

LEMMA StartInit == Init => StartInv
<1> SUFFICES ASSUME Init PROVE StartInv
  OBVIOUS
<1>1. DOMAIN ports = {}
  BY NoKeys DEF Init
<1>2. SpawnInv
  <2>1. main = "down" /\ i = 1 /\ ip_num = 0 /\ \A t \in Thread : thread[t] = "none"
    BY DEF Init, Nothing
  <2>2. Started = {}
    BY <2>1 DEF Started
  <2>3. i <= ip_num + 1
    BY <2>1, Corners, Zenon
  <2>4. QED
    BY <2>1, <2>2, <2>3 DEF SpawnInv
<1>3. KeyInv
  <2>1. 1 .. ip_num = {} /\ 1 .. i - 1 = {}
    BY Corners, Zenon DEF Init
  <2>2. QED
    BY <1>1, <2>1, Zenon DEF KeyInv
<1>4. PortInv
  BY DEF Init, Nothing, PortInv
<1>5. QED
  BY <1>2, <1>3, <1>4 DEF StartInv

(* The numbers of the loop, for the steps below.                           *)
LEMMA LoopType ==
  ASSUME TypeOK
  PROVE  /\ i \in Nat /\ i >= 1 /\ ip_num \in Nat /\ ip_num <= MaxBoards
         /\ 1 .. ip_num \subseteq Thread /\ 0 .. ip_num \subseteq Thread /\ 0 \in Thread
BY Bounds DEF TypeOK, Thread

LEMMA SpawnStep == TypeOK /\ SpawnInv /\ [Next]_vars => SpawnInv'
<1> SUFFICES ASSUME TypeOK, SpawnInv, [Next]_vars PROVE SpawnInv'
  OBVIOUS
<1> USE DEF SpawnInv
<1>1. CASE UNCHANGED <<main, i, ip_num, thread>>
  BY <1>1 DEF Started
<1>2. CASE Boot
  <2>1. ip_num' \in Nat
    <3>1. ip_num' = BoardsOf(file) /\ file \in Files
      BY <1>2 DEF Boot, TypeOK
    <3>2. BoardsOf(file) \in 0 .. MaxBoards /\ MaxBoards \in Nat
      BY <3>1, ConfigType, Bounds
    <3>3. QED
      BY <3>1, <3>2
  <2>2. main' = "spawn" /\ i' = 1 /\ main = "down" /\ thread' = thread
    BY <1>2 DEF Boot
  <2>3. Started = {} /\ Started' = {}
    BY <2>2 DEF Started
  <2>4. i' <= ip_num' + 1
    <3>1. 1 <= ip_num' + 1
      BY <2>1, Corners, Zenon
    <3>2. QED
      BY <2>2, <3>1, Zenon
  <2>5. QED
    BY <2>2, <2>3, <2>4, Zenon
<1>3. CASE Spawn
  <2>1. /\ main = "spawn" /\ main' = "spawn" /\ i' = i + 1 /\ i <= ip_num /\ ip_num' = ip_num
        /\ thread' = [thread EXCEPT ![i] = "bind"]
    BY <1>3 DEF Spawn
  <2>2. i \in Thread /\ Started = 1 .. i - 1 /\ Started' = Started \cup {i}
    BY <2>1, LoopType DEF Started
  <2>3. \A t \in Thread : thread'[t] # "none" <=> t \in Started'
    BY <2>1, <2>2 DEF TypeOK
  <2>4. QED
    BY <2>1, <2>3, LoopType
<1>4. CASE SpawnModbus
  <2>1. /\ main = "spawn" /\ main' = "join" /\ UNCHANGED <<i, ip_num>> /\ i = ip_num + 1
        /\ thread' = [thread EXCEPT ![0] = "bind"]
    BY <1>4, LoopType DEF SpawnModbus
  <2>2. Started = 1 .. ip_num /\ Started' = Started \cup {0}
    BY <2>1, LoopType DEF Started
  <2>3. \A t \in Thread : thread'[t] # "none" <=> t \in Started'
    BY <2>1, <2>2, LoopType DEF TypeOK
  <2>4. QED
    BY <2>1, <2>3, LoopType
<1>5. ASSUME NEW t \in Thread, Bind(t) PROVE SpawnInv'
  <2>1. Started' = Started
    BY <1>5 DEF Bind, Started
  <2>2. \A u \in Thread : thread'[u] # "none" <=> thread[u] # "none"
    BY <1>5 DEF Bind, TypeOK
  <2>3. QED
    BY <1>5, <2>1, <2>2 DEF Bind
<1>6. CASE Die
  <2>1. Started' = {}
    BY <1>6 DEF Die, Started
  <2>2. main' = "down" /\ i' = 1 /\ ip_num' = 0 /\ \A t \in Thread : thread'[t] = "none"
    BY <1>6 DEF Die, Nothing
  <2>3. i' <= ip_num' + 1
    BY <2>2, Corners, Zenon
  <2>4. QED
    BY <2>1, <2>2, <2>3
<1>7. QED
  BY <1>1, <1>2, <1>3, <1>4, <1>5, <1>6
     DEF Next, ServiceStarts, OperatorStarts, Connect, Disconnect, Expire, EditFile, vars, procVars

(* One pass of the loop of main().                                         *)
LEMMA KeySpawn ==
  ASSUME TypeOK, KeyInv, Spawn
  PROVE  KeyInv'
<1>1. i \in Nat /\ i >= 1 /\ ip_num \in Nat /\ i <= ip_num /\ i \in Thread
  BY LoopType DEF Spawn
<1>2. /\ i' = i + 1 /\ ip_num' = ip_num
      /\ ports' = Subscript(ports, DigitKey(i))
      /\ arg' = [arg EXCEPT ![i] = ports'[DigitKey(i)]]
  BY DEF Spawn
<1>3. /\ DOMAIN ports' = DOMAIN ports \cup {DigitKey(i)}
      /\ \A k \in DOMAIN ports : ports'[k] = ports[k]
      /\ DigitKey(i) \notin DOMAIN ports => ports'[DigitKey(i)] = ""
  BY <1>2 DEF Subscript
<1>4. \A n \in 1 .. ip_num' : PortKey(n) \in DOMAIN ports'
  BY <1>2, <1>3 DEF KeyInv
<1>5. \A k \in DOMAIN ports' : k[1] = "character" => ports'[k] = ""
  BY <1>3 DEF KeyInv
<1>6. arg'[i] = ports'[DigitKey(i)]
  BY <1>1, <1>2 DEF TypeOK
<1>7. \A t \in 1 .. i - 1 : t # i /\ t \in Thread
  BY <1>1, LoopType
<1>8. \A t \in 1 .. i - 1 : arg'[t] = arg[t]
  BY <1>2, <1>7 DEF TypeOK
<1>9. \A t \in 1 .. i' - 1 : t = i \/ t \in 1 .. i - 1
  BY <1>1, <1>2
<1>10. ASSUME NEW t \in 1 .. i' - 1
       PROVE  DigitKey(t) \in DOMAIN ports' /\ arg'[t] = ports'[DigitKey(t)]
  <2>1. CASE t = i
    BY <1>3, <1>6, <2>1
  <2>2. CASE t \in 1 .. i - 1
    <3>1. DigitKey(t) \in DOMAIN ports /\ arg[t] = ports[DigitKey(t)]
      BY <2>2, Zenon DEF KeyInv
    <3>2. QED
      BY <1>3, <1>8, <2>2, <3>1
  <2>3. QED
    BY <1>9, <2>1, <2>2
<1>11. QED
  BY <1>4, <1>5, <1>10 DEF KeyInv

LEMMA KeyStep == TypeOK /\ SpawnInv /\ KeyInv /\ [Next]_vars => KeyInv'
<1> SUFFICES ASSUME TypeOK, SpawnInv, KeyInv, [Next]_vars PROVE KeyInv'
  OBVIOUS
<1>1. CASE UNCHANGED <<i, ip_num, ports, arg>>
  BY <1>1 DEF KeyInv
<1>2. CASE Boot
  <2>1. ip_num' = BoardsOf(file) /\ DOMAIN ports' = {PortKey(n) : n \in 1 .. BoardsOf(file)}
    BY <1>2, ConfigType DEF Boot, TypeOK
  <2>2. i' = 1
    BY <1>2 DEF Boot, SpawnInv
  <2>3. \A n \in 1 .. BoardsOf(file) : PortKey(n)[1] # "character"
    BY DEF PortKey
  <2>4. \A k \in DOMAIN ports' : k[1] # "character"
    BY <2>1, <2>3
  <2>5. \A n \in 1 .. ip_num' : PortKey(n) \in DOMAIN ports'
    BY <2>1
  <2>6. 1 .. i' - 1 = {}
    BY <2>2, Corners, Zenon
  <2>7. QED
    BY <2>4, <2>5, <2>6, Zenon DEF KeyInv
<1>3. CASE Spawn
  BY <1>3, KeySpawn
<1>4. CASE Die
  <2>1. ports' = <<>> /\ ip_num' = 0 /\ i' = 1
    BY <1>4 DEF Die
  <2>2. DOMAIN ports' = {} /\ 1 .. ip_num' = {} /\ 1 .. i' - 1 = {}
    BY <2>1, NoKeys, Corners, Zenon
  <2>3. QED
    BY <2>2, Zenon DEF KeyInv
<1>5. QED
  BY <1>1, <1>2, <1>3, <1>4
     DEF Next, ServiceStarts, OperatorStarts, SpawnModbus, Bind, Connect, Disconnect, Expire,
         EditFile, vars, procVars

LEMMA PortStep == TypeOK /\ SpawnInv /\ PortInv /\ [Next]_vars => PortInv'
<1> SUFFICES ASSUME TypeOK, SpawnInv, PortInv, [Next]_vars PROVE PortInv'
  OBVIOUS
<1> USE DEF PortInv
<1>0. /\ thread = [t \in Thread |-> thread[t]] /\ arg = [t \in Thread |-> arg[t]]
      /\ bound = [t \in Thread |-> bound[t]] /\ connected \subseteq Thread
  BY DEF TypeOK
<1>1. CASE UNCHANGED <<main, thread, arg, bound, connected, linger, byOperator>>
  BY <1>1 DEF Wanted
<1>2. CASE ServiceStarts \/ OperatorStarts
  <2>1. /\ main = "down" /\ UNCHANGED <<thread, arg, bound, connected, linger>>
        /\ linger = {} \/ byOperator' = TRUE
    BY <1>2 DEF ServiceStarts, OperatorStarts, Boot
  <2>2. \A t \in Thread : thread[t] = "none"
    BY <2>1 DEF SpawnInv, Started, TypeOK
  <2>3. QED
    BY <2>1, <2>2 DEF Wanted
<1>3. CASE Spawn
  <2>1. /\ i \in Thread /\ i # 0 /\ thread[i] = "none"
    <3>1. i \in Thread /\ i # 0 /\ i \notin Started
      BY <1>3, LoopType DEF Spawn, Started
    <3>2. QED
      BY <3>1 DEF SpawnInv
  <2>2. /\ thread' = [thread EXCEPT ![i] = "bind"]
        /\ UNCHANGED <<main, bound, connected, linger, byOperator>>
        /\ \A t \in Thread \ {i} : arg'[t] = arg[t]
    BY <1>0, <1>3 DEF Spawn
  <2>3. \A t \in Thread \ {i} : Wanted(t)' = Wanted(t)
    BY <2>2 DEF Wanted
  <2>4. QED
    BY <1>0, <2>1, <2>2, <2>3
<1>4. CASE SpawnModbus
  <2>1. thread[0] = "none" /\ 0 \in Thread
    <3>1. 0 \in Thread /\ 0 \notin Started
      BY <1>4, LoopType DEF SpawnModbus, Started
    <3>2. QED
      BY <3>1 DEF SpawnInv
  <2>2. \A t \in Thread : Wanted(t)' = Wanted(t)
    BY <1>4 DEF SpawnModbus, Wanted
  <2>3. /\ thread' = [thread EXCEPT ![0] = "bind"] /\ main # "down"
        /\ UNCHANGED <<bound, connected, linger, byOperator>>
    BY <1>4 DEF SpawnModbus
  <2>4. QED
    BY <1>0, <2>1, <2>2, <2>3
<1>5. ASSUME NEW t \in Thread, Bind(t) PROVE PortInv'
  <2>1. /\ thread[t] = "bind" /\ bound[t] = 0 /\ main # "down"
        /\ t \notin connected
    <3>1. thread[t] = "bind" /\ bound[t] = 0
      BY <1>5 DEF Bind
    <3>2. main # "down"
      BY <3>1 DEF SpawnInv, Started
    <3>3. QED
      BY <3>1, <3>2
  <2>2. /\ thread'[t] = "accept"
        /\ \A u \in Thread \ {t} : thread'[u] = thread[u] /\ bound'[u] = bound[u]
        /\ bound'[t] = IF Wanted(t) \in Taken THEN 0 ELSE Wanted(t)
        /\ UNCHANGED <<main, connected, linger, byOperator>>
    BY <1>0, <1>5 DEF Bind
  <2>3. \A u \in Thread : Wanted(u)' = Wanted(u)
    BY <1>5 DEF Bind, Wanted
  <2>4. \A u \in Thread : bound[u] # 0 => u # t /\ bound'[u] = bound[u]
    BY <2>1, <2>2
  <2>5. ~byOperator => linger \subseteq {bound'[u] : u \in Thread}
    BY <2>1, <2>4
  <2>6. ~byOperator /\ Wanted(t) # 0 => \E u \in Thread : bound'[u] = Wanted(t)
    <3>1. CASE Wanted(t) \in Taken
      BY <2>1, <2>4, <3>1 DEF Taken
    <3>2. CASE Wanted(t) \notin Taken
      BY <2>2, <3>2
    <3>3. QED
      BY <3>1, <3>2
  <2>7. ASSUME ~byOperator, NEW u \in Thread, thread'[u] = "accept", Wanted(u) # 0
        PROVE  \E v \in Thread : bound'[v] = Wanted(u)
    <3>1. CASE u = t
      BY <2>6, <2>7, <3>1
    <3>2. CASE u # t
      BY <2>2, <2>4, <2>7, <3>2
    <3>3. QED
      BY <3>1, <3>2
  <2>8. QED
    BY <1>0, <2>1, <2>2, <2>3, <2>4, <2>5, <2>7
<1>6. ASSUME NEW t \in Thread, Connect(t) PROVE PortInv'
  BY <1>6 DEF Connect, Wanted
<1>7. ASSUME NEW t \in Thread, Disconnect(t) PROVE PortInv'
  BY <1>7 DEF Disconnect, Wanted
<1>8. ASSUME NEW p \in linger, Expire(p) PROVE PortInv'
  BY <1>8 DEF Expire, procVars, Wanted
<1>9. CASE Die
  BY <1>0, <1>9 DEF Die, Nothing
<1>10. QED
  BY <1>1, <1>2, <1>3, <1>4, <1>5, <1>6, <1>7, <1>8, <1>9 DEF Next, EditFile, vars, procVars

(* However main(), its threads, the connections and the service manager    *)
(* interleave, the invariant holds.                                        *)
THEOREM StartInvariant == Spec => [](TypeOK /\ StartInv)
<1>1. TypeOK /\ StartInv /\ [Next]_vars => (TypeOK /\ StartInv)'
  BY TypeStep, SpawnStep, KeyStep, PortStep DEF StartInv
<1>2. QED
  BY <1>1, InitType, StartInit, PTL DEF Spec

(***************************************************************************)
(* A process the service manager started listens on the Modbus port and on *)
(* the port of every board one digit can number.                           *)
(***************************************************************************)
THEOREM BoardsAlwaysReachable == Spec => []BoardsReachable
<1>1. TypeOK /\ StartInv => BoardsReachable
  <2> SUFFICES ASSUME TypeOK, StartInv, Settled, ~byOperator PROVE Listening
    BY DEF BoardsReachable
  <2> USE DEF StartInv
  <2>1. \A t \in 0 .. ip_num : t \in Thread /\ thread[t] = "accept"
    <3>1. Started = 0 .. ip_num
      BY DEF Settled, Started
    <3>2. QED
      BY <3>1, LoopType DEF SpawnInv, Settled, TypeOK
  <2>2. \A t \in 0 .. ip_num : Wanted(t) # 0 => \E u \in Thread : bound[u] = Wanted(t)
    BY <2>1 DEF PortInv
  <2>3. 0 \in 0 .. ip_num /\ Wanted(0) = SERV_PORT
    BY LoopType DEF Wanted
  <2>4. \A n \in Numbered : n \in 0 .. ip_num /\ Wanted(n) = BoardPort(n)
    <3> SUFFICES ASSUME NEW n \in Numbered PROVE n \in 0 .. ip_num /\ Wanted(n) = BoardPort(n)
      OBVIOUS
    <3>1. n \in 1 .. ip_num /\ n <= LastDigit /\ n # 0
      BY LoopType, Bounds DEF Numbered
    <3>2. n \in 1 .. i - 1
      BY <3>1, LoopType DEF SpawnInv, Settled
    <3>3. arg[n] = ports[PortKey(n)]
      BY <3>1, <3>2 DEF KeyInv, DigitKey
    <3>4. QED
      BY <3>1, <3>3, LoopType DEF Wanted, BoardPort
  <2>5. QED
    BY <2>2, <2>3, <2>4, Bounds DEF Listening, ConfiguredPorts
<1>2. QED
  BY <1>1, StartInvariant, PTL

(***************************************************************************)
(* What arrives on a board's port is stored under that board and no other, *)
(* as long as nothing else in the file has the same port number.           *)
(***************************************************************************)
THEOREM FramesStoredUnderOwnBoard == Spec => []OwnFrames
<1>1. TypeOK /\ StartInv => OwnFrames
  <2> SUFFICES ASSUME TypeOK, StartInv, NEW n \in Numbered, NEW t \in Thread, Settled,
                      bound[t] = BoardPort(n), BoardPort(n) # 0, BoardPort(n) # SERV_PORT,
                      \A m \in (1 .. ip_num) \ {n} : BoardPort(m) # BoardPort(n)
               PROVE  t = n /\ StoreTargets(t) = {n}
    BY DEF OwnFrames
  <2> USE DEF StartInv
  <2>1. Wanted(t) = BoardPort(n) /\ thread[t] = "accept"
    BY DEF PortInv
  <2>2. t \in 1 .. ip_num
    <3>1. t \in 0 .. ip_num
      BY <2>1 DEF SpawnInv, Settled, Started
    <3>2. t # 0
      BY <2>1 DEF Wanted
    <3>3. QED
      BY <3>1, <3>2, LoopType
  <2>3. i - 1 = ip_num
    BY LoopType DEF SpawnInv, Settled
  <2>4. /\ \A m \in 1 .. ip_num : DigitKey(m) \in DOMAIN ports /\ arg[m] = ports[DigitKey(m)]
        /\ \A m \in 1 .. ip_num : m <= LastDigit => DigitKey(m) = PortKey(m)
        /\ \A m \in 1 .. ip_num : ~(m <= LastDigit) => ports[DigitKey(m)] = ""
    BY <2>3 DEF KeyInv, DigitKey
  <2>5. n \in 1 .. ip_num /\ n <= LastDigit
    BY LoopType, Bounds DEF Numbered
  <2>6. PortNum[arg[t]] = BoardPort(n)
    BY <2>1, <2>2, LoopType DEF Wanted
  <2>7. t <= LastDigit
    BY <2>2, <2>4, <2>6, Numbers
  <2>8. t = n
    <3>1. arg[t] = ports[PortKey(t)]
      BY <2>2, <2>4, <2>7
    <3>2. BoardPort(t) = BoardPort(n)
      BY <2>6, <3>1 DEF BoardPort
    <3>3. QED
      BY <2>2, <3>2
  <2>9. arg[n] = ports[PortKey(n)] /\ arg[n] # ""
    BY <2>4, <2>5, <2>6, <2>8, Numbers
  <2>10. ASSUME NEW m \in 1 .. ip_num, ports[DigitKey(m)] = arg[n]
         PROVE  m = n
    <3>1. m <= LastDigit
      BY <2>4, <2>9, <2>10
    <3>2. BoardPort(m) = BoardPort(n)
      BY <2>4, <2>9, <2>10, <3>1 DEF BoardPort
    <3>3. QED
      BY <3>2
  <2>11. QED
    BY <2>4, <2>5, <2>8, <2>10 DEF StoreTargets
<1>2. QED
  BY <1>1, StartInvariant, PTL
=============================================================================
