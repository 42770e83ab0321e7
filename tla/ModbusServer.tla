---------------------------- MODULE ModbusServer ----------------------------
(***************************************************************************)
(* src/modbusTCP.cpp: the Modbus/TCP server the gateway polls.  One client *)
(* is served at a time; the others wait in the listen backlog.  Requests   *)
(* and replies are byte sequences, because the server takes whatever one   *)
(* read() returns for one request.                                         *)
(***************************************************************************)
EXTENDS ModbusParse, FiniteSets

CONSTANTS
  Client,        \* byte values: the high byte of a client's transaction ids
  Kinds,         \* the requests each client makes: function, address, length
  Cuts,          \* bound: where in a request TCP may split it; 0 is its end
  OVERFLOW,      \* a longer read drops the connection (2000 bytes)
  MaxRequests,   \* bound: requests of all clients together
  MaxConnects    \* bound: connections of one client

READ_CMD_LEN == 12

(***************************************************************************)
(* Clients read inside the register map.  Nothing in the code keeps what   *)
(* follows a cut from being taken for a request if it looks like the start *)
(* of one, as the second half of a read of 6 registers from 0 does: such   *)
(* requests are left out.                                                  *)
(***************************************************************************)
ASSUME ClientAssumption ==
  /\ Client \subseteq Byte
  /\ Cuts \subseteq 0 .. READ_CMD_LEN - 1
  /\ OVERFLOW \in Nat /\ OVERFLOW >= READ_CMD_LEN
  /\ MaxRequests \in 0 .. 250 /\ MaxConnects \in Nat
  /\ \A c \in Client : \A k \in Kinds[c] :
       /\ k.fn \in Byte /\ k.addr \in Byte /\ k.len \in Nat /\ k.len < 256 * 256
       /\ 5 \in Cuts => k.fn # 0 \/ k.addr # 0 \/ k.len \div 256 # 6
       /\ 6 \in Cuts => k.addr # 0 \/ k.len # 6
       /\ 7 \in Cuts => c # 6 \/ k.addr # 0 \/ k.len # 0
       /\ k.fn = READ_HOLDING_REGISTERS => k.addr = 0 \/ k.addr + k.len <= REGISTERS

VARIABLES
  at,           \* where the thread is in Tcpsever_init
  served,       \* the accepted clients (cfd): none or one
  backlog,      \* connections accept() has not taken yet
  buf,          \* what read() filled in; the first 12 bytes are looked at
  got,          \* len: bytes the last read() returned
  parseResult,  \* the reply buffer
  size,         \* bytes of it to send
  link,         \* each client's connection
  rx,           \* bytes on their way to the server, per client
  asked,        \* history: requests made on the connection
  answers,      \* history: replies delivered on the connection
  made, dials   \* requests made in all, connections of each client

serverVars == <<at, served, buf, got, parseResult, size>>
netVars == <<backlog, link, rx, asked, answers, made, dials>>
vars == <<serverVars, netVars>>

-----------------------------------------------------------------------------
(* Requests.                                                               *)

Request(c, k, kind) ==
  <<c, k + 5, 0, 0, 0, 6, 1, kind.fn, 0, kind.addr, kind.len \div 256, kind.len % 256>>

BlankBuf == [j \in 0 .. READ_CMD_LEN - 1 |-> 0]

(* Mutant: no bzero before read().                                         *)
FilledOver(bytes) ==
  [j \in 0 .. READ_CMD_LEN - 1 |-> IF j < Len(bytes) THEN bytes[j + 1] ELSE buf[j]]

(* The buffer is cleared before each read().                               *)
Filled(bytes) ==
  [j \in 0 .. READ_CMD_LEN - 1 |-> IF j < Len(bytes) THEN bytes[j + 1] ELSE 0]

Init ==
  /\ at = "accept" /\ served = {} /\ backlog = <<>>
  /\ buf = BlankBuf /\ got = 0
  /\ parseResult = [j \in 0 .. RESULT_LEN - 1 |-> 0] /\ size = 0
  /\ link = [c \in Client |-> "none"]
  /\ rx = [c \in Client |-> <<>>]
  /\ asked = [c \in Client |-> <<>>] /\ answers = [c \in Client |-> <<>>]
  /\ made = 0 /\ dials = [c \in Client |-> 0]

Goto(from, to) == at = from /\ at' = to

-----------------------------------------------------------------------------
(* The Modbus thread.                                                      *)

Accept ==
  /\ backlog # <<>>
  /\ Goto("accept", "read")
  /\ served' = {Head(backlog)}
  /\ backlog' = Tail(backlog)
  /\ UNCHANGED <<buf, got, parseResult, size, link, rx, asked, answers, made, dials>>

(* How many bytes one read() may return: all there are, or, when TCP       *)
(* delivers them late, fewer.                                              *)
ReadSizes(bytes) ==
  {n \in 1 .. Len(bytes) : \E k \in Cuts : (Len(bytes) - n + k) % READ_CMD_LEN = 0}

Read ==
  /\ \E c \in served : \E n \in ReadSizes(rx[c]) :
       /\ buf' = Filled(SubSeq(rx[c], 1, n))
       /\ got' = n
       /\ rx' = [rx EXCEPT ![c] = SubSeq(@, n + 1, Len(@))]
  /\ Goto("read", "parse")
  /\ UNCHANGED <<served, parseResult, size, backlog, link, asked, answers, made, dials>>

(* Mutant: a read() of 0 bytes is tried again.                             *)
ReadEndless ==
  /\ \E c \in served : rx[c] = <<>> /\ link[c] \in {"fin", "rst"}
  /\ Goto("read", "read")
  /\ UNCHANGED <<served, buf, got, parseResult, size, netVars>>

(* read() returned 0 or an error.                                          *)
ReadEnd ==
  /\ \E c \in served : rx[c] = <<>> /\ link[c] \in {"fin", "rst"}
  /\ Goto("read", "close")
  /\ UNCHANGED <<served, buf, got, parseResult, size, netVars>>

(* Mutant: a timeout is taken for an interrupted read.                     *)
ReadRetry ==
  /\ \E c \in served : rx[c] = <<>> /\ link[c] = "open"
  /\ Goto("read", "read")
  /\ UNCHANGED <<served, buf, got, parseResult, size, netVars>>

(* SO_RCVTIMEO: nothing came for 10 seconds.                               *)
ReadTimeout ==
  /\ \E c \in served : rx[c] = <<>> /\ link[c] = "open"
  /\ Goto("read", "close")
  /\ UNCHANGED <<served, buf, got, parseResult, size, netVars>>

(* cmd_len is a uint8_t.                                                   *)
CmdLen == (WordAt(buf, 4) + 6) % 256

(* A command the server hangs up on: too much data, not Modbus in both     *)
(* bytes, or not 12 bytes long by its own length field.                    *)
BadCommand ==
  \/ got > OVERFLOW
  \/ buf[2] # 0 /\ buf[3] # 0
  \/ CmdLen # READ_CMD_LEN

Drop ==
  /\ BadCommand
  /\ Goto("parse", "close")
  /\ UNCHANGED <<served, buf, got, parseResult, size, netVars>>

Parse ==
  /\ ~BadCommand
  /\ Goto("parse", "send")
  /\ LET p == parseModbusCommand(buf, CmdLen, parseResult)
     IN  parseResult' = p.result /\ size' = p.size
  /\ UNCHANGED <<served, buf, got, netVars>>

Reply == [j \in 1 .. size |-> parseResult[j - 1]]

(* send() to a client that is there; a size of 0 sends nothing.            *)
Send ==
  /\ \E c \in served :
       /\ link[c] = "open"
       /\ answers' = IF size = 0 THEN answers ELSE [answers EXCEPT ![c] = Append(@, Reply)]
  /\ Goto("send", "read")
  /\ UNCHANGED <<served, buf, got, parseResult, size, backlog, link, rx, asked, made, dials>>

(* send() to a client that has closed: what is sent provokes a reset.      *)
SendLate ==
  /\ \E c \in served :
       /\ link[c] = "fin"
       /\ link' = IF size = 0 THEN link ELSE [link EXCEPT ![c] = "rst"]
  /\ Goto("send", "read")
  /\ UNCHANGED <<served, buf, got, parseResult, size, backlog, rx, asked, answers, made, dials>>

(* send() reports the reset as an error, the first time at most: the       *)
(* connection is closed.                                                   *)
SendFails ==
  /\ \E c \in served : link[c] = "rst"
  /\ Goto("send", "close")
  /\ UNCHANGED <<served, buf, got, parseResult, size, netVars>>

(* send() on a reset connection raises SIGPIPE, which ends the process.    *)
SendKills ==
  /\ \E c \in served : link[c] = "rst"
  /\ Goto("send", "dead")
  /\ UNCHANGED <<served, buf, got, parseResult, size, netVars>>

(* sleep(1), close(cfd), back to accept().                                 *)
Close ==
  /\ Goto("close", "accept")
  /\ link' = [c \in Client |-> IF c \in served THEN "none" ELSE link[c]]
  /\ rx' = [c \in Client |-> IF c \in served THEN <<>> ELSE rx[c]]
  /\ served' = {}
  /\ UNCHANGED <<buf, got, parseResult, size, backlog, asked, answers, made, dials>>

ServerStep ==
  \/ Accept \/ Read \/ ReadEnd \/ ReadTimeout \/ Drop \/ Parse
  \/ Send \/ SendLate \/ SendFails \/ SendKills \/ Close

-----------------------------------------------------------------------------
(* The clients (external).                                                 *)

Connect(c) ==
  /\ link[c] = "none" /\ dials[c] < MaxConnects /\ at # "dead"
  /\ link' = [link EXCEPT ![c] = "open"]
  /\ backlog' = Append(backlog, c)
  /\ asked' = [asked EXCEPT ![c] = <<>>]
  /\ answers' = [answers EXCEPT ![c] = <<>>]
  /\ dials' = [dials EXCEPT ![c] = @ + 1]
  /\ UNCHANGED <<serverVars, rx, made>>

(* A client need not wait for the reply to its last request.               *)
Ask(c) ==
  /\ link[c] = "open" /\ made < MaxRequests /\ at # "dead"
  /\ made' = made + 1
  /\ \E kind \in Kinds[c] :
       LET r == Request(c, made + 1, kind)
       IN  /\ rx' = [rx EXCEPT ![c] = @ \o r]
           /\ asked' = [asked EXCEPT ![c] = Append(@, r)]
  /\ UNCHANGED <<serverVars, backlog, link, answers, dials>>

HangUp(c) ==
  /\ link[c] = "open" /\ at # "dead"
  /\ link' = [link EXCEPT ![c] = "fin"]
  /\ UNCHANGED <<serverVars, backlog, rx, asked, answers, made, dials>>

ClientStep(c) == Connect(c) \/ Ask(c) \/ HangUp(c)

Next == ServerStep \/ \E c \in Client : ClientStep(c)

(* The Modbus thread keeps running; clients owe nothing.                   *)
Spec == Init /\ [][Next]_vars /\ WF_vars(ServerStep)

-----------------------------------------------------------------------------
(* Every variable of the Modbus server keeps its type.                     *)
TypeOK ==
  /\ at \in {"accept", "read", "parse", "send", "close", "dead"}
  /\ served \in {{}} \cup {{c} : c \in Client}
  /\ backlog \in Seq(Client)
  /\ buf \in [0 .. READ_CMD_LEN - 1 -> Byte]
  /\ got \in Nat
  /\ parseResult \in [0 .. RESULT_LEN - 1 -> Byte]
  /\ size \in 0 .. RESULT_LEN
  /\ link \in [Client -> {"none", "open", "fin", "rst"}]
  /\ rx \in [Client -> Seq(Byte)]
  /\ asked \in [Client -> Seq(Seq(Byte))] /\ answers \in [Client -> Seq(Seq(Byte))]
  /\ made \in 0 .. MaxRequests /\ dials \in [Client -> 0 .. MaxConnects]

(***************************************************************************)
(* The protocol's answer to a request, written from the request alone:     *)
(* the same transaction and unit, and the registers asked for.             *)
(***************************************************************************)
Registers(from, n) == [j \in 1 .. 2 * n |-> analogValueBytes(2 * from + j - 1)]

Answer(r) ==
  LET wanted == 256 * r[11] + r[12]
      n == IF wanted < REGISTERS THEN wanted ELSE REGISTERS
  IN  CASE r[8] = READ_HOLDING_REGISTERS ->
             <<r[1], r[2], 0, 0, 0, 3 + 2 * n, r[7], r[8], 2 * n>> \o Registers(r[10], n)
        [] r[8] = READ_DISCRETE_INPUTS -> <<r[1], r[2], 0, 0, 0, 4, r[7], r[8], 1, 0>>
        [] OTHER -> r

(* A request of which only the first n bytes came, zeros after them.       *)
CutAt(r, n) == [j \in 1 .. READ_CMD_LEN |-> IF j <= n THEN r[j] ELSE 0]

(***************************************************************************)
(* What a client receives are answers to its own requests, in the order it *)
(* made them and each at most once, whatever the buffers still hold of     *)
(* earlier requests, replies and clients.  A request split by TCP is       *)
(* answered as far as it came, which is with no register.                  *)
(***************************************************************************)
RepliesGenuine ==
  \A c \in Client :
    \E f \in [1 .. Len(answers[c]) -> 1 .. Len(asked[c])] :
      \A i \in 1 .. Len(answers[c]) :
        /\ \A j \in 1 .. i - 1 : f[j] < f[i]
        /\ \E n \in 8 .. READ_CMD_LEN : answers[c][i] = Answer(CutAt(asked[c][f[i]], n))

(* A reply that carries registers carries as many as were asked for.       *)
RegistersComplete ==
  \A c \in Client : \A i \in 1 .. Len(answers[c]) :
    answers[c][i][8] = READ_HOLDING_REGISTERS /\ answers[c][i][9] > 0 =>
      \E j \in 1 .. Len(asked[c]) : answers[c][i] = Answer(asked[c][j])

(***************************************************************************)
(* No client hangs: a request that gets no answer (refused, dropped with   *)
(* the request it arrived with, or left over when the server times out)    *)
(* ends with the server closing the connection.                            *)
(***************************************************************************)
NoClientHangs ==
  \A c \in Client :
    (link[c] = "open" /\ Len(answers[c]) < Len(asked[c])) ~>
      (link[c] # "open" \/ Len(answers[c]) = Len(asked[c]) \/ at = "dead")

(***************************************************************************)
(* A waiting connection is accepted in the end: a served client that falls *)
(* silent, without closing, is dropped after SO_RCVTIMEO.                  *)
(***************************************************************************)
BacklogServed == (backlog # <<>> /\ at # "accept") ~> (at \in {"accept", "dead"})

(***************************************************************************)
(* A client that closes early costs at most its own connection: a failed   *)
(* send() leads to close() and accept() (src/modbusTCP.cpp:111-115).       *)
(***************************************************************************)
SendErrorContained == at # "dead"
=============================================================================
