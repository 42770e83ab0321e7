------------------------- MODULE ModbusServerProofs -------------------------
(***************************************************************************)
(* Theorems about the parser of Modbus commands and the server around it,  *)
(* for any clients and requests, however TCP splits and joins the          *)
(* requests, whenever clients come, hang up and reconnect, and whatever    *)
(* earlier replies left in the buffers.                                    *)
(***************************************************************************)
EXTENDS ModbusServer, SequenceTheorems, TLAPS

-----------------------------------------------------------------------------
(* What parseModbusCommand returns, for every command and whatever earlier *)
(* replies left in the buffer.                                             *)

Command == [0 .. 11 -> Byte]
ResultBuffer == [0 .. RESULT_LEN - 1 -> Byte]

LEMMA WordNat == \A cmd \in Command : \A i \in 0 .. 10 : WordAt(cmd, i) \in Nat
<1> SUFFICES ASSUME NEW cmd \in Command, NEW i \in 0 .. 10 PROVE WordAt(cmd, i) \in Nat
  OBVIOUS
<1>1. i \in 0 .. 11 /\ i + 1 \in 0 .. 11
  OBVIOUS
<1>2. cmd[i] \in 0 .. 255 /\ cmd[i + 1] \in 0 .. 255
  BY <1>1 DEF Command, Byte
<1>3. ASSUME NEW x \in 0 .. 255, NEW y \in 0 .. 255
      PROVE  256 * x + y \in Nat
  OBVIOUS
<1>4. QED
  BY <1>2, <1>3 DEF WordAt

LEMMA CutRange == \A n \in Nat : CutLength(n) \in 0 .. REGISTERS
BY ParseAssumption DEF CutLength

(* The header bytes, and the buffer's shape, after Stamped.                *)
LEMMA StampedHead ==
  ASSUME NEW r \in ResultBuffer, NEW cmd
  PROVE  LET h == Stamped(r, cmd)
         IN  /\ DOMAIN h = 0 .. RESULT_LEN - 1
             /\ h[0] = cmd[0] /\ h[1] = cmd[1] /\ h[2] = 0 /\ h[3] = 0 /\ h[6] = cmd[6]
<1>1. RESULT_LEN \in Nat /\ RESULT_LEN >= 12
  BY ParseAssumption
<1>2. QED
  BY <1>1 DEF Stamped, Put, ResultBuffer

(* The bytes of the two short replies.                                     *)
LEMMA CoilBytes ==
  ASSUME NEW r \in ResultBuffer, NEW cmd
  PROVE  LET h == CoilReply(Stamped(r, cmd), cmd)
         IN  /\ h[0] = cmd[0] /\ h[1] = cmd[1] /\ h[2] = 0 /\ h[3] = 0
             /\ h[4] = cmd[4] /\ h[5] = cmd[5] /\ h[6] = cmd[6] /\ h[7] = WRITE_SINGLE_COIL
             /\ h[8] = cmd[8] /\ h[9] = cmd[9] /\ h[10] = cmd[10] /\ h[11] = cmd[11]
<1> DEFINE s == Stamped(r, cmd)
<1>1. RESULT_LEN \in Nat /\ RESULT_LEN >= 12
  BY ParseAssumption
<1>2. /\ DOMAIN s = 0 .. RESULT_LEN - 1
      /\ s[0] = cmd[0] /\ s[1] = cmd[1] /\ s[2] = 0 /\ s[3] = 0 /\ s[6] = cmd[6]
  BY StampedHead
<1> HIDE DEF s
<1>3. LET h == CoilReply(s, cmd)
      IN  /\ h[0] = cmd[0] /\ h[1] = cmd[1] /\ h[2] = 0 /\ h[3] = 0
          /\ h[4] = cmd[4] /\ h[5] = cmd[5] /\ h[6] = cmd[6] /\ h[7] = WRITE_SINGLE_COIL
          /\ h[8] = cmd[8] /\ h[9] = cmd[9] /\ h[10] = cmd[10] /\ h[11] = cmd[11]
  BY <1>1, <1>2 DEF CoilReply, Replied, Put
<1>4. QED
  BY <1>3 DEF s

LEMMA DiscreteBytes ==
  ASSUME NEW r \in ResultBuffer, NEW cmd
  PROVE  LET h == DiscreteReply(Stamped(r, cmd))
         IN  /\ h[0] = cmd[0] /\ h[1] = cmd[1] /\ h[2] = 0 /\ h[3] = 0
             /\ h[4] = 0 /\ h[5] = 4 /\ h[6] = cmd[6] /\ h[7] = READ_DISCRETE_INPUTS
             /\ h[8] = 1 /\ h[9] = 0
<1> DEFINE s == Stamped(r, cmd)
<1>1. RESULT_LEN \in Nat /\ RESULT_LEN >= 12
  BY ParseAssumption
<1>2. /\ DOMAIN s = 0 .. RESULT_LEN - 1
      /\ s[0] = cmd[0] /\ s[1] = cmd[1] /\ s[2] = 0 /\ s[3] = 0 /\ s[6] = cmd[6]
  BY StampedHead
<1> HIDE DEF s
<1>3. LET h == DiscreteReply(s)
      IN  /\ h[0] = cmd[0] /\ h[1] = cmd[1] /\ h[2] = 0 /\ h[3] = 0
          /\ h[4] = 0 /\ h[5] = 4 /\ h[6] = cmd[6] /\ h[7] = READ_DISCRETE_INPUTS
          /\ h[8] = 1 /\ h[9] = 0
  BY <1>1, <1>2 DEF DiscreteReply, Replied, Put
<1>4. QED
  BY <1>3 DEF s

(* The bytes of a register reply.                                          *)
LEMMA HoldingBytes ==
  ASSUME NEW r \in ResultBuffer, NEW cmd \in Command
  PROVE  LET n == CutLength(Length(cmd))
             h == HoldingReply(Stamped(r, cmd), cmd)
         IN  /\ n \in 0 .. REGISTERS
             /\ h[0] = cmd[0] /\ h[1] = cmd[1] /\ h[2] = 0 /\ h[3] = 0
             /\ h[4] = (3 + 2 * n) \div 256 /\ h[5] = (3 + 2 * n) % 256
             /\ h[6] = cmd[6] /\ h[7] = READ_HOLDING_REGISTERS /\ h[8] = 2 * n
             /\ \A j \in 9 .. 8 + 2 * n :
                  h[j] = analogValueBytes(2 * Address(cmd) + (j - 9 + 1) - 1)
<1> DEFINE n == CutLength(Length(cmd))
           s == Stamped(r, cmd)
           high == (3 + 2 * n) \div 256
           low == (3 + 2 * n) % 256
           g == Replied(s, high, low, <<READ_HOLDING_REGISTERS, 2 * n>>)
           v == RegisterBytes(Address(cmd), n)
           h == Put(g, 9, v)
<1>1. n \in 0 .. REGISTERS
  BY WordNat, CutRange DEF Length
<1> HIDE DEF n
<1>2. RESULT_LEN \in Nat /\ RESULT_LEN >= 12 /\ n \in Nat /\ 9 + 2 * n <= RESULT_LEN
  BY <1>1, ParseAssumption
<1>3. /\ DOMAIN s = 0 .. RESULT_LEN - 1
      /\ s[0] = cmd[0] /\ s[1] = cmd[1] /\ s[2] = 0 /\ s[3] = 0 /\ s[6] = cmd[6]
  BY StampedHead
<1>4. /\ DOMAIN v = 1 .. 2 * n
      /\ \A k \in 1 .. 2 * n : v[k] = analogValueBytes(2 * Address(cmd) + k - 1)
  BY DEF RegisterBytes
<1> HIDE DEF s, v, high, low
<1>5. /\ DOMAIN g = 0 .. RESULT_LEN - 1
      /\ g[0] = cmd[0] /\ g[1] = cmd[1] /\ g[2] = 0 /\ g[3] = 0 /\ g[6] = cmd[6]
      /\ g[4] = high /\ g[5] = low
      /\ g[7] = READ_HOLDING_REGISTERS /\ g[8] = 2 * n
  BY <1>2, <1>3 DEF Replied, Put
<1> HIDE DEF g
<1>6. \A j \in 0 .. 8 : h[j] = g[j]
  BY <1>2, <1>4, <1>5 DEF Put
<1>7. ASSUME NEW j \in 9 .. 8 + 2 * n
      PROVE  h[j] = v[j - 9 + 1] /\ j - 9 + 1 \in 1 .. 2 * n
  BY <1>2, <1>4, <1>5 DEF Put
<1> HIDE DEF h
<1>8. /\ h[0] = cmd[0] /\ h[1] = cmd[1] /\ h[2] = 0 /\ h[3] = 0
      /\ h[4] = high /\ h[5] = low
      /\ h[6] = cmd[6] /\ h[7] = READ_HOLDING_REGISTERS /\ h[8] = 2 * n
  BY <1>5, <1>6
<1>9. \A j \in 9 .. 8 + 2 * n : h[j] = analogValueBytes(2 * Address(cmd) + (j - 9 + 1) - 1)
  BY <1>4, <1>7
<1>10. h = HoldingReply(Stamped(r, cmd), cmd)
  BY DEF h, g, v, s, n, high, low, HoldingReply
<1>11. QED
  BY <1>1, <1>8, <1>9, <1>10 DEF n, high, low

(* The four outcomes of a command.                                         *)
LEMMA Outcomes ==
  ASSUME NEW cmd \in Command, NEW comLength \in Int, NEW before \in ResultBuffer
  PROVE  LET p == parseModbusCommand(cmd, comLength, before)
             s == Stamped(before, cmd)
             n == CutLength(Length(cmd))
             holding == /\ ~Refused(cmd, comLength)
                        /\ cmd[7] = READ_HOLDING_REGISTERS
             discrete == /\ ~Refused(cmd, comLength)
                         /\ cmd[7] = READ_DISCRETE_INPUTS
                         /\ Address(cmd) + Length(cmd) <= 4
             coil == /\ ~Refused(cmd, comLength)
                     /\ cmd[7] = WRITE_SINGLE_COIL
                     /\ Address(cmd) <= 3
         IN  /\ holding => p.size = 9 + 2 * n /\ p.result = HoldingReply(s, cmd)
             /\ discrete => p.size = 10 /\ p.result = DiscreteReply(s)
             /\ coil => p.size = 12 /\ p.result = CoilReply(s, cmd)
             /\ ~holding /\ ~discrete /\ ~coil => p.size = 0
BY DEF parseModbusCommand, Parsed, READ_HOLDING_REGISTERS, READ_DISCRETE_INPUTS,
       WRITE_SINGLE_COIL

(* Bytes written into the buffer leave a buffer of bytes.                  *)
LEMMA PutType ==
  ASSUME NEW r \in ResultBuffer, NEW from, NEW bytes, \A i \in DOMAIN bytes : bytes[i] \in Byte
  PROVE  Put(r, from, bytes) \in ResultBuffer
BY DEF Put, ResultBuffer

(* Whatever the outcome, the buffer holds bytes, as long as the registers  *)
(* asked for are in the map.                                               *)
LEMMA ResultType ==
  ASSUME NEW cmd \in Command, NEW comLength \in Int, NEW before \in ResultBuffer,
         /\ ~Refused(cmd, comLength)
         /\ cmd[7] = READ_HOLDING_REGISTERS
         => Address(cmd) + CutLength(Length(cmd)) <= REGISTERS
  PROVE  parseModbusCommand(cmd, comLength, before).result \in ResultBuffer
<1> DEFINE s == Stamped(before, cmd)
           n == CutLength(Length(cmd))
           p == parseModbusCommand(cmd, comLength, before)
<1>1. \A j \in 0 .. 11 : cmd[j] \in Byte
  BY DEF Command
<1>2. cmd[0] \in Byte /\ cmd[1] \in Byte /\ cmd[4] \in Byte /\ cmd[5] \in Byte /\ cmd[6] \in Byte
      /\ cmd[8] \in Byte /\ cmd[9] \in Byte /\ cmd[10] \in Byte /\ cmd[11] \in Byte
  BY <1>1
<1>3. \A b \in {0, 1, 2, 4, 5} : b \in Byte
  BY DEF Byte
<1>4. s \in ResultBuffer
  <2>1. Put(before, 0, <<cmd[0], cmd[1], 0, 0>>) \in ResultBuffer
    BY <1>2, <1>3, PutType
  <2>2. QED
    BY <1>2, <2>1, PutType DEF Stamped
<1> HIDE DEF s
<1>5. ASSUME NEW high \in Byte, NEW low \in Byte, NEW bytes, \A i \in DOMAIN bytes : bytes[i] \in Byte
      PROVE  Replied(s, high, low, bytes) \in ResultBuffer
  <2>1. Put(s, 4, <<high, low>>) \in ResultBuffer
    BY <1>4, PutType
  <2>2. QED
    BY <1>5, <2>1, PutType DEF Replied
<1>6. CoilReply(s, cmd) \in ResultBuffer
  <2> DEFINE bytes == <<WRITE_SINGLE_COIL, cmd[8], cmd[9], cmd[10], cmd[11]>>
  <2>1. \A i \in DOMAIN bytes : bytes[i] \in Byte
    BY <1>2, <1>3 DEF WRITE_SINGLE_COIL
  <2> HIDE DEF bytes
  <2>2. QED
    BY <1>2, <1>5, <2>1 DEF CoilReply, bytes
<1>7. DiscreteReply(s) \in ResultBuffer
  <2> DEFINE bytes == <<READ_DISCRETE_INPUTS, 1, 0>>
  <2>1. \A i \in DOMAIN bytes : bytes[i] \in Byte
    BY <1>3 DEF READ_DISCRETE_INPUTS
  <2> HIDE DEF bytes
  <2>2. QED
    BY <1>3, <1>5, <2>1 DEF DiscreteReply, bytes
<1>8. ASSUME Address(cmd) + n <= REGISTERS
      PROVE  HoldingReply(s, cmd) \in ResultBuffer
  <2> DEFINE bytes == <<READ_HOLDING_REGISTERS, 2 * n>>
             high == (3 + 2 * n) \div 256
             low == (3 + 2 * n) % 256
             v == RegisterBytes(Address(cmd), n)
  <2>1. n \in 0 .. REGISTERS /\ REGISTERS \in 1 .. 36 /\ Address(cmd) \in Nat
    BY WordNat, CutRange, ParseAssumption DEF Length, Address
  <2>2. Address(cmd) + n <= 36
    BY <1>8, <2>1
  <2> HIDE DEF n
  <2>3. high \in Byte /\ low \in Byte /\ 2 * n \in Byte /\ READ_HOLDING_REGISTERS \in Byte
    BY <2>1 DEF Byte, READ_HOLDING_REGISTERS
  <2>4. \A i \in DOMAIN v : v[i] \in Byte
    <3>1. ASSUME NEW i \in 1 .. 2 * n
          PROVE  100 + (2 * Address(cmd) + i - 1) \in Byte
      BY <2>1, <2>2 DEF Byte
    <3>2. QED
      BY <3>1 DEF RegisterBytes, analogValueBytes
  <2>5. \A i \in DOMAIN bytes : bytes[i] \in Byte
    BY <2>3
  <2> HIDE DEF bytes, high, low, v
  <2>6. Replied(s, high, low, bytes) \in ResultBuffer
    BY <1>5, <2>3, <2>5
  <2>7. Put(Replied(s, high, low, bytes), 9, v) \in ResultBuffer
    BY <2>4, <2>6, PutType
  <2>8. QED
    BY <2>7 DEF HoldingReply, n, bytes, high, low, v
<1>9. p.result \in {before, s, CoilReply(s, cmd), DiscreteReply(s)} \/ p.result = HoldingReply(s, cmd)
  BY DEF parseModbusCommand, Parsed, s
<1>10. p.result = HoldingReply(s, cmd) =>
         \/ p.result \in {before, s, CoilReply(s, cmd), DiscreteReply(s)}
         \/ Address(cmd) + n <= REGISTERS
  BY DEF parseModbusCommand, Parsed, s
<1>11. QED
  BY <1>4, <1>6, <1>7, <1>8, <1>9, <1>10

(***************************************************************************)
(* A reply does not depend on what the buffer held: no byte of an earlier  *)
(* reply, to this client or to another, is ever sent again.                *)
(***************************************************************************)
THEOREM ReplyFresh ==
  ASSUME NEW cmd \in Command, NEW comLength \in Int,
         NEW r1 \in ResultBuffer, NEW r2 \in ResultBuffer
  PROVE  LET p1 == parseModbusCommand(cmd, comLength, r1)
             p2 == parseModbusCommand(cmd, comLength, r2)
         IN  /\ p1.size = p2.size
             /\ \A j \in 0 .. p1.size - 1 : p1.result[j] = p2.result[j]
<1>1. CASE /\ ~Refused(cmd, comLength)
           /\ cmd[7] = READ_HOLDING_REGISTERS
  <2> DEFINE n == CutLength(Length(cmd))
             h1 == HoldingReply(Stamped(r1, cmd), cmd)
             h2 == HoldingReply(Stamped(r2, cmd), cmd)
  <2>1. n \in 0 .. REGISTERS
    BY HoldingBytes
  <2>2. \A j \in 0 .. 8 : j \in {0, 1, 2, 3, 4, 5, 6, 7, 8}
    OBVIOUS
  <2>3. \A j \in 0 .. 8 : h1[j] = h2[j]
    BY <2>2, HoldingBytes
  <2>4. \A j \in 9 .. 8 + 2 * n : h1[j] = h2[j]
    BY HoldingBytes
  <2>5. \A j \in 0 .. (9 + 2 * n) - 1 : h1[j] = h2[j]
    <3> HIDE DEF n, h1, h2
    <3> SUFFICES ASSUME NEW j \in 0 .. (9 + 2 * n) - 1
                 PROVE  h1[j] = h2[j]
      OBVIOUS
    <3>1. CASE j \in 0 .. 8
      BY <2>3, <3>1
    <3>2. CASE j \notin 0 .. 8
      <4>1. n \in Nat /\ j \in Nat
        BY <2>1, ParseAssumption
      <4>2. j \in 9 .. 8 + 2 * n
        BY <3>2, <4>1
      <4>3. QED
        BY <2>4, <4>2
    <3>3. QED
      BY <3>1, <3>2
  <2>6. /\ parseModbusCommand(cmd, comLength, r1).size = 9 + 2 * n
        /\ parseModbusCommand(cmd, comLength, r1).result = h1
        /\ parseModbusCommand(cmd, comLength, r2).size = 9 + 2 * n
        /\ parseModbusCommand(cmd, comLength, r2).result = h2
    BY <1>1, Outcomes
  <2>7. QED
    <3> HIDE DEF n, h1, h2
    <3>1. QED
      BY <2>5, <2>6
<1>2. CASE /\ ~Refused(cmd, comLength)
           /\ cmd[7] = READ_DISCRETE_INPUTS
           /\ Address(cmd) + Length(cmd) <= 4
  <2>1. \A j \in 0 .. 10 - 1 : j \in {0, 1, 2, 3, 4, 5, 6, 7, 8, 9}
    OBVIOUS
  <2>2. QED
    BY <1>2, <2>1, Outcomes, DiscreteBytes
<1>3. CASE /\ ~Refused(cmd, comLength)
           /\ cmd[7] = WRITE_SINGLE_COIL
           /\ Address(cmd) <= 3
  <2>1. \A j \in 0 .. 12 - 1 : j \in {0, 1, 2, 3, 4, 5, 6, 7, 8, 9, 10, 11}
    OBVIOUS
  <2>2. QED
    BY <1>3, <2>1, Outcomes, CoilBytes
<1>4. QED
  <2>1. ASSUME NEW r \in ResultBuffer,
               ~(/\ ~Refused(cmd, comLength)
                 /\ cmd[7] = READ_HOLDING_REGISTERS),
               ~(/\ ~Refused(cmd, comLength)
                 /\ cmd[7] = READ_DISCRETE_INPUTS
                 /\ Address(cmd) + Length(cmd) <= 4),
               ~(/\ ~Refused(cmd, comLength)
                 /\ cmd[7] = WRITE_SINGLE_COIL
                 /\ Address(cmd) <= 3)
        PROVE  parseModbusCommand(cmd, comLength, r).size = 0
    BY <2>1, Outcomes
  <2>2. QED
    BY <1>1, <1>2, <1>3, <2>1

(***************************************************************************)
(* A reply fits the buffer, carries the transaction id of its command, and *)
(* its length field counts the bytes that follow it.                       *)
(***************************************************************************)
THEOREM ReplyFramed ==
  ASSUME NEW cmd \in Command, NEW before \in ResultBuffer
  PROVE  LET p == parseModbusCommand(cmd, 12, before)
         IN  \/ p.size = 0
             \/ /\ p.size \in 1 .. RESULT_LEN
                /\ p.result[0] = cmd[0] /\ p.result[1] = cmd[1]
                /\ p.size = 6 + WordAt(p.result, 4)
<1>1. CASE /\ ~Refused(cmd, 12)
           /\ cmd[7] = READ_HOLDING_REGISTERS
  <2> DEFINE n == CutLength(Length(cmd))
             h == HoldingReply(Stamped(before, cmd), cmd)
  <2>1. n \in 0 .. REGISTERS /\ h[0] = cmd[0] /\ h[1] = cmd[1]
        /\ h[4] = (3 + 2 * n) \div 256 /\ h[5] = (3 + 2 * n) % 256
    BY HoldingBytes
  <2>2. 256 * ((3 + 2 * n) \div 256) + ((3 + 2 * n) % 256) = 3 + 2 * n
    <3> HIDE DEF n
    <3>1. QED
      BY <2>1, ParseAssumption
  <2>3. WordAt(h, 4) = 3 + 2 * n /\ 9 + 2 * n \in 1 .. RESULT_LEN
    <3> HIDE DEF n, h
    <3>1. QED
      BY <2>1, <2>2, ParseAssumption DEF WordAt
  <2>4. 9 + 2 * n = 6 + (3 + 2 * n)
    <3> HIDE DEF n
    <3>1. QED
      BY <2>1, ParseAssumption
  <2>5. QED
    BY <1>1, <2>1, <2>3, <2>4, Outcomes
<1>2. CASE /\ ~Refused(cmd, 12)
           /\ cmd[7] = READ_DISCRETE_INPUTS
           /\ Address(cmd) + Length(cmd) <= 4
  BY <1>2, Outcomes, DiscreteBytes, ParseAssumption DEF WordAt
<1>3. CASE /\ ~Refused(cmd, 12)
           /\ cmd[7] = WRITE_SINGLE_COIL
           /\ Address(cmd) <= 3
  <2>1. WordAt(cmd, 4) = 6
    BY <1>3 DEF Refused
  <2>2. QED
    BY <1>3, <2>1, Outcomes, CoilBytes, ParseAssumption DEF WordAt
<1>4. QED
  BY <1>1, <1>2, <1>3, Outcomes

-----------------------------------------------------------------------------
(* Requests and what the server makes of one.                              *)

LEMMA Numbers ==
  /\ READ_CMD_LEN = 12 /\ MaxRequests \in Nat /\ MaxRequests <= 250 /\ MaxConnects \in Nat
  /\ RESULT_LEN \in Nat /\ RESULT_LEN >= 12 /\ REGISTERS \in 1 .. 36
  /\ 9 + 2 * REGISTERS <= RESULT_LEN
<1>1. MaxRequests \in 0 .. 250 /\ MaxConnects \in Nat
  BY ClientAssumption
<1>2. QED
  BY <1>1, ParseAssumption DEF READ_CMD_LEN

(* The bytes of a request.                                                 *)
LEMMA RequestBytes ==
  ASSUME NEW c \in Client, NEW k \in 1 .. MaxRequests, NEW kind \in Kinds[c]
  PROVE  LET r == Request(c, k, kind)
         IN  /\ r \in Seq(Byte) /\ Len(r) = 12
             /\ r[1] = c /\ r[2] = k + 5 /\ r[3] = 0 /\ r[4] = 0 /\ r[5] = 0 /\ r[6] = 6
             /\ r[7] = 1 /\ r[8] = kind.fn /\ r[9] = 0 /\ r[10] = kind.addr
             /\ r[11] = kind.len \div 256 /\ r[12] = kind.len % 256
             /\ kind.fn \in Byte /\ kind.addr \in Byte
             /\ kind.len \div 256 \in Byte /\ kind.len % 256 \in Byte
             /\ kind.len = 256 * (kind.len \div 256) + (kind.len % 256)
<1>1. c \in Byte /\ kind.fn \in Byte /\ kind.addr \in Byte /\ kind.len \in Nat /\ kind.len < 256 * 256
  BY ClientAssumption
<1>2. ASSUME NEW l \in Nat, l < 256 * 256
      PROVE  /\ l \div 256 \in 0 .. 255 /\ l % 256 \in 0 .. 255
             /\ l = 256 * (l \div 256) + (l % 256)
  <2>1. l % 256 \in 0 .. 255 /\ l \div 256 \in Nat
    OBVIOUS
  <2>2. l = 256 * (l \div 256) + (l % 256)
    OBVIOUS
  <2>3. ASSUME NEW d \in Nat, NEW m \in 0 .. 255, 256 * d + m < 256 * 256
        PROVE  d \in 0 .. 255
    BY <2>3
  <2>4. l \div 256 \in 0 .. 255
    <3>1. PICK d \in Nat, m \in 0 .. 255 : d = l \div 256 /\ m = l % 256
      BY <2>1
    <3>2. 256 * d + m < 256 * 256
      BY <1>2, <2>2, <3>1
    <3>3. d \in 0 .. 255
      BY <2>3, <3>2, Zenon
    <3>4. QED
      BY <3>1, <3>3
  <2>5. QED
    BY <2>1, <2>2, <2>4
<1>3. k + 5 \in Byte /\ 0 \in Byte /\ 6 \in Byte /\ 1 \in Byte
  BY Numbers DEF Byte
<1>4. PICK high \in Byte, low \in Byte :
        high = kind.len \div 256 /\ low = kind.len % 256 /\ kind.len = 256 * high + low
  <2>1. kind.len \div 256 \in Byte /\ kind.len % 256 \in Byte
    BY <1>1, <1>2, SMTT(30) DEF Byte
  <2>2. kind.len = 256 * (kind.len \div 256) + (kind.len % 256)
    BY <1>1, <1>2
  <2>3. QED
    BY <2>1, <2>2
<1> DEFINE r == Request(c, k, kind)
<1>5. r = <<c, k + 5, 0, 0, 0, 6, 1, kind.fn, 0, kind.addr, high, low>>
  BY <1>4 DEF Request
<1> HIDE DEF r
<1>6. r \in Seq(Byte) /\ Len(r) = 12
  BY <1>1, <1>3, <1>5
<1>7. /\ r[1] = c /\ r[2] = k + 5 /\ r[3] = 0 /\ r[4] = 0 /\ r[5] = 0 /\ r[6] = 6
      /\ r[7] = 1 /\ r[8] = kind.fn /\ r[9] = 0 /\ r[10] = kind.addr
      /\ r[11] = high /\ r[12] = low
  BY <1>5
<1>8. QED
  BY <1>1, <1>4, <1>6, <1>7, ZenonT(30) DEF r

(* A read inside the map, or one that is cut, fits the map.                *)
LEMMA ReadFits ==
  ASSUME NEW c \in Client, NEW kind \in Kinds[c], kind.fn = READ_HOLDING_REGISTERS
  PROVE  kind.addr = 0 \/ kind.addr + kind.len <= REGISTERS
BY ClientAssumption

(* A command whose length field says 12 bytes has a 6 in its sixth byte.   *)
LEMMA LengthField ==
  ASSUME NEW high \in Byte, NEW low \in Byte, (256 * high + low + 6) % 256 = 12
  PROVE  low = 6
BY DEF Byte

(* b is the first n bytes of r, and zeros behind them.                     *)
Holds(b, r, n) == b \in Command /\ \A j \in 0 .. 11 : b[j] = CutAt(r, n)[j + 1]

(* The zeros every request has.                                            *)
Framed(q) == q \in Seq(Byte) /\ Len(q) = 12 /\ q[3] = 0 /\ q[4] = 0 /\ q[5] = 0 /\ q[9] = 0

(* The bytes of a command b that is the cut r of a request q.              *)
CutOf(b, r, q, n) ==
  /\ r \in Seq(Byte) /\ Len(r) = 12
  /\ \A p \in 1 .. 12 : r[p] = IF p <= n THEN q[p] ELSE 0
  /\ r[3] = 0 /\ r[4] = 0 /\ r[5] = 0 /\ r[9] = 0
  /\ b[0] = r[1] /\ b[1] = r[2] /\ b[2] = 0 /\ b[3] = 0 /\ b[4] = 0 /\ b[5] = r[6]
  /\ b[6] = r[7] /\ b[7] = r[8] /\ b[8] = 0 /\ b[9] = r[10]
  /\ b[10] = r[11] /\ b[11] = r[12]

LEMMA CutBytes ==
  ASSUME NEW q, Framed(q), NEW n \in 1 .. 12,
         NEW r, r = CutAt(q, n), NEW b, Holds(b, q, n)
  PROVE  CutOf(b, r, q, n)
<1>1. /\ q \in Seq(Byte) /\ Len(q) = 12 /\ q[3] = 0 /\ q[4] = 0 /\ q[5] = 0 /\ q[9] = 0
  BY DEF Framed
<1>2. r = [p \in 1 .. 12 |-> IF p <= n THEN q[p] ELSE 0]
  BY Numbers DEF CutAt
<1>3. (\A p \in 1 .. 12 : q[p] \in Byte) /\ 0 \in Byte
  <2>1. \A p \in 1 .. 12 : q[p] \in Byte
    BY <1>1, ElementOfSeq
  <2>2. QED
    BY <2>1 DEF Byte
<1>4. r \in Seq(Byte) /\ Len(r) = 12
  BY <1>2, <1>3
<1>5. \A p \in 1 .. 12 : r[p] = IF p <= n THEN q[p] ELSE 0
  BY <1>2
<1>6. r[3] = 0 /\ r[4] = 0 /\ r[5] = 0 /\ r[9] = 0
  BY <1>1, <1>5
<1>7. \A j \in 0 .. 11 : b[j] = r[j + 1]
  BY DEF Holds
<1>8. /\ b[0] = r[1] /\ b[1] = r[2] /\ b[2] = r[3] /\ b[3] = r[4] /\ b[4] = r[5] /\ b[5] = r[6]
      /\ b[6] = r[7] /\ b[7] = r[8] /\ b[8] = r[9] /\ b[9] = r[10]
      /\ b[10] = r[11] /\ b[11] = r[12]
  BY <1>7
<1>9. QED
  BY <1>4, <1>5, <1>6, <1>8 DEF CutOf

(* A register read, cut or not, stays in the map.                          *)
LEMMA CutFits ==
  ASSUME NEW c \in Client, NEW k \in 1 .. MaxRequests, NEW kind \in Kinds[c],
         NEW q, q = Request(c, k, kind), NEW n \in 1 .. 12,
         NEW r, r = CutAt(q, n), NEW b, Holds(b, q, n),
         b[7] = READ_HOLDING_REGISTERS
  PROVE  Address(b) + CutLength(Length(b)) <= REGISTERS
<1> DEFINE high == kind.len \div 256
           low == kind.len % 256
<1>0. CutOf(b, r, q, n)
  <2>1. Framed(q)
    BY RequestBytes DEF Framed
  <2>2. QED
    BY <2>1, CutBytes
<1>1. /\ \A p \in 1 .. 12 : r[p] = IF p <= n THEN q[p] ELSE 0
      /\ b[7] = r[8] /\ b[8] = 0 /\ b[9] = r[10] /\ b[10] = r[11] /\ b[11] = r[12]
  BY <1>0, Zenon DEF CutOf
<1>2. /\ q[8] = kind.fn /\ q[10] = kind.addr /\ q[11] = high /\ q[12] = low
      /\ kind.addr \in Byte /\ high \in Byte /\ low \in Byte /\ kind.len = 256 * high + low
  BY RequestBytes
<1> HIDE DEF high, low
<1>3. PICK a \in Byte, h \in Byte, l \in Byte : a = kind.addr /\ h = high /\ l = low
  BY <1>2
<1>4. kind.fn = READ_HOLDING_REGISTERS
  <2>1. r[8] # 0
    BY <1>1 DEF READ_HOLDING_REGISTERS
  <2>2. QED
    BY <1>1, <1>2, <2>1
<1>5. a = 0 \/ a + (256 * h + l) <= REGISTERS
  BY <1>2, <1>3, <1>4, ReadFits
<1>6. PICK a1 \in Byte, h1 \in Byte, l1 \in Byte :
        /\ a1 = r[10] /\ h1 = r[11] /\ l1 = r[12]
        /\ a1 \in {0, a} /\ h1 \in {0, h} /\ l1 \in {0, l}
  <2>1. r[10] \in {0, a} /\ r[11] \in {0, h} /\ r[12] \in {0, l} /\ 0 \in Byte
    BY <1>1, <1>2, <1>3 DEF Byte
  <2>2. QED
    BY <2>1
<1>7. Address(b) = a1 /\ Length(b) = 256 * h1 + l1
  <2>1. Address(b) = 256 * 0 + a1 /\ Length(b) = 256 * h1 + l1
    BY <1>1, <1>6 DEF Address, Length, WordAt
  <2>2. QED
    BY <2>1 DEF Byte
<1>8. a1 + (IF 256 * h1 + l1 > REGISTERS THEN REGISTERS ELSE 256 * h1 + l1) <= REGISTERS
  <2>1. REGISTERS \in Nat
    BY Numbers
  <2>2. a1 \in Nat /\ h1 \in Nat /\ l1 \in Nat /\ a \in Nat /\ h \in Nat /\ l \in Nat
    BY DEF Byte
  <2>3. a1 <= a /\ h1 <= h /\ l1 <= l /\ (a = 0 => a1 = 0)
    BY <1>6, <2>2
  <2>4. 256 * h1 + l1 <= 256 * h + l /\ 256 * h1 + l1 \in Nat
    BY <2>2, <2>3
  <2>5. CASE a = 0
    BY <2>1, <2>3, <2>4, <2>5
  <2>6. CASE a + (256 * h + l) <= REGISTERS
    <3>1. a1 + (256 * h1 + l1) <= REGISTERS
      BY <2>1, <2>2, <2>3, <2>4, <2>6
    <3>2. 256 * h1 + l1 <= REGISTERS
      BY <2>1, <2>2, <3>1
    <3>3. QED
      BY <3>1, <3>2, <2>4, <2>1
  <2>7. QED
    BY <1>5, <2>5, <2>6
<1>9. QED
  BY <1>7, <1>8 DEF CutLength

(* The bytes p sends.                                                      *)
ReplyOf(p) == [j \in 1 .. p.size |-> p.result[j - 1]]

(***************************************************************************)
(* What the server makes of a request, cut or whole: nothing, or the       *)
(* answer to it.                                                           *)
(***************************************************************************)
LEMMA ParsedReply ==
  ASSUME NEW q, Framed(q), NEW n \in 1 .. 12,
         NEW r, r = CutAt(q, n), NEW b, Holds(b, q, n),
         NEW before \in ResultBuffer,
         NEW p, p = parseModbusCommand(b, 12, before), p.size # 0
  PROVE  /\ n >= 8 /\ p.size \in 1 .. RESULT_LEN
         /\ ReplyOf(p) = Answer(r)
<1>0. CutOf(b, r, q, n)
  BY CutBytes
<1>1. /\ r \in Seq(Byte) /\ Len(r) = 12
      /\ \A i \in 1 .. 12 : r[i] = IF i <= n THEN q[i] ELSE 0
      /\ r[3] = 0 /\ r[4] = 0 /\ r[5] = 0 /\ r[9] = 0
      /\ b[0] = r[1] /\ b[1] = r[2] /\ b[2] = 0 /\ b[3] = 0 /\ b[4] = 0 /\ b[5] = r[6]
      /\ b[6] = r[7] /\ b[7] = r[8] /\ b[8] = 0 /\ b[9] = r[10]
      /\ b[10] = r[11] /\ b[11] = r[12]
  BY <1>0, Zenon DEF CutOf
<1>2. b \in Command
  BY DEF Holds
<1>3. \A i \in 1 .. 12 : r[i] \in Byte
  BY <1>1, ElementOfSeq
<1> DEFINE coil == /\ ~Refused(b, 12) /\ b[7] = WRITE_SINGLE_COIL /\ Address(b) <= 3
           discrete == /\ ~Refused(b, 12) /\ b[7] = READ_DISCRETE_INPUTS
                       /\ Address(b) + Length(b) <= 4
           holding == ~Refused(b, 12) /\ b[7] = READ_HOLDING_REGISTERS
           m == CutLength(Length(b))
           s == Stamped(before, b)
<1>4. /\ holding => p.size = 9 + 2 * m /\ p.result = HoldingReply(s, b)
      /\ discrete => p.size = 10 /\ p.result = DiscreteReply(s)
      /\ coil => p.size = 12 /\ p.result = CoilReply(s, b)
      /\ ~holding /\ ~discrete /\ ~coil => p.size = 0
  BY <1>2, Outcomes, 12 \in Int
<1>5. n >= 8
  <2>1. b[7] # 0
    BY <1>4 DEF READ_HOLDING_REGISTERS, READ_DISCRETE_INPUTS, WRITE_SINGLE_COIL
  <2>2. r[8] # 0
    BY <1>1, <2>1
  <2>3. QED
    BY <1>1, <2>2
<1>6. CASE coil
  <2>1. p.size = 12 /\ p.result = CoilReply(s, b)
    BY <1>4, <1>6
  <2>2. r[8] = WRITE_SINGLE_COIL
    BY <1>1, <1>6
  <2>3. /\ p.result[0] = r[1] /\ p.result[1] = r[2] /\ p.result[2] = r[3] /\ p.result[3] = r[4]
        /\ p.result[4] = r[5] /\ p.result[5] = r[6] /\ p.result[6] = r[7] /\ p.result[7] = r[8]
        /\ p.result[8] = r[9] /\ p.result[9] = r[10] /\ p.result[10] = r[11]
        /\ p.result[11] = r[12]
    BY <1>1, <2>1, <2>2, CoilBytes
  <2>4. \A j \in 1 .. 12 : p.result[j - 1] = r[j]
    <3>1. \A j \in 1 .. 12 : j \in {1, 2, 3, 4, 5, 6, 7, 8, 9, 10, 11, 12}
      OBVIOUS
    <3>2. QED
      BY <2>3, <3>1
  <2>5. r = [j \in 1 .. 12 |-> r[j]]
    BY Numbers DEF CutAt
  <2>6. ReplyOf(p) = r
    BY <2>1, <2>4, <2>5 DEF ReplyOf
  <2>7. Answer(r) = r
    BY <2>2 DEF Answer, WRITE_SINGLE_COIL, READ_HOLDING_REGISTERS, READ_DISCRETE_INPUTS
  <2>8. QED
    BY <1>5, <2>1, <2>6, <2>7, Numbers
<1>7. CASE discrete
  <2> DEFINE t == <<r[1], r[2], 0, 0, 0, 4, r[7], r[8], 1, 0>>
  <2>1. p.size = 10 /\ p.result = DiscreteReply(s)
    BY <1>4, <1>7
  <2>2. r[8] = READ_DISCRETE_INPUTS
    BY <1>1, <1>7
  <2>3. /\ p.result[0] = t[1] /\ p.result[1] = t[2] /\ p.result[2] = t[3] /\ p.result[3] = t[4]
        /\ p.result[4] = t[5] /\ p.result[5] = t[6] /\ p.result[6] = t[7] /\ p.result[7] = t[8]
        /\ p.result[8] = t[9] /\ p.result[9] = t[10]
    BY <1>1, <2>1, <2>2, DiscreteBytes
  <2>4. Len(t) = 10 /\ t = [j \in 1 .. 10 |-> t[j]]
    OBVIOUS
  <2> HIDE DEF t
  <2>5. \A j \in 1 .. 10 : p.result[j - 1] = t[j]
    <3>1. \A j \in 1 .. 10 : j \in {1, 2, 3, 4, 5, 6, 7, 8, 9, 10}
      OBVIOUS
    <3>2. QED
      BY <2>3, <3>1
  <2>6. ReplyOf(p) = t
    BY <2>1, <2>4, <2>5 DEF ReplyOf
  <2>7. Answer(r) = t
    BY <2>2 DEF Answer, READ_HOLDING_REGISTERS, READ_DISCRETE_INPUTS, t
  <2>8. QED
    BY <1>5, <2>1, <2>6, <2>7, Numbers
<1>8. CASE holding
  <2> DEFINE head == <<r[1], r[2], 0, 0, 0, 3 + 2 * m, r[7], r[8], 2 * m>>
             tail == Registers(r[10], m)
             t == head \o tail
  <2>1. p.size = 9 + 2 * m /\ p.result = HoldingReply(s, b)
    BY <1>4, <1>8
  <2>2. r[8] = READ_HOLDING_REGISTERS
    BY <1>1, <1>8
  <2>3. m \in 0 .. REGISTERS
    BY <1>2, HoldingBytes
  <2>4. (3 + 2 * m) \div 256 = 0 /\ (3 + 2 * m) % 256 = 3 + 2 * m
    <3> HIDE DEF m
    <3>1. QED
      BY <2>3, Numbers
  <2>5. /\ p.result[0] = head[1] /\ p.result[1] = head[2] /\ p.result[2] = head[3]
        /\ p.result[3] = head[4] /\ p.result[4] = head[5] /\ p.result[5] = head[6]
        /\ p.result[6] = head[7] /\ p.result[7] = head[8] /\ p.result[8] = head[9]
    <3> DEFINE h == HoldingReply(Stamped(before, b), b)
    <3>1. /\ h[0] = b[0] /\ h[1] = b[1] /\ h[2] = 0 /\ h[3] = 0
          /\ h[4] = (3 + 2 * m) \div 256 /\ h[5] = (3 + 2 * m) % 256
          /\ h[6] = b[6] /\ h[7] = READ_HOLDING_REGISTERS /\ h[8] = 2 * m
      BY <1>2, HoldingBytes
    <3>2. p.result = h
      BY <2>1
    <3> HIDE DEF h, m
    <3>3. QED
      BY <1>1, <2>2, <2>4, <3>1, <3>2
  <2>6. Address(b) = r[10]
    <3>1. PICK a \in Byte : a = r[10]
      BY <1>3
    <3>2. Address(b) = 256 * 0 + a
      BY <1>1, <3>1 DEF Address, WordAt
    <3>3. QED
      BY <3>1, <3>2 DEF Byte
  <2>7. \A j \in 9 .. 8 + 2 * m : p.result[j] = analogValueBytes(2 * r[10] + (j - 9 + 1) - 1)
    BY <1>2, <2>1, <2>6, HoldingBytes
  <2>8. Answer(r) = t
    <3> DEFINE w == 256 * r[11] + r[12]
    <3>1. Length(b) = w
      BY <1>1 DEF Length, WordAt
    <3>2. w \in Nat
      <4>1. r[11] \in Byte /\ r[12] \in Byte
        BY <1>3
      <4>2. \A x, y \in Byte : 256 * x + y \in Nat
        BY DEF Byte
      <4>3. QED
        BY <4>1, <4>2
    <3> HIDE DEF w
    <3>3. m = IF w < REGISTERS THEN w ELSE REGISTERS
      BY <3>1, <3>2, Numbers DEF CutLength
    <3> HIDE DEF m
    <3>4. ASSUME NEW k, k = IF w < REGISTERS THEN w ELSE REGISTERS
          PROVE  Answer(r) = <<r[1], r[2], 0, 0, 0, 3 + 2 * k, r[7], r[8], 2 * k>>
                               \o Registers(r[10], k)
      BY <2>2, <3>4 DEF Answer, w, READ_HOLDING_REGISTERS, READ_DISCRETE_INPUTS
    <3>5. Answer(r) = <<r[1], r[2], 0, 0, 0, 3 + 2 * m, r[7], r[8], 2 * m>>
                        \o Registers(r[10], m)
      BY <3>3, <3>4
    <3>6. QED
      BY <3>5
  <2> HIDE DEF m
  <2>9. m \in Nat /\ REGISTERS \in Nat
    BY <2>3, Numbers
  <2>10. head \in Seq(Int) /\ Len(head) = 9
    <3>1. r[1] \in Int /\ r[2] \in Int /\ r[7] \in Int /\ r[8] \in Int
      BY <1>3, SMTT(30) DEF Byte
    <3>2. 3 + 2 * m \in Int /\ 2 * m \in Int
      BY <2>9
    <3>3. QED
      BY <3>1, <3>2
  <2>11. /\ tail \in Seq(Int) /\ Len(tail) = 2 * m
         /\ \A i \in 1 .. 2 * m : tail[i] = analogValueBytes(2 * r[10] + i - 1)
    <3>1. PICK a \in Byte : a = r[10]
      BY <1>3
    <3>2. tail = [i \in 1 .. 2 * m |-> analogValueBytes(2 * a + i - 1)]
      BY <3>1 DEF Registers
    <3>3. \A i \in 1 .. 2 * m : analogValueBytes(2 * a + i - 1) \in Int
      BY <2>9 DEF analogValueBytes, Byte
    <3>4. 2 * m \in Nat
      BY <2>9
    <3> HIDE DEF tail
    <3>5. tail \in Seq(Int) /\ Len(tail) = 2 * m
      BY <3>2, <3>3, <3>4
    <3>6. QED
      BY <3>1, <3>2, <3>5
  <2> HIDE DEF tail
  <2>12. /\ t \in Seq(Int) /\ Len(t) = 9 + 2 * m
         /\ \A i \in 1 .. 9 + 2 * m : t[i] = IF i <= 9 THEN head[i] ELSE tail[i - 9]
    BY <2>10, <2>11, ConcatProperties, SMTT(30)
  <2>13. t = [i \in 1 .. 9 + 2 * m |-> t[i]]
    <3> HIDE DEF t
    <3>1. QED
      BY <2>12
  <2>14. ASSUME NEW i \in 1 .. 9 + 2 * m
         PROVE  p.result[i - 1] = t[i]
    <3>1. CASE i <= 9
      <4>1. i \in {1, 2, 3, 4, 5, 6, 7, 8, 9}
        BY <2>9, <3>1
      <4>2. t[i] = head[i]
        BY <2>12, <3>1
      <4> HIDE DEF head, t
      <4>3. QED
        BY <2>5, <4>1, <4>2
    <3>2. CASE ~(i <= 9)
      <4> HIDE DEF head, t
      <4>1. i - 1 \in 9 .. 8 + 2 * m /\ i - 9 \in 1 .. 2 * m /\ ((i - 1) - 9) + 1 = i - 9
        BY <2>9, <3>2
      <4>2. t[i] = tail[i - 9]
        BY <2>12, <3>2
      <4>3. tail[i - 9] = analogValueBytes(2 * r[10] + (i - 9) - 1)
        BY <2>11, <4>1
      <4>4. p.result[i - 1] = analogValueBytes(2 * r[10] + (((i - 1) - 9) + 1) - 1)
        BY <2>7, <4>1
      <4>5. QED
        BY <4>1, <4>2, <4>3, <4>4
    <3>3. QED
      BY <3>1, <3>2
  <2> HIDE DEF t
  <2>15. ReplyOf(p) = t
    BY <2>1, <2>13, <2>14 DEF ReplyOf
  <2>16. 9 + 2 * m \in 1 .. RESULT_LEN
    BY <2>3, <2>9, Numbers
  <2>17. QED
    BY <1>5, <2>1, <2>8, <2>15, <2>16
<1>9. QED
  BY <1>4, <1>6, <1>7, <1>8
-----------------------------------------------------------------------------
(***************************************************************************)
(* The inductive invariant.  Of a connection, 12 * Len(asked) bytes were   *)
(* sent; Consumed of them were read.  Whatever is still under way, what    *)
(* buf holds and what was answered are placed in that stream.              *)
(***************************************************************************)
Consumed(c) == 12 * Len(asked[c]) - Len(rx[c])

(* A place of the stream where TCP may cut it.                             *)
CutOK(o) == \E q \in 0 .. o : \E k \in Cuts \cup {0} : o = 12 * q + k

(* The requests s of a connection of c, each made no earlier than its turn.*)
AskedOK(s, c) ==
  \A q \in 1 .. Len(s) : \E k \in q .. MaxRequests : \E kind \in Kinds[c] :
    s[q] = Request(c, k, kind)

(* x is the unread end of the stream of requests s.                        *)
StreamOK(s, x) ==
  /\ Len(x) <= 12 * Len(s)
  /\ CutOK(12 * Len(s) - Len(x))
  /\ \A q \in 1 .. Len(s) : \A i \in 1 .. 12 :
       12 * (q - 1) + i > 12 * Len(s) - Len(x) =>
         x[12 * (q - 1) + i - (12 * Len(s) - Len(x))] = s[q][i]

(* b was filled with the g bytes of the stream that follow the first o.    *)
BufOK(s, o, g, b) ==
  /\ o \in Nat /\ g \in Nat /\ g >= 1 /\ o + g <= 12 * Len(s)
  /\ CutOK(o)
  /\ \A q \in 1 .. Len(s) : \A i \in 1 .. 12 : \A j \in 0 .. 11 :
       12 * (q - 1) + i = o + j + 1 /\ j < g => b[j] = s[q][i]
  /\ \A j \in 0 .. 11 : j >= g => b[j] = 0

(* a answers some of the requests s, in order, all begun before byte o.    *)
AnsweredOK(a, s, o) ==
  \E f \in [1 .. Len(a) -> 1 .. Len(s)] :
    \A i \in 1 .. Len(a) :
      /\ \A j \in 1 .. i - 1 : f[j] < f[i]
      /\ 12 * (f[i] - 1) < o
      /\ \E n \in 8 .. READ_CMD_LEN : a[i] = Answer(CutAt(s[f[i]], n))

(* The reply about to be sent is for the request that starts at byte o.    *)
ReplyOK(reply, s, o) ==
  \E q \in 1 .. Len(s) :
    /\ o = 12 * (q - 1)
    /\ \E n \in 8 .. READ_CMD_LEN : reply = Answer(CutAt(s[q], n))

(* Where the bytes that are not dealt with yet start.                      *)
Start(c) == IF at \in {"parse", "send"} /\ c \in served THEN Consumed(c) - got ELSE Consumed(c)

(* Each connection is in one place.                                        *)
LinkInv ==
  /\ \A c \in Client : link[c] = "none" => rx[c] = <<>>
  /\ at # "accept" => served # {}
  /\ \A c \in served : link[c] # "none"
  /\ \A i \in 1 .. Len(backlog) : link[backlog[i]] # "none" /\ backlog[i] \notin served
  /\ \A i, j \in 1 .. Len(backlog) : backlog[i] = backlog[j] => i = j

StreamInv ==
  \A c \in Client :
    Len(asked[c]) <= made /\ AskedOK(asked[c], c) /\ StreamOK(asked[c], rx[c])

BufInv == at = "parse" => \A c \in served : BufOK(asked[c], Consumed(c) - got, got, buf)

ReplyInv ==
  at = "send" => got >= 1 /\ \A c \in served :
    size # 0 => ReplyOK(Reply, asked[c], Consumed(c) - got)

AnswerInv == \A c \in Client : AnsweredOK(answers[c], asked[c], Start(c))

ServerInv == TypeOK /\ LinkInv /\ StreamInv /\ BufInv /\ ReplyInv /\ AnswerInv

-----------------------------------------------------------------------------
(* Placing bytes in the stream.                                            *)

LEMMA AskedFramed ==
  ASSUME NEW c \in Client, NEW s, AskedOK(s, c), NEW q \in 1 .. Len(s), Len(s) \in Nat
  PROVE  Framed(s[q])
<1>1. PICK k \in q .. MaxRequests, kind \in Kinds[c] : s[q] = Request(c, k, kind)
  BY DEF AskedOK
<1>2. k \in 1 .. MaxRequests
  BY <1>1, Numbers
<1>3. QED
  BY <1>1, <1>2, RequestBytes DEF Framed

(* One more request on the stream.                                         *)
LEMMA StreamAsk ==
  ASSUME NEW s \in Seq(Seq(Byte)), NEW x \in Seq(Byte), StreamOK(s, x),
         NEW r \in Seq(Byte), Len(r) = 12
  PROVE  StreamOK(Append(s, r), x \o r)
<1> DEFINE s1 == Append(s, r)
           x1 == x \o r
<1>1. /\ Len(s) \in Nat /\ Len(s1) = Len(s) + 1 /\ s1[Len(s) + 1] = r
      /\ \A q \in 1 .. Len(s) : s1[q] = s[q]
  OBVIOUS
<1>2. /\ Len(x) \in Nat /\ Len(x1) = Len(x) + 12
      /\ \A p \in 1 .. Len(x) + 12 : x1[p] = IF p <= Len(x) THEN x[p] ELSE r[p - Len(x)]
  <2>1. /\ Len(x1) = Len(x) + Len(r)
        /\ \A p \in 1 .. Len(x) + Len(r) : x1[p] = IF p <= Len(x) THEN x[p] ELSE r[p - Len(x)]
    BY ConcatProperties, Zenon
  <2> HIDE DEF x1
  <2>2. QED
    BY <2>1
<1> HIDE DEF s1, x1
<1>3. 12 * Len(s1) - Len(x1) = 12 * Len(s) - Len(x) /\ Len(x1) <= 12 * Len(s1)
  BY <1>1, <1>2 DEF StreamOK
<1>4. ASSUME NEW q \in 1 .. Len(s1), NEW i \in 1 .. 12,
             12 * (q - 1) + i > 12 * Len(s) - Len(x)
      PROVE  x1[12 * (q - 1) + i - (12 * Len(s) - Len(x))] = s1[q][i]
  <2> DEFINE p == 12 * (q - 1) + i - (12 * Len(s) - Len(x))
  <2>1. p \in Nat /\ p >= 1
    BY <1>1, <1>2, <1>4
  <2>2. CASE q <= Len(s)
    <3>1. q \in 1 .. Len(s) /\ p <= Len(x)
      BY <1>1, <1>2, <2>2
    <3>2. x[p] = s[q][i]
      BY <1>4, <3>1 DEF StreamOK
    <3>3. p \in 1 .. Len(x) + 12
      BY <1>2, <2>1, <3>1
    <3> HIDE DEF p
    <3>4. x1[p] = x[p] /\ s1[q] = s[q]
      BY <1>1, <1>2, <3>1, <3>3
    <3>5. QED
      BY <3>2, <3>4 DEF p
  <2>3. CASE q = Len(s) + 1
    <3>1. p = Len(x) + i
      BY <1>1, <1>2, <2>3
    <3>2. p \in 1 .. Len(x) + 12 /\ ~(p <= Len(x)) /\ p - Len(x) = i
      BY <1>2, <3>1
    <3> HIDE DEF p
    <3>3. x1[p] = r[i] /\ s1[q] = r
      BY <1>1, <1>2, <2>3, <3>2
    <3>4. QED
      BY <3>3 DEF p
  <2>4. QED
    BY <1>1, <2>2, <2>3
<1>5. StreamOK(s1, x1)
  <2> DEFINE o == 12 * Len(s) - Len(x)
  <2>1. CutOK(o)
    BY DEF StreamOK
  <2>2. 12 * Len(s1) - Len(x1) = o
    BY <1>3
  <2>3. \A q \in 1 .. Len(s1) : \A i \in 1 .. 12 :
          12 * (q - 1) + i > o => x1[12 * (q - 1) + i - o] = s1[q][i]
    BY <1>4
  <2> HIDE DEF o
  <2>4. QED
    BY <1>3, <2>1, <2>2, <2>3, Zenon DEF StreamOK
<1>6. QED
  BY <1>5 DEF s1, x1

(* A read takes the next bytes of the stream.                              *)
LEMMA StreamRead ==
  ASSUME NEW s \in Seq(Seq(Byte)), NEW x \in Seq(Byte), StreamOK(s, x), NEW n \in ReadSizes(x)
  PROVE  /\ StreamOK(s, SubSeq(x, n + 1, Len(x)))
         /\ BufOK(s, 12 * Len(s) - Len(x), n, Filled(SubSeq(x, 1, n)))
<1> DEFINE x1 == SubSeq(x, n + 1, Len(x))
           y == SubSeq(x, 1, n)
           o == 12 * Len(s) - Len(x)
           b == Filled(y)
<1>1. Len(s) \in Nat /\ Len(x) \in Nat /\ n \in 1 .. Len(x) /\ Len(x) <= 12 * Len(s)
  BY DEF ReadSizes, StreamOK
<1>2. /\ x1 \in Seq(Byte) /\ Len(x1) = Len(x) - n
      /\ \A p \in 1 .. Len(x) - n : x1[p] = x[p + n]
  BY <1>1
<1>3. y \in Seq(Byte) /\ Len(y) = n /\ \A p \in 1 .. n : y[p] = x[p]
  BY <1>1
<1>4. \A j \in 0 .. 11 : b[j] = IF j < n THEN x[j + 1] ELSE 0
  BY <1>1, <1>3, Numbers DEF Filled
<1> HIDE DEF x1, y, b
<1>5. o \in Nat /\ o + n <= 12 * Len(s) /\ n \in Nat /\ n >= 1
  BY <1>1
<1>6. 12 * Len(s) - Len(x1) = o + n
  BY <1>1, <1>2
<1>7. CutOK(o)
  BY DEF StreamOK
<1>8. CutOK(o + n)
  <2>1. PICK k \in Cuts : (Len(x) - n + k) % READ_CMD_LEN = 0
    BY DEF ReadSizes
  <2>2. k \in 0 .. 11
    BY ClientAssumption, Numbers
  <2>3. PICK m \in Nat : Len(x) - n + k = 12 * m
    <3>1. ASSUME NEW v \in Nat, v % 12 = 0
          PROVE  v = 12 * (v \div 12) /\ v \div 12 \in Nat
      BY <3>1
    <3>2. Len(x) - n + k \in Nat
      BY <1>1, <2>2
    <3>3. QED
      BY <2>1, <3>1, <3>2, Numbers
  <2>4. Len(s) - m \in 0 .. o + n /\ o + n = 12 * (Len(s) - m) + k
    <3>1. ASSUME NEW l \in Nat, NEW u \in Nat, u + 1 <= 12 * l, u + k = 12 * m
          PROVE  /\ l - m \in Nat
                 /\ 12 * l - u = 12 * (l - m) + k
                 /\ l - m <= 12 * l - u
      BY <2>2, <2>3, <3>1
    <3>2. Len(x) - n \in Nat /\ (Len(x) - n) + 1 <= 12 * Len(s)
      BY <1>1
    <3>3. 12 * Len(s) - (Len(x) - n) = o + n
      BY <1>1
    <3>4. /\ Len(s) - m \in Nat
          /\ o + n = 12 * (Len(s) - m) + k
          /\ Len(s) - m <= o + n
      BY <1>1, <2>3, <3>1, <3>2, <3>3
    <3>5. QED
      BY <1>5, <3>4
  <2>5. QED
    BY <2>4 DEF CutOK
<1>9. StreamOK(s, x1)
  <2>1. ASSUME NEW q \in 1 .. Len(s), NEW i \in 1 .. 12, 12 * (q - 1) + i > o + n
        PROVE  x1[12 * (q - 1) + i - (o + n)] = s[q][i]
    <3>0. 12 * (q - 1) + i > o
      BY <1>1, <2>1
    <3>1. x[12 * (q - 1) + i - o] = s[q][i]
      BY <3>0, Zenon DEF StreamOK
    <3>2. /\ 12 * (q - 1) + i - (o + n) \in 1 .. Len(x) - n
          /\ (12 * (q - 1) + i - (o + n)) + n = 12 * (q - 1) + i - o
      BY <1>1, <2>1
    <3>3. QED
      BY <1>2, <3>1, <3>2
  <2>2. Len(x1) <= 12 * Len(s)
    BY <1>1, <1>2
  <2> HIDE DEF o
  <2>3. QED
    BY <1>6, <1>8, <2>1, <2>2 DEF StreamOK
<1>10. BufOK(s, o, n, b)
  <2>1. ASSUME NEW q \in 1 .. Len(s), NEW i \in 1 .. 12, NEW j \in 0 .. 11,
               12 * (q - 1) + i = o + j + 1, j < n
        PROVE  b[j] = s[q][i]
    <3>0. 12 * (q - 1) + i > o
      BY <1>1, <2>1
    <3>1. x[12 * (q - 1) + i - o] = s[q][i]
      BY <3>0, Zenon DEF StreamOK
    <3>2. 12 * (q - 1) + i - o = j + 1
      BY <1>1, <2>1
    <3>3. QED
      BY <1>4, <2>1, <3>1, <3>2
  <2>2. \A j \in 0 .. 11 : j >= n => b[j] = 0
    <3>1. ASSUME NEW j \in 0 .. 11, j >= n
          PROVE  ~(j < n)
      BY <1>1, <3>1
    <3>2. QED
      BY <1>4, <3>1
  <2> HIDE DEF o
  <2>3. QED
    BY <1>5, <1>7, <2>1, <2>2 DEF BufOK
<1>11. QED
  BY <1>9, <1>10 DEF x1, y, b

(* Requests made later do not change what a read took.                     *)
LEMMA BufAsk ==
  ASSUME NEW s \in Seq(Seq(Byte)), NEW o, NEW g, NEW b, BufOK(s, o, g, b), NEW r \in Seq(Byte)
  PROVE  BufOK(Append(s, r), o, g, b)
<1> DEFINE s1 == Append(s, r)
<1>1. /\ Len(s) \in Nat /\ Len(s1) = Len(s) + 1
      /\ \A q \in 1 .. Len(s) : s1[q] = s[q]
  OBVIOUS
<1> HIDE DEF s1
<1>2. o \in Nat /\ g \in Nat /\ g >= 1 /\ o + g <= 12 * Len(s) /\ CutOK(o)
      /\ \A j \in 0 .. 11 : j >= g => b[j] = 0
  BY DEF BufOK
<1>3. o + g <= 12 * Len(s1)
  BY <1>1, <1>2
<1>4. ASSUME NEW q \in 1 .. Len(s1), NEW i \in 1 .. 12, NEW j \in 0 .. 11,
             12 * (q - 1) + i = o + j + 1, j < g
      PROVE  b[j] = s1[q][i]
  <2>1. q \in 1 .. Len(s)
    BY <1>1, <1>2, <1>4
  <2>2. b[j] = s[q][i]
    BY <1>4, <2>1, Zenon DEF BufOK
  <2>3. QED
    BY <1>1, <2>1, <2>2
<1>5. BufOK(s1, o, g, b)
  BY <1>2, <1>3, <1>4 DEF BufOK
<1>6. QED
  BY <1>5 DEF s1

(***************************************************************************)
(* A read that was begun in the middle of a request is refused: only one   *)
(* that starts with a request looks like a command.                        *)
(***************************************************************************)
LEMMA Aligned ==
  ASSUME NEW c \in Client, NEW s \in Seq(Seq(Byte)), AskedOK(s, c),
         NEW o, NEW g, NEW b \in Command, BufOK(s, o, g, b), ~Refused(b, 12)
  PROVE  \E q \in 1 .. Len(s) : o = 12 * (q - 1) /\ \E n \in 1 .. 12 : Holds(b, s[q], n)
<1>1. b[2] = 0 /\ b[3] = 0 /\ b[4] = 0 /\ b[5] = 6
  <2>1. b[4] \in 0 .. 255 /\ b[5] \in 0 .. 255
    BY DEF Command, Byte
  <2>2. b[2] = 0 /\ b[3] = 0 /\ 256 * b[4] + b[5] = 12 - 6
    <3>1. b[2] = 0 /\ b[3] = 0 /\ WordAt(b, 4) = 12 - 6
      BY Zenon DEF Refused
    <3>2. 4 + 1 = 5
      OBVIOUS
    <3>3. QED
      BY <3>1, <3>2, Zenon DEF WordAt
  <2>3. \A x, y \in 0 .. 255 : 256 * x + y = 12 - 6 => x = 0 /\ y = 6
    OBVIOUS
  <2>4. QED
    BY <2>1, <2>2, <2>3, ZenonT(30)
<1>2. /\ o \in Nat /\ g \in Nat /\ g >= 1 /\ o + g <= 12 * Len(s) /\ Len(s) \in Nat
      /\ \A j \in 0 .. 11 : j >= g => b[j] = 0
  BY DEF BufOK
<1>3. g >= 6
  BY <1>1, <1>2
<1>4. PICK q0 \in Nat, k0 \in Cuts \cup {0} : o = 12 * q0 + k0
  <2>1. CutOK(o)
    BY DEF BufOK
  <2>2. QED
    BY <1>2, <2>1 DEF CutOK
<1>5. k0 \in 0 .. 11
  BY ClientAssumption, Numbers
<1> DEFINE q == q0 + 1
<1>6. q \in 1 .. Len(s) /\ o = 12 * (q - 1) + k0 /\ (k0 >= 7 => q + 1 \in 1 .. Len(s))
  BY <1>2, <1>3, <1>4, <1>5
<1> HIDE DEF q
<1>7. ASSUME NEW j \in 0 .. 11, NEW i \in 1 .. 12, j < g, k0 + j + 1 = i
      PROVE  b[j] = s[q][i]
  <2>1. 12 * (q - 1) + i = o + j + 1
    BY <1>5, <1>6, <1>7
  <2>2. QED
    BY <1>6, <1>7, <2>1, Zenon DEF BufOK
<1>8. ASSUME NEW j \in 0 .. 5, NEW i \in 1 .. 12, k0 >= 7, k0 + j + 1 = i + 12
      PROVE  b[j] = s[q + 1][i]
  <2>1. 12 * ((q + 1) - 1) + i = o + j + 1 /\ j \in 0 .. 11 /\ j < g
    BY <1>2, <1>3, <1>5, <1>6, <1>8
  <2>2. q + 1 \in 1 .. Len(s)
    BY <1>6, <1>8
  <2>3. QED
    BY <2>1, <2>2, Zenon DEF BufOK
<1>9. PICK k \in q .. MaxRequests, kind \in Kinds[c] : s[q] = Request(c, k, kind)
  BY <1>6 DEF AskedOK
<1>10. k \in 1 .. MaxRequests
  BY <1>6, <1>9, Numbers
<1>11. /\ s[q][7] = 1 /\ s[q][8] = kind.fn /\ s[q][9] = 0 /\ s[q][10] = kind.addr
       /\ s[q][11] = kind.len \div 256 /\ s[q][12] = kind.len % 256
       /\ kind.len = 256 * (kind.len \div 256) + (kind.len % 256)
  BY <1>9, <1>10, RequestBytes
<1>12. k0 >= 7 =>
         /\ s[q + 1][1] = c /\ s[q + 1][2] # 6
         /\ s[q + 1][3] = 0 /\ s[q + 1][4] = 0 /\ s[q + 1][5] = 0
  <2> SUFFICES ASSUME k0 >= 7
               PROVE  /\ s[q + 1][1] = c /\ s[q + 1][2] # 6
                      /\ s[q + 1][3] = 0 /\ s[q + 1][4] = 0 /\ s[q + 1][5] = 0
    OBVIOUS
  <2>1. q + 1 \in 1 .. Len(s)
    BY <1>6
  <2>2. PICK k1 \in q + 1 .. MaxRequests, kind1 \in Kinds[c] : s[q + 1] = Request(c, k1, kind1)
    BY <2>1 DEF AskedOK
  <2>3. k1 \in 1 .. MaxRequests /\ k1 + 5 # 6
    BY <1>6, <2>2, Numbers
  <2>4. QED
    BY <2>2, <2>3, RequestBytes, SMTT(30)
<1>13. /\ 5 \in Cuts => kind.fn # 0 \/ kind.addr # 0 \/ kind.len \div 256 # 6
       /\ 6 \in Cuts => kind.addr # 0 \/ kind.len # 6
       /\ 7 \in Cuts => c # 6 \/ kind.addr # 0 \/ kind.len # 0
  BY ClientAssumption
<1>14. k0 = 0
  <2>0. SUFFICES ASSUME k0 # 0 PROVE FALSE
    OBVIOUS
  <2>00. k0 \in Cuts
    BY <1>4, <2>0
  <2>1. CASE k0 = 1
    <3>1. b[5] = s[q][7]
      BY <1>2, <1>3, <1>7, <2>1
    <3>2. QED
      BY <1>1, <1>11, <3>1
  <2>2. CASE k0 = 2
    <3>1. b[4] = s[q][7]
      BY <1>2, <1>3, <1>7, <2>2
    <3>2. QED
      BY <1>1, <1>11, <3>1
  <2>3. CASE k0 = 3
    <3>1. b[5] = s[q][9]
      BY <1>2, <1>3, <1>7, <2>3
    <3>2. QED
      BY <1>1, <1>11, <3>1
  <2>4. CASE k0 = 4
    <3>1. b[2] = s[q][7]
      BY <1>2, <1>3, <1>7, <2>4
    <3>2. QED
      BY <1>1, <1>11, <3>1
  <2>5. CASE k0 = 5
    <3>1. b[5] = s[q][11] /\ b[4] = s[q][10] /\ b[2] = s[q][8]
      BY <1>2, <1>3, <1>7, <2>5
    <3>2. kind.len \div 256 = 6 /\ kind.addr = 0 /\ kind.fn = 0
      BY <1>1, <1>11, <3>1, ZenonT(30)
    <3>3. QED
      BY <1>13, <2>00, <2>5, <3>2, Zenon
  <2>6. CASE k0 = 6
    <3>1. b[5] = s[q][12] /\ b[4] = s[q][11] /\ b[3] = s[q][10]
      BY <1>2, <1>3, <1>7, <2>6
    <3>2. kind.len % 256 = 6 /\ kind.len \div 256 = 0 /\ kind.addr = 0
      BY <1>1, <1>11, <3>1, ZenonT(30)
    <3>3. kind.len = 256 * 0 + 6
      BY <1>11, <3>2, ZenonT(30)
    <3>4. kind.len = 6
      BY <3>3
    <3>5. QED
      BY <1>13, <2>00, <2>6, <3>2, <3>4, Zenon
  <2>7. CASE k0 = 7
    <3>1. b[5] = s[q + 1][1]
      BY <1>8, <2>7
    <3>2. b[4] = s[q][12] /\ b[3] = s[q][11] /\ b[2] = s[q][10]
      BY <1>2, <1>3, <1>7, <2>7
    <3>3. kind.len % 256 = 0 /\ kind.len \div 256 = 0 /\ kind.addr = 0
      BY <1>1, <1>11, <3>2, Zenon
    <3>4. kind.len = 256 * 0 + 0
      BY <1>11, <3>3, ZenonT(30)
    <3>5. kind.len = 0
      BY <3>4
    <3>6. c = 6
      BY <1>1, <1>12, <2>7, <3>1, SMTT(30)
    <3>7. QED
      BY <1>13, <2>00, <2>7, <3>3, <3>5, <3>6, Zenon
  <2>8. CASE k0 = 8
    <3>1. b[5] = s[q + 1][2]
      BY <1>8, <2>8
    <3>2. QED
      BY <1>1, <1>12, <2>8, <3>1
  <2>9. CASE k0 = 9
    <3>1. b[5] = s[q + 1][3]
      BY <1>8, <2>9
    <3>2. QED
      BY <1>1, <1>12, <2>9, <3>1
  <2>10. CASE k0 = 10
    <3>1. b[5] = s[q + 1][4]
      BY <1>8, <2>10
    <3>2. QED
      BY <1>1, <1>12, <2>10, <3>1
  <2>11. CASE k0 = 11
    <3>1. b[5] = s[q + 1][5]
      BY <1>8, <2>11
    <3>2. QED
      BY <1>1, <1>12, <2>11, <3>1
  <2>12. QED
    BY <1>5, <2>0, <2>1, <2>2, <2>3, <2>4, <2>5, <2>6, <2>7, <2>8, <2>9, <2>10, <2>11
<1>15. PICK n \in 1 .. 12 : n = IF g < 12 THEN g ELSE 12
  BY <1>2
<1>16. ASSUME NEW j \in 0 .. 11
       PROVE  b[j] = CutAt(s[q], n)[j + 1]
  <2>1. j + 1 \in 1 .. 12
    OBVIOUS
  <2>2. CutAt(s[q], n)[j + 1] = IF j + 1 <= n THEN s[q][j + 1] ELSE 0
    BY <2>1, Numbers DEF CutAt
  <2>3. CASE j < g
    <3>1. j + 1 <= n
      BY <1>2, <1>15, <2>3
    <3>0. k0 + j + 1 = j + 1
      BY <1>14
    <3>2. b[j] = s[q][j + 1]
      BY <1>7, <2>1, <2>3, <3>0, Zenon
    <3>3. QED
      BY <2>2, <3>1, <3>2
  <2>4. CASE ~(j < g)
    <3>1. ~(j + 1 <= n) /\ j >= g
      BY <1>2, <1>15, <2>4
    <3>2. QED
      BY <1>2, <2>2, <3>1
  <2>5. QED
    BY <2>3, <2>4
<1>17. o = 12 * (q - 1)
  BY <1>6, <1>14
<1>18. QED
  BY <1>6, <1>16, <1>17 DEF Holds

(* What the server makes of a read: nothing, or an answer to a request.    *)
LEMMA ParseStep ==
  ASSUME NEW c \in Client, NEW s \in Seq(Seq(Byte)), AskedOK(s, c),
         NEW o, NEW g, NEW b \in Command, BufOK(s, o, g, b),
         NEW before \in ResultBuffer, NEW p, p = parseModbusCommand(b, 12, before)
  PROVE  /\ p.result \in ResultBuffer /\ p.size \in 0 .. RESULT_LEN
         /\ p.size # 0 => ReplyOK(ReplyOf(p), s, o)
<1>1. RESULT_LEN \in Nat /\ 12 \in Int
  BY Numbers
<1>2. CASE Refused(b, 12)
  <2>1. p.result = before /\ p.size = 0
    BY <1>2 DEF parseModbusCommand, Parsed
  <2>2. QED
    BY <1>1, <2>1
<1>3. CASE ~Refused(b, 12)
  <2>1. PICK q \in 1 .. Len(s) : o = 12 * (q - 1) /\ \E n \in 1 .. 12 : Holds(b, s[q], n)
    BY <1>3, Aligned
  <2>2. PICK n \in 1 .. 12 : Holds(b, s[q], n)
    BY <2>1
  <2>3. PICK k \in q .. MaxRequests, kind \in Kinds[c] : s[q] = Request(c, k, kind)
    BY <2>1 DEF AskedOK
  <2>4. k \in 1 .. MaxRequests
    BY <2>1, <2>3, Numbers
  <2>5. Framed(s[q])
    BY <2>3, <2>4, RequestBytes DEF Framed
  <2>6. PICK r : r = CutAt(s[q], n)
    OBVIOUS
  <2>7. b[7] = READ_HOLDING_REGISTERS => Address(b) + CutLength(Length(b)) <= REGISTERS
    BY <2>2, <2>3, <2>4, <2>6, CutFits
  <2>8. p.result \in ResultBuffer
    BY <1>1, <2>7, ResultType
  <2>9. ASSUME p.size # 0
        PROVE  /\ n >= 8 /\ p.size \in 1 .. RESULT_LEN
               /\ ReplyOf(p) = Answer(r)
    BY <2>2, <2>5, <2>6, <2>9, ParsedReply, SMTT(30)
  <2>10. p.size \in 0 .. RESULT_LEN
    BY <1>1, <2>9
  <2>11. ASSUME p.size # 0
         PROVE  ReplyOK(ReplyOf(p), s, o)
    <3>1. n \in 8 .. READ_CMD_LEN
      BY <2>9, <2>11, Numbers
    <3>2. ReplyOf(p) = Answer(CutAt(s[q], n))
      BY <2>6, <2>9, <2>11
    <3>3. QED
      BY <2>1, <3>1, <3>2 DEF ReplyOK
  <2>12. QED
    BY <2>8, <2>10, <2>11
<1>4. QED
  BY <1>2, <1>3

(* Answers given stay answers.                                             *)
LEMMA AnsweredLater ==
  ASSUME NEW a, NEW s \in Seq(Seq(Byte)), NEW o \in Int, AnsweredOK(a, s, o),
         NEW o1 \in Int, o <= o1
  PROVE  AnsweredOK(a, s, o1)
<1>1. PICK f \in [1 .. Len(a) -> 1 .. Len(s)] :
        \A i \in 1 .. Len(a) :
          /\ \A j \in 1 .. i - 1 : f[j] < f[i]
          /\ 12 * (f[i] - 1) < o
          /\ \E n \in 8 .. READ_CMD_LEN : a[i] = Answer(CutAt(s[f[i]], n))
  BY DEF AnsweredOK
<1>2. ASSUME NEW i \in 1 .. Len(a)
      PROVE  12 * (f[i] - 1) < o1
  <2>1. f[i] \in 1 .. Len(s) /\ 12 * (f[i] - 1) < o
    BY <1>1
  <2>2. QED
    BY <2>1
<1>3. QED
  BY <1>1, <1>2, Zenon DEF AnsweredOK

LEMMA AnsweredAsk ==
  ASSUME NEW a, NEW s \in Seq(Seq(Byte)), NEW o, AnsweredOK(a, s, o), NEW r \in Seq(Byte)
  PROVE  AnsweredOK(a, Append(s, r), o)
<1> DEFINE s1 == Append(s, r)
<1>1. /\ Len(s) \in Nat /\ Len(s1) = Len(s) + 1
      /\ \A q \in 1 .. Len(s) : s1[q] = s[q]
  OBVIOUS
<1> HIDE DEF s1
<1>2. PICK f \in [1 .. Len(a) -> 1 .. Len(s)] :
        \A i \in 1 .. Len(a) :
          /\ \A j \in 1 .. i - 1 : f[j] < f[i]
          /\ 12 * (f[i] - 1) < o
          /\ \E n \in 8 .. READ_CMD_LEN : a[i] = Answer(CutAt(s[f[i]], n))
  BY DEF AnsweredOK
<1>3. f \in [1 .. Len(a) -> 1 .. Len(s1)]
  BY <1>1
<1>4. \A i \in 1 .. Len(a) : s1[f[i]] = s[f[i]]
  BY <1>1
<1>5. ASSUME NEW i \in 1 .. Len(a)
      PROVE  \E n \in 8 .. READ_CMD_LEN : a[i] = Answer(CutAt(s1[f[i]], n))
  <2>1. \E n \in 8 .. READ_CMD_LEN : a[i] = Answer(CutAt(s[f[i]], n))
    BY <1>2
  <2>2. QED
    BY <1>4, <2>1, Zenon
<1>6. AnsweredOK(a, s1, o)
  BY <1>2, <1>3, <1>5, Zenon DEF AnsweredOK
<1>7. QED
  BY <1>6 DEF s1

LEMMA AnsweredReply ==
  ASSUME NEW a \in Seq(Seq(Byte)), NEW s \in Seq(Seq(Byte)), NEW o \in Int, AnsweredOK(a, s, o),
         NEW x \in Seq(Byte), ReplyOK(x, s, o), NEW o1 \in Int, o < o1
  PROVE  AnsweredOK(Append(a, x), s, o1)
<1> DEFINE a1 == Append(a, x)
<1>1. /\ Len(a) \in Nat /\ Len(a1) = Len(a) + 1 /\ a1[Len(a) + 1] = x
      /\ \A i \in 1 .. Len(a) : a1[i] = a[i]
  OBVIOUS
<1> HIDE DEF a1
<1>2. PICK f \in [1 .. Len(a) -> 1 .. Len(s)] :
        \A i \in 1 .. Len(a) :
          /\ \A j \in 1 .. i - 1 : f[j] < f[i]
          /\ 12 * (f[i] - 1) < o
          /\ \E n \in 8 .. READ_CMD_LEN : a[i] = Answer(CutAt(s[f[i]], n))
  BY DEF AnsweredOK
<1>3. PICK q \in 1 .. Len(s) :
        o = 12 * (q - 1) /\ \E n \in 8 .. READ_CMD_LEN : x = Answer(CutAt(s[q], n))
  BY DEF ReplyOK
<1> DEFINE f1 == [i \in 1 .. Len(a1) |-> IF i = Len(a) + 1 THEN q ELSE f[i]]
<1>4. /\ f1 \in [1 .. Len(a1) -> 1 .. Len(s)] /\ f1[Len(a) + 1] = q
      /\ \A i \in 1 .. Len(a) : f1[i] = f[i]
  BY <1>1
<1> HIDE DEF f1
<1>5. ASSUME NEW i \in 1 .. Len(a1)
      PROVE  /\ \A j \in 1 .. i - 1 : f1[j] < f1[i]
             /\ 12 * (f1[i] - 1) < o1
             /\ \E n \in 8 .. READ_CMD_LEN : a1[i] = Answer(CutAt(s[f1[i]], n))
  <2>1. CASE i \in 1 .. Len(a)
    <3>1. f1[i] = f[i] /\ a1[i] = a[i] /\ 12 * (f[i] - 1) < o /\ f[i] \in 1 .. Len(s)
      BY <1>1, <1>2, <1>4, <2>1
    <3>2. 12 * (f[i] - 1) < o1
      BY <3>1, SMTT(30)
    <3>3. \A j \in 1 .. i - 1 : f1[j] < f1[i]
      <4>1. \A j \in 1 .. i - 1 : j \in 1 .. Len(a)
        BY <1>1, <2>1
      <4>2. QED
        BY <1>2, <1>4, <2>1, <3>1, <4>1
    <3>4. \E n \in 8 .. READ_CMD_LEN : a[i] = Answer(CutAt(s[f[i]], n))
      BY <1>2, <2>1
    <3>5. QED
      BY <3>1, <3>2, <3>3, <3>4, Zenon
  <2>2. CASE i = Len(a) + 1
    <3>1. f1[i] = q /\ a1[i] = x
      BY <1>1, <1>4, <2>2
    <3>2. 12 * (q - 1) < o1
      BY <1>3
    <3>3. \A j \in 1 .. i - 1 : f1[j] < q
      <4>1. \A j \in 1 .. i - 1 : j \in 1 .. Len(a)
        BY <1>1, <2>2
      <4>2. ASSUME NEW j \in 1 .. Len(a)
            PROVE  f[j] < q
        <5>1. f[j] \in 1 .. Len(s) /\ 12 * (f[j] - 1) < o
          BY <1>2
        <5>2. QED
          BY <1>3, <5>1
      <4>3. QED
        BY <1>4, <4>1, <4>2
    <3>4. QED
      BY <1>3, <3>1, <3>2, <3>3, Zenon
  <2>3. QED
    BY <1>1, <2>1, <2>2
<1>6. AnsweredOK(a1, s, o1)
  BY <1>4, <1>5, Zenon DEF AnsweredOK
<1>7. QED
  BY <1>6 DEF a1

-----------------------------------------------------------------------------
(* The steps of the server and its clients.                                *)

LEMMA ServerFacts ==
  ASSUME TypeOK
  PROVE  /\ served \subseteq Client /\ \A c, d \in served : c = d
         /\ got \in Nat /\ made \in 0 .. MaxRequests
         /\ \A c \in Client :
              /\ asked[c] \in Seq(Seq(Byte)) /\ answers[c] \in Seq(Seq(Byte))
              /\ rx[c] \in Seq(Byte)
              /\ Len(asked[c]) \in Nat /\ Len(rx[c]) \in Nat
              /\ Consumed(c) \in Int /\ Start(c) \in Int
<1>1. served \subseteq Client /\ \A c, d \in served : c = d
  <2>1. served = {} \/ \E c \in Client : served = {c}
    BY DEF TypeOK
  <2>2. QED
    BY <2>1
<1>2. got \in Nat /\ made \in 0 .. MaxRequests
  BY DEF TypeOK
<1>3. ASSUME NEW c \in Client
      PROVE  /\ asked[c] \in Seq(Seq(Byte)) /\ answers[c] \in Seq(Seq(Byte))
             /\ rx[c] \in Seq(Byte)
             /\ Len(asked[c]) \in Nat /\ Len(rx[c]) \in Nat
             /\ Consumed(c) \in Int /\ Start(c) \in Int
  <2>1. asked[c] \in Seq(Seq(Byte)) /\ answers[c] \in Seq(Seq(Byte)) /\ rx[c] \in Seq(Byte)
    BY DEF TypeOK
  <2>2. Len(asked[c]) \in Nat /\ Len(rx[c]) \in Nat
    BY <2>1
  <2>3. Consumed(c) \in Int
    BY <2>2 DEF Consumed
  <2>4. Start(c) \in Int
    BY <1>2, <2>3 DEF Start
  <2>5. QED
    BY <2>1, <2>2, <2>3, <2>4
<1>4. QED
  BY <1>1, <1>2, <1>3

(* What a step of the parser leaves, in the state it is taken in.          *)
LEMMA ParseFacts ==
  ASSUME ServerInv, Parse
  PROVE  /\ parseResult' \in [0 .. RESULT_LEN - 1 -> Byte] /\ size' \in 0 .. RESULT_LEN
         /\ got >= 1
         /\ \A c \in served : size' # 0 => ReplyOK(Reply', asked[c], Consumed(c) - got)
<1>1. at = "parse" /\ CmdLen = 12 /\ TypeOK
  BY Numbers DEF Parse, BadCommand, Goto, ServerInv
<1> DEFINE p == parseModbusCommand(buf, 12, parseResult)
<1>2. parseResult' = p.result /\ size' = p.size
  BY <1>1 DEF Parse
<1>3. served # {} /\ served \subseteq Client
  BY <1>1, ServerFacts DEF ServerInv, LinkInv
<1>4. buf \in Command /\ parseResult \in ResultBuffer
  BY <1>1, Numbers DEF TypeOK, Command, ResultBuffer
<1>5. ASSUME NEW c \in served
      PROVE  /\ p.result \in ResultBuffer /\ p.size \in 0 .. RESULT_LEN
             /\ p.size # 0 => ReplyOK(ReplyOf(p), asked[c], Consumed(c) - got)
             /\ got >= 1
  <2>1. BufOK(asked[c], Consumed(c) - got, got, buf)
    BY <1>1 DEF ServerInv, BufInv
  <2>2. c \in Client /\ asked[c] \in Seq(Seq(Byte))
    BY <1>1, <1>3, ServerFacts
  <2>3. AskedOK(asked[c], c)
    BY <2>2 DEF ServerInv, StreamInv
  <2> HIDE DEF p
  <2>4. p = parseModbusCommand(buf, 12, parseResult)
    BY DEF p
  <2>5. QED
    BY <1>4, <2>1, <2>2, <2>3, <2>4, ParseStep DEF BufOK
<1>6. Reply' = ReplyOf(p)
  BY <1>2 DEF Reply, ReplyOf
<1> HIDE DEF p
<1>7. QED
  BY <1>2, <1>3, <1>5, <1>6 DEF ResultBuffer

(* The request a client makes.                                             *)
LEMMA AskFacts ==
  ASSUME TypeOK, NEW d \in Client, Ask(d)
  PROVE  \E r : /\ r \in Seq(Byte) /\ Len(r) = 12
                /\ made + 1 \in 1 .. MaxRequests
                /\ \E kind \in Kinds[d] : r = Request(d, made + 1, kind)
                /\ rx' = [rx EXCEPT ![d] = @ \o r]
                /\ asked' = [asked EXCEPT ![d] = Append(@, r)]
<1>1. made + 1 \in 1 .. MaxRequests
  BY Numbers DEF TypeOK, Ask
<1>2. PICK kind \in Kinds[d] :
        /\ rx' = [rx EXCEPT ![d] = @ \o Request(d, made + 1, kind)]
        /\ asked' = [asked EXCEPT ![d] = Append(@, Request(d, made + 1, kind))]
  BY DEF Ask
<1>3. Request(d, made + 1, kind) \in Seq(Byte) /\ Len(Request(d, made + 1, kind)) = 12
  BY <1>1, RequestBytes
<1>4. QED
  BY <1>1, <1>2, <1>3

LEMMA TypeStep ==
  ASSUME ServerInv, Next
  PROVE  TypeOK'
<1>1. TypeOK
  BY DEF ServerInv
<1>2. CASE Accept
  <2>1. Head(backlog) \in Client /\ Tail(backlog) \in Seq(Client)
    BY <1>1, <1>2 DEF TypeOK, Accept
  <2>2. served' \in {{}} \cup {{c} : c \in Client}
    BY <1>2, <2>1 DEF Accept
  <2>3. QED
    BY <1>1, <1>2, <2>1, <2>2 DEF TypeOK, Accept, Goto
<1>3. CASE Read
  <2>1. PICK c \in served : \E n \in ReadSizes(rx[c]) :
          /\ buf' = Filled(SubSeq(rx[c], 1, n))
          /\ got' = n
          /\ rx' = [rx EXCEPT ![c] = SubSeq(@, n + 1, Len(@))]
    BY <1>3 DEF Read
  <2>2. PICK n \in ReadSizes(rx[c]) :
          /\ buf' = Filled(SubSeq(rx[c], 1, n))
          /\ got' = n
          /\ rx' = [rx EXCEPT ![c] = SubSeq(@, n + 1, Len(@))]
    BY <2>1
  <2>3. c \in Client /\ rx[c] \in Seq(Byte) /\ Len(rx[c]) \in Nat /\ n \in 1 .. Len(rx[c])
    BY <1>1, ServerFacts DEF ReadSizes
  <2>4. SubSeq(rx[c], n + 1, Len(rx[c])) \in Seq(Byte)
    BY <2>3
  <2>5. rx' \in [Client -> Seq(Byte)]
    BY <1>1, <2>2, <2>3, <2>4 DEF TypeOK
  <2>6. buf' \in [0 .. READ_CMD_LEN - 1 -> Byte]
    <3>1. ASSUME NEW y \in Seq(Byte)
          PROVE  Filled(y) \in [0 .. READ_CMD_LEN - 1 -> Byte]
      <4>1. ASSUME NEW j \in 0 .. READ_CMD_LEN - 1
            PROVE  (IF j < Len(y) THEN y[j + 1] ELSE 0) \in Byte
        <5>1. 0 \in Byte
          BY DEF Byte
        <5>2. j < Len(y) => y[j + 1] \in Byte
          <6>1. j \in Nat /\ Len(y) \in Nat
            BY Numbers
          <6>2. j < Len(y) => j + 1 \in 1 .. Len(y)
            BY <6>1
          <6>3. QED
            BY <6>2, ElementOfSeq
        <5>3. QED
          BY <5>1, <5>2
      <4>2. QED
        BY <4>1 DEF Filled
    <3>2. SubSeq(rx[c], 1, n) \in Seq(Byte)
      BY <2>3
    <3>3. QED
      BY <2>2, <3>1, <3>2
  <2>7. got' \in Nat
    BY <2>2, <2>3
  <2>8. QED
    BY <1>1, <1>3, <2>5, <2>6, <2>7 DEF TypeOK, Read, Goto
<1>4. CASE ReadEnd
  BY <1>1, <1>4 DEF TypeOK, ReadEnd, Goto, netVars
<1>5. CASE ReadTimeout
  BY <1>1, <1>5 DEF TypeOK, ReadTimeout, Goto, netVars
<1>6. CASE Drop
  BY <1>1, <1>6 DEF TypeOK, Drop, Goto, netVars
<1>7. CASE Parse
  <2>1. parseResult' \in [0 .. RESULT_LEN - 1 -> Byte] /\ size' \in 0 .. RESULT_LEN
    BY <1>7, ParseFacts
  <2>2. QED
    BY <1>1, <1>7, <2>1 DEF TypeOK, Parse, Goto, netVars
<1>8. CASE Send
  <2>1. Reply \in Seq(Byte)
    <3>1. size \in Nat /\ RESULT_LEN \in Nat /\ size <= RESULT_LEN
      BY <1>1, Numbers DEF TypeOK
    <3>2. \A j \in 1 .. size : parseResult[j - 1] \in Byte
      BY <1>1, <3>1 DEF TypeOK
    <3>3. QED
      BY <3>1, <3>2 DEF Reply
  <2>2. PICK c \in served :
          answers' = IF size = 0 THEN answers ELSE [answers EXCEPT ![c] = Append(@, Reply)]
    BY <1>8 DEF Send
  <2>3. c \in Client /\ Append(answers[c], Reply) \in Seq(Seq(Byte))
    BY <1>1, <2>1, ServerFacts
  <2>4. answers' \in [Client -> Seq(Seq(Byte))]
    BY <1>1, <2>2, <2>3 DEF TypeOK
  <2>5. QED
    BY <1>1, <1>8, <2>4 DEF TypeOK, Send, Goto
<1>9. CASE SendLate
  <2>1. link' \in [Client -> {"none", "open", "fin", "rst"}]
    BY <1>1, <1>9, ServerFacts DEF TypeOK, SendLate
  <2>2. QED
    BY <1>1, <1>9, <2>1 DEF TypeOK, SendLate, Goto
<1>10. CASE SendFails \/ SendKills
  BY <1>1, <1>10 DEF TypeOK, SendFails, SendKills, Goto, netVars
<1>11. CASE Close
  <2>1. link' \in [Client -> {"none", "open", "fin", "rst"}]
    BY <1>1, <1>11 DEF TypeOK, Close
  <2>2. rx' \in [Client -> Seq(Byte)]
    BY <1>1, <1>11 DEF TypeOK, Close
  <2>3. QED
    BY <1>1, <1>11, <2>1, <2>2 DEF TypeOK, Close, Goto
<1>12. ASSUME NEW d \in Client, Connect(d)
       PROVE  TypeOK'
  <2>1. dials' \in [Client -> 0 .. MaxConnects]
    <3>1. dials \in [Client -> 0 .. MaxConnects] /\ MaxConnects \in Nat
      BY <1>1, Numbers DEF TypeOK
    <3>2. dials[d] < MaxConnects /\ dials' = [dials EXCEPT ![d] = @ + 1]
      BY <1>12 DEF Connect
    <3>3. dials[d] + 1 \in 0 .. MaxConnects
      BY <3>1, <3>2
    <3>4. QED
      BY <3>1, <3>2, <3>3
  <2>2. asked' \in [Client -> Seq(Seq(Byte))] /\ answers' \in [Client -> Seq(Seq(Byte))]
    BY <1>1, <1>12 DEF TypeOK, Connect
  <2>3. backlog' \in Seq(Client)
    BY <1>1, <1>12 DEF TypeOK, Connect
  <2>4. link' \in [Client -> {"none", "open", "fin", "rst"}]
    BY <1>1, <1>12 DEF TypeOK, Connect
  <2>5. QED
    BY <1>1, <1>12, <2>1, <2>2, <2>3, <2>4 DEF TypeOK, Connect, serverVars
<1>13. ASSUME NEW d \in Client, Ask(d)
       PROVE  TypeOK'
  <2>1. PICK r : /\ r \in Seq(Byte) /\ made + 1 \in 1 .. MaxRequests
                 /\ rx' = [rx EXCEPT ![d] = @ \o r]
                 /\ asked' = [asked EXCEPT ![d] = Append(@, r)]
    BY <1>1, <1>13, AskFacts
  <2>2. rx[d] \o r \in Seq(Byte) /\ Append(asked[d], r) \in Seq(Seq(Byte))
    BY <1>1, <2>1, ServerFacts
  <2>3. rx' \in [Client -> Seq(Byte)] /\ asked' \in [Client -> Seq(Seq(Byte))]
    BY <1>1, <2>1, <2>2 DEF TypeOK
  <2>4. made' \in 0 .. MaxRequests
    BY <1>13, <2>1, Numbers DEF Ask
  <2>5. QED
    BY <1>1, <1>13, <2>3, <2>4 DEF TypeOK, Ask, serverVars
<1>14. ASSUME NEW d \in Client, HangUp(d)
       PROVE  TypeOK'
  BY <1>1, <1>14 DEF TypeOK, HangUp, serverVars
<1>15. QED
  BY <1>2, <1>3, <1>4, <1>5, <1>6, <1>7, <1>8, <1>9, <1>10, <1>11, <1>12, <1>13, <1>14
     DEF Next, ServerStep, ClientStep

LEMMA LinkStep ==
  ASSUME ServerInv, Next
  PROVE  LinkInv'
<1>1. TypeOK /\ LinkInv
  BY DEF ServerInv
<1>2. served \subseteq Client /\ \A c, d \in served : c = d
  BY <1>1, ServerFacts
<1>3. backlog \in Seq(Client) /\ Len(backlog) \in Nat /\ link \in [Client -> {"none", "open", "fin", "rst"}]
      /\ rx \in [Client -> Seq(Byte)]
  BY <1>1 DEF TypeOK
<1>4. CASE Accept
  <2>1. /\ Len(backlog) >= 1 /\ Head(backlog) = backlog[1] /\ Len(Tail(backlog)) = Len(backlog) - 1
        /\ \A i \in 1 .. Len(backlog) - 1 : Tail(backlog)[i] = backlog[i + 1]
    BY <1>3, <1>4 DEF Accept
  <2>2. served' = {backlog[1]} /\ link' = link /\ rx' = rx /\ at' = "read"
        /\ Len(backlog') = Len(backlog) - 1
        /\ \A i \in 1 .. Len(backlog) - 1 : backlog'[i] = backlog[i + 1]
    BY <1>4, <2>1 DEF Accept, Goto
  <2>3. 1 \in 1 .. Len(backlog)
    BY <1>3, <2>1
  <2>4. \A c \in served' : link'[c] # "none"
    BY <1>1, <2>2, <2>3 DEF LinkInv
  <2>5. ASSUME NEW i \in 1 .. Len(backlog')
        PROVE  link'[backlog'[i]] # "none" /\ backlog'[i] \notin served'
    <3>1. i \in 1 .. Len(backlog) - 1 /\ i + 1 \in 1 .. Len(backlog) /\ i + 1 # 1
      BY <1>3, <2>2
    <3>2. backlog[i + 1] # backlog[1] /\ link[backlog[i + 1]] # "none"
      BY <1>1, <2>3, <3>1 DEF LinkInv
    <3>3. QED
      BY <2>2, <3>1, <3>2
  <2>6. ASSUME NEW i \in 1 .. Len(backlog'), NEW j \in 1 .. Len(backlog'), backlog'[i] = backlog'[j]
        PROVE  i = j
    <3>1. i \in 1 .. Len(backlog) - 1 /\ i + 1 \in 1 .. Len(backlog)
          /\ j \in 1 .. Len(backlog) - 1 /\ j + 1 \in 1 .. Len(backlog)
      BY <1>3, <2>2
    <3>2. i + 1 = j + 1
      BY <1>1, <2>2, <2>6, <3>1 DEF LinkInv
    <3>3. QED
      BY <3>1, <3>2
  <2>7. QED
    BY <1>1, <2>2, <2>4, <2>5, <2>6 DEF LinkInv
<1>5. CASE Read
  <2>1. PICK c \in served : \E n \in ReadSizes(rx[c]) :
          rx' = [rx EXCEPT ![c] = SubSeq(@, n + 1, Len(@))]
    BY <1>5 DEF Read
  <2>2. link[c] # "none" /\ \A d \in Client : d # c => rx'[d] = rx[d]
    BY <1>1, <1>3, <2>1 DEF LinkInv
  <2>3. at' # "accept" /\ at # "accept" /\ served' = served /\ backlog' = backlog /\ link' = link
    BY <1>5 DEF Read, Goto
  <2>4. QED
    BY <1>1, <2>2, <2>3 DEF LinkInv
<1>6. CASE ReadEnd
  BY <1>1, <1>6 DEF LinkInv, ReadEnd, Goto, netVars
<1>7. CASE ReadTimeout
  BY <1>1, <1>7 DEF LinkInv, ReadTimeout, Goto, netVars
<1>8. CASE Drop
  BY <1>1, <1>8 DEF LinkInv, Drop, Goto, netVars
<1>9. CASE Parse
  BY <1>1, <1>9 DEF LinkInv, Parse, Goto, netVars
<1>10. CASE Send
  BY <1>1, <1>10 DEF LinkInv, Send, Goto
<1>11. CASE SendLate
  <2>1. /\ rx' = rx /\ at # "accept" /\ at' # "accept" /\ served' = served /\ backlog' = backlog
        /\ \E c \in served :
             link[c] = "fin" /\ link' = IF size = 0 THEN link ELSE [link EXCEPT ![c] = "rst"]
    BY <1>11 DEF SendLate, Goto
  <2>2. \A d : link'[d] = "none" <=> link[d] = "none"
    BY <1>3, <2>1
  <2>3. QED
    BY <1>1, <2>1, <2>2 DEF LinkInv
<1>12. CASE SendFails \/ SendKills
  BY <1>1, <1>12 DEF LinkInv, SendFails, SendKills, Goto, netVars
<1>13. CASE Close
  <2>1. /\ at' = "accept" /\ served' = {} /\ backlog' = backlog
        /\ link' = [c \in Client |-> IF c \in served THEN "none" ELSE link[c]]
        /\ rx' = [c \in Client |-> IF c \in served THEN <<>> ELSE rx[c]]
    BY <1>13 DEF Close, Goto
  <2>2. \A c \in Client : link'[c] = "none" => rx'[c] = <<>>
    BY <1>1, <2>1 DEF LinkInv
  <2>3. \A i \in 1 .. Len(backlog) : backlog[i] \in Client
    BY <1>3
  <2>4. \A i \in 1 .. Len(backlog) : link'[backlog[i]] # "none"
    BY <1>1, <2>1, <2>3 DEF LinkInv
  <2>5. QED
    BY <1>1, <2>1, <2>2, <2>4 DEF LinkInv
<1>14. ASSUME NEW d \in Client, Connect(d)
       PROVE  LinkInv'
  <2>1. /\ link[d] = "none" /\ link' = [link EXCEPT ![d] = "open"] /\ rx' = rx
        /\ backlog' = Append(backlog, d) /\ served' = served /\ at' = at
    BY <1>14 DEF Connect, serverVars
  <2>2. link'[d] = "open" /\ \A c : c # d => link'[c] = link[c]
    BY <1>3, <2>1
  <2>3. /\ Len(backlog') = Len(backlog) + 1 /\ backlog'[Len(backlog) + 1] = d
        /\ \A i \in 1 .. Len(backlog) : backlog'[i] = backlog[i]
    BY <1>3, <2>1
  <2>4. d \notin served /\ \A i \in 1 .. Len(backlog) : backlog[i] # d
    BY <1>1, <2>1 DEF LinkInv
  <2>5. \A c \in Client : link'[c] = "none" => rx'[c] = <<>>
    BY <1>1, <2>1, <2>2 DEF LinkInv
  <2>6. \A c \in served' : link'[c] # "none"
    BY <1>1, <2>1, <2>2 DEF LinkInv
  <2>7. \A i \in 1 .. Len(backlog') : i \in 1 .. Len(backlog) \/ i = Len(backlog) + 1
    BY <1>3, <2>3
  <2>8. \A i \in 1 .. Len(backlog') : link'[backlog'[i]] # "none" /\ backlog'[i] \notin served'
    BY <1>1, <2>1, <2>2, <2>3, <2>4, <2>7 DEF LinkInv
  <2>9. \A i, j \in 1 .. Len(backlog') : backlog'[i] = backlog'[j] => i = j
    BY <1>1, <2>3, <2>4, <2>7 DEF LinkInv
  <2>10. QED
    BY <1>1, <2>1, <2>5, <2>6, <2>8, <2>9 DEF LinkInv
<1>15. ASSUME NEW d \in Client, Ask(d)
       PROVE  LinkInv'
  <2>1. /\ link[d] = "open" /\ link' = link /\ backlog' = backlog /\ served' = served /\ at' = at
        /\ \E r : rx' = [rx EXCEPT ![d] = @ \o r]
    BY <1>15 DEF Ask, serverVars
  <2>2. \A c \in Client : c # d => rx'[c] = rx[c]
    BY <1>3, <2>1
  <2>3. QED
    BY <1>1, <2>1, <2>2 DEF LinkInv
<1>16. ASSUME NEW d \in Client, HangUp(d)
       PROVE  LinkInv'
  <2>1. /\ link[d] = "open" /\ link' = [link EXCEPT ![d] = "fin"]
        /\ rx' = rx /\ backlog' = backlog /\ served' = served /\ at' = at
    BY <1>16 DEF HangUp, serverVars
  <2>2. \A c : link'[c] = "none" <=> link[c] = "none"
    BY <1>3, <2>1
  <2>3. QED
    BY <1>1, <2>1, <2>2 DEF LinkInv
<1>17. QED
  BY <1>4, <1>5, <1>6, <1>7, <1>8, <1>9, <1>10, <1>11, <1>12, <1>13, <1>14, <1>15, <1>16
     DEF Next, ServerStep, ClientStep

LEMMA StreamStep ==
  ASSUME ServerInv, Next
  PROVE  StreamInv'
<1>1. TypeOK /\ StreamInv /\ made \in 0 .. MaxRequests
  BY ServerFacts DEF ServerInv
<1>2. rx \in [Client -> Seq(Byte)] /\ asked \in [Client -> Seq(Seq(Byte))]
  BY <1>1 DEF TypeOK
<1>3. \A c \in Client :
        /\ asked[c] \in Seq(Seq(Byte)) /\ Len(asked[c]) \in Nat
        /\ rx[c] \in Seq(Byte) /\ Len(rx[c]) \in Nat
  BY <1>1, ServerFacts
<1>4. ASSUME asked' = asked, rx' = rx, made' = made
      PROVE  StreamInv'
  BY <1>1, <1>4 DEF StreamInv
<1>5. CASE Accept \/ ReadEnd \/ ReadTimeout \/ Drop \/ Parse \/ Send \/ SendLate \/ SendFails \/ SendKills
  BY <1>4, <1>5 DEF Accept, ReadEnd, ReadTimeout, Drop, Parse, Send, SendLate, SendFails, SendKills, netVars
<1>6. CASE Read
  <2>1. PICK c \in served : \E n \in ReadSizes(rx[c]) :
          rx' = [rx EXCEPT ![c] = SubSeq(@, n + 1, Len(@))]
    BY <1>6 DEF Read
  <2>2. PICK n \in ReadSizes(rx[c]) : rx' = [rx EXCEPT ![c] = SubSeq(@, n + 1, Len(@))]
    BY <2>1
  <2>3. c \in Client /\ asked' = asked /\ made' = made
    BY <1>1, <1>6, ServerFacts DEF Read
  <2>4. rx'[c] = SubSeq(rx[c], n + 1, Len(rx[c])) /\ \A d \in Client : d # c => rx'[d] = rx[d]
    BY <1>2, <2>2, <2>3
  <2>5. StreamOK(asked[c], rx[c])
    BY <1>1, <2>3 DEF StreamInv
  <2>6. StreamOK(asked[c], rx'[c])
    BY <1>3, <2>2, <2>3, <2>4, <2>5, StreamRead
  <2>7. ASSUME NEW d \in Client
        PROVE  Len(asked'[d]) <= made' /\ AskedOK(asked'[d], d) /\ StreamOK(asked'[d], rx'[d])
    BY <1>1, <2>3, <2>4, <2>6 DEF StreamInv
  <2>8. QED
    BY <2>7 DEF StreamInv
<1>7. CASE Close
  <2>1. /\ asked' = asked /\ made' = made
        /\ \A c \in Client : rx'[c] = rx[c] \/ rx'[c] = <<>>
    BY <1>7 DEF Close
  <2>2. ASSUME NEW s \in Seq(Seq(Byte))
        PROVE  StreamOK(s, <<>>)
    <3> DEFINE n == Len(s)
    <3>1. n \in Nat /\ Len(<<>>) = 0
      OBVIOUS
    <3> HIDE DEF n
    <3>2. n \in 0 .. 12 * n - 0 /\ 12 * n - 0 = 12 * n + 0 /\ 0 <= 12 * n
      BY <3>1
    <3>3. CutOK(12 * n - 0)
      BY <3>2, Zenon DEF CutOK
    <3>4. ASSUME NEW q \in 1 .. n, NEW i \in 1 .. 12
          PROVE  ~(12 * (q - 1) + i > 12 * n - 0)
      BY <3>1
    <3>5. QED
      BY <3>1, <3>2, <3>3, <3>4, Zenon DEF StreamOK, n
  <2>3. ASSUME NEW d \in Client
        PROVE  Len(asked'[d]) <= made' /\ AskedOK(asked'[d], d) /\ StreamOK(asked'[d], rx'[d])
    BY <1>1, <1>3, <2>1, <2>2 DEF StreamInv
  <2>4. QED
    BY <2>3 DEF StreamInv
<1>8. ASSUME NEW d \in Client, Connect(d)
      PROVE  StreamInv'
  <2>1. /\ rx' = rx /\ made' = made /\ asked' = [asked EXCEPT ![d] = <<>>] /\ link[d] = "none"
    BY <1>8 DEF Connect
  <2>2. rx[d] = <<>>
    BY <2>1 DEF ServerInv, LinkInv
  <2>3. asked'[d] = <<>> /\ \A c \in Client : c # d => asked'[c] = asked[c]
    BY <1>2, <2>1
  <2>4. Len(<<>>) = 0 /\ 0 <= made
    BY <1>1
  <2>5. AskedOK(<<>>, d)
    BY <2>4 DEF AskedOK
  <2>6. StreamOK(<<>>, <<>>)
    <3>1. CutOK(12 * 0 - 0)
      <4>1. 0 \in 0 .. 12 * 0 - 0 /\ 12 * 0 - 0 = 12 * 0 + 0
        OBVIOUS
      <4>2. QED
        BY <4>1, Zenon DEF CutOK
    <3>2. \A q \in 1 .. 0 : FALSE
      OBVIOUS
    <3>3. 0 <= 12 * 0
      OBVIOUS
    <3>4. QED
      BY <2>4, <3>1, <3>2, <3>3, Zenon DEF StreamOK
  <2>7. ASSUME NEW c \in Client
        PROVE  Len(asked'[c]) <= made' /\ AskedOK(asked'[c], c) /\ StreamOK(asked'[c], rx'[c])
    BY <1>1, <2>1, <2>2, <2>3, <2>4, <2>5, <2>6 DEF StreamInv
  <2>8. QED
    BY <2>7 DEF StreamInv
<1>9. ASSUME NEW d \in Client, Ask(d)
      PROVE  StreamInv'
  <2>1. PICK r : /\ r \in Seq(Byte) /\ Len(r) = 12
                 /\ made + 1 \in 1 .. MaxRequests
                 /\ \E kind \in Kinds[d] : r = Request(d, made + 1, kind)
                 /\ rx' = [rx EXCEPT ![d] = @ \o r]
                 /\ asked' = [asked EXCEPT ![d] = Append(@, r)]
    BY <1>1, <1>9, AskFacts
  <2>2. made' = made + 1
    BY <1>9 DEF Ask
  <2>3. /\ rx'[d] = rx[d] \o r /\ asked'[d] = Append(asked[d], r)
        /\ \A c \in Client : c # d => rx'[c] = rx[c] /\ asked'[c] = asked[c]
    BY <1>2, <2>1
  <2>4. Len(asked[d]) <= made /\ AskedOK(asked[d], d) /\ StreamOK(asked[d], rx[d])
    BY <1>1 DEF StreamInv
  <2>5. StreamOK(asked'[d], rx'[d])
    <3>1. /\ asked[d] \in Seq(Seq(Byte)) /\ rx[d] \in Seq(Byte)
          /\ r \in Seq(Byte) /\ Len(r) = 12 /\ StreamOK(asked[d], rx[d])
      BY <1>3, <2>1, <2>4
    <3>2. StreamOK(Append(asked[d], r), rx[d] \o r)
      BY <3>1, StreamAsk, Zenon
    <3>3. QED
      BY <2>3, <3>2
  <2>6. /\ Len(asked'[d]) = Len(asked[d]) + 1 /\ asked'[d][Len(asked[d]) + 1] = r
        /\ \A q \in 1 .. Len(asked[d]) : asked'[d][q] = asked[d][q]
    BY <1>3, <2>1, <2>3
  <2>7. AskedOK(asked'[d], d)
    <3>1. ASSUME NEW q \in 1 .. Len(asked'[d])
          PROVE  \E k \in q .. MaxRequests : \E kind \in Kinds[d] : asked'[d][q] = Request(d, k, kind)
      <4>1. CASE q \in 1 .. Len(asked[d])
        BY <2>4, <2>6, <4>1 DEF AskedOK
      <4>2. CASE q = Len(asked[d]) + 1
        <5>1. made + 1 \in q .. MaxRequests
          BY <1>1, <1>3, <2>1, <2>4, <4>2
        <5>2. QED
          BY <2>1, <2>6, <4>2, <5>1
      <4>3. PICK n \in Nat : n = Len(asked[d])
        BY <1>3
      <4>4. q \in 1 .. n + 1
        BY <2>6, <4>3
      <4>5. q \in 1 .. n \/ q = n + 1
        BY <4>3, <4>4
      <4>6. QED
        BY <4>1, <4>2, <4>3, <4>5, Zenon
    <3>2. QED
      BY <3>1 DEF AskedOK
  <2>8. Len(asked'[d]) <= made'
    BY <1>1, <1>3, <2>2, <2>4, <2>6
  <2>9. ASSUME NEW c \in Client, c # d
        PROVE  Len(asked'[c]) <= made' /\ AskedOK(asked'[c], c) /\ StreamOK(asked'[c], rx'[c])
    <3>1. Len(asked[c]) <= made /\ AskedOK(asked[c], c) /\ StreamOK(asked[c], rx[c])
      BY <1>1 DEF StreamInv
    <3>2. Len(asked[c]) <= made'
      BY <1>1, <1>3, <2>2, <3>1
    <3>3. QED
      BY <2>3, <2>9, <3>1, <3>2
  <2>10. QED
    BY <2>5, <2>7, <2>8, <2>9 DEF StreamInv
<1>10. ASSUME NEW d \in Client, HangUp(d)
       PROVE  StreamInv'
  BY <1>4, <1>10 DEF HangUp
<1>11. QED
  BY <1>5, <1>6, <1>7, <1>8, <1>9, <1>10 DEF Next, ServerStep, ClientStep

(* Asking is not reading.                                                  *)
LEMMA AskConsumes ==
  ASSUME TypeOK, NEW d \in Client, Ask(d), NEW c \in Client
  PROVE  Consumed(c)' = Consumed(c)
<1>1. PICK r : /\ r \in Seq(Byte) /\ Len(r) = 12
               /\ rx' = [rx EXCEPT ![d] = @ \o r]
               /\ asked' = [asked EXCEPT ![d] = Append(@, r)]
  BY AskFacts
<1>2. /\ asked[d] \in Seq(Seq(Byte)) /\ rx[d] \in Seq(Byte)
      /\ Len(asked[d]) \in Nat /\ Len(rx[d]) \in Nat
  BY ServerFacts
<1>3. /\ asked'[d] = Append(asked[d], r) /\ rx'[d] = rx[d] \o r
      /\ c # d => asked'[c] = asked[c] /\ rx'[c] = rx[c]
  BY <1>1 DEF TypeOK
<1>4. Len(asked'[d]) = Len(asked[d]) + 1 /\ Len(rx'[d]) = Len(rx[d]) + 12
  <2>1. Len(asked'[d]) = Len(asked[d]) + 1
    BY <1>2, <1>3, <1>1
  <2>2. Len(rx'[d]) = Len(rx[d]) + Len(r)
    BY <1>1, <1>2, <1>3, ConcatProperties, ZenonT(60)
  <2>3. QED
    BY <1>1, <2>1, <2>2
<1>5. CASE c = d
  <2>1. ASSUME NEW m \in Nat, NEW n \in Nat
        PROVE  12 * (m + 1) - (n + 12) = 12 * m - n
    OBVIOUS
  <2>2. 12 * Len(asked'[d]) - Len(rx'[d]) = 12 * Len(asked[d]) - Len(rx[d])
    BY <1>2, <1>4, <2>1
  <2>3. QED
    BY <1>5, <2>2 DEF Consumed
<1>6. CASE c # d
  BY <1>3, <1>6 DEF Consumed
<1>7. QED
  BY <1>5, <1>6

LEMMA ReplyAsk ==
  ASSUME NEW x, NEW s \in Seq(Seq(Byte)), NEW o, ReplyOK(x, s, o), NEW r \in Seq(Byte)
  PROVE  ReplyOK(x, Append(s, r), o)
<1>1. PICK q \in 1 .. Len(s) :
        o = 12 * (q - 1) /\ \E n \in 8 .. READ_CMD_LEN : x = Answer(CutAt(s[q], n))
  BY DEF ReplyOK
<1>2. q \in 1 .. Len(Append(s, r)) /\ Append(s, r)[q] = s[q]
  BY <1>1
<1>3. QED
  BY <1>1, <1>2, Zenon DEF ReplyOK

(* A client that connects is not being served.                             *)
LEMMA ConnectFacts ==
  ASSUME ServerInv, NEW d \in Client, Connect(d)
  PROVE  /\ d \notin served
         /\ \A c \in Client : c # d => asked'[c] = asked[c] /\ answers'[c] = answers[c]
         /\ asked'[d] = <<>> /\ answers'[d] = <<>> /\ rx' = rx
         /\ UNCHANGED serverVars
BY DEF ServerInv, LinkInv, TypeOK, Connect

LEMMA BufStep ==
  ASSUME ServerInv, Next
  PROVE  BufInv'
<1>1. TypeOK /\ BufInv /\ served \subseteq Client /\ got \in Nat
  BY ServerFacts DEF ServerInv
<1>2. asked \in [Client -> Seq(Seq(Byte))] /\ rx \in [Client -> Seq(Byte)]
  BY <1>1 DEF TypeOK
<1>3. \A c \in Client :
        /\ asked[c] \in Seq(Seq(Byte)) /\ Len(asked[c]) \in Nat
        /\ rx[c] \in Seq(Byte) /\ Len(rx[c]) \in Nat
  BY <1>1, ServerFacts
<1>4. CASE Accept \/ ReadEnd \/ ReadTimeout \/ Drop \/ Parse \/ Send \/ SendLate \/ SendFails \/ SendKills \/ Close
  <2>1. at' # "parse"
    BY <1>4 DEF Accept, ReadEnd, ReadTimeout, Drop, Parse, Send, SendLate, SendFails, SendKills, Close, Goto
  <2>2. QED
    BY <2>1 DEF BufInv
<1>5. CASE Read
  <2>1. PICK c \in served : \E n \in ReadSizes(rx[c]) :
          /\ buf' = Filled(SubSeq(rx[c], 1, n))
          /\ got' = n
          /\ rx' = [rx EXCEPT ![c] = SubSeq(@, n + 1, Len(@))]
    BY <1>5 DEF Read
  <2>2. PICK n \in ReadSizes(rx[c]) :
          /\ buf' = Filled(SubSeq(rx[c], 1, n))
          /\ got' = n
          /\ rx' = [rx EXCEPT ![c] = SubSeq(@, n + 1, Len(@))]
    BY <2>1
  <2>3. c \in Client /\ asked' = asked /\ served' = served /\ n \in 1 .. Len(rx[c])
    BY <1>1, <1>5 DEF Read, ReadSizes
  <2>4. rx'[c] = SubSeq(rx[c], n + 1, Len(rx[c]))
    BY <1>2, <2>2, <2>3
  <2>5. Len(rx'[c]) = Len(rx[c]) - n
    BY <1>3, <2>3, <2>4
  <2>6. StreamOK(asked[c], rx[c])
    BY <2>3 DEF ServerInv, StreamInv
  <2>7. BufOK(asked[c], 12 * Len(asked[c]) - Len(rx[c]), n, buf')
    BY <1>3, <2>2, <2>3, <2>6, StreamRead
  <2>8. Consumed(c)' - n = 12 * Len(asked[c]) - Len(rx[c])
    BY <1>3, <2>3, <2>5 DEF Consumed
  <2>9. \A e \in served' : e = c
    BY <1>1, <2>3, ServerFacts
  <2>10. BufOK(asked'[c], Consumed(c)' - got', got', buf')
    BY <2>2, <2>3, <2>7, <2>8
  <2>11. QED
    BY <2>9, <2>10 DEF BufInv
<1>6. ASSUME NEW d \in Client, Connect(d)
      PROVE  BufInv'
  <2>1. /\ d \notin served /\ UNCHANGED <<at, served, got, buf, rx>>
        /\ \A c \in served : asked'[c] = asked[c]
    BY <1>1, <1>6, ConnectFacts DEF serverVars
  <2>2. \A c \in served : Consumed(c)' = Consumed(c)
    BY <2>1 DEF Consumed
  <2>3. QED
    BY <1>1, <2>1, <2>2 DEF BufInv
<1>7. ASSUME NEW d \in Client, Ask(d)
      PROVE  BufInv'
  <2>1. UNCHANGED <<at, served, got, buf>>
    BY <1>7 DEF Ask, serverVars
  <2>2. PICK r : r \in Seq(Byte) /\ asked' = [asked EXCEPT ![d] = Append(@, r)]
    BY <1>1, <1>7, AskFacts
  <2>3. ASSUME NEW c \in served, at = "parse"
        PROVE  BufOK(asked'[c], Consumed(c)' - got', got', buf')
    <3>1. BufOK(asked[c], Consumed(c) - got, got, buf)
      BY <1>1, <2>3 DEF BufInv
    <3>2. c \in Client /\ Consumed(c)' = Consumed(c)
      BY <1>1, <1>7, AskConsumes
    <3>3. BufOK(Append(asked[c], r), Consumed(c) - got, got, buf)
      BY <1>3, <2>2, <3>1, <3>2, BufAsk
    <3>4. asked'[c] = asked[c] \/ asked'[c] = Append(asked[c], r)
      BY <1>2, <2>2, <3>2
    <3>5. QED
      BY <2>1, <3>1, <3>2, <3>3, <3>4
  <2>4. QED
    BY <2>1, <2>3 DEF BufInv
<1>8. ASSUME NEW d \in Client, HangUp(d)
      PROVE  BufInv'
  <2>1. UNCHANGED <<at, served, got, buf, rx, asked>>
    BY <1>8 DEF HangUp, serverVars
  <2>2. \A c : Consumed(c)' = Consumed(c)
    BY <2>1 DEF Consumed
  <2>3. QED
    BY <1>1, <2>1, <2>2 DEF BufInv
<1>9. QED
  BY <1>4, <1>5, <1>6, <1>7, <1>8 DEF Next, ServerStep, ClientStep

LEMMA ReplyStep ==
  ASSUME ServerInv, Next
  PROVE  ReplyInv'
<1>1. TypeOK /\ ReplyInv /\ served \subseteq Client /\ got \in Nat
  BY ServerFacts DEF ServerInv
<1>2. asked \in [Client -> Seq(Seq(Byte))]
  BY <1>1 DEF TypeOK
<1>3. \A c \in Client : asked[c] \in Seq(Seq(Byte))
  BY <1>2
<1>4. CASE Accept \/ Read \/ ReadEnd \/ ReadTimeout \/ Drop \/ Send \/ SendLate \/ SendFails \/ SendKills \/ Close
  <2>1. at' # "send"
    BY <1>4 DEF Accept, Read, ReadEnd, ReadTimeout, Drop, Send, SendLate, SendFails, SendKills, Close, Goto
  <2>2. QED
    BY <2>1 DEF ReplyInv
<1>5. CASE Parse
  <2>1. UNCHANGED <<served, got, rx, asked>>
    BY <1>5 DEF Parse, netVars
  <2>2. \A c : Consumed(c)' = Consumed(c)
    BY <2>1 DEF Consumed
  <2>3. got >= 1 /\ \A c \in served : size' # 0 => ReplyOK(Reply', asked[c], Consumed(c) - got)
    BY <1>5, ParseFacts
  <2>4. QED
    BY <2>1, <2>2, <2>3 DEF ReplyInv
<1>6. ASSUME NEW d \in Client, Connect(d)
      PROVE  ReplyInv'
  <2>1. /\ UNCHANGED <<at, served, got, rx, size, parseResult>>
        /\ \A c \in served : asked'[c] = asked[c]
    BY <1>1, <1>6, ConnectFacts DEF serverVars
  <2>2. (\A c \in served : Consumed(c)' = Consumed(c)) /\ Reply' = Reply
    BY <2>1 DEF Consumed, Reply
  <2>3. QED
    BY <1>1, <2>1, <2>2 DEF ReplyInv
<1>7. ASSUME NEW d \in Client, Ask(d)
      PROVE  ReplyInv'
  <2>1. UNCHANGED <<at, served, got, size, parseResult>> /\ Reply' = Reply
    BY <1>7 DEF Ask, serverVars, Reply
  <2>2. PICK r : r \in Seq(Byte) /\ asked' = [asked EXCEPT ![d] = Append(@, r)]
    BY <1>1, <1>7, AskFacts
  <2>3. ASSUME NEW c \in served, at = "send", size # 0
        PROVE  ReplyOK(Reply', asked'[c], Consumed(c)' - got')
    <3>1. ReplyOK(Reply, asked[c], Consumed(c) - got)
      BY <1>1, <2>3 DEF ReplyInv
    <3>2. c \in Client /\ Consumed(c)' = Consumed(c)
      BY <1>1, <1>7, AskConsumes
    <3>3. ReplyOK(Reply, Append(asked[c], r), Consumed(c) - got)
      BY <1>3, <2>2, <3>1, <3>2, ReplyAsk
    <3>4. asked'[c] = asked[c] \/ asked'[c] = Append(asked[c], r)
      BY <1>2, <2>2, <3>2
    <3>5. QED
      BY <2>1, <3>1, <3>2, <3>3, <3>4
  <2>4. QED
    BY <1>1, <2>1, <2>3 DEF ReplyInv
<1>8. ASSUME NEW d \in Client, HangUp(d)
      PROVE  ReplyInv'
  <2>1. UNCHANGED <<at, served, got, rx, asked, size, parseResult>>
    BY <1>8 DEF HangUp, serverVars
  <2>2. (\A c : Consumed(c)' = Consumed(c)) /\ Reply' = Reply
    BY <2>1 DEF Consumed, Reply
  <2>3. QED
    BY <1>1, <2>1, <2>2 DEF ReplyInv
<1>9. QED
  BY <1>4, <1>5, <1>6, <1>7, <1>8 DEF Next, ServerStep, ClientStep

LEMMA AnswerStep ==
  ASSUME ServerInv, Next
  PROVE  AnswerInv'
<1>1. TypeOK /\ AnswerInv /\ served \subseteq Client /\ got \in Nat
  BY ServerFacts DEF ServerInv
<1>2. /\ asked \in [Client -> Seq(Seq(Byte))] /\ answers \in [Client -> Seq(Seq(Byte))]
      /\ rx \in [Client -> Seq(Byte)]
  BY <1>1 DEF TypeOK
<1>3. \A c \in Client :
        /\ asked[c] \in Seq(Seq(Byte)) /\ Len(asked[c]) \in Nat
        /\ rx[c] \in Seq(Byte) /\ Len(rx[c]) \in Nat
        /\ answers[c] \in Seq(Seq(Byte)) /\ Consumed(c) \in Int /\ Start(c) \in Int
  BY <1>1, ServerFacts
<1>4. \A c \in Client : AnsweredOK(answers[c], asked[c], Start(c))
  BY <1>1 DEF AnswerInv
<1>5. ASSUME UNCHANGED <<asked, answers>>,
             \A c \in Client : Start(c)' \in Int /\ Start(c) <= Start(c)'
      PROVE  AnswerInv'
  <2>1. ASSUME NEW c \in Client
        PROVE  AnsweredOK(answers'[c], asked'[c], Start(c)')
    BY <1>3, <1>4, <1>5, AnsweredLater
  <2>2. QED
    BY <2>1 DEF AnswerInv
(* Nothing is read, and what was read is at most dealt with.               *)
<1>6. ASSUME UNCHANGED <<asked, answers, rx, got>>,
             \/ at' \notin {"parse", "send"}
             \/ at \in {"parse", "send"} /\ served' = served
      PROVE  AnswerInv'
  <2>1. \A c \in Client : Consumed(c)' = Consumed(c)
    BY <1>6 DEF Consumed
  <2>2. ASSUME NEW c \in Client
        PROVE  Start(c)' \in Int /\ Start(c) <= Start(c)'
    BY <1>1, <1>3, <1>6, <2>1 DEF Start
  <2>3. QED
    BY <1>5, <1>6, <2>2
<1>7. CASE Accept
  BY <1>6, <1>7 DEF Accept, Goto
<1>8. CASE Read
  <2>1. PICK c \in served : \E n \in ReadSizes(rx[c]) :
          got' = n /\ rx' = [rx EXCEPT ![c] = SubSeq(@, n + 1, Len(@))]
    BY <1>8 DEF Read
  <2>2. PICK n \in ReadSizes(rx[c]) :
          got' = n /\ rx' = [rx EXCEPT ![c] = SubSeq(@, n + 1, Len(@))]
    BY <2>1
  <2>3. c \in Client /\ asked' = asked /\ answers' = answers /\ served' = served
        /\ at = "read" /\ at' = "parse" /\ n \in 1 .. Len(rx[c])
    BY <1>1, <1>8 DEF Read, ReadSizes, Goto
  <2>4. /\ rx'[c] = SubSeq(rx[c], n + 1, Len(rx[c]))
        /\ \A d \in Client : d # c => rx'[d] = rx[d]
    BY <1>2, <2>2, <2>3
  <2>5. Len(rx'[c]) = Len(rx[c]) - n
    BY <1>3, <2>3, <2>4
  <2>6. Consumed(c)' - n = Consumed(c)
    BY <1>3, <2>3, <2>5 DEF Consumed
  <2>7. Start(c)' = Start(c)
    BY <2>2, <2>3, <2>6 DEF Start
  <2>8. ASSUME NEW d \in Client, d # c
        PROVE  Start(d)' = Start(d)
    <3>1. d \notin served
      BY <1>1, <2>8, ServerFacts
    <3>2. Consumed(d)' = Consumed(d)
      BY <2>3, <2>4, <2>8 DEF Consumed
    <3>3. QED
      BY <2>3, <3>1, <3>2 DEF Start
  <2>9. \A e \in Client : Start(e)' \in Int /\ Start(e) <= Start(e)'
    BY <1>3, <2>7, <2>8
  <2>10. QED
    BY <1>5, <2>3, <2>9
<1>9. CASE ReadEnd
  BY <1>6, <1>9 DEF ReadEnd, Goto, netVars
<1>10. CASE ReadTimeout
  BY <1>6, <1>10 DEF ReadTimeout, Goto, netVars
<1>11. CASE Drop
  BY <1>6, <1>11 DEF Drop, Goto, netVars
<1>12. CASE Parse
  BY <1>6, <1>12 DEF Parse, Goto, netVars
<1>13. CASE Send
  <2>1. PICK c \in served :
          answers' = IF size = 0 THEN answers ELSE [answers EXCEPT ![c] = Append(@, Reply)]
    BY <1>13 DEF Send
  <2>2. /\ UNCHANGED <<asked, rx, got, served>> /\ at = "send" /\ at' = "read" /\ c \in Client
    BY <1>1, <1>13 DEF Send, Goto
  <2>3. CASE size = 0
    BY <1>6, <2>1, <2>2, <2>3
  <2>4. CASE size # 0
    <3>1. got >= 1 /\ ReplyOK(Reply, asked[c], Consumed(c) - got)
      BY <2>2, <2>4 DEF ServerInv, ReplyInv
    <3>2. Start(c) = Consumed(c) - got /\ Start(c)' = Consumed(c)
      BY <2>2 DEF Start, Consumed
    <3>3. answers'[c] = Append(answers[c], Reply) /\ \A d \in Client : d # c => answers'[d] = answers[d]
      BY <1>2, <2>1, <2>2, <2>4
    <3>4. Reply \in Seq(Byte)
      <4>1. size \in Nat /\ RESULT_LEN \in Nat /\ size <= RESULT_LEN
        BY <1>1, Numbers DEF TypeOK
      <4>2. \A j \in 1 .. size : parseResult[j - 1] \in Byte
        BY <1>1, <4>1 DEF TypeOK
      <4>3. QED
        BY <4>1, <4>2 DEF Reply
    <3>5. Start(c) \in Int /\ Consumed(c) \in Int /\ Start(c) < Consumed(c)
      BY <1>1, <1>3, <2>2, <3>1, <3>2
    <3>6. AnsweredOK(answers[c], asked[c], Start(c)) /\ ReplyOK(Reply, asked[c], Start(c))
      BY <1>4, <2>2, <3>1, <3>2
    <3>7. AnsweredOK(Append(answers[c], Reply), asked[c], Consumed(c))
      BY <1>3, <2>2, <3>4, <3>5, <3>6, AnsweredReply
    <3>8. ASSUME NEW d \in Client, d # c
          PROVE  AnsweredOK(answers'[d], asked'[d], Start(d)')
      <4>1. d \notin served /\ Start(d)' = Start(d)
        BY <1>1, <2>2, <3>8, ServerFacts DEF Start, Consumed
      <4>2. QED
        BY <1>4, <2>2, <3>3, <3>8, <4>1
    <3>9. AnsweredOK(answers'[c], asked'[c], Start(c)')
      BY <2>2, <3>2, <3>3, <3>7
    <3>10. QED
      BY <3>8, <3>9 DEF AnswerInv
  <2>5. QED
    BY <2>3, <2>4
<1>14. CASE SendLate
  BY <1>6, <1>14 DEF SendLate, Goto
<1>15. CASE SendFails \/ SendKills
  BY <1>6, <1>15 DEF SendFails, SendKills, Goto, netVars
<1>16. CASE Close
  <2>1. /\ UNCHANGED <<asked, answers>> /\ at = "close" /\ at' = "accept"
        /\ rx' = [c \in Client |-> IF c \in served THEN <<>> ELSE rx[c]]
    BY <1>16 DEF Close, Goto
  <2>2. ASSUME NEW c \in Client
        PROVE  Start(c)' \in Int /\ Start(c) <= Start(c)'
    <3>1. Start(c) = Consumed(c) /\ Start(c)' = Consumed(c)'
      BY <2>1 DEF Start
    <3>2. Len(rx'[c]) \in Nat /\ Len(rx'[c]) <= Len(rx[c])
      BY <1>3, <2>1
    <3>3. QED
      BY <1>3, <2>1, <3>1, <3>2 DEF Consumed
  <2>3. QED
    BY <1>5, <2>1, <2>2
<1>17. ASSUME NEW d \in Client, Connect(d)
       PROVE  AnswerInv'
  <2>1. /\ UNCHANGED <<at, served, got, rx>> /\ asked'[d] = <<>> /\ answers'[d] = <<>>
        /\ \A c \in Client : c # d => asked'[c] = asked[c] /\ answers'[c] = answers[c]
    BY <1>17, ConnectFacts DEF serverVars
  <2>2. \A o : AnsweredOK(<<>>, <<>>, o)
    <3>1. Len(<<>>) = 0 /\ (\A i \in 1 .. 0 : FALSE)
      OBVIOUS
    <3>2. <<>> \in [1 .. 0 -> 1 .. 0]
      OBVIOUS
    <3>3. QED
      BY <3>1, <3>2, Zenon DEF AnsweredOK
  <2>3. ASSUME NEW c \in Client, c # d
        PROVE  Start(c)' = Start(c)
    BY <2>1, <2>3 DEF Start, Consumed
  <2>4. ASSUME NEW c \in Client
        PROVE  AnsweredOK(answers'[c], asked'[c], Start(c)')
    BY <1>4, <2>1, <2>2, <2>3
  <2>5. QED
    BY <2>4 DEF AnswerInv
<1>18. ASSUME NEW d \in Client, Ask(d)
       PROVE  AnswerInv'
  <2>1. UNCHANGED <<at, served, got, answers>>
    BY <1>18 DEF Ask, serverVars
  <2>2. PICK r : r \in Seq(Byte) /\ asked' = [asked EXCEPT ![d] = Append(@, r)]
    BY <1>1, <1>18, AskFacts
  <2>3. ASSUME NEW c \in Client
        PROVE  AnsweredOK(answers'[c], asked'[c], Start(c)')
    <3>1. Start(c)' = Start(c)
      BY <1>1, <1>18, <2>1, AskConsumes DEF Start
    <3>2. AnsweredOK(answers[c], Append(asked[c], r), Start(c))
      BY <1>3, <1>4, <2>2, AnsweredAsk
    <3>3. asked'[c] = asked[c] \/ asked'[c] = Append(asked[c], r)
      BY <1>2, <2>2
    <3>4. QED
      BY <1>4, <2>1, <3>1, <3>2, <3>3
  <2>4. QED
    BY <2>3 DEF AnswerInv
<1>19. ASSUME NEW d \in Client, HangUp(d)
       PROVE  AnswerInv'
  <2>1. UNCHANGED <<at, served, got, rx, asked, answers>>
    BY <1>19 DEF HangUp, serverVars
  <2>2. QED
    BY <1>6, <2>1
<1>20. QED
  BY <1>7, <1>8, <1>9, <1>10, <1>11, <1>12, <1>13, <1>14, <1>15, <1>16, <1>17, <1>18, <1>19
     DEF Next, ServerStep, ClientStep

-----------------------------------------------------------------------------
(* The invariant holds at first and is kept.                               *)

LEMMA ServerInit ==
  ASSUME Init
  PROVE  ServerInv
<1>1. TypeOK
  <2>1. 0 \in Byte /\ 0 \in 0 .. RESULT_LEN /\ 0 \in 0 .. MaxRequests /\ 0 \in 0 .. MaxConnects
    BY Numbers DEF Byte
  <2>2. buf \in [0 .. READ_CMD_LEN - 1 -> Byte] /\ parseResult \in [0 .. RESULT_LEN - 1 -> Byte]
    BY <2>1 DEF Init, BlankBuf
  <2>3. served \in {{}} \cup {{c} : c \in Client}
    BY DEF Init
  <2>4. QED
    BY <2>1, <2>2, <2>3 DEF Init, TypeOK
<1>2. LinkInv
  BY DEF Init, LinkInv
<1>3. ASSUME NEW c \in Client
      PROVE  asked[c] = <<>> /\ rx[c] = <<>> /\ answers[c] = <<>>
  BY DEF Init
<1>4. Len(<<>>) = 0 /\ (\A q \in 1 .. 0 : FALSE) /\ made = 0
  BY DEF Init
<1>5. StreamInv
  <2>1. ASSUME NEW c
        PROVE  AskedOK(<<>>, c)
    BY <1>4, Zenon DEF AskedOK
  <2>2. StreamOK(<<>>, <<>>)
    <3>1. CutOK(12 * 0 - 0)
      <4>1. 0 \in 0 .. 12 * 0 - 0 /\ 12 * 0 - 0 = 12 * 0 + 0
        OBVIOUS
      <4>2. QED
        BY <4>1, Zenon DEF CutOK
    <3>2. 0 <= 12 * 0
      OBVIOUS
    <3>3. QED
      BY <1>4, <3>1, <3>2, Zenon DEF StreamOK
  <2>3. 0 <= 0
    OBVIOUS
  <2>4. QED
    BY <1>3, <1>4, <2>1, <2>2, <2>3, Zenon DEF StreamInv
<1>6. BufInv /\ ReplyInv
  BY DEF Init, BufInv, ReplyInv
<1>7. AnswerInv
  <2>1. ASSUME NEW o
        PROVE  AnsweredOK(<<>>, <<>>, o)
    <3>1. <<>> \in [1 .. 0 -> 1 .. 0]
      OBVIOUS
    <3>2. QED
      BY <1>4, <3>1, Zenon DEF AnsweredOK
  <2>2. QED
    BY <1>3, <2>1, Zenon DEF AnswerInv
<1>8. QED
  BY <1>1, <1>2, <1>5, <1>6, <1>7 DEF ServerInv

LEMMA ServerStutter ==
  ASSUME ServerInv, UNCHANGED vars
  PROVE  ServerInv'
<1>1. TypeOK' /\ LinkInv'
  BY DEF ServerInv, TypeOK, LinkInv, vars, serverVars, netVars
<1>2. StreamInv'
  BY DEF ServerInv, StreamInv, vars, netVars
<1>3. (\A c : Consumed(c)' = Consumed(c) /\ Start(c)' = Start(c)) /\ Reply' = Reply
  BY DEF vars, serverVars, netVars, Consumed, Start, Reply
<1>4. BufInv' /\ ReplyInv' /\ AnswerInv'
  BY <1>3 DEF ServerInv, BufInv, ReplyInv, AnswerInv, vars, serverVars, netVars
<1>5. QED
  BY <1>1, <1>2, <1>4 DEF ServerInv

(***************************************************************************)
(* The invariant of the Modbus server: whatever clients, requests, cuts    *)
(* and hang-ups there are, each byte the server holds or answers has its   *)
(* place in the stream of the client it serves.                            *)
(***************************************************************************)
THEOREM ServerInvariant == Spec => []ServerInv
<1>1. ServerInv /\ [Next]_vars => ServerInv'
  BY TypeStep, LinkStep, StreamStep, BufStep, ReplyStep, AnswerStep, ServerStutter, Zenon
     DEF ServerInv
<1>2. QED
  BY ServerInit, <1>1, PTL DEF Spec

(***************************************************************************)
(* Every variable of the Modbus server keeps its type: whatever length a   *)
(* command asks for, no more is sent than the reply buffer holds.          *)
(***************************************************************************)
THEOREM ServerTyped == Spec => []TypeOK
<1>1. ServerInv => TypeOK
  BY DEF ServerInv
<1>2. QED
  BY <1>1, ServerInvariant, PTL

(***************************************************************************)
(* A client gets answers to its own requests only, in order and each at    *)
(* most once, whatever TCP does to the stream of its requests.             *)
(***************************************************************************)
THEOREM AnswersGenuine == Spec => []RepliesGenuine
<1>1. ServerInv => RepliesGenuine
  BY Zenon DEF ServerInv, AnswerInv, AnsweredOK, RepliesGenuine
<1>2. QED
  BY <1>1, ServerInvariant, PTL

(* The reply with the m registers that r asks for.                         *)
ReadReply(r, m) ==
  <<r[1], r[2], 0, 0, 0, 3 + 2 * m, r[7], r[8], 2 * m>> \o Registers(r[10], m)

(* The answer to a register read: m registers, and what its head says.     *)
LEMMA ReadAnswer ==
  ASSUME NEW r \in Seq(Byte), Len(r) = 12, r[8] = READ_HOLDING_REGISTERS,
         NEW w, w = 256 * r[11] + r[12],
         NEW m \in Nat, m = IF w < REGISTERS THEN w ELSE REGISTERS
  PROVE  Answer(r) = ReadReply(r, m) /\ Answer(r)[9] = 2 * m
<1> DEFINE head == <<r[1], r[2], 0, 0, 0, 3 + 2 * m, r[7], r[8], 2 * m>>
           tail == Registers(r[10], m)
<1>1. \A i \in 1 .. 12 : r[i] \in Byte
  BY ElementOfSeq
<1>2. Answer(r) = head \o tail
  <2>1. Answer(r) = LET k == IF w < REGISTERS THEN w ELSE REGISTERS
                    IN  <<r[1], r[2], 0, 0, 0, 3 + 2 * k, r[7], r[8], 2 * k>>
                          \o Registers(r[10], k)
    BY SMTT(30) DEF Answer, READ_HOLDING_REGISTERS, READ_DISCRETE_INPUTS
  <2>2. QED
    BY <2>1
<1>3. head \in Seq(Int) /\ Len(head) = 9
  <2>1. r[1] \in Int /\ r[2] \in Int /\ r[7] \in Int /\ r[8] \in Int
    <3>1. r[1] \in Byte /\ r[2] \in Byte /\ r[7] \in Byte /\ r[8] \in Byte
      BY <1>1
    <3>2. \A v \in Byte : v \in Int
      BY DEF Byte
    <3>3. QED
      BY <3>1, <3>2, Zenon
  <2>2. 3 + 2 * m \in Int /\ 2 * m \in Int
    BY SMTT(30)
  <2>3. QED
    BY <2>1, <2>2
<1>4. tail \in Seq(Int)
  <2>1. PICK a \in Byte : a = r[10]
    BY <1>1
  <2>2. tail = [i \in 1 .. 2 * m |-> analogValueBytes(2 * a + i - 1)]
    BY <2>1 DEF Registers
  <2>3. \A i \in 1 .. 2 * m : analogValueBytes(2 * a + i - 1) \in Int
    BY DEF analogValueBytes, Byte
  <2> HIDE DEF tail
  <2>4. 2 * m \in Nat
    OBVIOUS
  <2>5. QED
    BY <2>2, <2>3, <2>4, SMTT(30)
<1> HIDE DEF tail
<1>5. head[9] = 2 * m
  OBVIOUS
<1> HIDE DEF head
<1>6. (head \o tail)[9] = head[9]
  <2>1. Len(tail) \in Nat
    BY <1>4
  <2>2. 9 \in 1 .. Len(head) + Len(tail)
    BY <1>3, <2>1
  <2>3. (head \o tail)[9] = IF 9 <= Len(head) THEN head[9] ELSE tail[9 - Len(head)]
    BY <1>3, <1>4, <2>2, ConcatProperties, Zenon
  <2>4. QED
    BY <1>3, <2>3
<1>7. QED
  BY <1>2, <1>5, <1>6 DEF head, tail, ReadReply

(* A cut that leaves any register asked for leaves the answer as it is.    *)
LEMMA CutAnswer ==
  ASSUME NEW r \in Seq(Byte), Len(r) = 12, NEW n \in 8 .. READ_CMD_LEN,
         NEW x, x = Answer(CutAt(r, n)), x[8] = READ_HOLDING_REGISTERS, x[9] > 0
  PROVE  x = Answer(r)
<1> DEFINE t == CutAt(r, n)
<1>1. n \in 8 .. 12 /\ REGISTERS \in 1 .. 36
  BY Numbers
<1>2. \A i \in 1 .. 12 : r[i] \in Byte
  BY ElementOfSeq
<1>3. t = [i \in 1 .. 12 |-> IF i <= n THEN r[i] ELSE 0]
  BY Numbers DEF CutAt
<1> HIDE DEF t
<1>4. /\ t \in Seq(Byte) /\ Len(t) = 12
      /\ \A i \in 1 .. 12 : t[i] = (IF i <= n THEN r[i] ELSE 0) /\ t[i] \in Byte
  <2>1. 0 \in Byte
    BY DEF Byte
  <2>2. QED
    BY <1>2, <1>3, <2>1
<1>5. /\ t[1] = r[1] /\ t[2] = r[2] /\ t[7] = r[7] /\ t[8] = r[8]
      /\ n >= 10 => t[10] = r[10]
      /\ n >= 11 => t[11] = r[11]
      /\ n = 12 => t[12] = r[12]
      /\ n < 11 => t[11] = 0
      /\ n < 12 => t[12] = 0
  BY <1>1, <1>4
<1>6. t[8] = READ_HOLDING_REGISTERS
  <2>1. CASE t[8] = READ_DISCRETE_INPUTS
    <3>1. Answer(t) = <<t[1], t[2], 0, 0, 0, 4, t[7], t[8], 1, 0>>
      BY <2>1 DEF Answer, READ_HOLDING_REGISTERS, READ_DISCRETE_INPUTS
    <3>2. Answer(t)[8] = t[8]
      BY <3>1
    <3>3. QED
      BY <3>2 DEF t
  <2>2. CASE t[8] # READ_DISCRETE_INPUTS /\ t[8] # READ_HOLDING_REGISTERS
    <3>1. Answer(t) = t
      BY <2>2 DEF Answer
    <3>2. QED
      BY <3>1 DEF t
  <2>3. QED
    BY <2>1, <2>2
<1>7. PICK h \in Byte, l \in Byte, h1 \in Byte, l1 \in Byte :
        h = r[11] /\ l = r[12] /\ h1 = t[11] /\ l1 = t[12]
  <2>1. r[11] \in Byte /\ r[12] \in Byte /\ t[11] \in Byte /\ t[12] \in Byte
    BY <1>2, <1>4
  <2>2. QED
    BY <2>1
<1> DEFINE w == 256 * h + l
           w1 == 256 * h1 + l1
           m == IF w < REGISTERS THEN w ELSE REGISTERS
           m1 == IF w1 < REGISTERS THEN w1 ELSE REGISTERS
<1>8. m \in Nat /\ m1 \in Nat
  BY <1>1 DEF Byte
<1>9. Answer(t) = ReadReply(t, m1) /\ Answer(t)[9] = 2 * m1
  <2>1. w1 = 256 * t[11] + t[12]
    BY <1>7
  <2> HIDE DEF w1
  <2>2. m1 = IF w1 < REGISTERS THEN w1 ELSE REGISTERS
    OBVIOUS
  <2> HIDE DEF m1
  <2>3. t \in Seq(Byte) /\ Len(t) = 12 /\ m1 \in Nat
    BY <1>4, <1>8
  <2>4. QED
    BY <1>6, <2>1, <2>2, <2>3, ReadAnswer, SMTT(30)
<1>10. Answer(r) = ReadReply(r, m)
  <2>1. w = 256 * r[11] + r[12]
    BY <1>7
  <2> HIDE DEF w
  <2>2. m = IF w < REGISTERS THEN w ELSE REGISTERS
    OBVIOUS
  <2> HIDE DEF m
  <2>3. r[8] = READ_HOLDING_REGISTERS
    BY <1>5, <1>6
  <2>4. QED
    BY <1>8, <2>1, <2>2, <2>3, ReadAnswer
<1>11. 2 * m1 > 0
  BY <1>9 DEF t
<1>12. n >= 11 /\ m = m1
  <2>1. h \in 0 .. 255 /\ l \in 0 .. 255 /\ h1 \in 0 .. 255 /\ l1 \in 0 .. 255
    BY DEF Byte
  <2>2. h1 # 0 \/ l1 # 0
    BY <1>1, <1>11, <2>1
  <2>3. n >= 11
    BY <1>1, <1>5, <1>7, <2>2
  <2>4. h1 = h
    BY <1>5, <1>7, <2>3
  <2>5. CASE n = 12
    BY <1>5, <1>7, <2>3, <2>4, <2>5
  <2>6. CASE n < 12
    <3>0. l1 = 0
      BY <1>5, <1>7, <2>6
    <3>1. h1 >= 1
      BY <2>1, <2>2, <3>0
    <3>2. ~(256 * h + l < REGISTERS) /\ ~(256 * h1 + l1 < REGISTERS)
      BY <1>1, <2>1, <2>4, <3>1
    <3>3. QED
      BY <2>3, <3>2
  <2>7. QED
    BY <1>1, <2>5, <2>6
<1> HIDE DEF m, m1
<1>13. t[10] = r[10]
  BY <1>1, <1>5, <1>12
<1>14. Answer(t) = Answer(r)
  BY <1>5, <1>9, <1>10, <1>12, <1>13 DEF ReadReply
<1>15. QED
  BY <1>14 DEF t

(***************************************************************************)
(* A reply that carries registers carries as many as were asked for, up to *)
(* the size of the map, even if TCP cut the request.                       *)
(***************************************************************************)
THEOREM ReadsComplete == Spec => []RegistersComplete
<1>1. ASSUME ServerInv
      PROVE  RegistersComplete
  <2> SUFFICES ASSUME NEW c \in Client, NEW i \in 1 .. Len(answers[c]),
                      answers[c][i][8] = READ_HOLDING_REGISTERS, answers[c][i][9] > 0
               PROVE  \E j \in 1 .. Len(asked[c]) : answers[c][i] = Answer(asked[c][j])
    BY DEF RegistersComplete
  <2>1. AnsweredOK(answers[c], asked[c], Start(c))
    BY <1>1 DEF ServerInv, AnswerInv
  <2>2. PICK j \in 1 .. Len(asked[c]), n \in 8 .. READ_CMD_LEN :
          answers[c][i] = Answer(CutAt(asked[c][j], n))
    BY <2>1 DEF AnsweredOK
  <2>3. Framed(asked[c][j])
    <3>1. AskedOK(asked[c], c) /\ Len(asked[c]) \in Nat
      BY <1>1, ServerFacts DEF ServerInv, StreamInv
    <3>2. QED
      BY <3>1, AskedFramed
  <2>4. answers[c][i] = Answer(asked[c][j])
    BY <2>2, <2>3, CutAnswer DEF Framed
  <2>5. QED
    BY <2>4
<1>2. QED
  BY <1>1, ServerInvariant, PTL
=============================================================================
