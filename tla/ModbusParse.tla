---------------------------- MODULE ModbusParse ----------------------------
(***************************************************************************)
(* parseModbusCommand of src/modbus.cpp: what one received command makes   *)
(* of the reply buffer, byte by byte.  The buffer is a global that keeps   *)
(* whatever earlier replies left in it.                                    *)
(***************************************************************************)
EXTENDS Integers, Sequences

CONSTANTS
  REGISTERS,   \* holding registers of the image, and the most one read gets (36)
  RESULT_LEN   \* bytes of parseResult (100)

ASSUME ParseAssumption ==
  /\ REGISTERS \in 1 .. 36
  /\ RESULT_LEN \in Nat /\ RESULT_LEN >= 12
  /\ 9 + 2 * REGISTERS <= RESULT_LEN

READ_DISCRETE_INPUTS   == 2
READ_HOLDING_REGISTERS == 3
WRITE_SINGLE_COIL      == 5

Byte == 0 .. 255
WordAt(cmd, i) == 256 * cmd[i] + cmd[i + 1]

Address(cmd) == WordAt(cmd, 8)
Length(cmd)  == WordAt(cmd, 10)

(* Mutant: a read longer than the register map is not cut.                 *)
AllRegisters(n) == n

(* At most REGISTERS registers are answered.                               *)
CutLength(n) == IF n > REGISTERS THEN REGISTERS ELSE n

(* Byte j of analogValueBytes: register j \div 2, high byte first.  The    *)
(* values stand for themselves here; AnalogReader is about them.           *)
analogValueBytes(j) == 100 + j

(***************************************************************************)
(* A command that is not Modbus, or whose length field is not the number   *)
(* of bytes that follow, leaves the reply buffer alone.                    *)
(***************************************************************************)
Refused(cmd, comLength) ==
  \/ cmd[2] # 0 \/ cmd[3] # 0
  \/ WordAt(cmd, 4) # comLength - 6

(* Writing a run of bytes into the buffer.                                 *)
Put(result, from, bytes) ==
  [j \in DOMAIN result |->
     IF j - from + 1 \in DOMAIN bytes THEN bytes[j - from + 1] ELSE result[j]]

(* The reply header, written before the function code is looked at.        *)
Stamped(result, cmd) == Put(Put(result, 0, <<cmd[0], cmd[1], 0, 0>>), 6, <<cmd[6]>>)

(* The function code and the rest of a reply, with its length field.       *)
Replied(result, high, low, bytes) == Put(Put(result, 4, <<high, low>>), 7, bytes)

CoilReply(result, cmd) ==
  Replied(result, cmd[4], cmd[5],
          <<WRITE_SINGLE_COIL, cmd[8], cmd[9], cmd[10], cmd[11]>>)

DiscreteReply(result) == Replied(result, 0, 4, <<READ_DISCRETE_INPUTS, 1, 0>>)

RegisterBytes(first, n) == [j \in 1 .. 2 * n |-> analogValueBytes(2 * first + j - 1)]

(* Mutant: the address counts bytes, not registers.                        *)
HoldingFromByte(result, cmd) ==
  LET n == CutLength(Length(cmd))
  IN  Put(Replied(result, (3 + 2 * n) \div 256, (3 + 2 * n) % 256,
                  <<READ_HOLDING_REGISTERS, 2 * n>>),
          9, [j \in 1 .. 2 * n |-> analogValueBytes(Address(cmd) + j - 1)])

HoldingReply(result, cmd) ==
  LET n == CutLength(Length(cmd))
  IN  Put(Replied(result, (3 + 2 * n) \div 256, (3 + 2 * n) % 256,
                  <<READ_HOLDING_REGISTERS, 2 * n>>),
          9, RegisterBytes(Address(cmd), n))

(* What the call leaves in parseResult and in size; size 0: no reply.      *)
Parsed(result, size) == [result |-> result, size |-> size]

parseModbusCommand(cmd, comLength, before) ==
  LET result == Stamped(before, cmd)
  IN  CASE Refused(cmd, comLength) -> Parsed(before, 0)
        [] ~Refused(cmd, comLength) /\ cmd[7] = WRITE_SINGLE_COIL /\ Address(cmd) <= 3 ->
             Parsed(CoilReply(result, cmd), 12)
        [] ~Refused(cmd, comLength) /\ cmd[7] = READ_DISCRETE_INPUTS
             /\ Address(cmd) + Length(cmd) <= 4 ->
             Parsed(DiscreteReply(result), 10)
        [] ~Refused(cmd, comLength) /\ cmd[7] = READ_HOLDING_REGISTERS ->
             Parsed(HoldingReply(result, cmd), 9 + 2 * CutLength(Length(cmd)))
        [] OTHER -> Parsed(result, 0)
=============================================================================
