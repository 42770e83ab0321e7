--------------------------- MODULE MCModbusServer ---------------------------
(***************************************************************************)
(* Instances of the Modbus server: a register read, one that asks for more *)
(* than the map holds, a coil write, a read of inputs, and a function the  *)
(* server does not know.                                                   *)
(***************************************************************************)
EXTENDS ModbusServer, TLC

Read2  == [fn |-> 3, addr |-> 1, len |-> 2]
ReadIn == [fn |-> 2, addr |-> 1, len |-> 3]
Read4  == [fn |-> 3, addr |-> 0, len |-> 4]
Coil   == [fn |-> 5, addr |-> 2, len |-> 0]
Other  == [fn |-> 6, addr |-> 0, len |-> 1]

(* Client 0 and client 1.                                                  *)
TwoClients == (0 :> {Read2, Coil, Other}) @@ (1 :> {Read4, ReadIn})
OneClient  == (0 :> {Read2})
=============================================================================
