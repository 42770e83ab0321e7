----------------------------- MODULE MCFieldbus -----------------------------
(***************************************************************************)
(* Instances of the two field bus threads.  They share no state, so a      *)
(* behaviour is one of the TCP client or one of the RS485 reader.          *)
(***************************************************************************)
EXTENDS TcpClient, SerialReader

VARIABLE unit

Init == ClientInit /\ SerialInit /\ unit \in {"tcp", "serial"}
          /\ (unit = "tcp" => asked = [databits |-> 8, stopbits |-> 1, parity |-> "N"]
                              /\ line = CHOOSE o \in Termios : TRUE)
          /\ (unit = "serial" => boardUp)

Next ==
  \/ unit = "tcp" /\ ClientNext /\ UNCHANGED <<serialVars, unit>>
  \/ unit = "serial" /\ SerialNext /\ UNCHANGED <<tcpVars, unit>>

Spec == Init /\ [][Next]_<<tcpVars, serialVars, unit>>
             /\ (unit = "tcp" => ClientFairness)

(***************************************************************************)
(* A client that runs comes back to the board: Reconnects of TcpClient.    *)
(***************************************************************************)
ClientReconnects == unit = "tcp" => Reconnects

SomeMessages == UNION {[1 .. n -> {0, 165}] : n \in 1 .. 3} \cup {<<1, 2, 3, 4>>, <<255, 128, 64, 32, 16>>}

(* One bit, the two ends, the taps of the polynomial, all 16.              *)
SomeBursts == {{0}, {0, 15}, {0, 13, 15}, 0 .. 15}
=============================================================================
