---------------------------- MODULE SerialReader ----------------------------
(***************************************************************************)
(* Usart_init of src/usart.cpp: open the RS485 port, set its speed and     *)
(* line format, then read messages and publish three characters of each in *)
(* speed_value.  main() does not start this thread.                        *)
(***************************************************************************)
EXTENDS Checksums

CONSTANTS
  Messages,    \* what the device may send at once, byte sequences
  BUF          \* bytes of usart_buf that matter (1024)

ASSUME MessagesAssumption == Messages \subseteq Seq(0 .. 255)

VARIABLES
  usart,         \* "open", "speed", "parity", "read" or "exited"
  opened,        \* did open() succeed?
  line,          \* the termios settings of the port
  asked,         \* the arguments of set_Parity
  usart_buf, message, speed_value

serialVars == <<usart, opened, line, asked, usart_buf, message, speed_value>>

Termios == [CSIZE : {7, 8}, PARENB : BOOLEAN, PARODD : BOOLEAN, CSTOPB : BOOLEAN,
            INPCK : BOOLEAN, speed : {9600, 38400}]
(* "o", "e" and "s" stand for both of their cases, "x" for the unknown     *)
(* letters; Usart_init itself asks for 8 data bits, 1 stop bit and "N".    *)
Format == [databits : {5, 7, 8}, stopbits : 1 .. 3, parity : {"n", "N", "o", "e", "s", "x"}]

(* The port keeps whatever settings its last user left.                    *)
SerialInit ==
  /\ usart = "open" /\ opened = FALSE /\ line \in Termios /\ asked \in Format
  /\ usart_buf = [k \in 1 .. BUF |-> 0] /\ message = <<>> /\ speed_value = <<0, 0, 0>>

(* Errors are printed and ignored.                                         *)
OpenPort ==
  /\ usart = "open"
  /\ opened' \in BOOLEAN /\ usart' = "speed"
  /\ UNCHANGED <<line, asked, usart_buf, message, speed_value>>

(* set_speed: without a port tcsetattr fails, which nobody notices.        *)
SetSpeed ==
  /\ usart = "speed"
  /\ line' = IF opened THEN [line EXCEPT !.speed = 9600] ELSE line
  /\ usart' = "parity"
  /\ UNCHANGED <<opened, asked, usart_buf, message, speed_value>>

-----------------------------------------------------------------------------
(* The first switch of set_Parity: "s" sets no parity and one stop bit.    *)
WithParity(o, parity) ==
  CASE parity \in {"n", "N"} -> [o EXCEPT !.PARENB = FALSE, !.INPCK = FALSE]
    [] parity = "o" -> [o EXCEPT !.PARENB = TRUE, !.PARODD = TRUE, !.INPCK = TRUE]
    [] parity = "e" -> [o EXCEPT !.PARENB = TRUE, !.PARODD = FALSE, !.INPCK = TRUE]
    [] OTHER -> [o EXCEPT !.PARENB = FALSE, !.CSTOPB = FALSE]

Supported(f) == f.databits \in {7, 8} /\ f.parity # "x" /\ f.stopbits \in {1, 2}

(* Mutant: the stop bits of the last user are kept.                        *)
FormattedKept(o, f) == [WithParity(o, f.parity) EXCEPT !.CSIZE = f.databits]

(* set_Parity's effect.  Every letter but "n" turns the input check on,    *)
(* "N" too, for which the switch has just turned it off.                   *)
Formatted(o, f) ==
  [WithParity(o, f.parity) EXCEPT
     !.CSIZE = f.databits, !.CSTOPB = (f.stopbits = 2),
     !.INPCK = @ \/ f.parity # "n"]

(* On failure the whole process exits.                                     *)
SetParity ==
  /\ usart = "parity"
  /\ IF opened /\ Supported(asked)
     THEN line' = Formatted(line, asked) /\ usart' = "read"
     ELSE line' = line /\ usart' = "exited"
  /\ UNCHANGED <<opened, asked, usart_buf, message, speed_value>>

(* A short message leaves the tail of the one before it.                   *)
Overwritten(bytes) ==
  [k \in 1 .. BUF |-> IF k <= Len(bytes) THEN bytes[k] ELSE usart_buf[k]]

ReadMessage(bytes) ==
  /\ usart = "read"
  /\ usart_buf' = Overwritten(bytes) /\ message' = bytes
  /\ speed_value' = SubSeq(usart_buf', 2, 4)
  /\ UNCHANGED <<usart, opened, line, asked>>

SerialNext == OpenPort \/ SetSpeed \/ SetParity \/ \E m \in Messages : ReadMessage(m)

SerialSpec == SerialInit /\ [][SerialNext]_serialVars

-----------------------------------------------------------------------------
(***************************************************************************)
(* The thread reads only from a port set to 9600 baud and to the format    *)
(* asked for, whatever the settings before.  The input check is off for    *)
(* "n" and on for every other letter, so parity is checked whenever it is  *)
(* on, and the check is on with no parity for "N" and "s".  Without a      *)
(* port, or for a format it does not know, it has ended the process        *)
(* instead.                                                                *)
(***************************************************************************)
LineAsAsked ==
  usart = "read" =>
    /\ opened /\ line.speed = 9600
    /\ line.CSIZE = asked.databits /\ line.CSTOPB = (asked.stopbits = 2)
    /\ line.PARENB = (asked.parity \in {"o", "e"})
    /\ line.PARENB => line.PARODD = (asked.parity = "o")
    /\ line.INPCK = (asked.parity # "n")

(***************************************************************************)
(* getModbusCRC16 and crc_high_first give the remainders that their        *)
(* polynomials define.  The reader computes neither: its messages stand    *)
(* for what any caller may pass.                                           *)
(***************************************************************************)
Bits(bytes) == [k \in DOMAIN bytes |-> BitsOf(bytes[k])]
ChecksumsAreRemainders == AreRemainders(Bits(message))

(***************************************************************************)
(* Whatever is framed with getModbusCRC16, as the boards frame what they   *)
(* send, the receivers' test accepts it, and refuses it after one          *)
(* disturbance of at most 16 bits in a row, wherever it hits, the checksum *)
(* included.                                                               *)
(***************************************************************************)
BurstsDetected == DetectsBursts(Bits(message))
=============================================================================
