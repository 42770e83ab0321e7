----------------------------- MODULE BoardFeed -----------------------------
(***************************************************************************)
(* What the collector promises a reader of its registers, with no socket,  *)
(* buffer, thread or checksum in sight: every channel has one register, it *)
(* is blank or holds a sample its own board sent for that very channel,    *)
(* and it only ever moves to a newer sample.                               *)
(***************************************************************************)
EXTENDS Integers

CONSTANTS
  Boards,
  Registers   \* pairs of a board and one of its channels

VARIABLES bank, sent

(* The sample of channel h in the s-th frame of board b.                   *)
Sample(b, s, h) == <<"word", b, s, h>>
Blank == <<"zero", 0, 0, 0>>

Init ==
  /\ bank = [r \in Registers |-> Blank]
  /\ sent = [b \in Boards |-> 0]

Emit(b) ==
  /\ sent' = [sent EXCEPT ![b] = @ + 1]
  /\ UNCHANGED bank

Publish(r) ==
  /\ \E s \in 1 .. sent[r[1]] :
       /\ s > bank[r][3]
       /\ bank' = [bank EXCEPT ![r] = Sample(r[1], s, r[2])]
  /\ UNCHANGED sent

Next == (\E b \in Boards : Emit(b)) \/ (\E r \in Registers : Publish(r))

Spec == Init /\ [][Next]_<<bank, sent>>
============================================================================
