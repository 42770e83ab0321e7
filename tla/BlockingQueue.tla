--------------------------- MODULE BlockingQueue ---------------------------
(***************************************************************************)
(* What a blocking queue promises, with no lock and no condition variable: *)
(* items come out in the order they went in, each exactly once, and taking *)
(* waits while there is none.                                              *)
(***************************************************************************)
EXTENDS Sequences

CONSTANT Values

VARIABLES items, taken

Init == items = <<>> /\ taken = <<>>

Put(v) == items' = Append(items, v) /\ UNCHANGED taken

Take ==
  /\ items # <<>>
  /\ taken' = Append(taken, Head(items))
  /\ items' = Tail(items)

Next == Take \/ \E v \in Values : Put(v)

Spec == Init /\ [][Next]_<<items, taken>>
=============================================================================
