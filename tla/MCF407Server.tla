---------------------------- MODULE MCF407Server ----------------------------
(***************************************************************************)
(* Instances of the board threads on their own.                            *)
(***************************************************************************)
EXTENDS F407Server

OneBoard == <<2>>
TwoBoards == <<1, 2>>
=============================================================================
