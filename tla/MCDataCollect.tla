--------------------------- MODULE MCDataCollect ---------------------------
(***************************************************************************)
(* Instances of DataCollect for TLC.                                       *)
(***************************************************************************)
EXTENDS DataCollect

(* One board with two channels in use; two boards with one and two.        *)
OneBoard == <<2>>
TwoBoards == <<1, 2>>
============================================================================
