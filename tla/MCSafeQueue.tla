---------------------------- MODULE MCSafeQueue ----------------------------
(***************************************************************************)
(* Instances of SafeQueue: two producers and two consumers.                *)
(***************************************************************************)
EXTENDS SafeQueue

CONSTANTS p1, p2, c1, c2
=============================================================================
