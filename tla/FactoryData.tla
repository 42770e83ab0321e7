---------------------------- MODULE FactoryData ----------------------------
(***************************************************************************)
(* The state every thread of the collector shares: Factory_data_map, the   *)
(* std::map<string,double> of src/main.cpp that the board threads fill and *)
(* the Modbus thread reads, and the words that travel through it.          *)
(*                                                                         *)
(* A word stands for the four bytes of one float.  Words carry the board,  *)
(* the frame number and the channel they were sampled on, so that a        *)
(* property can say where a stored value comes from.                       *)
(***************************************************************************)
EXTENDS Integers, FiniteSets

CONSTANTS
  IP_NUM,       \* Factory_map["IP_NUM"]: boards configured for the workshop
  ChannelNum,   \* Factory_map["Channel<n>"]: channels used on board n
  WORDS         \* channels a board samples and sends in one frame (8)

(***************************************************************************)
(* main() numbers the boards with a single character ('0' + i + 1), so a   *)
(* tenth board has no key; a frame has no word past WORDS.                 *)
(***************************************************************************)
ASSUME BoardsAssumption ==
  /\ IP_NUM \in 1 .. 9
  /\ WORDS \in Nat \ {0}
  /\ ChannelNum \in [1 .. IP_NUM -> 0 .. WORDS]

VARIABLE Factory_data_map

Board == 1 .. IP_NUM

(* The key "IP<n>Channel<h>".                                              *)
Key == {k \in Board \X (1 .. WORDS) : k[2] <= ChannelNum[k[1]]}

(* A cell: a tag, and for a sampled word its board, frame and channel.     *)
Cell == {"absent", "zero", "head", "word", "crc", "bad", "junk"} \X Nat \X Nat \X Nat

Absent        == <<"absent", 0, 0, 0>>   \* no such key in the map
Zero          == <<"zero", 0, 0, 0>>     \* the float 0.0, four zero bytes
Junk          == <<"junk", 0, 0, 0>>     \* uninitialised stack memory
Word(b, s, h) == <<"word", b, s, h>>     \* channel h of frame s of board b

(* The frame a stored cell was sampled in; 0 when it is not a sample.      *)
SeqOf(c) == c[3]

-----------------------------------------------------------------------------
(* The three operations of std::map the program uses.  Each takes a map    *)
(* and yields the map the call leaves behind.                              *)

(* insert() keeps the value of a key that is already there.                *)
MapInsert(m, k, v) == IF m[k] = Absent THEN [m EXCEPT ![k] = v] ELSE m

(* m[k] = v                                                                *)
MapAssign(m, k, v) == [m EXCEPT ![k] = v]

(* Mutant: reading default-constructs the element every time.              *)
MapReset(m, k) == MapAssign(m, k, Zero)

(* Reading m[k] default-constructs a missing element.                      *)
MapSubscript(m, k) == MapInsert(m, k, Zero)

MapInit == Factory_data_map = [k \in Key |-> Absent]
============================================================================
