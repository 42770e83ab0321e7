---------------------------- MODULE AnalogReader ----------------------------
(***************************************************************************)
(* getAnalogValueBytes of src/modbus.cpp: the Modbus thread walks the      *)
(* configured channels, copies their values out of Factory_data_map into a *)
(* local array and converts the array into the register image it answers   *)
(* from.                                                                   *)
(***************************************************************************)
EXTENDS FactoryData

CONSTANT IMAGE_LEN   \* floats in analogValueBytes (18)

(* The local array must hold every configured channel.                     *)
ASSUME ImageAssumption == IMAGE_LEN \in Nat /\ Cardinality(Key) <= IMAGE_LEN

VARIABLES
  polling,           \* is a read request being answered?
  board, slot,       \* the loop variables n and k
  count,             \* next entry of the local array
  analogValues,      \* the local array
  analogValueBytes   \* the register image (global)

readerVars == <<polling, board, slot, count, analogValues, analogValueBytes>>

ReaderInit ==
  /\ polling = FALSE
  /\ board = 1 /\ slot = 1 /\ count = 0
  /\ analogValues = [i \in 0 .. IMAGE_LEN - 1 |-> Junk]
  /\ analogValueBytes = [i \in 0 .. IMAGE_LEN - 1 |-> Zero]

(* The array lives on the stack and is not initialised.                    *)
FreshLocals == [i \in 0 .. IMAGE_LEN - 1 |-> Junk]

(* Mutant: the count of the last request is kept.                          *)
PollStartKept ==
  /\ ~polling
  /\ polling' = TRUE
  /\ board' = 1 /\ slot' = 1
  /\ analogValues' = FreshLocals
  /\ UNCHANGED <<count, analogValueBytes, Factory_data_map>>

PollStart ==
  /\ ~polling
  /\ polling' = TRUE
  /\ board' = 1 /\ slot' = 1 /\ count' = 0
  /\ analogValues' = FreshLocals
  /\ UNCHANGED <<analogValueBytes, Factory_data_map>>

(* Mutant: reading a sample takes it out of the map.                       *)
SampleTaken ==
  /\ polling
  /\ board \in Board /\ slot <= ChannelNum[board]
  /\ analogValues' = [analogValues EXCEPT ![count] =
       MapSubscript(Factory_data_map, <<board, slot>>)[<<board, slot>>]]
  /\ Factory_data_map' = MapAssign(Factory_data_map, <<board, slot>>, Zero)
  /\ slot' = slot + 1 /\ count' = count + 1
  /\ UNCHANGED <<polling, board, analogValueBytes>>

(* One pass of the inner loop: the subscript creates a missing key.        *)
Sample ==
  /\ polling
  /\ board \in Board /\ slot <= ChannelNum[board]
  /\ Factory_data_map' = MapSubscript(Factory_data_map, <<board, slot>>)
  /\ analogValues' =
       [analogValues EXCEPT ![count] = Factory_data_map'[<<board, slot>>]]
  /\ slot' = slot + 1 /\ count' = count + 1
  /\ UNCHANGED <<polling, board, analogValueBytes>>

(* Mutant: the count starts again with every board.                        *)
NextBoardRecounts ==
  /\ polling
  /\ board \in Board /\ slot > ChannelNum[board]
  /\ board' = board + 1 /\ slot' = 1 /\ count' = 0
  /\ UNCHANGED <<polling, analogValues, analogValueBytes, Factory_data_map>>

(* The inner loop ends.                                                    *)
NextBoard ==
  /\ polling
  /\ board \in Board /\ slot > ChannelNum[board]
  /\ board' = board + 1 /\ slot' = 1
  /\ UNCHANGED <<polling, count, analogValues, analogValueBytes, Factory_data_map>>

(* All IMAGE_LEN entries are converted, the unset ones too.                *)
PollDone ==
  /\ polling
  /\ board > IP_NUM
  /\ analogValueBytes' = analogValues
  /\ polling' = FALSE
  /\ UNCHANGED <<board, slot, count, analogValues, Factory_data_map>>

ReaderNext == PollStart \/ Sample \/ NextBoard \/ PollDone
=============================================================================
