---------------------------- MODULE DataCollect ----------------------------
(***************************************************************************)
(* The acquisition path of the collector as src/main.cpp assembles it: the *)
(* board threads of F407Server and the Modbus thread's AnalogReader run    *)
(* concurrently on one Factory_data_map, without a lock.                   *)
(***************************************************************************)
EXTENDS F407Server, AnalogReader

vars == <<serverVars, readerVars, Factory_data_map>>

Init == MapInit /\ ServerInit /\ ReaderInit

Next ==
  \/ ServerNext /\ UNCHANGED readerVars
  \/ ReaderNext /\ UNCHANGED serverVars

(***************************************************************************)
(* Every thread of the program keeps running; boards and the Modbus client *)
(* do as they please.                                                      *)
(***************************************************************************)
Fairness ==
  /\ \A t \in Board : WF_vars(ThreadStep(t) /\ UNCHANGED readerVars)
  /\ WF_vars((Sample \/ NextBoard \/ PollDone) /\ UNCHANGED serverVars)

Spec == Init /\ [][Next]_vars /\ Fairness

-----------------------------------------------------------------------------
(* Every variable of the acquisition path keeps its type.                  *)
TypeOK ==
  /\ ServerTypeOK
  /\ polling \in BOOLEAN
  /\ board \in 1 .. IP_NUM + 1
  /\ slot \in 1 .. WORDS + 1
  /\ count \in Nat
  /\ analogValues \in Buffer(IMAGE_LEN)
  /\ analogValueBytes \in Buffer(IMAGE_LEN)

-----------------------------------------------------------------------------
(* The register image.                                                     *)

(***************************************************************************)
(* getAnalogValueBytes writes inside its local array, however often and at *)
(* whatever moment it is called: the count starts again with each request  *)
(* and runs over all boards.                                               *)
(***************************************************************************)
LocalArrayInBounds ==
  polling /\ board \in Board /\ slot <= ChannelNum[board] => count \in 0 .. IMAGE_LEN - 1

(* The place of a key in the image: its rank among the configured channels. *)
Rank(k) ==
  Cardinality({x \in Key : x[1] < k[1] \/ (x[1] = k[1] /\ x[2] < k[2])})

(* The position of a sample in the order the thread accepted frames; 0 for *)
(* the 0.0 that stands for no sample.                                      *)
Age(t, c) ==
  Cardinality({i \in 1 .. Len(accepted[t]) : accepted[t][i] <= SeqOf(c)})

(***************************************************************************)
(* Every register of a configured channel answers that channel: 0.0 or a   *)
(* sample its own board sent for it, never a neighbour's and never the     *)
(* uninitialised stack the image is converted from.                        *)
(***************************************************************************)
ImageGenuine ==
  \A k \in Key : analogValueBytes[Rank(k)] \in {Zero} \cup Samples(k, sent[k[1]])

(***************************************************************************)
(* The image may mix frames, because the reader and the board thread walk  *)
(* the channels at the same time, but only one way: a channel is never     *)
(* more than one accepted frame older than a lower-numbered channel of its *)
(* board.                                                                  *)
(***************************************************************************)
ImageSkew ==
  \A k, l \in Key :
    (k[1] = l[1] /\ k[2] < l[2]) =>
      Age(k[1], analogValueBytes[Rank(l)]) + 1 >= Age(k[1], analogValueBytes[Rank(k)])

(***************************************************************************)
(* A register never goes back to an older sample from one answer to the    *)
(* next.                                                                   *)
(***************************************************************************)
ImageNeverRegresses ==
  [][\A k \in Key :
       SeqOf(analogValueBytes'[Rank(k)]) >= SeqOf(analogValueBytes[Rank(k)])]_vars

(***************************************************************************)
(* The acquisition path implements BoardFeed: a key that is not in the map *)
(* yet reads as 0.0.                                                       *)
(***************************************************************************)
Feed == INSTANCE BoardFeed WITH
  Boards    <- Board,
  Registers <- Key,
  bank      <- [k \in Key |-> IF Factory_data_map[k] = Absent THEN Zero
                              ELSE Factory_data_map[k]]

ImplementsFeed == Feed!Spec

=============================================================================
