-------------------------- MODULE DataCollectProofs --------------------------
(***************************************************************************)
(* Theorems about the whole acquisition path, for every number of boards,  *)
(* every channel table and every interleaving of the board threads with    *)
(* the Modbus thread: what the registers answer, and that the path         *)
(* implements BoardFeed.                                                   *)
(***************************************************************************)
EXTENDS DataCollect, F407ServerProofs, FiniteSetTheorems

-----------------------------------------------------------------------------
(* The inductive invariant: what the store loop has landed in the map.     *)

InLoop(t) == at[t] \in {"load", "store"}

(* How many accepted frames channel h has been given.                      *)
Due(t, h) ==
  IF InLoop(t) /\ h >= channel[t] THEN Len(accepted[t]) - 1 ELSE Len(accepted[t])

(* What a key holds after n frames: channel 1 of the first frame is lost   *)
(* where the reader has created the key before it.                         *)
Landing(t, h, n) ==
  IF n = 0 THEN {Absent, Zero}
  ELSE IF n = 1 /\ h = 1 THEN {Zero, Word(t, accepted[t][1], 1)}
  ELSE {Word(t, accepted[t][n], h)}

Landed ==
  \A k \in Key : Factory_data_map[k] \in Landing(k[1], k[2], Due(k[1], k[2]))

(***************************************************************************)
(* The frame that was checked is the one in the receive buffer, from which *)
(* its channels are decoded, and the flag tells the first store loop apart. *)
(***************************************************************************)
FrameKept(t) ==
  /\ at[t] = "scan" => Tcp_f407_Callbackbuf[0] = Header
  /\ at[t] \in {"copy", "check"} => F407_Buffer[1] = Tcp_f407_Callbackbuf[1]
  /\ InLoop(t) => accepted[t] # <<>> /\ SeqOf(Tcp_f407_Callbackbuf[1]) = Newest(t)
  /\ at[t] = "store" => Data_From_F407 = Word(t, Newest(t), channel[t])
  /\ flags[t] = 0 /\ ChannelNum[t] > 0 =>
       accepted[t] = <<>> \/ (Len(accepted[t]) = 1 /\ InLoop(t) /\ channel[t] = 1)

LandInv == Landed /\ \A t \in Board : FrameKept(t)

-----------------------------------------------------------------------------
(* The inductive invariant: where the reader is and what it has copied.    *)

(* The channels the reader has passed in its loops.                        *)
Prior(k) == k[1] < board \/ (k[1] = board /\ k[2] < slot)

(* The next entry of the local array is the rank of the next channel.      *)
CursorInv ==
  /\ board \in 1 .. IP_NUM + 1 /\ slot \in 1 .. WORDS + 1
  /\ board <= IP_NUM => slot <= ChannelNum[board] + 1
  /\ count = Rank(<<board, slot>>)

Read1(k) == analogValues[Rank(k)]
Shown(k) == analogValueBytes[Rank(k)]
Stored(k) == Factory_data_map[k]

(* 0.0, or a sample of the channel from an accepted frame.                 *)
Own(k) == {Zero} \cup {Word(k[1], s, k[2]) : s \in Done(k[1])}

(* Of the frames board t has had accepted, at most one lies between an     *)
(* older cell d and a cell c.                                              *)
OneBehind(t, c, d) ==
  \A i, j \in 1 .. Len(accepted[t]) :
    i < j /\ SeqOf(d) < accepted[t][i] => SeqOf(c) < accepted[t][j]

Pairs == {p \in Key \X Key : p[1][1] = p[2][1] /\ p[1][2] < p[2][2]}

(***************************************************************************)
(* Register, local copy and map hold samples of the channel itself, the    *)
(* older ones first; and of two channels of a board the later one is at    *)
(* most one frame behind, in the image, in the local array, and between    *)
(* what has been copied and what is still to be copied.                    *)
(***************************************************************************)
ImageInv ==
  /\ \A k \in Key : Shown(k) \in Own(k) /\ SeqOf(Shown(k)) <= SeqOf(Stored(k))
  /\ \A k \in Key : Prior(k) =>
       /\ Read1(k) \in Own(k)
       /\ SeqOf(Shown(k)) <= SeqOf(Read1(k)) /\ SeqOf(Read1(k)) <= SeqOf(Stored(k))
  /\ \A p \in Pairs :
       /\ OneBehind(p[1][1], Shown(p[1]), Shown(p[2]))
       /\ Prior(p[1]) => OneBehind(p[1][1], Read1(p[1]), Stored(p[2]))
       /\ Prior(p[2]) => OneBehind(p[1][1], Read1(p[1]), Read1(p[2]))

(* What is known of the board threads alone.                               *)
ServerInv == ServerTypeOK /\ PacedInv /\ CrcInv /\ OrderInv

FeedInv == TypeOK /\ ServerInv /\ LandInv /\ CursorInv /\ ImageInv

-----------------------------------------------------------------------------
(* Types.                                                                  *)

(* A step of the path is one of a board thread, a board or the reader.     *)
LEMMA StepCases ==
  ASSUME [Next]_vars
  PROVE  \/ [ServerNext]_svars /\ UNCHANGED readerVars
         \/ ReaderNext /\ UNCHANGED serverVars
BY DEF Next, vars, svars

(* The channel the reader is at, while its inner loop runs.                *)
LEMMA CursorKey ==
  ASSUME TypeOK, board \in Board, slot <= ChannelNum[board]
  PROVE  <<board, slot>> \in Key
BY BoardsAssumption DEF TypeOK, Key, Board

(* All the reader does to the map is to create a missing key with 0.0.     *)
LEMMA ReaderMap ==
  ASSUME TypeOK, ReaderNext
  PROVE  /\ Factory_data_map' \in [Key -> Cell]
         /\ \A k \in Key : \/ Factory_data_map'[k] = Factory_data_map[k]
                           \/ Factory_data_map[k] = Absent /\ Factory_data_map'[k] = Zero
<1>1. Factory_data_map \in [Key -> Cell]
  BY DEF TypeOK, ServerTypeOK
<1>2. CASE Sample
  BY <1>1, <1>2, CursorKey, CellTypes DEF Sample, MapSubscript, MapInsert
<1>3. CASE PollStart \/ NextBoard \/ PollDone
  BY <1>1, <1>3 DEF PollStart, NextBoard, PollDone
<1>4. QED
  BY <1>2, <1>3 DEF ReaderNext

LEMMA CollectInitType == Init => TypeOK
<1> SUFFICES ASSUME Init PROVE TypeOK
  OBVIOUS
<1>1. ServerTypeOK
  BY ServerInitType DEF Init
<1>2. 1 \in 1 .. IP_NUM + 1 /\ 1 \in 1 .. WORDS + 1 /\ 0 \in Nat
  BY BoardsAssumption
<1>3. Junk \in Cell /\ Zero \in Cell
  BY DEF Junk, Zero, Cell
<1>4. QED
  BY <1>1, <1>2, <1>3 DEF Init, ReaderInit, TypeOK, Buffer

LEMMA CollectTypeStep == TypeOK /\ [Next]_vars => TypeOK'
<1> SUFFICES ASSUME TypeOK, [Next]_vars PROVE TypeOK'
  OBVIOUS
<1>1. CASE [ServerNext]_svars /\ UNCHANGED readerVars
  BY <1>1, ServerTypeStep DEF TypeOK, readerVars
<1>2. CASE ReaderNext /\ UNCHANGED serverVars
  <2>1. ServerTypeOK'
    BY <1>2, ReaderMap DEF TypeOK, ServerTypeOK, serverVars, threadVars, bufferVars, boardVars
  <2>2. Junk \in Cell
    BY DEF Junk, Cell
  <2>3. CASE PollStart
    BY <2>1, <2>2, <2>3, BoardsAssumption DEF PollStart, FreshLocals, TypeOK, Buffer
  <2>4. CASE Sample
    <3>1. Factory_data_map'[<<board, slot>>] \in Cell
      BY <1>2, <2>4, CursorKey, ReaderMap DEF Sample
    <3>2. slot + 1 \in 1 .. WORDS + 1
      BY <2>4, CursorKey, BoardsAssumption DEF Sample, Key, TypeOK
    <3>3. analogValues' \in Buffer(IMAGE_LEN)
      BY <2>4, <3>1 DEF Sample, TypeOK, Buffer
    <3>4. QED
      BY <2>1, <2>4, <3>2, <3>3 DEF Sample, TypeOK
  <2>5. CASE NextBoard
    BY <2>1, <2>5, BoardsAssumption DEF NextBoard, TypeOK, Board
  <2>6. CASE PollDone
    BY <2>1, <2>6 DEF PollDone, TypeOK
  <2>7. QED
    BY <1>2, <2>3, <2>4, <2>5, <2>6 DEF ReaderNext
<1>3. QED
  BY <1>1, <1>2, StepCases

(* Every variable of the acquisition path always has its type, whatever    *)
(* board threads, boards and Modbus thread do to the map they share.       *)
THEOREM CollectTyped == Spec => []TypeOK
BY CollectInitType, CollectTypeStep, PTL DEF Spec

-----------------------------------------------------------------------------
(* Ranks: where a channel lies in the register image.                      *)

Before(k) == {x \in Key : x[1] < k[1] \/ (x[1] = k[1] /\ x[2] < k[2])}

LEMMA KeyFinite == IsFiniteSet(Key)
<1>1. IsFiniteSet(Board) /\ IsFiniteSet(1 .. WORDS)
  BY BoardsAssumption, FS_Interval DEF Board
<1>2. IsFiniteSet(Board \X (1 .. WORDS))
  BY <1>1, FS_Product
<1>3. QED
  BY <1>2, FS_Subset DEF Key

LEMMA BeforeFinite ==
  ASSUME NEW k
  PROVE  IsFiniteSet(Before(k)) /\ Rank(k) = Cardinality(Before(k)) /\ Rank(k) \in Nat
<1>1. Before(k) \in SUBSET Key
  BY DEF Before
<1>2. QED
  BY <1>1, KeyFinite, FS_Subset, FS_CardinalityType DEF Rank, Before

(* A channel that comes first has the smaller rank.                        *)
LEMMA RankLess ==
  ASSUME NEW b \in Nat, NEW h \in Nat, NEW k \in Before(<<b, h>>)
  PROVE  Rank(k) < Rank(<<b, h>>)
<1> DEFINE B == Before(<<b, h>>)
<1>1. k \in Key /\ k[1] \in Nat /\ k[2] \in Nat
  BY BoardsAssumption DEF Before, Key, Board
<1>2. Before(k) \in SUBSET (B \ {k})
  BY <1>1, BoardsAssumption DEF Before, Key, Board
<1>3. IsFiniteSet(B) /\ IsFiniteSet(B \ {k}) /\ Cardinality(B \ {k}) = Cardinality(B) - 1
  BY BeforeFinite, FS_RemoveElement
<1>4. Cardinality(Before(k)) <= Cardinality(B \ {k})
  BY <1>2, <1>3, FS_Subset
<1>5. QED
  BY <1>3, <1>4, BeforeFinite

(* The ranks of the channels fit the image.                                *)
LEMMA RankBound ==
  ASSUME NEW k \in Key
  PROVE  Rank(k) \in 0 .. IMAGE_LEN - 1
<1>1. Before(k) \in SUBSET (Key \ {k})
  BY BoardsAssumption DEF Before, Key, Board
<1>2. /\ IsFiniteSet(Key \ {k}) /\ Cardinality(Key \ {k}) = Cardinality(Key) - 1
      /\ Cardinality(Key) \in Nat
  BY KeyFinite, FS_RemoveElement, FS_CardinalityType
<1>3. Cardinality(Before(k)) <= Cardinality(Key \ {k})
  BY <1>1, <1>2, FS_Subset
<1>4. QED
  BY <1>2, <1>3, BeforeFinite, ImageAssumption

(* The rank counts on from channel to channel, and from board to board.    *)
LEMMA RankNext ==
  ASSUME NEW b, NEW h, <<b, h>> \in Key
  PROVE  Rank(<<b, h + 1>>) = Rank(<<b, h>>) + 1
<1>1. b \in 1 .. IP_NUM /\ h \in 1 .. WORDS
  BY DEF Key, Board
<1>2. Before(<<b, h + 1>>) = Before(<<b, h>>) \cup {<<b, h>>}
  <2>1. \A x \in Key : x[1] \in Int /\ x[2] \in Int /\ x = <<x[1], x[2]>>
    BY BoardsAssumption DEF Key, Board
  <2>2. QED
    BY <1>1, <2>1, BoardsAssumption DEF Before
<1>3. <<b, h>> \notin Before(<<b, h>>)
  BY <1>1, BoardsAssumption DEF Before
<1>4. QED
  BY <1>2, <1>3, BeforeFinite, FS_AddElement

LEMMA RankTurn ==
  ASSUME NEW b \in Board, NEW h \in Nat, h > ChannelNum[b]
  PROVE  Rank(<<b + 1, 1>>) = Rank(<<b, h>>)
<1>1. Before(<<b + 1, 1>>) = Before(<<b, h>>)
  <2>1. \A x \in Key : /\ x[1] \in 1 .. IP_NUM /\ x[2] \in 1 .. WORDS
                      /\ x[2] <= ChannelNum[x[1]] /\ ChannelNum[x[1]] \in Int
    BY BoardsAssumption DEF Key, Board
  <2>2. ASSUME NEW x \in Key
        PROVE  x[1] < b + 1 \/ (x[1] = b + 1 /\ x[2] < 1)
                 <=> x[1] < b \/ (x[1] = b /\ x[2] < h)
    <3>1. PICK p \in Nat, q \in Nat : p = x[1] /\ q = x[2] /\ q >= 1
      BY <2>1, BoardsAssumption
    <3>2. b \in Nat /\ (p = b => q < h)
      <4>1. b \in Nat /\ ChannelNum[b] \in Nat
        BY BoardsAssumption DEF Board
      <4>2. p = b => q <= ChannelNum[b]
        BY <2>1, <3>1
      <4>3. QED
        BY <4>1, <4>2
    <3>3. p < b + 1 \/ (p = b + 1 /\ q < 1) <=> p < b \/ (p = b /\ q < h)
      BY <3>1, <3>2
    <3>4. QED
      BY <3>1, <3>3
  <2>3. QED
    BY <2>2 DEF Before
<1>2. QED
  BY <1>1, BeforeFinite

LEMMA RankFirst == Rank(<<1, 1>>) = 0
<1>1. Before(<<1, 1>>) = {}
  BY BoardsAssumption DEF Before, Key, Board
<1>2. QED
  BY <1>1, BeforeFinite, FS_EmptySet

-----------------------------------------------------------------------------
(* The reader's cursor.                                                    *)

LEMMA CursorInit == Init => CursorInv
BY BoardsAssumption, RankFirst DEF Init, ReaderInit, CursorInv

LEMMA CursorStep == TypeOK /\ CursorInv /\ [Next]_vars => CursorInv'
<1> SUFFICES ASSUME TypeOK, CursorInv, [Next]_vars PROVE CursorInv'
  OBVIOUS
<1> USE DEF CursorInv, TypeOK
<1>1. CASE UNCHANGED <<board, slot, count>>
  BY <1>1 DEF Rank
<1>2. CASE PollStart
  <2>1. board' = 1 /\ slot' = 1 /\ count' = 0
    BY <1>2 DEF PollStart
  <2>2. Rank(<<1, 1>>)' = 0
    BY RankFirst DEF Rank
  <2>3. QED
    BY <2>1, <2>2, BoardsAssumption
<1>3. CASE Sample
  <2>1. <<board, slot>> \in Key
    BY <1>3, CursorKey DEF Sample
  <2>2. count' = Rank(<<board, slot + 1>>)
    BY <1>3, <2>1, RankNext DEF Sample
  <2>3. slot + 1 \in 1 .. WORDS + 1 /\ slot + 1 <= ChannelNum[board] + 1
    BY <1>3, <2>1, BoardsAssumption DEF Sample, Key, Board
  <2>4. QED
    BY <1>3, <2>2, <2>3 DEF Sample, Rank
<1>4. CASE NextBoard
  <2>1. count' = Rank(<<board + 1, 1>>)
    BY <1>4, RankTurn DEF NextBoard
  <2>2. board + 1 \in 1 .. IP_NUM + 1 /\ \A b \in Board : 1 <= ChannelNum[b] + 1
    BY <1>4, BoardsAssumption DEF NextBoard, Board
  <2>3. QED
    BY <1>4, <2>1, <2>2, BoardsAssumption DEF NextBoard, Rank, Board
<1>5. CASE PollDone
  BY <1>1, <1>5 DEF PollDone
<1>6. QED
  BY <1>1, <1>2, <1>3, <1>4, <1>5, StepCases DEF ReaderNext, readerVars

(***************************************************************************)
(* The loops of getAnalogValueBytes write inside the local array: with as  *)
(* many floats as ImageAssumption asks for, count never reaches its end.   *)
(***************************************************************************)
THEOREM LocalArrayBounded == Spec => []LocalArrayInBounds
<1>1. TypeOK /\ CursorInv => LocalArrayInBounds
  BY CursorKey, RankBound DEF CursorInv, LocalArrayInBounds
<1>2. QED
  BY <1>1, CollectInitType, CollectTypeStep, CursorInit, CursorStep, PTL DEF Spec

-----------------------------------------------------------------------------
(* What the store loop lands in the map.                                   *)

LEMMA LandInit == Init => LandInv
<1> SUFFICES ASSUME Init PROVE LandInv
  OBVIOUS
<1>1. \A t \in Board : /\ at[t] = "accept" /\ accepted[t] = <<>> /\ Len(accepted[t]) = 0
                      /\ ~InLoop(t)
  BY DEF Init, ServerInit, InLoop
<1>2. \A k \in Key : k[1] \in Board /\ Factory_data_map[k] = Absent
  BY DEF Init, MapInit, Key
<1>3. QED
  BY <1>1, <1>2 DEF LandInv, Landed, FrameKept, Landing, Due

LEMMA ServerInvStep == OneLive /\ Paced /\ ServerInv /\ [ServerNext]_svars => ServerInv'
BY PacedStep, OrderStep DEF ServerInv, PacedIInv, OrderIInv, CrcIInv

(* In the store loop the receive buffer holds the words of the frame that  *)
(* was accepted last.                                                      *)
LEMMA WordsKept ==
  ASSUME ServerInv, LandInv, NEW t \in Board, InLoop(t)
  PROVE  \A h \in 1 .. WORDS : Tcp_f407_Callbackbuf[h] = Word(t, Newest(t), h)
<1>1. PICK s \in 1 .. sent[t] : \A h \in 1 .. WORDS : Tcp_f407_Callbackbuf[h] = Word(t, s, h)
  BY DEF ServerInv, PacedInv, Processing, InLoop
<1>2. s = Newest(t)
  BY <1>1, BoardsAssumption DEF LandInv, FrameKept, SeqOf, Word
<1>3. QED
  BY <1>1, <1>2

(* One pass of the store loop moves one channel from the frame before to   *)
(* the frame accepted last.                                                *)
LEMMA StoreEffect ==
  ASSUME ServerInv, LandInv, NEW t \in Board, Store(t)
  PROVE  LET k == <<t, channel[t]>>
         IN  /\ k \in Key
             /\ \A l \in Key \ {k} : Factory_data_map'[l] = Factory_data_map[l]
             /\ Factory_data_map'[k] \in Landing(t, channel[t], Len(accepted[t]))
             /\ SeqOf(Factory_data_map[k]) < Newest(t)
             /\ Factory_data_map'[k] \in {Factory_data_map[k], Word(t, Newest(t), channel[t])}
<1> DEFINE k == <<t, channel[t]>>
           m == Factory_data_map[k]
           m1 == Factory_data_map'[k]
           n == Len(accepted[t])
           w == Word(t, Newest(t), channel[t])
<1>1. k \in Key /\ channel[t] \in Nat \ {0}
  BY BoardsAssumption DEF Store, Goto, ServerInv, ServerTypeOK, Key
<1>2. /\ at[t] = "store" /\ InLoop(t) /\ Data_From_F407 = w /\ accepted[t] # <<>>
      /\ accepted[t] \in Seq(Nat)
  BY DEF Store, Goto, LandInv, FrameKept, InLoop, ServerInv, ServerTypeOK
<1>3. n \in Nat \ {0} /\ Newest(t) = accepted[t][n] /\ Newest(t) > 0
  <2>1. n \in Nat \ {0}
    BY <1>2, LenProperties, EmptySeq
  <2>2. accepted[t][n] \in 1 .. sent[t]
    BY <2>1 DEF ServerInv, OrderInv, AcceptedInOrder
  <2>3. QED
    BY <2>1, <2>2 DEF Newest
<1>4. m \in Landing(t, channel[t], n - 1)
  BY <1>1, <1>2 DEF LandInv, Landed, Due
<1>5. Factory_data_map' = StoreWord(Factory_data_map, flags[t] = 0, k, w)
  BY <1>2 DEF Store
<1>6. Factory_data_map \in [Key -> Cell] /\ flags[t] \in {0, 1}
  BY DEF ServerInv, ServerTypeOK
<1>7. \A l \in Key \ {k} : Factory_data_map'[l] = Factory_data_map[l]
  BY <1>5, <1>6 DEF StoreWord, MapInsert, MapAssign
<1>8. m1 = IF flags[t] = 0 /\ m # Absent THEN m ELSE w
  BY <1>1, <1>5, <1>6 DEF StoreWord, MapInsert, MapAssign
<1>9. flags[t] = 0 => n = 1 /\ channel[t] = 1
  <2>1. ChannelNum[t] > 0
    BY <1>1, BoardsAssumption DEF Key, Board
  <2>2. QED
    BY <1>2, <2>1 DEF LandInv, FrameKept
<1> HIDE DEF m, m1, w, n
<1>10. SeqOf(m) < Newest(t)
  <2>1. CASE n = 1
    BY <1>3, <1>4, <2>1 DEF Landing, SeqOf, Absent, Zero
  <2>2. CASE n # 1
    <3>1. n - 1 \in 1 .. n /\ n \in 1 .. n /\ n - 1 < n /\ n - 1 # 0
      BY <1>3, <2>2
    <3>2. 1 \in 1 .. n /\ accepted[t][n - 1] < accepted[t][n]
      BY <1>3, <3>1 DEF n, ServerInv, OrderInv, AcceptedInOrder
    <3>3. SeqOf(m) \in {0, accepted[t][n - 1]}
      BY <1>4, <3>1 DEF Landing, SeqOf, Word, Zero
    <3>4. QED
      BY <1>3, <3>2, <3>3
  <2>3. QED
    BY <2>1, <2>2
<1>11. m1 \in Landing(t, channel[t], n)
  <2>1. CASE flags[t] = 0
    <3>1. m \in {Absent, Zero} /\ n = 1 /\ channel[t] = 1
      BY <1>4, <1>9, <2>1 DEF Landing
    <3>2. m1 \in {Zero, w} /\ w = Word(t, accepted[t][1], 1)
      BY <1>3, <1>8, <3>1 DEF w
    <3>3. QED
      BY <3>1, <3>2 DEF Landing
  <2>2. CASE flags[t] # 0
    BY <1>3, <1>8, <2>2 DEF Landing, w
  <2>3. QED
    BY <2>1, <2>2
<1>12. m1 \in {m, w}
  BY <1>8
<1>13. QED
  BY <1>1, <1>7, <1>10, <1>11, <1>12 DEF m, m1, w, n

(* The other threads have no board and wait in accept().                   *)
LEMMA OthersIdle ==
  ASSUME OneLive, ServerInv, NEW t \in Board, ThreadStep(t)
  PROVE  /\ UNCHANGED <<sent, linked, dials>>
         /\ \A u \in Board \ {t} :
              /\ at[u] = "accept" /\ at'[u] = "accept" /\ channel'[u] = channel[u]
              /\ flags'[u] = flags[u] /\ accepted'[u] = accepted[u]
              /\ \A h : Factory_data_map'[<<u, h>>] = Factory_data_map[<<u, h>>]
<1>1. t \in Live /\ \A u \in Board \ {t} : at[u] = "accept"
  BY LiveThreads DEF OneLive, ServerInv, CrcIInv, CrcInv, OnlyLiveServed
<1>2. \A u \in Board \ {t} : /\ at'[u] = at[u] /\ channel'[u] = channel[u]
                             /\ flags'[u] = flags[u] /\ accepted'[u] = accepted[u]
  BY DEF ThreadStep, Accept, Clear, Read, ReadEnd, Close, ScanFound, ScanFailed, CopyCrc,
         CrcGood, CrcBad, Load, Store, StoreDone, Goto, ServerInv, ServerTypeOK
<1>3. \A u \in Board \ {t} : \A h : Factory_data_map'[<<u, h>>] = Factory_data_map[<<u, h>>]
  <2>1. CASE Store(t)
    BY <2>1 DEF Store, StoreWord, MapInsert, MapAssign, ServerInv, ServerTypeOK
  <2>2. CASE UNCHANGED Factory_data_map
    BY <2>2
  <2>3. QED
    BY <2>1, <2>2 DEF ThreadStep, Accept, Clear, Read, ReadEnd, Close, ScanFound, ScanFailed,
       CopyCrc, CrcGood, CrcBad, Load, StoreDone
<1>4. UNCHANGED <<sent, linked, dials>>
  BY DEF ThreadStep, Accept, Clear, Read, ReadEnd, Close, ScanFound, ScanFailed, CopyCrc,
         CrcGood, CrcBad, Load, Store, StoreDone, boardVars
<1>5. QED
  BY <1>1, <1>2, <1>3, <1>4

(* A paced read() puts the header at the start of the blank buffer.        *)
LEMMA ReadHeader ==
  ASSUME Paced, ServerInv, NEW t \in Board, Read(t)
  PROVE  Tcp_f407_Callbackbuf'[0] = Header
<1> DEFINE rx == conn[t].rx
<1>1. rx \in Seq(Cell) /\ Len(rx) \in Nat
  BY LenProperties DEF ServerInv, ServerTypeOK, Conn
<1>2. PICK n \in ReadSizes(rx) : Tcp_f407_Callbackbuf' = Received(Tcp_f407_Callbackbuf, SubSeq(rx, 1, n))
  BY DEF Read
<1>3. n = Len(rx) /\ n # 0 /\ rx # <<>>
  BY <1>1, EmptySeq DEF ReadSizes
<1>4. PICK s : rx = FrameStream(t, s)
  BY <1>3 DEF ServerInv, PacedInv, WholeFrames
<1>5. Tcp_f407_Callbackbuf' = Received(Tcp_f407_Callbackbuf, FrameStream(t, s))
  BY <1>1, <1>2, <1>3, <1>4, SubSeqFull
<1>6. Len(FrameStream(t, s)) = FRAME_LEN /\ FrameStream(t, s)[1] = Header
  BY FrameLenNat DEF FrameStream, FrameCell
<1>7. QED
  BY <1>5, <1>6, FrameLenNat, ServerAssumption DEF Received

(* What the board threads do keeps the frame in the buffer theirs.         *)
LEMMA ThreadFrameKept ==
  ASSUME OneLive, Paced, ServerInv, LandInv, NEW t \in Board, ThreadStep(t)
  PROVE  \A u \in Board : FrameKept(u)'
<1> USE DEF Goto, InLoop, FrameKept
<1>1. \A u \in Board : FrameKept(u)
  BY DEF LandInv
<1>2. \A u \in Board \ {t} : FrameKept(u)'
  BY <1>1, OthersIdle
<1>3. SUFFICES FrameKept(t)'
  BY <1>2
<1>4. /\ at = [u \in Board |-> at[u]] /\ accepted \in [Board -> Seq(Nat)]
      /\ channel = [u \in Board |-> channel[u]] /\ flags = [u \in Board |-> flags[u]]
      /\ channel[t] \in Nat \ {0} /\ ChannelNum[t] \in Nat
  <2>1. ServerTypeOK
    BY DEF ServerInv
  <2>2. DOMAIN at = Board /\ at = [u \in DOMAIN at |-> at[u]]
    BY <2>1 DEF ServerTypeOK
  <2>3. DOMAIN channel = Board /\ channel = [u \in DOMAIN channel |-> channel[u]]
    BY <2>1 DEF ServerTypeOK
  <2>4. DOMAIN flags = Board /\ flags = [u \in DOMAIN flags |-> flags[u]]
    BY <2>1 DEF ServerTypeOK
  <2>5. accepted \in [Board -> Seq(Nat)]
    BY <2>1 DEF ServerTypeOK
  <2>6. WORDS \in Nat /\ ChannelNum[t] \in Nat
    BY BoardsAssumption DEF Board
  <2>7. channel[t] \in Nat \ {0}
    BY <2>1, <2>6 DEF ServerTypeOK
  <2>8. QED
    BY <2>2, <2>3, <2>4, <2>5, <2>6, <2>7
<1>5. CASE Accept(t) \/ Clear(t) \/ ReadEnd(t) \/ Close(t) \/ ScanFailed(t) \/ CrcBad(t)
  <2>1. /\ at[t] \notin {"load", "store"}
        /\ at'[t] \notin {"scan", "copy", "check", "load", "store"}
        /\ UNCHANGED <<flags, accepted>>
    <3>1. CASE Accept(t)
      BY <1>4, <3>1 DEF Accept
    <3>2. CASE Clear(t)
      BY <1>4, <3>2 DEF Clear
    <3>3. CASE ReadEnd(t)
      BY <1>4, <3>3 DEF ReadEnd
    <3>4. CASE Close(t)
      BY <1>4, <3>4 DEF Close
    <3>5. CASE ScanFailed(t)
      BY <1>4, <3>5 DEF ScanFailed
    <3>6. CASE CrcBad(t)
      BY <1>4, <3>6 DEF CrcBad
    <3>7. QED
      BY <1>5, <3>1, <3>2, <3>3, <3>4, <3>5, <3>6
  <2>2. flags[t] = 0 /\ ChannelNum[t] > 0 => accepted[t] = <<>>
    BY <1>1, <2>1
  <2>3. QED
    BY <2>1, <2>2
<1>6. CASE Read(t)
  <2>1. Tcp_f407_Callbackbuf'[0] = Header
    BY <1>6, ReadHeader
  <2>2. QED
    BY <1>1, <1>4, <1>6, <2>1 DEF Read
<1>7. CASE ScanFound(t)
  <2>1. PICK i \in 0 .. SCAN_LEN - 1 :
          /\ IsFirstHeader(Tcp_f407_Callbackbuf, i)
          /\ F407_Buffer' = CopyFrom(Tcp_f407_Callbackbuf, i)
    BY <1>7 DEF ScanFound
  <2>2. 0 \in HeaderPositions(Tcp_f407_Callbackbuf)
    BY <1>1, <1>7, ServerAssumption DEF ScanFound, HeaderPositions
  <2>3. i = 0
    BY <2>1, <2>2, ServerAssumption DEF IsFirstHeader, HeaderPositions
  <2>4. F407_Buffer'[1] = Tcp_f407_Callbackbuf[1]
    BY <2>1, <2>3, FrameLenNat, ServerAssumption DEF CopyFrom
  <2>5. QED
    BY <1>1, <1>4, <1>7, <2>4 DEF ScanFound
<1>8. CASE CopyCrc(t)
  BY <1>1, <1>4, <1>8 DEF CopyCrc
<1>9. CASE CrcGood(t)
  <2> DEFINE a == Append(accepted[t], SeqOf(F407_Buffer[1]))
  <2>1. SeqOf(F407_Buffer[1]) \in Nat
    <3>1. F407_Buffer[1] \in Cell
      BY FrameLenNat DEF ServerInv, ServerTypeOK, Buffer
    <3>2. QED
      BY <3>1 DEF SeqOf, Cell
  <2>2. /\ Len(accepted[t]) \in Nat /\ a \in Seq(Nat) /\ a # <<>>
        /\ Len(a) = Len(accepted[t]) + 1 /\ a[Len(accepted[t]) + 1] = SeqOf(F407_Buffer[1])
    <3>1. accepted[t] \in Seq(Nat)
      BY <1>4
    <3>2. QED
      BY <2>1, <3>1, AppendProperties, LenProperties
  <2>3. accepted[t] = <<>> => Len(a) = 1
    BY <2>2, EmptySeq
  <2> HIDE DEF a
  <2>4. accepted'[t] = a
    BY <1>4, <1>9 DEF CrcGood, a
  <2>5. accepted'[t] # <<>> /\ Newest(t)' = SeqOf(F407_Buffer[1])
    BY <2>2, <2>4 DEF Newest
  <2>6. flags[t] = 0 /\ ChannelNum[t] > 0 => Len(accepted'[t]) = 1
    BY <1>1, <1>9, <2>3, <2>4 DEF CrcGood
  <2>7. /\ at[t] = "check" /\ at'[t] = "load" /\ channel'[t] = 1
        /\ UNCHANGED <<flags, Tcp_f407_Callbackbuf, F407_Buffer>>
    BY <1>4, <1>9 DEF CrcGood, bufferVars
  <2>8. QED
    BY <1>1, <2>5, <2>6, <2>7 DEF Newest
<1>10. CASE Load(t)
  <2>1. channel[t] \in 1 .. WORDS
    <3>1. channel[t] <= ChannelNum[t] /\ ChannelNum[t] <= WORDS
      BY <1>10, BoardsAssumption DEF Load, MoreChannels, Board
    <3>2. QED
      BY <1>4, <3>1, BoardsAssumption
  <2>2. Tcp_f407_Callbackbuf[channel[t]] = Word(t, Newest(t), channel[t])
    BY <1>10, <2>1, WordsKept DEF Load
  <2>3. QED
    BY <1>1, <1>4, <1>10, <2>2 DEF Load, ChannelWord, Newest
<1>11. CASE Store(t)
  BY <1>1, <1>4, <1>11 DEF Store, Newest
<1>12. CASE StoreDone(t)
  BY <1>1, <1>4, <1>12 DEF StoreDone, MoreChannels
<1>13. QED
  BY <1>5, <1>6, <1>7, <1>8, <1>9, <1>10, <1>11, <1>12 DEF ThreadStep

(* What the board threads do keeps the map what their loops have landed.   *)
LEMMA ThreadLanded ==
  ASSUME OneLive, ServerInv, LandInv, NEW t \in Board, ThreadStep(t)
  PROVE  Landed'
<1> USE DEF Goto, InLoop
<1>1. \A k \in Key : Factory_data_map[k] \in Landing(k[1], k[2], Due(k[1], k[2]))
  BY DEF LandInv, Landed
<1>2. ASSUME NEW k \in Key, k[1] # t
      PROVE  Factory_data_map'[k] \in Landing(k[1], k[2], Due(k[1], k[2]))'
  <2>1. k[1] \in Board \ {t} /\ k = <<k[1], k[2]>>
    BY <1>2 DEF Key
  <2>2. Due(k[1], k[2])' = Due(k[1], k[2]) /\ accepted'[k[1]] = accepted[k[1]]
    BY <2>1, OthersIdle DEF Due
  <2>3. QED
    BY <1>1, <2>1, <2>2, OthersIdle DEF Landing
<1>3. SUFFICES ASSUME NEW h \in 1 .. WORDS, <<t, h>> \in Key
               PROVE  Factory_data_map'[<<t, h>>] \in Landing(t, h, Due(t, h))'
  BY <1>2 DEF Landed, Key
<1>4. Factory_data_map[<<t, h>>] \in Landing(t, h, Due(t, h))
  BY <1>1, <1>3
<1>5. /\ at = [u \in Board |-> at[u]] /\ accepted \in [Board -> Seq(Nat)]
      /\ channel = [u \in Board |-> channel[u]] /\ channel[t] \in Nat \ {0}
      /\ Len(accepted[t]) \in Nat /\ h <= ChannelNum[t] /\ ChannelNum[t] \in Nat
  <2>1. accepted[t] \in Seq(Nat)
    BY DEF ServerInv, ServerTypeOK
  <2>2. ChannelNum[t] \in Nat /\ h <= ChannelNum[t]
    BY <1>3, BoardsAssumption DEF Board, Key
  <2>3. QED
    BY <2>1, <2>2, LenProperties DEF ServerInv, ServerTypeOK
<1>6. CASE UNCHANGED <<Factory_data_map, accepted>> /\ Due(t, h)' = Due(t, h)
  BY <1>4, <1>6 DEF Landing
<1>7. CASE \/ Accept(t) \/ Clear(t) \/ Read(t) \/ ReadEnd(t) \/ Close(t)
           \/ ScanFound(t) \/ ScanFailed(t) \/ CopyCrc(t) \/ CrcBad(t)
  <2>1. UNCHANGED <<Factory_data_map, accepted>> /\ ~InLoop(t) /\ ~InLoop(t)'
    BY <1>5, <1>7 DEF Accept, Clear, Read, ReadEnd, Close, ScanFound, ScanFailed, CopyCrc, CrcBad
  <2>2. QED
    BY <1>6, <2>1 DEF Due
<1>8. CASE Load(t)
  BY <1>5, <1>6, <1>8 DEF Load, Due
<1>9. CASE StoreDone(t)
  BY <1>5, <1>6, <1>9 DEF StoreDone, MoreChannels, Due
<1>10. CASE CrcGood(t)
  <2> DEFINE a == Append(accepted[t], SeqOf(F407_Buffer[1]))
  <2>0. PICK n \in Nat : n = Len(accepted[t])
    BY <1>5
  <2>1. F407_Buffer[1] \in Cell
    BY FrameLenNat DEF ServerInv, ServerTypeOK, Buffer
  <2>2. Len(a) = n + 1 /\ \A i \in 1 .. n : a[i] = accepted[t][i]
    BY <1>5, <2>0, <2>1, AppendProperties DEF SeqOf, Cell
  <2> HIDE DEF a
  <2>3. accepted'[t] = a
    BY <1>5, <1>10 DEF CrcGood, a
  <2>4. at[t] = "check" /\ at'[t] = "load" /\ channel'[t] = 1
    BY <1>5, <1>10 DEF CrcGood
  <2>5. Due(t, h) = n /\ Due(t, h)' = n
    BY <1>5, <2>0, <2>2, <2>3, <2>4 DEF Due
  <2>6. Landing(t, h, n)' = Landing(t, h, n)
    <3>1. n # 0 => accepted'[t][1] = accepted[t][1] /\ accepted'[t][n] = accepted[t][n]
      BY <2>0, <2>2, <2>3
    <3>2. QED
      BY <3>1 DEF Landing
  <2>7. QED
    BY <1>4, <1>10, <2>5, <2>6 DEF CrcGood, Landing
<1>11. CASE Store(t)
  <2>1. /\ at[t] = "store" /\ at'[t] = "load" /\ channel'[t] = channel[t] + 1
        /\ UNCHANGED accepted
    BY <1>5, <1>11 DEF Store
  <2>2. CASE h = channel[t]
    <3>1. Due(t, h)' = Len(accepted[t])
      BY <1>5, <2>1, <2>2 DEF Due
    <3>2. QED
      BY <1>11, <2>1, <2>2, <3>1, StoreEffect DEF Landing
  <2>3. CASE h # channel[t]
    <3>1. Due(t, h)' = Due(t, h)
      BY <1>5, <2>1, <2>3 DEF Due
    <3>2. Factory_data_map'[<<t, h>>] = Factory_data_map[<<t, h>>]
      BY <1>3, <1>11, <2>3, StoreEffect
    <3>3. QED
      BY <1>4, <2>1, <3>1, <3>2 DEF Landing
  <2>4. QED
    BY <2>2, <2>3
<1>12. QED
  BY <1>7, <1>8, <1>9, <1>10, <1>11 DEF ThreadStep

LEMMA LandServerStep ==
  ASSUME OneLive, Paced, ServerInv, LandInv, [ServerNext]_svars
  PROVE  LandInv'
<1> USE DEF LandInv
<1>1. CASE UNCHANGED <<Factory_data_map, at, channel, flags, accepted, bufferVars>>
  BY <1>1 DEF Landed, Landing, Due, InLoop, FrameKept, Newest, bufferVars
<1>2. ASSUME NEW t \in Board, ThreadStep(t)
      PROVE  LandInv'
  BY <1>2, ThreadFrameKept, ThreadLanded
<1>3. ASSUME NEW b \in Board, BoardStep(b)
      PROVE  LandInv'
  BY <1>1, <1>3 DEF BoardStep, Dial, Send, Hangup, Lose
<1>4. CASE UNCHANGED svars
  BY <1>1, <1>4 DEF svars, serverVars, threadVars
<1>5. QED
  BY <1>2, <1>3, <1>4 DEF ServerNext

(* The reader turns Absent into 0.0 where no frame has landed yet.         *)
LEMMA ReaderStep ==
  ASSUME TypeOK, ServerInv, LandInv, ReaderNext, UNCHANGED serverVars
  PROVE  ServerInv' /\ LandInv'
<1>1. /\ Factory_data_map' \in [Key -> Cell]
      /\ \A k \in Key : \/ Factory_data_map'[k] = Factory_data_map[k]
                        \/ Factory_data_map[k] = Absent /\ Factory_data_map'[k] = Zero
  BY ReaderMap
<1>3. StoredGenuine'
  BY <1>1 DEF ServerInv, PacedInv, StoredGenuine, Samples, serverVars, boardVars
<1>4. ServerInv'
  <2> USE DEF ServerInv, serverVars, threadVars, bufferVars, boardVars
  <2>1. ServerTypeOK'
    BY <1>1 DEF ServerTypeOK
  <2>2. PacedInv'
    BY <1>3 DEF PacedInv, OnlyLiveServed, WholeFrames, Processing, Samples
  <2>3. CrcInv'
    BY DEF CrcInv, OnlyLiveServed, OnlySentReceived, CrcOfFrame, VerifiedGenuine, WireCell
  <2>4. OrderInv'
    BY DEF OrderInv, OrderOf, InHand, Done, AcceptedInOrder
  <2>5. QED
    BY <2>1, <2>2, <2>3, <2>4
<1>5. Landed'
  <2>1. ASSUME NEW k \in Key
        PROVE  Factory_data_map'[k] \in Landing(k[1], k[2], Due(k[1], k[2]))
    <3>1. Factory_data_map[k] \in Landing(k[1], k[2], Due(k[1], k[2]))
      BY DEF LandInv, Landed
    <3>2. QED
      BY <1>1, <3>1 DEF Landing, Absent, Zero, Word
  <2>2. QED
    BY <2>1 DEF Landed, Landing, Due, InLoop, serverVars, threadVars
<1>6. QED
  BY <1>4, <1>5 DEF LandInv, FrameKept, Newest, InLoop, serverVars, threadVars, bufferVars

-----------------------------------------------------------------------------
(* What the reader copies.                                                 *)

(* The frames a thread has accepted have ascending numbers, from 1 on.     *)
LEMMA AcceptedAscend ==
  ASSUME ServerInv, NEW t \in Board
  PROVE  /\ Len(accepted[t]) \in Nat
         /\ \A i \in 1 .. Len(accepted[t]) : accepted[t][i] \in Nat /\ accepted[t][i] > 0
         /\ \A i, j \in 1 .. Len(accepted[t]) :
              /\ i < j => accepted[t][i] < accepted[t][j]
              /\ i <= j => accepted[t][i] <= accepted[t][j]
<1>1. accepted[t] \in Seq(Nat)
  BY DEF ServerInv, ServerTypeOK
<1>2. /\ \A i, j \in 1 .. Len(accepted[t]) : i < j => accepted[t][i] < accepted[t][j]
      /\ \A i \in 1 .. Len(accepted[t]) : accepted[t][i] \in 1 .. sent[t]
  BY DEF ServerInv, OrderInv, AcceptedInOrder
<1>3. sent[t] \in Nat
  BY ServerAssumption DEF ServerInv, ServerTypeOK
<1>4. \A i \in 1 .. Len(accepted[t]) : accepted[t][i] \in Nat /\ accepted[t][i] > 0
  BY <1>2, <1>3
<1>5. \A i, j \in 1 .. Len(accepted[t]) : i <= j => i = j \/ i < j
  BY <1>1, LenProperties
<1>6. QED
  BY <1>1, <1>2, <1>4, <1>5, LenProperties

(* The number of frames a channel is due counts the accepted ones.         *)
LEMMA DueType ==
  ASSUME ServerInv, LandInv, NEW t \in Board, NEW h \in 1 .. WORDS
  PROVE  /\ Due(t, h) \in 0 .. Len(accepted[t])
         /\ \A l \in 1 .. WORDS : h < l => Due(t, h) <= Due(t, l) + 1
<1>1. Len(accepted[t]) \in Nat /\ (InLoop(t) => Len(accepted[t]) # 0)
  <2>1. accepted[t] \in Seq(Nat) /\ (InLoop(t) => accepted[t] # <<>>)
    BY DEF ServerInv, ServerTypeOK, LandInv, FrameKept
  <2>2. QED
    BY <2>1, LenProperties, EmptySeq
<1>2. QED
  BY <1>1, BoardsAssumption DEF Due

(* What the map holds is 0.0 or a sample of the channel, if anything.      *)
LEMMA StoredOwn ==
  ASSUME ServerInv, LandInv, NEW k \in Key
  PROVE  Stored(k) \in {Absent} \cup Own(k)
<1>1. PICK t \in Board, h \in 1 .. WORDS : k = <<t, h>>
  BY DEF Key
<1>2. PICK n \in 0 .. Len(accepted[t]) : Stored(k) \in Landing(t, h, n)
  BY <1>1, DueType DEF LandInv, Landed, Stored
<1>3. n # 0 => /\ accepted[t][n] \in Done(t) /\ accepted[t][1] \in Done(t)
  <2>1. n # 0 => n \in 1 .. Len(accepted[t]) /\ 1 \in 1 .. Len(accepted[t])
    BY AcceptedAscend
  <2>2. QED
    BY <2>1 DEF Done, Cells
<1>4. QED
  BY <1>1, <1>2, <1>3 DEF Landing, Own

(* Of two channels of a board, the map never holds the later one more than *)
(* one frame behind the earlier one.                                       *)
LEMMA StoredBehind ==
  ASSUME ServerInv, LandInv, NEW t \in Board, NEW h \in 1 .. WORDS, NEW l \in 1 .. WORDS,
         <<t, h>> \in Key, <<t, l>> \in Key, h < l
  PROVE  OneBehind(t, Stored(<<t, h>>), Stored(<<t, l>>))
<1> DEFINE c == Stored(<<t, h>>)
           d == Stored(<<t, l>>)
<1>1. PICK n \in 0 .. Len(accepted[t]), m \in 0 .. Len(accepted[t]) :
        c \in Landing(t, h, n) /\ d \in Landing(t, l, m) /\ n <= m + 1
  BY DueType DEF LandInv, Landed, Stored
<1> HIDE DEF c, d
<1>2. l # 1
  BY BoardsAssumption
<1>3. SeqOf(d) = IF m = 0 THEN 0 ELSE accepted[t][m]
  BY <1>1, <1>2 DEF Landing, SeqOf, Absent, Zero, Word
<1>4. SeqOf(c) = 0 \/ (n # 0 /\ SeqOf(c) = accepted[t][n])
  BY <1>1 DEF Landing, SeqOf, Absent, Zero, Word
<1>5. SUFFICES ASSUME NEW i \in 1 .. Len(accepted[t]), NEW j \in 1 .. Len(accepted[t]),
                      i < j, SeqOf(d) < accepted[t][i]
               PROVE  SeqOf(c) < accepted[t][j]
  BY DEF OneBehind, c, d
<1>6. m < i
  <2>1. CASE m = 0
    BY <2>1
  <2>2. CASE m # 0 /\ i <= m
    <3>1. m \in 1 .. Len(accepted[t])
      BY <2>2
    <3>2. accepted[t][i] <= accepted[t][m] /\ accepted[t][i] \in Nat /\ accepted[t][m] \in Nat
      BY <2>2, <3>1, AcceptedAscend
    <3>3. QED
      BY <1>3, <1>5, <2>2, <3>2
  <2>3. QED
    BY <2>1, <2>2
<1>7. n < j
  BY <1>1, <1>5, <1>6, AcceptedAscend
<1>8. accepted[t][j] > 0 /\ accepted[t][j] \in Nat
  BY AcceptedAscend
<1>9. n # 0 => accepted[t][n] < accepted[t][j]
  <2>1. n # 0 => n \in 1 .. Len(accepted[t])
    BY AcceptedAscend
  <2>2. QED
    BY <1>7, <2>1, AcceptedAscend
<1>10. QED
  BY <1>4, <1>8, <1>9

(* A step of the server accepts at most one more frame and never puts an   *)
(* older sample into the map.                                              *)
LEMMA ServerGrowth ==
  ASSUME ServerInv, LandInv, [ServerNext]_svars
  PROVE  /\ \A t \in Board :
              /\ Len(accepted'[t]) \in {Len(accepted[t]), Len(accepted[t]) + 1}
              /\ \A i \in 1 .. Len(accepted[t]) : accepted'[t][i] = accepted[t][i]
         /\ \A k \in Key : SeqOf(Stored(k)) <= SeqOf(Stored(k)')
<1>1. \A k \in Key : SeqOf(Factory_data_map[k]) \in Nat
  BY DEF ServerInv, ServerTypeOK, Cell, SeqOf
<1>2. CASE \E t \in Board : Store(t)
  <2>1. PICK t \in Board : Store(t)
    BY <1>2
  <2>2. accepted' = accepted
    BY <2>1 DEF Store
  <2> DEFINE k == <<t, channel[t]>>
  <2>3. /\ k \in Key
        /\ \A l \in Key \ {k} : Factory_data_map'[l] = Factory_data_map[l]
        /\ SeqOf(Factory_data_map[k]) < Newest(t)
        /\ Factory_data_map'[k] \in {Factory_data_map[k], Word(t, Newest(t), channel[t])}
    BY <2>1, StoreEffect
  <2> HIDE DEF k
  <2>4. SeqOf(Factory_data_map[k]) <= SeqOf(Factory_data_map'[k])
    <3>1. accepted[t] # <<>> /\ accepted[t] \in Seq(Nat)
      BY <2>1 DEF Store, Goto, LandInv, FrameKept, InLoop, ServerInv, ServerTypeOK
    <3>2. Newest(t) \in Nat
      BY <3>1, LenProperties, EmptySeq, ElementOfSeq DEF Newest
    <3>3. SeqOf(Word(t, Newest(t), channel[t])) = Newest(t)
      BY DEF SeqOf, Word
    <3>4. QED
      BY <1>1, <2>3, <3>2, <3>3
  <2>5. \A l \in Key : SeqOf(Factory_data_map[l]) <= SeqOf(Factory_data_map'[l])
    BY <1>1, <2>3, <2>4
  <2>6. QED
    BY <2>2, <2>5 DEF Stored
<1>3. CASE \E t \in Board : CrcGood(t)
  <2>1. PICK t \in Board : CrcGood(t)
    BY <1>3
  <2> DEFINE a == Append(accepted[t], SeqOf(F407_Buffer[1]))
  <2>2. SeqOf(F407_Buffer[1]) \in Nat
    <3>1. F407_Buffer[1] \in Cell
      BY FrameLenNat DEF ServerInv, ServerTypeOK, Buffer
    <3>2. QED
      BY <3>1 DEF SeqOf, Cell
  <2>3. accepted \in [Board -> Seq(Nat)] /\ accepted[t] \in Seq(Nat)
    BY DEF ServerInv, ServerTypeOK
  <2>4. /\ Len(a) = Len(accepted[t]) + 1
        /\ \A i \in 1 .. Len(accepted[t]) : a[i] = accepted[t][i]
    BY <2>2, <2>3, AppendProperties
  <2>5. accepted' = [accepted EXCEPT ![t] = a] /\ UNCHANGED Factory_data_map
    BY <2>1 DEF CrcGood
  <2> HIDE DEF a
  <2>6. QED
    BY <1>1, <2>3, <2>4, <2>5 DEF Stored
<1>4. CASE UNCHANGED <<accepted, Factory_data_map>>
  BY <1>1, <1>4 DEF Stored
<1>5. QED
  <2>1. ASSUME NEW t \in Board, ThreadStep(t)
        PROVE  Store(t) \/ CrcGood(t) \/ UNCHANGED <<accepted, Factory_data_map>>
    BY <2>1 DEF ThreadStep, Accept, Clear, Read, ReadEnd, Close, ScanFound, ScanFailed, CopyCrc,
       CrcBad, Load, StoreDone
  <2>2. ASSUME NEW b \in Board, BoardStep(b)
        PROVE  UNCHANGED <<accepted, Factory_data_map>>
    BY <2>2 DEF BoardStep, Dial, Send, Hangup, Lose
  <2>3. UNCHANGED svars => UNCHANGED <<accepted, Factory_data_map>>
    BY DEF svars, serverVars, threadVars
  <2>4. QED
    BY <1>2, <1>3, <1>4, <2>1, <2>2, <2>3 DEF ServerNext

(* The lag of a pair survives a further accepted frame and a newer later   *)
(* channel.                                                                *)
LEMMA BehindServer ==
  ASSUME ServerInv, ServerInv', LandInv, [ServerNext]_svars,
         NEW t \in Board, NEW c, NEW d, NEW e, OneBehind(t, c, d),
         SeqOf(c) \in {0} \cup Done(t), SeqOf(d) \in Nat, SeqOf(e) \in Nat, SeqOf(d) <= SeqOf(e)
  PROVE  \A i, j \in 1 .. Len(accepted'[t]) :
           i < j /\ SeqOf(e) < accepted'[t][i] => SeqOf(c) < accepted'[t][j]
<1>1. /\ Len(accepted'[t]) \in {Len(accepted[t]), Len(accepted[t]) + 1}
      /\ \A i \in 1 .. Len(accepted[t]) : accepted'[t][i] = accepted[t][i]
  BY ServerGrowth
<1>2. /\ \A i, j \in 1 .. Len(accepted'[t]) : i < j => accepted'[t][i] < accepted'[t][j]
      /\ \A i \in 1 .. Len(accepted'[t]) : accepted'[t][i] \in 1 .. sent'[t]
  BY DEF ServerInv, OrderInv, AcceptedInOrder
<1>3. Len(accepted[t]) \in Nat /\ \A i \in 1 .. Len(accepted[t]) : accepted[t][i] \in Nat
  BY AcceptedAscend
<1>4. SUFFICES ASSUME NEW i \in 1 .. Len(accepted'[t]), NEW j \in 1 .. Len(accepted'[t]),
                      i < j, SeqOf(e) < accepted'[t][i]
               PROVE  SeqOf(c) < accepted'[t][j]
  OBVIOUS
<1>5. accepted'[t][j] \in Nat \ {0}
  <2>1. sent'[t] \in Nat
    BY ServerAssumption DEF ServerInv, ServerTypeOK
  <2>2. QED
    BY <1>2, <2>1
<1>6. CASE j \in 1 .. Len(accepted[t])
  <2>1. i \in 1 .. Len(accepted[t])
    BY <1>3, <1>4, <1>6
  <2>2. SeqOf(d) < accepted[t][i]
    BY <1>1, <1>3, <1>4, <2>1
  <2>3. SeqOf(c) < accepted[t][j]
    BY <1>4, <1>6, <2>1, <2>2 DEF OneBehind
  <2>4. QED
    BY <1>1, <1>6, <2>3
<1>7. CASE j = Len(accepted[t]) + 1
  <2>1. ASSUME NEW x \in 1 .. Len(accepted[t])
        PROVE  accepted[t][x] < accepted'[t][j]
    <3>1. x \in 1 .. Len(accepted'[t]) /\ x < j
      BY <1>1, <1>3, <1>7
    <3>2. QED
      BY <1>1, <1>2, <3>1
  <2>2. QED
    BY <1>5, <2>1 DEF Done, Cells
<1>8. QED
  BY <1>1, <1>3, <1>6, <1>7

LEMMA OwnSeq ==
  ASSUME ServerInv, NEW k \in Key, NEW c \in Own(k)
  PROVE  SeqOf(c) \in {0} \cup Done(k[1]) /\ SeqOf(c) \in Nat
<1>1. k[1] \in Board
  BY DEF Key
<1>2. Done(k[1]) \subseteq Nat
  BY <1>1, AcceptedAscend DEF Done, Cells
<1>3. QED
  BY <1>2 DEF Own, SeqOf, Zero, Word

LEMMA StoredSeq ==
  ASSUME TypeOK, NEW k \in Key
  PROVE  SeqOf(Stored(k)) \in Nat
BY DEF TypeOK, ServerTypeOK, Cell, SeqOf, Stored

(* What the board threads do keeps what is known of the image.             *)
LEMMA ImageServerStep ==
  ASSUME FeedInv, TypeOK', ServerInv', [ServerNext]_svars, UNCHANGED readerVars
  PROVE  ImageInv'
<1> USE DEF FeedInv
<1>1. \A k : Shown(k)' = Shown(k) /\ Read1(k)' = Read1(k) /\ Prior(k)' = Prior(k)
  BY DEF Shown, Read1, Prior, readerVars, Rank
<1>2. \A k \in Key : /\ SeqOf(Stored(k)) \in Nat /\ SeqOf(Stored(k)') \in Nat
                    /\ SeqOf(Stored(k)) <= SeqOf(Stored(k)')
  BY ServerGrowth DEF Stored, TypeOK, ServerTypeOK, Cell, SeqOf
<1>3. \A k \in Key : Own(k) \subseteq Own(k)'
  <2>1. \A t \in Board : Done(t) \subseteq Done(t)'
    BY ServerGrowth, AcceptedAscend DEF Done, Cells
  <2>2. QED
    BY <2>1 DEF Own, Key
<1>4. \A k \in Key : \A c \in Own(k) : SeqOf(c) \in {0} \cup Done(k[1]) /\ SeqOf(c) \in Nat
  BY OwnSeq
<1>5. ASSUME NEW k \in Key
      PROVE  Shown(k)' \in Own(k)' /\ SeqOf(Shown(k)') <= SeqOf(Stored(k)')
  BY <1>1, <1>2, <1>3, <1>4 DEF ImageInv
<1>6. ASSUME NEW k \in Key, Prior(k)'
      PROVE  /\ Read1(k)' \in Own(k)'
             /\ SeqOf(Shown(k)') <= SeqOf(Read1(k)') /\ SeqOf(Read1(k)') <= SeqOf(Stored(k)')
  BY <1>1, <1>2, <1>3, <1>4, <1>6 DEF ImageInv
<1>7. ASSUME NEW p \in Pairs
      PROVE  /\ OneBehind(p[1][1], Shown(p[1]), Shown(p[2]))'
             /\ Prior(p[1])' => OneBehind(p[1][1], Read1(p[1]), Stored(p[2]))'
             /\ Prior(p[2])' => OneBehind(p[1][1], Read1(p[1]), Read1(p[2]))'
  <2> DEFINE Lag(t, c, e) ==
        \A i, j \in 1 .. Len(accepted'[t]) :
          i < j /\ SeqOf(e) < accepted'[t][i] => SeqOf(c) < accepted'[t][j]
  <2>1. PICK k \in Key, l \in Key, t \in Board : p = <<k, l>> /\ t = k[1] /\ t = l[1] /\ k[2] < l[2]
    BY DEF Pairs, Key
  <2>2. Prior(l) => Prior(k)
    BY <2>1, BoardsAssumption DEF Key, Board, Prior, TypeOK
  <2>3. /\ OneBehind(t, Shown(k), Shown(l))
        /\ Prior(k) => OneBehind(t, Read1(k), Stored(l))
        /\ Prior(l) => OneBehind(t, Read1(k), Read1(l))
    BY <2>1 DEF ImageInv
  <2>4. SeqOf(Shown(k)) \in {0} \cup Done(t) /\ SeqOf(Shown(l)) \in Nat
    BY <1>4, <2>1 DEF ImageInv
  <2>5. /\ Prior(k) => SeqOf(Read1(k)) \in {0} \cup Done(t)
        /\ Prior(l) => SeqOf(Read1(l)) \in Nat
    BY <1>4, <2>1 DEF ImageInv
  <2> \A n \in Nat : n <= n
    OBVIOUS
  <2>6. Lag(t, Shown(k), Shown(l))
    BY <2>3, <2>4, BehindServer
  <2>7. Prior(k) => Lag(t, Read1(k), Stored(l)')
    BY <1>2, <2>3, <2>5, BehindServer
  <2>8. Prior(l) => Lag(t, Read1(k), Read1(l))
    BY <2>2, <2>3, <2>5, BehindServer
  <2>9. QED
    BY <1>1, <2>1, <2>6, <2>7, <2>8 DEF OneBehind
<1>8. QED
  BY <1>5, <1>6, <1>7 DEF ImageInv, Pairs

(* What the reader does keeps what is known of the image.                  *)
LEMMA ImageReaderStep ==
  ASSUME FeedInv, ServerInv', ReaderNext, UNCHANGED serverVars
  PROVE  ImageInv'
<1> USE DEF FeedInv
<1>1. /\ UNCHANGED accepted
      /\ \A t : Done(t)' = Done(t)
      /\ \A k : Own(k)' = Own(k)
      /\ \A t, c, d : OneBehind(t, c, d) <=>
           \A i, j \in 1 .. Len(accepted'[t]) :
             i < j /\ SeqOf(d) < accepted'[t][i] => SeqOf(c) < accepted'[t][j]
  BY DEF Done, Own, OneBehind, serverVars, threadVars
<1>2. \A k \in Key : SeqOf(Stored(k)') = SeqOf(Stored(k))
  BY ReaderMap DEF Stored, SeqOf, Absent, Zero
<1>3. \A k \in Key : Rank(k) \in 0 .. IMAGE_LEN - 1
  BY RankBound
<1>4. \A k \in Key : Rank(k)' = Rank(k)
  BY DEF Rank
<1>5. CASE PollStart
  <2>1. \A k \in Key : ~Prior(k)'
    BY <1>5 DEF PollStart, Prior, Key, Board
  <2>2. \A k \in Key : Shown(k)' = Shown(k)
    BY <1>4, <1>5 DEF PollStart, Shown
  <2>3. \A p \in Pairs : OneBehind(p[1][1], Shown(p[1]), Shown(p[2]))'
    BY <1>1, <2>2 DEF ImageInv, OneBehind, Pairs
  <2>4. QED
    BY <1>1, <1>2, <2>1, <2>2, <2>3 DEF ImageInv, Pairs
<1>6. CASE NextBoard
  <2>1. \A k \in Key : Prior(k)' <=> Prior(k)
    BY <1>6, BoardsAssumption, SMTT(30) DEF NextBoard, Prior, Key, Board, TypeOK
  <2>2. \A k \in Key : Shown(k)' = Shown(k) /\ Read1(k)' = Read1(k) /\ Stored(k)' = Stored(k)
    BY <1>4, <1>6 DEF NextBoard, Shown, Read1, Stored
  <2>3. \A p \in Pairs :
          /\ OneBehind(p[1][1], Shown(p[1]), Shown(p[2]))'
          /\ Prior(p[1])' => OneBehind(p[1][1], Read1(p[1]), Stored(p[2]))'
          /\ Prior(p[2])' => OneBehind(p[1][1], Read1(p[1]), Read1(p[2]))'
    BY <1>1, <2>1, <2>2 DEF ImageInv, OneBehind, Pairs
  <2>4. QED
    BY <1>1, <2>1, <2>2, <2>3 DEF ImageInv, Pairs
<1>7. CASE PollDone
  <2>1. \A k \in Key : Prior(k) /\ Prior(k)'
    BY <1>7, BoardsAssumption DEF PollDone, Prior, Key, Board, TypeOK
  <2>2. \A k \in Key : Shown(k)' = Read1(k) /\ Read1(k)' = Read1(k) /\ Stored(k)' = Stored(k)
    BY <1>4, <1>7 DEF PollDone, Shown, Read1, Stored
  <2>3. \A p \in Pairs :
          /\ OneBehind(p[1][1], Shown(p[1]), Shown(p[2]))'
          /\ OneBehind(p[1][1], Read1(p[1]), Stored(p[2]))'
          /\ OneBehind(p[1][1], Read1(p[1]), Read1(p[2]))'
    BY <1>1, <2>1, <2>2, SMTT(30) DEF ImageInv, OneBehind, Pairs
  <2>4. \A k \in Key : /\ Read1(k) \in Own(k) /\ SeqOf(Read1(k)) <= SeqOf(Stored(k))
                      /\ SeqOf(Read1(k)) \in Nat
    BY <2>1, OwnSeq DEF ImageInv
  <2>5. QED
    BY <1>1, <1>2, <2>2, <2>3, <2>4 DEF ImageInv, Pairs
<1>8. CASE Sample
  <2>0. PICK k0 \in Key : k0 = <<board, slot>>
    BY <1>8, CursorKey DEF Sample
  <2>1. count = Rank(k0) /\ k0[1] = board /\ k0[2] = slot
    BY <2>0 DEF CursorInv
  <2>2. \A k \in Key : Prior(k)' <=> Prior(k) \/ k = k0
    BY <1>8, <2>0, <2>1, BoardsAssumption, SMTT(30) DEF Sample, Prior, Key, Board, TypeOK
  <2>3. \A k \in Key : Prior(k) => Rank(k) # count
    <3>1. ASSUME NEW k \in Key, Prior(k)
          PROVE  Rank(k) < Rank(k0)
      <4>1. k \in Before(k0)
        BY <3>1, <2>1 DEF Prior, Before
      <4>2. board \in Nat /\ slot \in Nat
        BY DEF TypeOK
      <4>3. QED
        BY <2>0, <4>1, <4>2, RankLess
    <3>2. QED
      BY <1>3, <2>1, <3>1
  <2>4. \A k \in Key : Shown(k)' = Shown(k)
    BY <1>4, <1>8 DEF Sample, Shown
  <2>5. Read1(k0)' = Stored(k0)' /\ \A k \in Key : Prior(k) => Read1(k)' = Read1(k)
    <3>1. analogValues' = [analogValues EXCEPT ![count] = Factory_data_map'[k0]]
      BY <1>8, <2>0 DEF Sample
    <3>2. count \in 0 .. IMAGE_LEN - 1
      BY <1>3, <2>1
    <3>3. QED
      BY <1>4, <2>1, <2>3, <3>1, <3>2 DEF Read1, Stored, TypeOK, Buffer
  <2>6. Stored(k0)' \in Own(k0)
    <3>1. LandInv'
      BY ReaderStep
    <3>2. Stored(k0)' \in {Absent} \cup Own(k0)
      <4>1. Stored(k0) \in {Absent} \cup Own(k0)
        BY <2>1, StoredOwn
      <4>2. Zero \in Own(k0)
        BY DEF Own
      <4>3. Stored(k0)' = Stored(k0) \/ Stored(k0)' = Zero
        BY <2>1, ReaderMap DEF Stored
      <4>4. QED
        BY <4>1, <4>2, <4>3
    <3>3. Stored(k0)' # Absent
      BY <1>8, <2>0 DEF Sample, MapSubscript, MapInsert, Stored, TypeOK, ServerTypeOK,
         Absent, Zero
    <3>4. QED
      BY <3>2, <3>3
  <2>7. \A k \in Key : SeqOf(Stored(k)) \in Nat
    BY StoredSeq
  <2>8. ASSUME NEW k \in Key, Prior(k)'
        PROVE  /\ Read1(k)' \in Own(k)
               /\ SeqOf(Shown(k)') <= SeqOf(Read1(k)') /\ SeqOf(Read1(k)') <= SeqOf(Stored(k)')
    <3>1. CASE k = k0
      BY <1>2, <2>4, <2>5, <2>6, <2>7, <3>1 DEF ImageInv
    <3>2. CASE Prior(k)
      BY <1>2, <2>4, <2>5, <3>2 DEF ImageInv
    <3>3. QED
      BY <2>2, <2>8, <3>1, <3>2
  <2>9. ASSUME NEW k \in Key, NEW l \in Key, k[1] = l[1], k[2] < l[2]
        PROVE  /\ OneBehind(k[1], Shown(k)', Shown(l)')
               /\ Prior(k)' => OneBehind(k[1], Read1(k)', Stored(l)')
               /\ Prior(l)' => OneBehind(k[1], Read1(k)', Read1(l)')
    <3>1. <<k, l>> \in Pairs /\ <<k, l>>[1] = k /\ <<k, l>>[2] = l
      BY <2>9 DEF Pairs
    <3>2. /\ OneBehind(k[1], Shown(k), Shown(l))
          /\ Prior(k) => OneBehind(k[1], Read1(k), Stored(l))
          /\ Prior(l) => OneBehind(k[1], Read1(k), Read1(l))
      BY <3>1 DEF ImageInv
    <3>3. OneBehind(k[1], Stored(k), Stored(l))
      BY <2>9, StoredBehind DEF Key
    <3>4. Prior(k)' => OneBehind(k[1], Read1(k)', Stored(l)')
      BY <1>2, <2>1, <2>2, <2>5, <3>2, <3>3 DEF OneBehind
    <3>5. Prior(l)' => Prior(k)
      <4>1. PICK a \in Nat, b \in Nat : a = k[2] /\ b = l[2] /\ a < b
        BY <2>9, BoardsAssumption DEF Key
      <4>2. slot \in Nat
        BY BoardsAssumption DEF TypeOK
      <4>3. b < slot \/ b = slot => a < slot
        BY <4>1, <4>2
      <4>4. Prior(l) \/ l = k0 => Prior(k)
        BY <2>1, <2>9, <4>1, <4>3 DEF Prior
      <4>5. QED
        BY <2>2, <4>4
    <3>6. Prior(l)' => OneBehind(k[1], Read1(k)', Read1(l)')
      BY <1>2, <2>1, <2>2, <2>5, <3>2, <3>5 DEF OneBehind
    <3>7. QED
      BY <2>4, <3>2, <3>4, <3>6
  <2>10. \A p \in Pairs :
           /\ OneBehind(p[1][1], Shown(p[1]), Shown(p[2]))'
           /\ Prior(p[1])' => OneBehind(p[1][1], Read1(p[1]), Stored(p[2]))'
           /\ Prior(p[2])' => OneBehind(p[1][1], Read1(p[1]), Read1(p[2]))'
    BY <1>1, <2>9 DEF Pairs, OneBehind
  <2>11. \A k \in Key : Shown(k)' \in Own(k)' /\ SeqOf(Shown(k)') <= SeqOf(Stored(k)')
    BY <1>1, <1>2, <2>4 DEF ImageInv
  <2>12. QED
    BY <1>1, <2>8, <2>10, <2>11 DEF ImageInv, Pairs
<1>9. QED
  BY <1>5, <1>6, <1>7, <1>8 DEF ReaderNext

LEMMA FeedInit == Init => FeedInv
<1> SUFFICES ASSUME Init PROVE FeedInv
  OBVIOUS
<1>1. TypeOK /\ LandInv /\ CursorInv
  BY CollectInitType, LandInit, CursorInit
<1>2. ServerInv
  BY ServerInitType, PacedInit, CrcInit, OrderInit DEF Init, ServerInv
<1>3. \A k \in Key : /\ ~Prior(k) /\ Shown(k) = Zero /\ Stored(k) = Absent
                    /\ k[1] \in Board /\ accepted[k[1]] = <<>>
  BY RankBound, BoardsAssumption
     DEF Init, ReaderInit, ServerInit, MapInit, Prior, Shown, Stored, Key, Board
<1>4. ImageInv
  BY <1>3 DEF ImageInv, Own, OneBehind, Pairs, SeqOf, Zero, Absent
<1>5. QED
  BY <1>1, <1>2, <1>4 DEF FeedInv

LEMMA FeedStep == OneLive /\ Paced /\ FeedInv /\ [Next]_vars => FeedInv'
<1> SUFFICES ASSUME OneLive, Paced, FeedInv, [Next]_vars PROVE FeedInv'
  OBVIOUS
<1> USE DEF FeedInv
<1>1. TypeOK' /\ CursorInv'
  BY CollectTypeStep, CursorStep
<1>2. CASE [ServerNext]_svars /\ UNCHANGED readerVars
  <2>1. ServerInv' /\ LandInv'
    BY <1>2, ServerInvStep, LandServerStep
  <2>2. QED
    BY <1>1, <1>2, <2>1, ImageServerStep
<1>3. CASE ReaderNext /\ UNCHANGED serverVars
  <2>1. ServerInv' /\ LandInv'
    BY <1>3, ReaderStep
  <2>2. QED
    BY <1>1, <1>3, <2>1, ImageReaderStep
<1>4. QED
  BY <1>2, <1>3, StepCases

-----------------------------------------------------------------------------
(* What the map and the registers answer.                                  *)

(***************************************************************************)
(* With one powered board whose frames are read one at a time, the board   *)
(* thread and the Modbus thread keep the whole inductive invariant.        *)
(***************************************************************************)
THEOREM FeedInvariant ==
  ASSUME OneLive, Paced
  PROVE  Spec => []FeedInv
BY FeedInit, FeedStep, PTL DEF Spec

(***************************************************************************)
(* The Modbus thread, which writes to the map it reads, takes nothing away *)
(* from what the board threads guarantee when they run alone: verified     *)
(* frames and stored samples are genuine, frames are accepted in order.    *)
(***************************************************************************)
THEOREM GuaranteesSurviveReader ==
  ASSUME OneLive, Paced
  PROVE  Spec => [](PacedInv /\ StoredGenuine /\ VerifiedGenuine /\ AcceptedInOrder)
<1>1. FeedInv => PacedInv /\ StoredGenuine /\ VerifiedGenuine /\ AcceptedInOrder
  BY DEF FeedInv, ServerInv, PacedInv, CrcInv, OrderInv
<1>2. QED
  BY <1>1, FeedInvariant, PTL

(***************************************************************************)
(* From its second accepted frame on, a thread that has left its store     *)
(* loop has put every channel of its newest frame into the map, whatever   *)
(* the Modbus thread has read or created there meanwhile.                  *)
(***************************************************************************)
THEOREM LaterFramesComplete ==
  ASSUME OneLive, Paced
  PROVE  Spec => []LaterStoreComplete
<1>1. FeedInv => LaterStoreComplete
  <2> SUFFICES ASSUME FeedInv, NEW t \in Board, Settled(t), Len(accepted[t]) > 1,
                      NEW h \in 1 .. ChannelNum[t]
               PROVE  Factory_data_map[<<t, h>>] = Word(t, Newest(t), h)
    BY DEF LaterStoreComplete, Holds
  <2>1. <<t, h>> \in Key
    BY BoardsAssumption DEF Key, Board
  <2>2. Due(t, h) = Len(accepted[t])
    BY DEF Settled, Due, InLoop
  <2>3. Factory_data_map[<<t, h>>] \in Landing(t, h, Len(accepted[t]))
    BY <2>1, <2>2 DEF FeedInv, LandInv, Landed
  <2>4. QED
    BY <2>3 DEF Landing, Newest
<1>2. QED
  BY <1>1, FeedInvariant, PTL

(***************************************************************************)
(* Every register answers its own channel: 0.0, or a sample the board sent *)
(* for that channel; never a neighbour's sample and never the stack.       *)
(***************************************************************************)
THEOREM RegistersGenuine ==
  ASSUME OneLive, Paced
  PROVE  Spec => []ImageGenuine
<1>1. FeedInv => ImageGenuine
  <2> SUFFICES ASSUME FeedInv, NEW k \in Key
               PROVE  Shown(k) \in {Zero} \cup Samples(k, sent[k[1]])
    BY DEF ImageGenuine, Shown
  <2>1. Shown(k) \in Own(k)
    BY DEF FeedInv, ImageInv
  <2>2. Done(k[1]) \subseteq 1 .. sent[k[1]]
    BY DEF FeedInv, ServerInv, OrderInv, AcceptedInOrder, Done, Cells, Key
  <2>3. QED
    BY <2>1, <2>2 DEF Own, Samples
<1>2. QED
  BY <1>1, FeedInvariant, PTL

(* Counting the accepted frames: at most one lies between the two cells.   *)
LEMMA AgeLag ==
  ASSUME ServerInv, NEW t \in Board, NEW c, NEW d, OneBehind(t, c, d),
         SeqOf(c) \in Nat, SeqOf(d) \in Nat
  PROVE  Age(t, d) + 1 >= Age(t, c)
<1> DEFINE N == 1 .. Len(accepted[t])
           C == {i \in N : accepted[t][i] <= SeqOf(c)}
           D == {i \in N : accepted[t][i] <= SeqOf(d)}
<1>1. Len(accepted[t]) \in Nat /\ \A i \in N : accepted[t][i] \in Nat
  BY AcceptedAscend
<1>2. IsFiniteSet(N) /\ C \in SUBSET N /\ D \in SUBSET N
  <2>1. IsFiniteSet(N)
    <3>1. 1 \in Int /\ Len(accepted[t]) \in Int
      BY <1>1
    <3>2. QED
      BY <3>1, FS_Interval
  <2>2. QED
    BY <2>1
<1>3. IsFiniteSet(C) /\ IsFiniteSet(D) /\ Cardinality(C) \in Nat /\ Cardinality(D) \in Nat
  BY <1>2, FS_Subset, FS_CardinalityType
<1>4. \A i, j \in C \ D : i = j
  <2>1. ASSUME NEW i \in C \ D, NEW j \in C \ D, i < j
        PROVE  FALSE
    <3>1. SeqOf(d) < accepted[t][i] /\ accepted[t][j] <= SeqOf(c)
      BY <1>1
    <3>2. SeqOf(c) < accepted[t][j]
      BY <2>1, <3>1 DEF OneBehind
    <3>3. QED
      BY <1>1, <3>1, <3>2
  <2>2. \A i, j \in N : i = j \/ i < j \/ j < i
    BY <1>1
  <2>3. QED
    BY <2>1, <2>2
<1> HIDE DEF C, D, N
<1>5. Cardinality(C) <= Cardinality(D) + 1
  <2>1. CASE C \subseteq D
    <3>1. Cardinality(C) <= Cardinality(D)
      BY <1>3, <2>1, FS_Subset
    <3>2. QED
      BY <1>3, <3>1
  <2>2. CASE ~(C \subseteq D)
    <3>1. PICK x \in C \ D : TRUE
      BY <2>2
    <3>2. C \subseteq D \cup {x}
      BY <1>4, <3>1
    <3>3. IsFiniteSet(D \cup {x}) /\ Cardinality(D \cup {x}) = Cardinality(D) + 1
      BY <1>3, <3>1, FS_AddElement
    <3>4. Cardinality(C) <= Cardinality(D \cup {x})
      BY <3>2, <3>3, FS_Subset
    <3>5. QED
      BY <3>3, <3>4
  <2>3. QED
    BY <2>1, <2>2
<1>6. QED
  BY <1>3, <1>5 DEF Age, C, D, N

(***************************************************************************)
(* A register is never more than one accepted frame older than the         *)
(* register of a lower channel of the same board, although reader and      *)
(* store loop walk the channels at the same time and without a lock.       *)
(***************************************************************************)
THEOREM RegistersAlmostAligned ==
  ASSUME OneLive, Paced
  PROVE  Spec => []ImageSkew
<1>1. FeedInv => ImageSkew
  <2> SUFFICES ASSUME FeedInv, NEW k \in Key, NEW l \in Key, k[1] = l[1], k[2] < l[2]
               PROVE  Age(k[1], Shown(l)) + 1 >= Age(k[1], Shown(k))
    BY DEF ImageSkew, Shown
  <2>1. <<k, l>> \in Pairs /\ <<k, l>>[1] = k /\ <<k, l>>[2] = l /\ k[1] \in Board
    BY DEF Pairs, Key
  <2>2. OneBehind(k[1], Shown(k), Shown(l))
    BY <2>1 DEF FeedInv, ImageInv
  <2>3. SeqOf(Shown(k)) \in Nat /\ SeqOf(Shown(l)) \in Nat
    BY OwnSeq DEF FeedInv, ImageInv
  <2>4. QED
    BY <2>1, <2>2, <2>3, AgeLag DEF FeedInv
<1>2. QED
  BY <1>1, FeedInvariant, PTL

(***************************************************************************)
(* From one answer to the next no register goes back to an older sample.   *)
(***************************************************************************)
THEOREM RegistersNeverRegress ==
  ASSUME OneLive, Paced
  PROVE  Spec => ImageNeverRegresses
<1> DEFINE Forward == \A k \in Key : SeqOf(analogValueBytes'[Rank(k)]) >= SeqOf(analogValueBytes[Rank(k)])
<1>1. FeedInv /\ [Next]_vars => [Forward]_vars
  <2> SUFFICES ASSUME FeedInv, [Next]_vars, NEW k \in Key
               PROVE  SeqOf(analogValueBytes'[Rank(k)]) >= SeqOf(Shown(k))
    BY DEF Shown
  <2>1. SeqOf(Shown(k)) \in Nat
    BY OwnSeq DEF FeedInv, ImageInv
  <2>2. CASE UNCHANGED analogValueBytes
    BY <2>1, <2>2 DEF Shown
  <2>3. CASE PollDone
    <3>1. Prior(k)
      BY <2>3, BoardsAssumption DEF PollDone, Prior, Key, Board, FeedInv, TypeOK
    <3>2. SeqOf(Shown(k)) <= SeqOf(Read1(k)) /\ SeqOf(Read1(k)) \in Nat
      BY <3>1, OwnSeq DEF FeedInv, ImageInv
    <3>3. analogValueBytes'[Rank(k)] = Read1(k)
      BY <2>3 DEF PollDone, Read1
    <3>4. QED
      BY <2>1, <3>2, <3>3
  <2>4. QED
    BY <2>2, <2>3, StepCases DEF ReaderNext, PollStart, Sample, NextBoard, readerVars
<1>2. QED
  BY <1>1, FeedInvariant, PTL DEF Spec, ImageNeverRegresses

-----------------------------------------------------------------------------
(* The path implements BoardFeed.                                          *)

LEMMA FeedRefinesInit == Init => Feed!Init
BY DEF Init, MapInit, ServerInit, Feed!Init, Feed!Blank, Zero

(* A store publishes the sample of its frame, or keeps what insert() finds. *)
LEMMA StorePublishes ==
  ASSUME ServerInv, LandInv, NEW t \in Board, Store(t)
  PROVE  [Feed!Next]_<<[k \in Key |-> IF Factory_data_map[k] = Absent THEN Zero
                                      ELSE Factory_data_map[k]], sent>>
<1> DEFINE bank == [k \in Key |-> IF Factory_data_map[k] = Absent THEN Zero
                                  ELSE Factory_data_map[k]]
<1>1. PICK r \in Key : r = <<t, channel[t]>>
  BY StoreEffect
<1>2. PICK s : s = Newest(t)
  OBVIOUS
<1>3. /\ \A l \in Key \ {r} : Factory_data_map'[l] = Factory_data_map[l]
      /\ SeqOf(Factory_data_map[r]) < s
      /\ Factory_data_map'[r] \in {Factory_data_map[r], Word(t, s, r[2])}
      /\ r[1] = t
  BY <1>1, <1>2, StoreEffect
<1>4. s \in 1 .. sent[t]
  <2>1. accepted[t] # <<>> /\ accepted[t] \in Seq(Nat)
    BY DEF Store, Goto, LandInv, FrameKept, InLoop, ServerInv, ServerTypeOK
  <2>2. Len(accepted[t]) \in 1 .. Len(accepted[t])
    BY <2>1, LenProperties, EmptySeq
  <2>3. QED
    BY <1>2, <2>2 DEF Newest, ServerInv, OrderInv, AcceptedInOrder
<1>5. UNCHANGED sent
  BY DEF Store, boardVars
<1>6. CASE Factory_data_map'[r] = Factory_data_map[r]
  BY <1>3, <1>5, <1>6
<1>7. CASE Factory_data_map'[r] = Word(t, s, r[2])
  <2>1. bank[r][3] = SeqOf(Factory_data_map[r])
    BY DEF SeqOf, Absent, Zero
  <2>2. sent[t] \in Nat /\ SeqOf(Factory_data_map[r]) \in Nat
    BY ServerAssumption DEF ServerInv, ServerTypeOK, Cell, SeqOf
  <2>3. s > bank[r][3]
    BY <1>3, <1>4, <2>1, <2>2
  <2>4. bank' = [bank EXCEPT ![r] = Feed!Sample(r[1], s, r[2])]
    <3>1. Word(t, s, r[2]) # Absent /\ Feed!Sample(r[1], s, r[2]) = Word(t, s, r[2])
      BY <1>3 DEF Feed!Sample, Word, Absent
    <3>2. \A l \in Key : bank'[l] = IF l = r THEN Feed!Sample(r[1], s, r[2]) ELSE bank[l]
      BY <1>3, <1>7, <3>1
    <3>3. QED
      BY <3>2
  <2>5. Feed!Publish(r)
    BY <1>3, <1>4, <1>5, <2>3, <2>4 DEF Feed!Publish
  <2>6. QED
    BY <2>5 DEF Feed!Next
<1>8. QED
  BY <1>3, <1>6, <1>7

LEMMA FeedRefinesStep ==
  ASSUME FeedInv, [Next]_vars
  PROVE  [Feed!Next]_<<[k \in Key |-> IF Factory_data_map[k] = Absent THEN Zero
                                      ELSE Factory_data_map[k]], sent>>
<1>1. CASE [ServerNext]_svars
  <2>1. CASE UNCHANGED <<Factory_data_map, sent>>
    BY <2>1
  <2>2. ASSUME NEW t \in Board, ThreadStep(t)
        PROVE  Store(t) \/ UNCHANGED <<Factory_data_map, sent>>
    BY <2>2 DEF ThreadStep, Accept, Clear, Read, ReadEnd, Close, ScanFound, ScanFailed, CopyCrc,
       CrcGood, CrcBad, Load, StoreDone, boardVars
  <2>3. ASSUME NEW b \in Board, Send(b)
        PROVE  Feed!Next
    <3>1. Feed!Emit(b)
      BY <2>3 DEF Send, Feed!Emit
    <3>2. QED
      BY <3>1 DEF Feed!Next
  <2>4. ASSUME NEW b \in Board, BoardStep(b)
        PROVE  Send(b) \/ UNCHANGED <<Factory_data_map, sent>>
    BY <2>4 DEF BoardStep, Dial, Hangup, Lose
  <2>5. UNCHANGED svars => UNCHANGED <<Factory_data_map, sent>>
    BY DEF svars, serverVars, boardVars
  <2>6. QED
    BY <1>1, <2>1, <2>2, <2>3, <2>4, <2>5, StorePublishes DEF ServerNext, FeedInv
<1>2. CASE ReaderNext /\ UNCHANGED serverVars
  <2>1. \A k \in Key : \/ Factory_data_map'[k] = Factory_data_map[k]
                       \/ Factory_data_map[k] = Absent /\ Factory_data_map'[k] = Zero
    <3>1. TypeOK
      BY DEF FeedInv
    <3>2. QED
      BY <1>2, <3>1, ReaderMap
  <2>2. UNCHANGED sent
    BY <1>2 DEF serverVars, boardVars
  <2>3. QED
    BY <2>1, <2>2 DEF Absent, Zero
<1>3. QED
  BY <1>1, <1>2, StepCases

(***************************************************************************)
(* Sockets, buffers, checksum, store loop and the reader's own writes to   *)
(* the map implement BoardFeed: each channel moves only to a newer sample  *)
(* its board sent for it.                                                  *)
(***************************************************************************)
THEOREM PathImplementsFeed ==
  ASSUME OneLive, Paced
  PROVE  Spec => ImplementsFeed
<1>1. Init => Feed!Init
  BY FeedRefinesInit
<1>2. FeedInv /\ [Next]_vars =>
        [Feed!Next]_<<[k \in Key |-> IF Factory_data_map[k] = Absent THEN Zero
                                     ELSE Factory_data_map[k]], sent>>
  BY FeedRefinesStep
<1>3. QED
  BY <1>1, <1>2, FeedInvariant, PTL DEF Spec, ImplementsFeed, Feed!Spec

=============================================================================
