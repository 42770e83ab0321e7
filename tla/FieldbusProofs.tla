--------------------------- MODULE FieldbusProofs ---------------------------
(***************************************************************************)
(* Theorems about the two field bus threads.  The client that dials a      *)
(* board: for every size of its buffer, every number of channels and       *)
(* frames, and however TCP cuts the stream, the board comes and goes and   *)
(* the Modbus thread creates keys.  The RS485 reader: for every line       *)
(* format asked for and every setting it finds.                            *)
(***************************************************************************)
EXTENDS TcpClient, SerialReader, ChecksumProofs

(* What a cell of the wire, the buffer or the map may be.                  *)
Byte == {"head", "data", "zero", "check", "absent"}
Cell == Nat \X Nat \X Byte

(* A cell of a frame the board sent: only the first shows the header for   *)
(* certain.                                                                *)
Genuine(c) ==
  /\ c \in Cell /\ c[1] \in 1 .. sent /\ c[2] \in 1 .. FRAME
  /\ c[2] = 1 => c[3] = "head"

(* How many cells the board had sent when this one was behind it.          *)
Pos(c) == FRAME * c[1] + c[2] - FRAME

(* The wire ends with the last cell sent, and has no gaps.                 *)
WireInv ==
  /\ sent \in Nat /\ wire \in Seq(Cell)
  /\ \A k \in 1 .. Len(wire) :
       Genuine(wire[k]) /\ Pos(wire[k]) = FRAME * sent - Len(wire) + k

(* The first n cells of the buffer are those just before the wire.         *)
Filled(n) ==
  \A c \in 1 .. CHUNK :
    /\ c <= n => Genuine(chunk[c]) /\ Pos(chunk[c]) = FRAME * sent - Len(wire) - n + c
    /\ ~(c <= n) => chunk[c] = Zero

ChunkInv ==
  /\ step # "search" => chunk = Blank
  /\ step = "search" =>
       /\ chunk \in [1 .. CHUNK -> Cell]
       /\ \E n \in 1 .. CHUNK : Filled(n)

(* Every accepted frame lies wholly before what is still to be searched.   *)
Behind(n, c) == c = Zero \/ FRAME * n < Pos(c)

AcceptedInv ==
  /\ accepted \in Seq(Nat)
  /\ \A k \in 1 .. Len(accepted) :
       /\ accepted[k] \in 1 .. sent
       /\ \A w \in 1 .. Len(wire) : Behind(accepted[k], wire[w])
       /\ \A c \in 1 .. CHUNK : Behind(accepted[k], chunk[c])
  /\ \A x, y \in 1 .. Len(accepted) : x < y => accepted[x] < accepted[y]

StoreInv ==
  /\ flags = IF accepted = <<>> THEN 0 ELSE 1
  /\ store \in [Channels -> Cell]
  /\ ClientStoresGenuine
  /\ accepted # <<>> => \A h \in Channels : store[h] # Absent
  /\ Len(accepted) > 1 => \A h \in Channels : store[h][1] = accepted[Len(accepted)]

ClientInv == WireInv /\ ChunkInv /\ AcceptedInv /\ StoreInv

-----------------------------------------------------------------------------
LEMMA CellTypes ==
  /\ Zero \in Cell /\ Absent \in Cell /\ Zero # Absent
  /\ Zero[1] = 0 /\ Zero[2] = 0 /\ Zero[3] # "head"
  /\ Absent[1] = 0 /\ Absent[2] = 0
  /\ \A c \in Cell : c[1] \in Nat /\ c[2] \in Nat
<1>1. Zero \in Cell /\ Absent \in Cell
  BY DEF Cell, Byte, Zero, Absent
<1>2. /\ Zero[1] = 0 /\ Zero[2] = 0 /\ Zero[3] = "zero"
      /\ Absent[1] = 0 /\ Absent[2] = 0 /\ Absent[3] = "absent"
  BY DEF Zero, Absent
<1>3. \A c \in Cell : c[1] \in Nat /\ c[2] \in Nat
  BY DEF Cell
<1>4. "zero" # "head" /\ "zero" # "absent"
  OBVIOUS
<1>5. QED
  BY <1>1, <1>2, <1>3, <1>4

LEMMA ChunkSize == CHUNK \in Nat /\ FRAME < CHUNK /\ FRAME = 3
BY ClientAssumption DEF FRAME

(* What one frame puts on the wire.                                        *)
LEMMA FrameCellsAre ==
  ASSUME NEW n \in Nat, NEW byte \in Byte
  PROVE  /\ FrameCells(n, byte) \in Seq(Cell) /\ Len(FrameCells(n, byte)) = FRAME
         /\ \A p \in 1 .. FRAME :
              /\ FrameCells(n, byte)[p][1] = n /\ FrameCells(n, byte)[p][2] = p
              /\ p = 1 => FrameCells(n, byte)[p][3] = "head"
<1>1. /\ <<n, 1, "head">> \in Cell /\ <<n, 2, byte>> \in Cell /\ <<n, 3, "check">> \in Cell
  BY DEF Cell, Byte
<1>2. QED
  BY <1>1 DEF FrameCells, FRAME

-----------------------------------------------------------------------------
(* The wire.                                                               *)

(* A frame is put behind the others.                                       *)
LEMMA WireGrows ==
  ASSUME wire \in Seq(Cell), NEW f \in Seq(Cell), Len(f) = 3, wire' = wire \o f
  PROVE  /\ Len(wire) \in Nat /\ wire' \in Seq(Cell) /\ Len(wire') = Len(wire) + 3
         /\ \A k \in 1 .. Len(wire) + 3 :
              wire'[k] = IF k <= Len(wire) THEN wire[k] ELSE f[k - Len(wire)]
<1>1. Len(wire) \in Nat
  BY LenProperties
<1>2. /\ wire \o f \in Seq(Cell) /\ Len(wire \o f) = Len(wire) + Len(f)
      /\ \A k \in 1 .. Len(wire) + Len(f) :
           (wire \o f)[k] = IF k <= Len(wire) THEN wire[k] ELSE f[k - Len(wire)]
  BY ConcatProperties
<1>3. QED
  BY <1>1, <1>2

(* A read takes the first n cells off the wire.                            *)
LEMMA WireTaken ==
  ASSUME WireInv, NEW n \in 1 .. CHUNK, Recv(n)
  PROVE  /\ Len(wire) \in Nat /\ n <= Len(wire)
         /\ wire' \in Seq(Cell) /\ Len(wire') = Len(wire) - n
         /\ \A k \in 1 .. Len(wire) - n : wire'[k] = wire[n + k]
<1> DEFINE L == Len(wire)
<1>1. L \in Nat /\ n \in Nat /\ n >= 1 /\ n <= L
  BY ChunkSize, LenProperties DEF Recv, WireInv
<1>2. wire' = SubSeq(wire, n + 1, L)
  BY DEF Recv
<1>3. \A k \in n + 1 .. L : wire[k] \in Cell
  BY <1>1 DEF WireInv, Genuine
<1>4. n + 1 \in Int /\ L \in Int
  BY <1>1
<1>5. /\ wire' \in Seq(Cell) /\ Len(wire') = IF n + 1 <= L THEN L - (n + 1) + 1 ELSE 0
      /\ \A k \in 1 .. L - (n + 1) + 1 : wire'[k] = wire[n + 1 + k - 1]
  BY <1>2, <1>3, <1>4, SubSeqProperties
<1> HIDE DEF L
<1>6. \A k \in 1 .. L - n : n + 1 + k - 1 = n + k /\ k \in 1 .. L - (n + 1) + 1
  BY <1>1
<1>7. wire' \in Seq(Cell) /\ Len(wire') = L - n /\ \A k \in 1 .. L - n : wire'[k] = wire[n + k]
  BY <1>1, <1>5, <1>6
<1>8. QED
  BY <1>1, <1>7 DEF L

LEMMA WireStep == WireInv /\ [ClientNext]_tcpVars => WireInv'
<1> SUFFICES ASSUME WireInv, [ClientNext]_tcpVars PROVE WireInv'
  OBVIOUS
<1>1. CASE UNCHANGED <<sent, wire>>
  BY <1>1 DEF WireInv, Genuine, Pos
<1>2. CASE BoardSends
  <2>1. PICK byte \in {"data", "zero", "head"} : wire' = wire \o FrameCells(sent + 1, byte)
    BY <1>2 DEF BoardSends
  <2>2. sent' = sent + 1 /\ sent \in Nat /\ sent' \in Nat /\ wire \in Seq(Cell)
    BY <1>2 DEF BoardSends, WireInv
  <2> DEFINE f == FrameCells(sent + 1, byte)
             L == Len(wire)
  <2>3. /\ f \in Seq(Cell) /\ Len(f) = 3
        /\ \A p \in 1 .. 3 : f[p][1] = sent + 1 /\ f[p][2] = p /\ (p = 1 => f[p][3] = "head")
    <3>1. byte \in Byte /\ sent + 1 \in Nat
      BY <2>2 DEF Byte
    <3>2. QED
      BY <3>1, FrameCellsAre, ChunkSize
  <2> HIDE DEF f
  <2>4. /\ wire' \in Seq(Cell) /\ Len(wire') = L + 3 /\ L \in Nat
        /\ \A k \in 1 .. L + 3 : wire'[k] = IF k <= L THEN wire[k] ELSE f[k - L]
    BY <2>1, <2>2, <2>3, WireGrows DEF f
  <2> HIDE DEF L
  <2>5. \A k \in 1 .. L : /\ wire[k] \in Cell /\ wire[k][1] \in 1 .. sent /\ wire[k][2] \in 1 .. 3
                          /\ wire[k][2] = 1 => wire[k][3] = "head"
                          /\ 3 * wire[k][1] + wire[k][2] - 3 = 3 * sent - L + k
    BY ChunkSize DEF WireInv, Genuine, Pos, L
  <2>6. ASSUME NEW k \in 1 .. L + 3
        PROVE  /\ wire'[k] \in Cell /\ wire'[k][1] \in 1 .. sent + 1 /\ wire'[k][2] \in 1 .. 3
               /\ wire'[k][2] = 1 => wire'[k][3] = "head"
               /\ 3 * wire'[k][1] + wire'[k][2] - 3 = 3 * (sent + 1) - (L + 3) + k
    <3>1. CASE k <= L
      <4>1. k \in 1 .. L /\ wire'[k] = wire[k]
        BY <2>4, <3>1
      <4>2. PICK a \in Nat, b \in Nat : a = wire[k][1] /\ b = wire[k][2]
        BY <2>5, <4>1, CellTypes
      <4>3. a \in 1 .. sent + 1 /\ 3 * a + b - 3 = 3 * (sent + 1) - (L + 3) + k
        <5>1. a \in 1 .. sent /\ 3 * a + b - 3 = 3 * sent - L + k
          BY <2>5, <4>1, <4>2, Zenon
        <5>2. 3 * sent - L + k = 3 * (sent + 1) - (L + 3) + k
          BY <2>2, <2>4
        <5>3. a \in 1 .. sent + 1
          BY <2>2, <5>1
        <5>4. QED
          BY <5>1, <5>2, <5>3, Zenon
      <4>4. QED
        BY <2>5, <4>1, <4>2, <4>3
    <3>2. CASE ~(k <= L)
      <4>1. k - L \in 1 .. 3 /\ wire'[k] = f[k - L]
        BY <2>4, <3>2
      <4>2. f[k - L] \in Cell
        BY <4>1, <2>3, ElementOfSeq
      <4>3. f[k - L][1] = sent + 1 /\ f[k - L][2] = k - L /\ (k - L = 1 => f[k - L][3] = "head")
        BY <2>3, <4>1
      <4>4. 3 * (sent + 1) + (k - L) - 3 = 3 * (sent + 1) - (L + 3) + k
        <5>1. L \in Nat
          BY <2>4
        <5>2. k \in Int /\ sent \in Int /\ L \in Int
          BY <2>2, <5>1
        <5>3. QED
          BY <5>2
      <4>5. QED
        BY <2>2, <4>1, <4>2, <4>3, <4>4
    <3>3. QED
      BY <3>1, <3>2
  <2>7. QED
    BY <2>2, <2>4, <2>6, ChunkSize DEF WireInv, Genuine, Pos
<1>3. CASE Dial
  <2>1. wire' = <<>> /\ sent' = sent
    BY <1>3 DEF Dial
  <2>2. wire' \in Seq(Cell) /\ Len(wire') = 0
    BY <2>1, EmptySeq
  <2>3. QED
    BY <2>1, <2>2 DEF WireInv
<1>4. ASSUME NEW n \in 1 .. CHUNK, Recv(n) PROVE WireInv'
  <2> DEFINE L == Len(wire)
  <2>1. L \in Nat /\ n \in Nat /\ n >= 1 /\ n <= L /\ sent' = sent /\ sent \in Nat
    BY <1>4, WireTaken, ChunkSize DEF Recv, WireInv
  <2>4. /\ wire' \in Seq(Cell) /\ Len(wire') = L - n
        /\ \A k \in 1 .. L - n : wire'[k] = wire[n + k]
    BY <1>4, WireTaken
  <2>5. \A k \in 1 .. L - n :
          /\ wire[n + k] \in Cell /\ wire[n + k][1] \in 1 .. sent /\ wire[n + k][2] \in 1 .. FRAME
          /\ wire[n + k][2] = 1 => wire[n + k][3] = "head"
          /\ FRAME * wire[n + k][1] + wire[n + k][2] - FRAME = FRAME * sent - L + (n + k)
    BY <2>1, SMTT(30) DEF WireInv, Genuine, Pos
  <2> HIDE DEF L
  <2>6. \A k \in 1 .. L - n : FRAME * sent - L + (n + k) = FRAME * sent - (L - n) + k
    BY <2>1, ChunkSize
  <2>7. \A k \in 1 .. Len(wire') :
          /\ wire'[k] \in Cell /\ wire'[k][1] \in 1 .. sent' /\ wire'[k][2] \in 1 .. FRAME
          /\ wire'[k][2] = 1 => wire'[k][3] = "head"
          /\ FRAME * wire'[k][1] + wire'[k][2] - FRAME = FRAME * sent' - Len(wire') + k
    <3> TAKE k \in 1 .. Len(wire')
    <3>1. k \in 1 .. L - n /\ wire'[k] = wire[n + k]
      BY <2>4
    <3>2. FRAME * sent' - Len(wire') + k = FRAME * sent - L + (n + k)
      BY <2>1, <2>4, <2>6, <3>1, Zenon
    <3>3. QED
      BY <2>1, <2>5, <3>1, <3>2, Zenon
  <2>8. QED
    BY <2>1, <2>4, <2>7, Zenon DEF WireInv, Genuine, Pos
<1>5. QED
  BY <1>1, <1>2, <1>3, <1>4
     DEF ClientNext, tcpVars, boardVars, clientVars, BoardCloses, BoardSwitched, RecvNothing, Search, Poll

-----------------------------------------------------------------------------
(* The buffer.                                                             *)
LEMMA BlankType == Blank \in [1 .. CHUNK -> Cell] /\ \A c \in 1 .. CHUNK : Blank[c] = Zero
BY CellTypes DEF Blank

LEMMA ChunkStep == WireInv /\ ChunkInv /\ [ClientNext]_tcpVars => ChunkInv'
<1> SUFFICES ASSUME WireInv, ChunkInv, [ClientNext]_tcpVars PROVE ChunkInv'
  OBVIOUS
<1>1. CASE UNCHANGED <<sent, wire, chunk, step>>
  BY <1>1 DEF ChunkInv, Filled, Genuine, Pos
<1>2. CASE step' # "search" /\ chunk' = Blank
  BY <1>2 DEF ChunkInv, Blank
<1>3. ASSUME NEW n \in 1 .. CHUNK, Recv(n), step' = "search" PROVE ChunkInv'
  <2> DEFINE L == Len(wire)
  <2>1. /\ L \in Nat /\ n \in Nat /\ n >= 1 /\ n <= L /\ sent' = sent /\ sent \in Nat
        /\ chunk' = Received(n)
    BY <1>3, WireTaken, ChunkSize DEF Recv, WireInv
  <2>2. Len(wire') = L - n
    BY <1>3, WireTaken
  <2>3. \A c \in 1 .. CHUNK : chunk'[c] = IF c <= n THEN wire[c] ELSE Zero
    BY <2>1 DEF Received
  <2>4. \A c \in 1 .. n : /\ wire[c] \in Cell /\ wire[c][1] \in 1 .. sent /\ wire[c][2] \in 1 .. FRAME
                          /\ wire[c][2] = 1 => wire[c][3] = "head"
                          /\ FRAME * wire[c][1] + wire[c][2] - FRAME = FRAME * sent - L + c
    BY <2>1 DEF WireInv, Genuine, Pos
  <2> HIDE DEF L
  <2>5. \A c \in 1 .. n : FRAME * sent - L + c = FRAME * sent - (L - n) - n + c
    BY <2>1, ChunkSize
  <2>6. chunk' \in [1 .. CHUNK -> Cell]
    <3>1. \A c \in 1 .. CHUNK : chunk'[c] \in Cell
      BY <2>1, <2>3, <2>4, CellTypes
    <3>2. QED
      BY <2>1, <3>1 DEF Received
  <2>7. \A c \in 1 .. CHUNK : c <= n =>
          /\ chunk'[c] \in Cell /\ chunk'[c][1] \in 1 .. sent' /\ chunk'[c][2] \in 1 .. FRAME
          /\ chunk'[c][2] = 1 => chunk'[c][3] = "head"
          /\ FRAME * chunk'[c][1] + chunk'[c][2] - FRAME = FRAME * sent' - Len(wire') - n + c
    <3> SUFFICES ASSUME NEW c \in 1 .. CHUNK, c <= n
                 PROVE  /\ chunk'[c] \in Cell /\ chunk'[c][1] \in 1 .. sent' /\ chunk'[c][2] \in 1 .. FRAME
                        /\ chunk'[c][2] = 1 => chunk'[c][3] = "head"
                        /\ FRAME * chunk'[c][1] + chunk'[c][2] - FRAME = FRAME * sent' - Len(wire') - n + c
      BY Zenon
    <3>1. c \in 1 .. n
      BY <2>1, ChunkSize
    <3>2. chunk'[c] = wire[c]
      BY <2>3
    <3>3. QED
      BY <2>1, <2>2, <2>4, <2>5, <3>1, <3>2, Zenon
  <2>8. \A c \in 1 .. CHUNK : ~(c <= n) => chunk'[c] = Zero
    BY <2>3
  <2>9. Filled(n)'
    BY <2>7, <2>8, Zenon DEF Filled, Genuine, Pos
  <2>10. QED
    BY <1>3, <2>6, <2>9, Zenon DEF ChunkInv
<1>4. ASSUME NEW n \in 1 .. CHUNK, Recv(n), step' # "search" PROVE ChunkInv'
  BY <1>4 DEF Recv, ChunkInv, Blank
<1>5. CASE BoardSends
  <2>1. PICK byte \in {"data", "zero", "head"} : wire' = wire \o FrameCells(sent + 1, byte)
    BY <1>5 DEF BoardSends
  <2>2. /\ sent' = sent + 1 /\ sent \in Nat /\ sent + 1 \in Nat
        /\ UNCHANGED <<chunk, step>> /\ byte \in Byte
    BY <1>5 DEF BoardSends, clientVars, WireInv, Byte
  <2>3. Len(wire) \in Nat /\ Len(wire') = Len(wire) + 3
    <3>1. FrameCells(sent + 1, byte) \in Seq(Cell) /\ Len(FrameCells(sent + 1, byte)) = 3
      BY <2>2, FrameCellsAre, ChunkSize
    <3>2. QED
      BY <2>1, <3>1, WireGrows DEF WireInv
  <2>4. ASSUME NEW n \in 1 .. CHUNK, Filled(n)
        PROVE  Filled(n)'
    <3>1. FRAME * sent' - Len(wire') - n = FRAME * sent - Len(wire) - n
      <4>1. PICK L \in Nat : L = Len(wire) /\ Len(wire') = L + 3
        BY <2>3
      <4>2. 3 * (sent + 1) - (L + 3) - n = 3 * sent - L - n
        BY <2>2, ChunkSize
      <4>3. QED
        BY <2>2, <4>1, <4>2, ChunkSize
    <3>2. \A c \in 1 .. CHUNK : Genuine(chunk[c]) => Genuine(chunk[c])'
      <4>1. \A x \in 1 .. sent : x \in 1 .. sent'
        BY <2>2
      <4>2. QED
        BY <2>2, <4>1 DEF Genuine
    <3>3. QED
      BY <2>2, <2>4, <3>1, <3>2 DEF Filled, Pos
  <2>5. QED
    BY <2>2, <2>4 DEF ChunkInv, Blank
<1>6. CASE Dial
  BY <1>6 DEF Dial, ChunkInv, Blank
<1>7. CASE BoardCloses \/ BoardSwitched \/ RecvNothing
  BY <1>1, <1>7 DEF BoardCloses, BoardSwitched, RecvNothing, clientVars, ChunkInv, Blank
<1>8. CASE Search
  BY <1>2, <1>8 DEF Search, Cleared
<1>9. QED
  BY <1>1, <1>3, <1>4, <1>5, <1>6, <1>7, <1>8
     DEF ClientNext, tcpVars, boardVars, clientVars, Poll

-----------------------------------------------------------------------------
(* The search.                                                             *)

(***************************************************************************)
(* A frame that passes the check is one the board sent, later than any     *)
(* accepted before it and wholly before what is still on the wire.         *)
(***************************************************************************)
LEMMA FoundFrame ==
  ASSUME WireInv, ChunkInv, AcceptedInv, step = "search", NEW c \in Headers, Checks(FrameAt(c))
  PROVE  \E n \in 1 .. sent :
           /\ FrameAt(c)[1][1] = n
           /\ FrameAt(c)[2] \in Cell /\ FrameAt(c)[2][1] = n /\ FrameAt(c)[2][2] = 2
           /\ \A k \in 1 .. Len(accepted) : accepted[k] < n
           /\ \A w \in 1 .. Len(wire) : Behind(n, wire[w])
<1>1. c \in Nat /\ c >= 1 /\ c + 2 <= CHUNK /\ chunk[c][3] = "head"
  BY ChunkSize DEF Headers
<1>2. \A p \in 1 .. 3 : c + p - 1 \in 1 .. CHUNK
  BY <1>1, ChunkSize
<1>3. \A p \in 1 .. 3 : FrameAt(c)[p] = chunk[c + p - 1]
  <2>1. \A j \in c .. c + 2 : chunk[j] \in Cell
    BY <1>1, ChunkSize DEF ChunkInv
  <2>2. \A p \in 1 .. (c + 2) - c + 1 : SubSeq(chunk, c, c + 2)[p] = chunk[c + p - 1]
    BY <1>1, <2>1, SubSeqProperties
  <2>3. c + FRAME - 1 = c + 2 /\ (c + 2) - c + 1 = 3
    BY <1>1, ChunkSize
  <2>4. QED
    BY <2>2, <2>3 DEF FrameAt
<1>4. PICK m \in 1 .. CHUNK : Filled(m)
  BY DEF ChunkInv
<1>5. \A p \in 1 .. 3 : chunk[c + p - 1][1] = chunk[c][1] /\ chunk[c + p - 1][2] = p
  <2>1. \A p \in 1 .. 3 : FrameAt(c)[p][1] = FrameAt(c)[1][1] /\ FrameAt(c)[p][2] = p
    BY ChunkSize DEF Checks
  <2>2. 1 \in 1 .. 3 /\ c + 1 - 1 = c
    BY <1>1
  <2>3. FrameAt(c)[1] = chunk[c]
    BY <1>3, <2>2
  <2>4. QED
    BY <1>3, <2>1, <2>3
<1>6. \A p \in 1 .. 3 : c + p - 1 <= m /\ chunk[c + p - 1] # Zero
  <2>1. \A p \in 1 .. 3 : chunk[c + p - 1] # Zero
    BY <1>5, CellTypes
  <2>2. QED
    BY <1>2, <1>4, <2>1, Zenon DEF Filled
<1>7. \A p \in 1 .. 3 : /\ chunk[c + p - 1] \in Cell /\ chunk[c + p - 1][1] \in 1 .. sent
                        /\ Pos(chunk[c + p - 1]) = FRAME * sent - Len(wire) - m + (c + p - 1)
  BY <1>2, <1>4, <1>6, Zenon DEF Filled, Genuine
<1>8. 1 \in 1 .. 3 /\ 2 \in 1 .. 3 /\ 3 \in 1 .. 3 /\ c + 1 - 1 = c
  BY <1>1
<1>9. PICK n \in 1 .. sent : n = chunk[c][1]
  BY <1>7, <1>8
<1>10. FrameAt(c)[1][1] = n /\ FrameAt(c)[2] \in Cell /\ FrameAt(c)[2][1] = n /\ FrameAt(c)[2][2] = 2
  <2>1. FrameAt(c)[1] = chunk[c] /\ FrameAt(c)[2] = chunk[c + 2 - 1]
    BY <1>3, <1>8, Zenon
  <2>2. chunk[c + 2 - 1] \in Cell /\ chunk[c + 2 - 1][1] = chunk[c][1] /\ chunk[c + 2 - 1][2] = 2
    BY <1>5, <1>7, <1>8, Zenon
  <2>3. QED
    BY <1>9, <2>1, <2>2, Zenon
<1>11. Pos(chunk[c]) = 3 * n - 2 /\ chunk[c] # Zero
  <2>1. chunk[c][2] = 1 /\ chunk[c] # Zero
    BY <1>5, <1>6, <1>8
  <2>2. n \in Nat /\ 3 * n + 1 - 3 = 3 * n - 2
    BY DEF WireInv
  <2>3. QED
    BY <1>9, <2>1, <2>2, ChunkSize DEF Pos
<1>12. \A k \in 1 .. Len(accepted) : accepted[k] < n
  <2> SUFFICES ASSUME NEW k \in 1 .. Len(accepted) PROVE accepted[k] < n
    OBVIOUS
  <2>1. c \in 1 .. CHUNK
    BY <1>1, ChunkSize
  <2>2. Behind(accepted[k], chunk[c]) /\ accepted[k] \in 1 .. sent
    BY <2>1 DEF AcceptedInv
  <2>3. 3 * accepted[k] < 3 * n - 2
    BY <1>11, <2>2, ChunkSize DEF Behind
  <2>4. accepted[k] \in Nat /\ n \in Nat
    BY <2>2 DEF WireInv
  <2>5. QED
    BY <2>3, <2>4
<1>13. ASSUME NEW w \in 1 .. Len(wire) PROVE Behind(n, wire[w])
  <2>1. Pos(chunk[c + 3 - 1]) = 3 * n
    <3>1. chunk[c + 3 - 1][1] = n /\ chunk[c + 3 - 1][2] = 3
      BY <1>5, <1>8, <1>9, Zenon
    <3>2. n \in Nat /\ 3 * n + 3 - 3 = 3 * n
      BY DEF WireInv
    <3>3. QED
      BY <3>1, <3>2, ChunkSize DEF Pos
  <2>2. 3 * n = 3 * sent - Len(wire) - m + (c + 3 - 1) /\ c + 3 - 1 <= m
    BY <1>6, <1>7, <1>8, <2>1, ChunkSize, Zenon
  <2>3. Pos(wire[w]) = 3 * sent - Len(wire) + w
    BY ChunkSize DEF WireInv
  <2>4. Len(wire) \in Nat /\ sent \in Nat /\ w \in Nat /\ w >= 1 /\ m \in Nat /\ n \in Nat
    BY LenProperties, ChunkSize DEF WireInv
  <2>5. PICK L \in Nat : L = Len(wire)
    BY <2>4
  <2>6. 3 * sent - L - m + (c + 3 - 1) < 3 * sent - L + w
    BY <1>1, <2>2, <2>4, <2>5
  <2>7. QED
    BY <2>2, <2>3, <2>5, <2>6, ChunkSize DEF Behind
<1>14. QED
  BY <1>9, <1>10, <1>12, <1>13

(* The first header is found if there is one.                              *)
LEMMA FirstHeader ==
  ASSUME Headers # {}
  PROVE  (CHOOSE c \in Headers : \A d \in Headers : c <= d) \in Headers
<1>1. Headers \subseteq Nat
  BY ChunkSize DEF Headers
<1>2. \E c \in Headers : \A d \in Headers : c <= d
  BY <1>1, Least
<1>3. QED
  BY <1>2, Zenon

(* A search that finds a frame, and one that does not.                     *)
LEMMA SearchCases ==
  ASSUME WireInv, ChunkInv, AcceptedInv, Search
  PROVE  \/ UNCHANGED <<store, flags, accepted>>
         \/ \E n \in 1 .. sent, cell \in Cell :
              /\ cell[1] = n /\ cell[2] = 2
              /\ store' = Stored(cell) /\ flags' = 1 /\ accepted' = Append(accepted, n)
              /\ \A k \in 1 .. Len(accepted) : accepted[k] < n
              /\ \A w \in 1 .. Len(wire) : Behind(n, wire[w])
<1> DEFINE c == CHOOSE c \in Headers : \A d \in Headers : c <= d
           f == FrameAt(c)
<1>1. CASE Headers # {} /\ Checks(f)
  <2>1. c \in Headers /\ step = "search"
    BY <1>1, FirstHeader DEF Search
  <2>2. /\ store' = Stored(f[2]) /\ flags' = 1 /\ accepted' = Append(accepted, f[1][1])
    BY <1>1 DEF Search
  <2> HIDE DEF c
  <2>3. PICK n \in 1 .. sent :
           /\ FrameAt(c)[1][1] = n
           /\ FrameAt(c)[2] \in Cell /\ FrameAt(c)[2][1] = n /\ FrameAt(c)[2][2] = 2
           /\ \A k \in 1 .. Len(accepted) : accepted[k] < n
           /\ \A w \in 1 .. Len(wire) : Behind(n, wire[w])
    BY <1>1, <2>1, FoundFrame
  <2>4. QED
    BY <2>2, <2>3
<1>2. CASE ~(Headers # {} /\ Checks(f))
  BY <1>2 DEF Search
<1>3. QED
  BY <1>1, <1>2

-----------------------------------------------------------------------------
(* What is accepted.                                                       *)
LEMMA AcceptedStep == WireInv /\ ChunkInv /\ AcceptedInv /\ [ClientNext]_tcpVars => AcceptedInv'
<1> SUFFICES ASSUME WireInv, ChunkInv, AcceptedInv, [ClientNext]_tcpVars PROVE AcceptedInv'
  OBVIOUS
<1>1. CASE UNCHANGED <<sent, wire, chunk, accepted>>
  BY <1>1 DEF AcceptedInv, Behind, Pos
<1>2. CASE BoardSends
  <2>1. PICK byte \in {"data", "zero", "head"} : wire' = wire \o FrameCells(sent + 1, byte)
    BY <1>2 DEF BoardSends
  <2>2. /\ sent' = sent + 1 /\ sent \in Nat /\ UNCHANGED <<chunk, accepted>>
        /\ byte \in Byte /\ sent + 1 \in Nat
    BY <1>2 DEF BoardSends, clientVars, WireInv, Byte
  <2>3. /\ FrameCells(sent + 1, byte) \in Seq(Cell) /\ Len(FrameCells(sent + 1, byte)) = 3
    BY <2>2, FrameCellsAre, ChunkSize
  <2>4. /\ Len(wire) \in Nat /\ Len(wire') = Len(wire) + 3
        /\ \A w \in 1 .. Len(wire) + 3 : w <= Len(wire) => wire'[w] = wire[w]
    BY <2>1, <2>3, WireGrows DEF WireInv
  <2>5. ASSUME NEW w \in 1 .. Len(wire'), NEW k \in 1 .. Len(accepted)
        PROVE  Behind(accepted[k], wire'[w])
    <3>1. w \in Nat /\ w >= 1 /\ w <= Len(wire) + 3
      BY <2>4
    <3>2. CASE w <= Len(wire)
      <4>1. w \in 1 .. Len(wire)
        BY <2>4, <3>1, <3>2
      <4>2. wire'[w] = wire[w]
        BY <2>4, <3>1, <3>2
      <4>3. QED
        BY <4>1, <4>2 DEF AcceptedInv
    <3>3. CASE ~(w <= Len(wire))
      <4>1. WireInv'
        BY WireStep
      <4>2. FRAME * wire'[w][1] + wire'[w][2] - FRAME = FRAME * sent' - Len(wire') + w
        BY <4>1 DEF WireInv, Pos
      <4>3. accepted[k] \in Nat /\ accepted[k] <= sent
        BY <2>2 DEF AcceptedInv
      <4>4. PICK L \in Nat : L = Len(wire) /\ Len(wire') = L + 3
        BY <2>4
      <4>5. 3 * accepted[k] < 3 * (sent + 1) - (L + 3) + w
        BY <2>2, <3>1, <3>3, <4>3, <4>4
      <4>6. QED
        BY <2>2, <4>2, <4>4, <4>5, ChunkSize DEF Behind, Pos
    <3>4. QED
      BY <3>2, <3>3
  <2>6. \A k \in 1 .. Len(accepted) : accepted[k] \in 1 .. sent'
    BY <2>2 DEF AcceptedInv
  <2>7. QED
    BY <2>2, <2>5, <2>6 DEF AcceptedInv, Behind, Pos
<1>3. CASE Dial
  <2>1. wire' = <<>> /\ Len(wire') = 0 /\ UNCHANGED <<sent, chunk, accepted>>
    BY <1>3, EmptySeq DEF Dial
  <2>2. QED
    BY <2>1 DEF AcceptedInv, Behind, Pos
<1>4. ASSUME NEW n \in 1 .. CHUNK, Recv(n) PROVE AcceptedInv'
  <2>1. /\ UNCHANGED <<sent, accepted>>
        /\ chunk' \in {chunk, Received(n)}
    BY <1>4 DEF Recv
  <2>2. /\ Len(wire) \in Nat /\ n <= Len(wire) /\ Len(wire') = Len(wire) - n
        /\ \A w \in 1 .. Len(wire) - n : wire'[w] = wire[n + w]
    BY <1>4, WireTaken
  <2>3. PICK L \in Nat : L = Len(wire)
    BY <2>2
  <2>4. \A w \in 1 .. L - n : n + w \in 1 .. L
    BY <2>3, ChunkSize
  <2>5. \A c \in 1 .. CHUNK : c <= n => c \in 1 .. L
    BY <2>2, <2>3, ChunkSize
  <2>6. ASSUME NEW k \in 1 .. Len(accepted), NEW w \in 1 .. Len(wire')
        PROVE  Behind(accepted[k], wire'[w])
    BY <2>2, <2>3, <2>4 DEF AcceptedInv
  <2>7. ASSUME NEW k \in 1 .. Len(accepted), NEW c \in 1 .. CHUNK
        PROVE  Behind(accepted[k], chunk'[c])
    <3>1. CASE chunk' = chunk
      BY <3>1 DEF AcceptedInv
    <3>2. CASE chunk' = Received(n)
      <4>1. chunk'[c] = IF c <= n THEN wire[c] ELSE Zero
        BY <3>2 DEF Received
      <4>2. c <= n => Behind(accepted[k], wire[c])
        BY <2>3, <2>5 DEF AcceptedInv
      <4>3. QED
        BY <4>1, <4>2 DEF Behind
    <3>3. QED
      BY <2>1, <3>1, <3>2
  <2>8. QED
    BY <2>1, <2>6, <2>7 DEF AcceptedInv, Behind, Pos
<1>5. CASE Search
  <2>1. UNCHANGED <<sent, wire>> /\ chunk' = Blank
    BY <1>5 DEF Search, boardVars, Cleared
  <2>2. \A k \in Nat, c \in 1 .. CHUNK : Behind(k, chunk'[c])
    BY <2>1, BlankType DEF Behind
  <2>3. CASE UNCHANGED <<store, flags, accepted>>
    <3>1. \A k \in 1 .. Len(accepted) : accepted[k] \in Nat
      BY DEF AcceptedInv
    <3>2. QED
      BY <2>1, <2>2, <2>3, <3>1 DEF AcceptedInv, Behind, Pos
  <2>4. CASE ~UNCHANGED <<store, flags, accepted>>
    <3>1. PICK n \in 1 .. sent :
            /\ accepted' = Append(accepted, n)
            /\ \A k \in 1 .. Len(accepted) : accepted[k] < n
            /\ \A w \in 1 .. Len(wire) : Behind(n, wire[w])
      BY <1>5, <2>4, SearchCases
    <3>2. n \in Nat
      BY DEF WireInv
    <3>3. accepted \in Seq(Nat) /\ Len(accepted) \in Nat
      BY LenProperties DEF AcceptedInv
    <3>4. /\ accepted' \in Seq(Nat) /\ Len(accepted') = Len(accepted) + 1
          /\ \A k \in 1 .. Len(accepted) : accepted'[k] = accepted[k]
          /\ accepted'[Len(accepted) + 1] = n
      BY <3>1, <3>2, <3>3, AppendProperties
    <3>5. PICK A \in Nat : A = Len(accepted)
      BY <3>3
    <3>6. \A k \in 1 .. Len(accepted') : k \in 1 .. A \/ k = A + 1
      BY <3>4, <3>5
    <3>7. ASSUME NEW k \in 1 .. Len(accepted')
          PROVE  /\ accepted'[k] \in 1 .. sent
                 /\ \A w \in 1 .. Len(wire) : Behind(accepted'[k], wire[w])
      BY <3>1, <3>4, <3>5, <3>6 DEF AcceptedInv
    <3>8. ASSUME NEW x \in 1 .. Len(accepted'), NEW y \in 1 .. Len(accepted'), x < y
          PROVE  accepted'[x] < accepted'[y]
      <4>1. x \in 1 .. A
        BY <3>4, <3>5, <3>8
      <4>2. CASE y \in 1 .. A
        BY <3>4, <3>5, <3>8, <4>1, <4>2 DEF AcceptedInv
      <4>3. CASE y = A + 1
        BY <3>1, <3>4, <3>5, <4>1, <4>3
      <4>4. QED
        BY <3>6, <4>2, <4>3
    <3>9. \A k \in 1 .. Len(accepted'), c \in 1 .. CHUNK : Behind(accepted'[k], chunk'[c])
      <4>1. \A k \in 1 .. Len(accepted') : accepted'[k] \in Nat
        BY <3>4, ElementOfSeq
      <4>2. QED
        BY <2>2, <4>1
    <3>10. QED
      BY <2>1, <3>4, <3>7, <3>8, <3>9 DEF AcceptedInv, Behind, Pos
  <2>5. QED
    BY <2>3, <2>4
<1>6. QED
  BY <1>1, <1>2, <1>3, <1>4, <1>5
     DEF ClientNext, tcpVars, boardVars, clientVars, BoardCloses, BoardSwitched, RecvNothing, Poll

-----------------------------------------------------------------------------
(* What is stored.                                                         *)
LEMMA StoreStep ==
  WireInv /\ ChunkInv /\ AcceptedInv /\ StoreInv /\ [ClientNext]_tcpVars => StoreInv'
<1> SUFFICES ASSUME WireInv, ChunkInv, AcceptedInv, StoreInv, [ClientNext]_tcpVars
             PROVE  StoreInv'
  OBVIOUS
<1>1. CASE UNCHANGED <<sent, flags, store, accepted>>
  BY <1>1 DEF StoreInv, ClientStoresGenuine
<1>2. CASE BoardSends
  <2>1. UNCHANGED <<flags, store, accepted>> /\ sent' = sent + 1 /\ sent \in Nat
    BY <1>2 DEF BoardSends, clientVars, WireInv
  <2>2. \A n \in 1 .. sent : n \in 1 .. sent'
    BY <2>1
  <2>3. QED
    BY <2>1, <2>2 DEF StoreInv, ClientStoresGenuine
<1>3. ASSUME NEW h \in Channels, Poll(h) PROVE StoreInv'
  <2>1. store' = [store EXCEPT ![h] = Zero] /\ UNCHANGED <<sent, flags, accepted>>
    BY <1>3 DEF Poll, boardVars
  <2>2. accepted = <<>>
    BY <1>3 DEF Poll, StoreInv
  <2>3. ~(Len(accepted) > 1)
    BY <2>2, EmptySeq
  <2>4. store' \in [Channels -> Cell] /\ \A g \in Channels : store'[g] = store[g] \/ store'[g] = Zero
    BY <2>1, CellTypes DEF StoreInv
  <2>5. QED
    BY <2>1, <2>2, <2>3, <2>4 DEF StoreInv, ClientStoresGenuine
<1>4. CASE Search
  <2>1. sent' = sent
    BY <1>4 DEF Search, boardVars
  <2>2. CASE UNCHANGED <<store, flags, accepted>>
    BY <1>1, <2>1, <2>2
  <2>3. CASE ~UNCHANGED <<store, flags, accepted>>
    <3>1. PICK n \in 1 .. sent, cell \in Cell :
            /\ cell[1] = n /\ cell[2] = 2
            /\ store' = Stored(cell) /\ flags' = 1 /\ accepted' = Append(accepted, n)
      BY <1>4, <2>3, SearchCases
    <3>2. cell # Absent
      BY <3>1, CellTypes
    <3>3. /\ accepted \in Seq(Nat) /\ n \in Nat /\ Len(accepted) \in Nat
      BY LenProperties DEF AcceptedInv, WireInv
    <3>4. /\ accepted' \in Seq(Nat) /\ Len(accepted') = Len(accepted) + 1
          /\ accepted'[Len(accepted')] = n
      BY <3>1, <3>3, AppendProperties
    <3>5. accepted' # <<>>
      BY <3>3, <3>4, EmptySeq
    <3>6. /\ store' \in [Channels -> Cell]
          /\ \A h \in Channels : store'[h] = cell \/ (store'[h] = store[h] /\ store[h] # Absent)
          /\ flags # 0 => \A h \in Channels : store'[h] = cell
      BY <3>1 DEF Stored, StoreInv
    <3>7. Len(accepted') > 1 => flags # 0
      <4>1. Len(accepted') > 1 => accepted # <<>>
        BY <3>3, <3>4, EmptySeq
      <4>2. QED
        BY <4>1 DEF StoreInv
    <3>8. ClientStoresGenuine'
      BY <2>1, <3>1, <3>6 DEF StoreInv, ClientStoresGenuine
    <3>9. \A h \in Channels : store'[h] # Absent
      BY <3>2, <3>6
    <3>10. Len(accepted') > 1 => \A h \in Channels : store'[h][1] = accepted'[Len(accepted')]
      BY <3>1, <3>4, <3>6, <3>7
    <3>11. QED
      BY <3>1, <3>5, <3>6, <3>8, <3>9, <3>10 DEF StoreInv
  <2>4. QED
    BY <2>2, <2>3
<1>5. QED
  BY <1>1, <1>2, <1>3, <1>4
     DEF ClientNext, tcpVars, boardVars, clientVars, BoardCloses, BoardSwitched, Dial, Recv, RecvNothing

-----------------------------------------------------------------------------
LEMMA InvInit == ClientInit => ClientInv
<1> SUFFICES ASSUME ClientInit PROVE ClientInv
  OBVIOUS
<1>1. /\ wire \in Seq(Cell) /\ Len(wire) = 0 /\ accepted \in Seq(Nat) /\ Len(accepted) = 0
      /\ sent = 0 /\ step = "dial" /\ chunk = Blank /\ flags = 0 /\ accepted = <<>>
      /\ store = [h \in Channels |-> Absent]
  BY EmptySeq DEF ClientInit
<1>2. WireInv
  BY <1>1 DEF WireInv
<1>3. ChunkInv
  BY <1>1 DEF ChunkInv
<1>4. AcceptedInv
  BY <1>1 DEF AcceptedInv
<1>5. StoreInv
  BY <1>1, CellTypes DEF StoreInv, ClientStoresGenuine
<1>6. QED
  BY <1>2, <1>3, <1>4, <1>5 DEF ClientInv

(* However the stream is cut and the connection lost, the invariant holds. *)
THEOREM ClientInvariant == ClientSpec => []ClientInv
<1>1. ClientInv /\ [ClientNext]_tcpVars => ClientInv'
  BY WireStep, ChunkStep, AcceptedStep, StoreStep DEF ClientInv
<1>2. QED
  BY <1>1, InvInit, PTL DEF ClientSpec

(* Every variable of the client and its board always has its type: the     *)
(* buffer is blank outside the search, and a connection holds no more than *)
(* the board has sent.                                                     *)
THEOREM ClientTyped == ClientSpec => []ClientTypeOK
<1> DEFINE Ranges ==
      /\ boardUp \in BOOLEAN /\ link \in {"open", "closed", "dead"} /\ sockfd \in BOOLEAN
      /\ sent \in 0 .. MaxFrames
      /\ step \in {"dial", "recv", "search"} /\ fds \in 2 .. MaxFds
<1>1. ClientInit => Ranges
  <2>1. 2 \in 2 .. MaxFds /\ 0 \in 0 .. MaxFrames
    BY ClientAssumption
  <2>2. QED
    BY <2>1, Zenon DEF ClientInit
<1>2. Ranges /\ [ClientNext]_tcpVars => Ranges'
  <2> SUFFICES ASSUME Ranges, [ClientNext]_tcpVars PROVE Ranges'
    OBVIOUS
  <2>1. CASE BoardSends
    <3>1. sent' \in 0 .. MaxFrames
      BY <2>1, ClientAssumption DEF BoardSends
    <3>2. QED
      BY <2>1, <3>1 DEF BoardSends, clientVars
  <2>2. CASE Dial
    <3>1. sockfd' = (fds < MaxFds) /\ fds' = (IF sockfd' THEN fds + 1 ELSE fds)
      BY <2>2 DEF Dial
    <3>2. sockfd' \in BOOLEAN
      <4>1. CASE fds < MaxFds
        BY <3>1, <4>1, Zenon
      <4>2. CASE ~(fds < MaxFds)
        <5>1. (fds < MaxFds) = FALSE
          BY <4>2, ClientAssumption, SMT
        <5>2. QED
          BY <3>1, <5>1, Zenon
      <4>3. QED
        BY <4>1, <4>2
    <3>3. fds' \in 2 .. MaxFds
      <4>1. CASE fds < MaxFds
        <5>1. fds' = fds + 1
          BY <3>1, <4>1, Zenon
        <5>2. QED
          BY <4>1, <5>1, ClientAssumption
      <4>2. CASE ~(fds < MaxFds)
        BY <3>1, <4>2, Zenon
      <4>3. QED
        BY <4>1, <4>2
    <3>4. QED
      BY <2>2, <3>2, <3>3 DEF Dial
  <2>3. CASE RecvNothing \/ Search \/ (\E n \in 1 .. CHUNK : Recv(n)) \/ (\E h \in Channels : Poll(h))
    BY <2>3 DEF RecvNothing, Search, Recv, Poll, boardVars
  <2>4. CASE UNCHANGED tcpVars
    BY <2>4 DEF tcpVars, boardVars, clientVars
  <2>5. CASE BoardCloses \/ BoardSwitched
    BY <2>5, Zenon DEF BoardCloses, BoardSwitched, clientVars
  <2>6. QED
    BY <2>1, <2>2, <2>3, <2>4, <2>5 DEF ClientNext
<1>3. Ranges /\ ClientInv => ClientTypeOK
  <2> SUFFICES ASSUME Ranges, ClientInv PROVE ClientTypeOK
    OBVIOUS
  <2>1. DOMAIN chunk = 1 .. CHUNK
    BY DEF ClientInv, ChunkInv, Blank
  <2>2. Len(wire) <= FRAME * MaxFrames
    <3>1. Len(wire) \in Nat /\ sent \in Nat /\ sent <= MaxFrames /\ MaxFrames \in Nat
      BY LenProperties, ClientAssumption DEF ClientInv, WireInv
    <3>2. CASE Len(wire) = 0
      BY <3>1, <3>2, ChunkSize
    <3>3. CASE Len(wire) # 0
      <4>1. 1 \in 1 .. Len(wire)
        BY <3>1, <3>3
      <4>2. /\ wire[1][1] \in 1 .. sent /\ wire[1][2] \in 1 .. FRAME
            /\ FRAME * wire[1][1] + wire[1][2] - FRAME = FRAME * sent - Len(wire) + 1
        BY <4>1 DEF ClientInv, WireInv, Genuine, Pos
      <4>3. PICK a \in Int, b \in Int, L \in Nat : a = wire[1][1] /\ b = wire[1][2] /\ L = Len(wire)
        BY <3>1, <4>2, ChunkSize
      <4>4. a >= 1 /\ b >= 1 /\ 3 * a + b - 3 = 3 * sent - L + 1
        <5>1. a \in 1 .. sent /\ b \in 1 .. 3 /\ 3 * a + b - 3 = 3 * sent - L + 1
          BY <4>2, <4>3, ChunkSize, Zenon
        <5>2. QED
          BY <3>1, <5>1
      <4>5. L <= 3 * MaxFrames
        BY <3>1, <4>4
      <4>6. QED
        BY <4>3, <4>5, ChunkSize
    <3>4. QED
      BY <3>2, <3>3
  <2>3. QED
    BY <2>1, <2>2 DEF ClientInv, ChunkInv, StoreInv, ClientTypeOK
<1>4. QED
  <2> HIDE DEF Ranges
  <2>1. QED
    BY <1>1, <1>2, <1>3, ClientInvariant, PTL DEF ClientSpec

(***************************************************************************)
(* Only the data of a frame the board sent reaches the map, wherever in a  *)
(* frame a chunk starts or ends and whatever byte looks like the header.   *)
(***************************************************************************)
THEOREM ClientSamplesGenuine == ClientSpec => []ClientStoresGenuine
<1>1. ClientInv => ClientStoresGenuine
  BY DEF ClientInv, StoreInv
<1>2. QED
  BY <1>1, ClientInvariant, PTL

(***************************************************************************)
(* Frames are accepted once each and in order, and from the second on      *)
(* every channel shows the last, over reconnects too.                      *)
(***************************************************************************)
THEOREM LastFrameShown == ClientSpec => []ClientShowsLast
<1>1. ClientInv => ClientShowsLast
  BY DEF ClientInv, StoreInv, AcceptedInv, ClientShowsLast
<1>2. QED
  BY <1>1, ClientInvariant, PTL

(***************************************************************************)
(* A chunk that begins with a whole frame yields a sample, whatever is     *)
(* behind it.                                                              *)
(***************************************************************************)
THEOREM WholeFramesCount == ClientSpec => WholeFrameCounts
<1>1. ASSUME ClientInv, ClientNext, step = "search", step' = "recv",
             \A p \in 1 .. FRAME : chunk[p][2] = p
      PROVE  accepted' = Append(accepted, chunk[1][1])
  <2>1. Search
    BY <1>1 DEF ClientNext, BoardSends, BoardCloses, BoardSwitched, Dial, Recv, RecvNothing, Poll,
                clientVars, boardVars
  <2>2. PICK m \in 1 .. CHUNK : Filled(m)
    BY <1>1 DEF ClientInv, ChunkInv
  <2>3. \A p \in 1 .. 3 : p \in 1 .. CHUNK /\ p \in Nat /\ chunk[p][2] = p /\ chunk[p] # Zero
    BY <1>1, ChunkSize, CellTypes
  <2>4. \A p \in 1 .. 3 : /\ chunk[p] \in Cell /\ chunk[p][1] \in Nat /\ (p = 1 => chunk[p][3] = "head")
                          /\ FRAME * chunk[p][1] + p - FRAME = FRAME * sent - Len(wire) - m + p
    BY <2>2, <2>3, CellTypes DEF Filled, Genuine, Pos
  <2>5. PICK S \in Int : S = FRAME * sent - Len(wire) - m
    <3>1. sent \in Int /\ Len(wire) \in Int /\ m \in Int
      BY <1>1, LenProperties, ChunkSize DEF ClientInv, WireInv
    <3>2. 3 * sent - Len(wire) - m \in Int
      BY <3>1
    <3>3. QED
      BY <3>2, ChunkSize
  <2>6. \A p \in 1 .. 3 : 3 * chunk[p][1] + p - 3 = S + p
    BY <2>4, <2>5, ChunkSize
  <2>7. \A p \in 1 .. 3 : chunk[p][1] = chunk[1][1]
    <3> SUFFICES ASSUME NEW p \in 1 .. 3 PROVE chunk[p][1] = chunk[1][1]
      OBVIOUS
    <3>1. PICK a \in Nat, b \in Nat : a = chunk[p][1] /\ b = chunk[1][1]
      BY <2>4
    <3>2. 3 * a + p - 3 = S + p /\ 3 * b + 1 - 3 = S + 1
      BY <2>6, <3>1
    <3>3. a = b
      BY <3>2
    <3>4. QED
      BY <3>1, <3>3
  <2>8. 1 \in Headers /\ \A d \in Headers : 1 <= d
    <3>1. 1 \in 1 .. CHUNK - FRAME
      BY ChunkSize
    <3>2. QED
      BY <2>4, <3>1, ChunkSize DEF Headers
  <2>9. (CHOOSE c \in Headers : \A d \in Headers : c <= d) = 1
    <3>1. \A c \in Headers : (\A d \in Headers : c <= d) => c = 1
      BY <2>8, ChunkSize DEF Headers
    <3>2. QED
      BY <2>8, <3>1, Zenon
  <2>10. \A p \in 1 .. 3 : FrameAt(1)[p] = chunk[p]
    <3>1. \A j \in 1 .. 3 : chunk[j] \in Cell
      BY <2>4
    <3>2. \A p \in 1 .. 3 - 1 + 1 : SubSeq(chunk, 1, 3)[p] = chunk[1 + p - 1]
      BY <3>1, SubSeqProperties
    <3>3. 1 + FRAME - 1 = 3 /\ 3 - 1 + 1 = 3 /\ \A p \in 1 .. 3 : 1 + p - 1 = p
      BY ChunkSize
    <3>4. QED
      BY <3>2, <3>3 DEF FrameAt
  <2>11. Checks(FrameAt(1)) /\ FrameAt(1)[1] = chunk[1]
    BY <2>3, <2>7, <2>10, ChunkSize DEF Checks
  <2>12. QED
    BY <2>1, <2>8, <2>9, <2>11 DEF Search
<1>2. ClientInv /\ [ClientNext]_tcpVars =>
        [step = "search" /\ step' = "recv" /\ (\A p \in 1 .. FRAME : chunk[p][2] = p)
           => accepted' = Append(accepted, chunk[1][1])]_tcpVars
  BY <1>1
<1>3. QED
  BY <1>2, ClientInvariant, PTL DEF ClientSpec, WholeFrameCounts

-----------------------------------------------------------------------------
(* The RS485 reader.                                                       *)

(***************************************************************************)
(* Errors of open() and tcsetattr() go unnoticed until set_Parity: between *)
(* set_speed and set_Parity the port has the right speed only if it could  *)
(* be opened.                                                              *)
(***************************************************************************)
LineInv ==
  /\ line \in Termios /\ asked \in Format
  /\ usart = "parity" /\ opened => line.speed = 9600
  /\ LineAsAsked

(* A flag or the size of a character changed at a time.                    *)
LEMMA OneSetting ==
  ASSUME NEW o \in Termios, NEW b \in BOOLEAN, NEW d \in {7, 8}
  PROVE  /\ [o EXCEPT !.PARENB = b] \in Termios /\ [o EXCEPT !.PARODD = b] \in Termios
         /\ [o EXCEPT !.CSTOPB = b] \in Termios /\ [o EXCEPT !.INPCK = b] \in Termios
         /\ [o EXCEPT !.CSIZE = d] \in Termios
<1>1. [o EXCEPT !.PARENB = b] \in Termios
  BY DEF Termios
<1>2. [o EXCEPT !.PARODD = b] \in Termios
  BY DEF Termios
<1>3. [o EXCEPT !.CSTOPB = b] \in Termios
  BY DEF Termios
<1>4. [o EXCEPT !.INPCK = b] \in Termios
  BY DEF Termios
<1>5. [o EXCEPT !.CSIZE = d] \in Termios
  BY DEF Termios
<1>6. QED
  BY <1>1, <1>2, <1>3, <1>4, <1>5

(* The format set_Parity leaves behind, on top of any other.               *)
LEMMA FormattedAs ==
  ASSUME NEW o \in Termios, NEW f \in Format, Supported(f), NEW l, l = Formatted(o, f)
  PROVE  /\ l \in Termios /\ l.speed = o.speed
         /\ l.CSIZE = f.databits /\ l.CSTOPB = (f.stopbits = 2)
         /\ l.PARENB = (f.parity \in {"o", "e"})
         /\ l.PARENB => l.PARODD = (f.parity = "o")
         /\ l.INPCK = (f.parity # "n")
<1> DEFINE w == WithParity(o, f.parity)
<1>1. PICK yes \in BOOLEAN, no \in BOOLEAN, two \in BOOLEAN, check \in BOOLEAN :
        /\ yes = TRUE /\ no = FALSE
        /\ two = (f.stopbits = 2) /\ check = (w.INPCK \/ f.parity # "n")
  OBVIOUS
<1>2. f.parity \in {"n", "N", "o", "e", "s"} /\ f.databits \in {7, 8}
  BY DEF Supported, Format
<1>3. \/ f.parity \in {"n", "N"} /\ w = [o EXCEPT !.PARENB = no, !.INPCK = no]
      \/ f.parity = "o" /\ w = [o EXCEPT !.PARENB = yes, !.PARODD = yes, !.INPCK = yes]
      \/ f.parity = "e" /\ w = [o EXCEPT !.PARENB = yes, !.PARODD = no, !.INPCK = yes]
      \/ f.parity = "s" /\ w = [o EXCEPT !.PARENB = no, !.CSTOPB = no]
  BY <1>1, <1>2, Zenon DEF WithParity
<1>4. l = [w EXCEPT !.CSIZE = f.databits, !.CSTOPB = two, !.INPCK = check]
  BY <1>1 DEF Formatted
<1> HIDE DEF w
<1>5. w \in Termios
  <2>1. [o EXCEPT !.PARENB = no, !.INPCK = no] \in Termios
    BY OneSetting
  <2>2. [o EXCEPT !.PARENB = yes, !.PARODD = yes, !.INPCK = yes] \in Termios
    BY OneSetting
  <2>3. [o EXCEPT !.PARENB = yes, !.PARODD = no, !.INPCK = yes] \in Termios
    BY OneSetting
  <2>4. [o EXCEPT !.PARENB = no, !.CSTOPB = no] \in Termios
    BY OneSetting
  <2>5. QED
    BY <1>3, <2>1, <2>2, <2>3, <2>4, Zenon
<1>6. /\ w.speed = o.speed
      /\ f.parity \in {"n", "N", "s"} => w.PARENB = no
      /\ f.parity = "n" => w.INPCK = no
      /\ f.parity \in {"o", "e"} => w.PARENB = yes
      /\ f.parity = "o" => w.PARODD = yes
      /\ f.parity = "e" => w.PARODD = no
  <2>1. CASE f.parity \in {"n", "N"}
    <3>1. w = [o EXCEPT !.PARENB = no, !.INPCK = no]
      BY <1>3, <2>1
    <3>2. QED
      BY <2>1, <3>1 DEF Termios
  <2>2. CASE f.parity = "o"
    <3>1. w = [o EXCEPT !.PARENB = yes, !.PARODD = yes, !.INPCK = yes]
      BY <1>3, <2>2
    <3>2. QED
      BY <2>2, <3>1 DEF Termios
  <2>3. CASE f.parity = "e"
    <3>1. w = [o EXCEPT !.PARENB = yes, !.PARODD = no, !.INPCK = yes]
      BY <1>3, <2>3
    <3>2. QED
      BY <2>3, <3>1 DEF Termios
  <2>4. CASE f.parity = "s"
    <3>1. w = [o EXCEPT !.PARENB = no, !.CSTOPB = no]
      BY <1>3, <2>4
    <3>2. QED
      BY <2>4, <3>1 DEF Termios
  <2>5. QED
    BY <1>2, <2>1, <2>2, <2>3, <2>4
<1>7. l \in Termios
  <2>1. [w EXCEPT !.CSIZE = f.databits] \in Termios
    BY <1>2, <1>5, OneSetting
  <2>2. [[w EXCEPT !.CSIZE = f.databits] EXCEPT !.CSTOPB = two] \in Termios
    BY <2>1, OneSetting
  <2>3. [[[w EXCEPT !.CSIZE = f.databits] EXCEPT !.CSTOPB = two] EXCEPT !.INPCK = check]
          \in Termios
    BY <2>2, OneSetting
  <2>4. QED
    BY <1>4, <2>3
<1>8. /\ l.speed = w.speed /\ l.CSIZE = f.databits /\ l.CSTOPB = two /\ l.INPCK = check
      /\ l.PARENB = w.PARENB /\ l.PARODD = w.PARODD
  BY <1>4, <1>5 DEF Termios
<1>9. l.PARENB = (f.parity \in {"o", "e"})
  <2>1. CASE f.parity \in {"n", "N", "s"}
    <3>1. f.parity \notin {"o", "e"}
      BY <2>1
    <3>2. l.PARENB = FALSE
      BY <1>1, <1>6, <1>8, <2>1, Zenon
    <3>3. (f.parity \in {"o", "e"}) = FALSE
      BY <3>1
    <3>4. QED
      BY <3>2, <3>3
  <2>2. CASE f.parity \in {"o", "e"}
    BY <1>1, <1>6, <1>8, <2>2, Zenon
  <2>3. QED
    BY <1>2, <2>1, <2>2
<1>10. l.PARENB => l.PARODD = (f.parity = "o")
  <2>1. CASE f.parity = "o"
    BY <1>1, <1>6, <1>8, <2>1, Zenon
  <2>2. CASE f.parity = "e"
    BY <1>1, <1>6, <1>8, <2>2, Zenon
  <2>3. QED
    BY <1>2, <1>9, <2>1, <2>2
<1>11. l.INPCK = (f.parity # "n")
  <2>1. CASE f.parity = "n"
    <3>1. l.INPCK = FALSE /\ (f.parity # "n") = FALSE
      BY <1>1, <1>6, <1>8, <2>1, Zenon
    <3>2. QED
      BY <3>1
  <2>2. CASE f.parity # "n"
    <3>1. check = TRUE /\ (f.parity # "n") = TRUE
      BY <1>1, <2>2, Zenon
    <3>2. QED
      BY <1>8, <3>1
  <2>3. QED
    BY <2>1, <2>2
<1>12. QED
  BY <1>1, <1>6, <1>7, <1>8, <1>9, <1>10, <1>11, Zenon

LEMMA LineStep == LineInv /\ [SerialNext]_serialVars => LineInv'
<1> SUFFICES ASSUME LineInv, [SerialNext]_serialVars PROVE LineInv'
  OBVIOUS
<1>1. CASE OpenPort
  BY <1>1 DEF OpenPort, LineInv, LineAsAsked
<1>2. CASE SetSpeed
  <2>1. line' \in Termios /\ (opened => line'.speed = 9600)
    BY <1>2 DEF SetSpeed, LineInv, Termios
  <2>2. QED
    BY <1>2, <2>1 DEF SetSpeed, LineInv, LineAsAsked
<1>3. CASE SetParity
  <2>1. CASE opened /\ Supported(asked)
    <3>1. line' = Formatted(line, asked) /\ UNCHANGED <<opened, asked>> /\ usart' = "read"
      BY <1>3, <2>1 DEF SetParity
    <3>2. line.speed = 9600 /\ line \in Termios /\ asked \in Format
      BY <1>3, <2>1 DEF SetParity, LineInv
    <3>3. QED
      BY <2>1, <3>1, <3>2, FormattedAs DEF LineInv, LineAsAsked
  <2>2. CASE ~(opened /\ Supported(asked))
    BY <1>3, <2>2 DEF SetParity, LineInv, LineAsAsked
  <2>3. QED
    BY <2>1, <2>2
<1>4. ASSUME NEW m \in Messages, ReadMessage(m)
      PROVE  LineInv'
  BY <1>4 DEF ReadMessage, LineInv, LineAsAsked
<1>5. CASE UNCHANGED serialVars
  BY <1>5 DEF serialVars, LineInv, LineAsAsked
<1>6. QED
  BY <1>1, <1>2, <1>3, <1>4, <1>5 DEF SerialNext

(***************************************************************************)
(* Whatever the last user of the port left behind and whatever goes wrong  *)
(* on the way, the reader reads at 9600 baud in the format asked for.      *)
(***************************************************************************)
THEOREM LineFormatted == SerialSpec => []LineAsAsked
<1>1. SerialInit => LineInv
  BY DEF SerialInit, LineInv, LineAsAsked
<1>2. LineInv => LineAsAsked
  BY DEF LineInv
<1>3. QED
  BY <1>1, <1>2, LineStep, PTL DEF SerialSpec
=============================================================================
