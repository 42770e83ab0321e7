-------------------------- MODULE F407ServerProofs --------------------------
(***************************************************************************)
(* Theorems about the board threads, for every number of boards, every     *)
(* channel count, every buffer size and every way TCP cuts the stream.     *)
(***************************************************************************)
EXTENDS F407Server, SequenceTheorems, TLAPS

svars == <<serverVars, Factory_data_map>>

-----------------------------------------------------------------------------
(* Types.                                                                  *)

(* The named cells are cells.                                              *)
LEMMA CellTypes ==
  /\ Absent \in Cell /\ Zero \in Cell /\ Header \in Cell /\ BadCheck \in Cell
  /\ \A b, s, h \in Nat : Word(b, s, h) \in Cell /\ Check(b, s) \in Cell
BY DEF Cell, Absent, Zero, Header, BadCheck, Word, Check

(* A frame is a sequence of FRAME_LEN cells.                               *)
LEMMA FrameStreamType ==
  ASSUME NEW b \in Board, NEW s \in Nat
  PROVE  /\ FrameStream(b, s) \in Seq(Cell)
         /\ Len(FrameStream(b, s)) = FRAME_LEN
<1>1. FRAME_LEN \in Nat
  BY BoardsAssumption DEF FRAME_LEN
<1>2. \A j \in 1 .. FRAME_LEN : FrameCell(b, s, j - 1) \in Cell
  BY <1>1, CellTypes, BoardsAssumption DEF FrameCell, Board
<1>3. FrameStream(b, s) \in [1 .. FRAME_LEN -> Cell]
  BY <1>2 DEF FrameStream
<1>4. QED
  BY <1>1, <1>3

(* The connections are records of a state and a sequence of cells.         *)
LEMMA ConnType ==
  /\ \A c \in Conn : c.rx \in Seq(Cell)
  /\ \A c \in Conn : \A r \in Seq(Cell) : [c EXCEPT !.rx = r] \in Conn
  /\ \A r \in Seq(Cell) : [state |-> "fin", rx |-> r] \in Conn
  /\ <<>> \in Seq(Cell) /\ NoConn \in Conn /\ NewConn \in Conn
<1>1. <<>> \in Seq(Cell)
  BY EmptySeq
<1>2. QED
  BY <1>1 DEF Conn, NoConn, NewConn

(* What read() takes and what it leaves are sequences over the same set.   *)
LEMMA SplitType ==
  ASSUME NEW S, NEW s \in Seq(S), NEW n \in 1 .. Len(s)
  PROVE  SubSeq(s, 1, n) \in Seq(S) /\ SubSeq(s, n + 1, Len(s)) \in Seq(S)
BY SubSeqProperties, ElementOfSeq, LenProperties

(* read() leaves the elements of the buffer where they were in the stream. *)
LEMMA ReceivedType ==
  ASSUME NEW S, NEW cells \in Seq(S), NEW buffer,
         \A j \in 0 .. BUF_LEN - 1 : buffer[j] \in S
  PROVE  Received(buffer, cells) \in [0 .. BUF_LEN - 1 -> S]
<1>1. \A j \in 0 .. BUF_LEN - 1 : j < Len(cells) => cells[j + 1] \in S
  BY LenProperties, ServerAssumption
<1>2. QED
  BY <1>1 DEF Received

(* The initial states are well typed.                                      *)
LEMMA ServerInitType == ServerInit /\ MapInit => ServerTypeOK
BY BoardsAssumption, ServerAssumption, CellTypes, EmptySeq
   DEF ServerInit, MapInit, ServerTypeOK, Conn, NoConn, Buffer, BlankBuffer, Board,
       FRAME_LEN

(* Replacing the current connection of a board keeps both types.           *)
LEMMA SetCurrentType ==
  ASSUME ServerTypeOK, NEW b \in Board, NEW c \in Conn, SetCurrent(b, c)
  PROVE  conn' \in [Board -> Conn] /\ waiting' \in [Board -> Conn]
BY DEF SetCurrent, ServerTypeOK

(* What the board threads do keeps every type.                             *)
LEMMA ThreadType ==
  ASSUME ServerTypeOK, NEW t \in Board, ThreadStep(t)
  PROVE  ServerTypeOK'
<1> USE DEF ServerTypeOK, Goto, bufferVars, boardVars
<1>1. CASE Accept(t)
  BY <1>1, EmptySeq DEF Accept, NoConn, Conn
<1>2. CASE Clear(t)
  BY <1>2, CellTypes DEF Clear, BlankBuffer, Buffer
<1>3. CASE Read(t)
  <2>1. PICK n \in ReadSizes(conn[t].rx) :
          /\ Tcp_f407_Callbackbuf' =
               Received(Tcp_f407_Callbackbuf, SubSeq(conn[t].rx, 1, n))
          /\ conn' = [conn EXCEPT ![t].rx = SubSeq(@, n + 1, Len(@))]
    BY <1>3 DEF Read
  <2>2. conn[t].rx \in Seq(Cell) /\ n \in 1 .. Len(conn[t].rx)
    BY <2>1, LenProperties DEF ReadSizes, Conn
  <2>3. SubSeq(conn[t].rx, 1, n) \in Seq(Cell)
    BY <2>2, SplitType
  <2>4. SubSeq(conn[t].rx, n + 1, Len(conn[t].rx)) \in Seq(Cell)
    BY <2>2, SplitType
  <2>5. conn' \in [Board -> Conn]
    BY <2>1, <2>4, ZenonT(30) DEF Conn
  <2>6. Tcp_f407_Callbackbuf' \in Buffer(BUF_LEN)
    BY <2>1, <2>3, ReceivedType DEF Buffer
  <2>7. QED
    BY <1>3, <2>5, <2>6 DEF Read
<1>4. CASE ReadEnd(t)
  BY <1>4 DEF ReadEnd
<1>5. CASE Close(t)
  BY <1>5, EmptySeq DEF Close, NoConn, Conn
<1>6. CASE ScanFound(t)
  BY <1>6, BoardsAssumption, ServerAssumption, SMTT(30)
     DEF ScanFound, CopyFrom, Buffer, FRAME_LEN, IsFirstHeader, HeaderPositions
<1>7. CASE ScanFailed(t)
  BY <1>7 DEF ScanFailed
<1>8. CASE CopyCrc(t)
  BY <1>8, BoardsAssumption DEF CopyCrc, Buffer, FRAME_LEN
<1>9. CASE CrcGood(t)
  <2>1. SeqOf(F407_Buffer[1]) \in Nat
    <3>1. F407_Buffer[1] \in Cell
      BY BoardsAssumption DEF Buffer, FRAME_LEN
    <3>2. QED
      BY <3>1 DEF SeqOf, Cell
  <2>2. Append(accepted[t], SeqOf(F407_Buffer[1])) \in Seq(Nat)
    BY <2>1, AppendProperties
  <2>3. QED
    BY <1>9, <2>2, BoardsAssumption DEF CrcGood
<1>10. CASE CrcBad(t)
  BY <1>10 DEF CrcBad
<1>11. CASE Load(t)
  <2>0. channel[t] \in 1 .. WORDS /\ channel[t] <= ChannelNum[t]
    <3>1. channel[t] \in 1 .. WORDS + 1 /\ channel[t] <= ChannelNum[t]
      BY <1>11 DEF Load, MoreChannels
    <3>2. ChannelNum[t] \in 0 .. WORDS
      BY BoardsAssumption DEF Board
    <3>3. QED
      BY <3>1, <3>2, BoardsAssumption
  <2>1. channel[t] \in 0 .. BUF_LEN - 1
    BY <2>0, BoardsAssumption, ServerAssumption DEF FRAME_LEN
  <2>2. Tcp_f407_Callbackbuf[channel[t]] \in Cell
    BY <2>1 DEF Buffer
  <2>3. <<t, channel[t]>> \in Key
    BY <2>0 DEF Key
  <2>4. QED
    BY <1>11, <2>2, <2>3 DEF Load, ChannelWord
<1>12. CASE Store(t)
  <2>1. Factory_data_map' \in [Key -> Cell]
    BY <1>12 DEF Store, StoreWord, MapInsert, MapAssign
  <2>2. channel[t] + 1 \in 1 .. WORDS + 1
    BY <1>12, BoardsAssumption DEF Store, Key
  <2>3. QED
    BY <1>12, <2>1, <2>2, CellTypes DEF Store
<1>13. CASE StoreDone(t)
  BY <1>13 DEF StoreDone
<1>14. QED
  BY <1>1, <1>2, <1>3, <1>4, <1>5, <1>6, <1>7, <1>8, <1>9, <1>10, <1>11, <1>12, <1>13
     DEF ThreadStep

(* What the boards and the network do keeps every type.                    *)
LEMMA BoardType ==
  ASSUME ServerTypeOK, NEW b \in Board, BoardStep(b)
  PROVE  ServerTypeOK'
<1> USE DEF ServerTypeOK, bufferVars
<1>1. Current(b) \in Conn
  BY DEF Current
<1>2. CASE Dial(b)
  <2>1. dials[b] + 1 \in 0 .. MaxDials
    BY <1>2, ServerAssumption DEF Dial
  <2>2. QED
    BY <1>2, <2>1, ConnType DEF Dial
<1>3. CASE Send(b)
  <2> DEFINE c == [Current(b) EXCEPT !.rx = @ \o FrameStream(b, sent[b] + 1)]
  <2>1. c \in Conn
    <3>1. FrameStream(b, sent[b] + 1) \in Seq(Cell)
      BY FrameStreamType, ServerAssumption
    <3>2. Current(b).rx \o FrameStream(b, sent[b] + 1) \in Seq(Cell)
      BY <1>1, <3>1, ConnType, ConcatProperties
    <3>3. QED
      BY <1>1, <3>2, ConnType
  <2>2. SetCurrent(b, c)
    BY <1>3 DEF Send
  <2>3. conn' \in [Board -> Conn] /\ waiting' \in [Board -> Conn]
    BY <2>1, <2>2, SetCurrentType
  <2>4. sent[b] + 1 \in 0 .. MaxFrames
    BY <1>3, ServerAssumption DEF Send
  <2>5. QED
    BY <1>3, <2>3, <2>4 DEF Send
<1>4. CASE Hangup(b)
  <2>1. PICK rest \in {Current(b).rx, <<>>} : SetCurrent(b, [state |-> "fin", rx |-> rest])
    BY <1>4 DEF Hangup
  <2>2. [state |-> "fin", rx |-> rest] \in Conn
    BY <1>1, ConnType
  <2>3. QED
    BY <1>4, <2>1, <2>2, SetCurrentType DEF Hangup
<1>5. CASE Lose(b)
  <2>1. [Current(b) EXCEPT !.state = "lost"] \in Conn
    BY <1>1 DEF Conn
  <2>2. QED
    BY <1>5, <2>1, SetCurrentType DEF Lose
<1>6. QED
  BY <1>2, <1>3, <1>4, <1>5 DEF BoardStep

LEMMA ServerTypeStep == ServerTypeOK /\ [ServerNext]_svars => ServerTypeOK'
<1>1. ASSUME ServerTypeOK, UNCHANGED svars
      PROVE  ServerTypeOK'
  BY <1>1 DEF svars, serverVars, threadVars, bufferVars, boardVars, ServerTypeOK
<1>2. QED
  BY <1>1, ThreadType, BoardType DEF ServerNext

(* Every variable of the board threads always has its type.                *)
THEOREM ServerTyped == ServerSpec => []ServerTypeOK
BY ServerInitType, ServerTypeStep, PTL DEF ServerSpec, ServerAlone, svars
-----------------------------------------------------------------------------
(* An accepted frame is genuine, when one board is powered.                *)

(* The case main() hopes for when it waits a millisecond between threads.  *)
OneLive == \A a, b \in Live : a = b

CrcIInv == ServerTypeOK /\ CrcInv

LEMMA FrameLenNat == FRAME_LEN \in Nat /\ FRAME_LEN = WORDS + 2 /\ WORDS \in Nat \ {0}
BY BoardsAssumption DEF FRAME_LEN

(* The wire never forgets a cell, and never carries the mark of a CRC that *)
(* does not match.                                                         *)
LEMMA WireGrows ==
  ASSUME ServerTypeOK, ServerTypeOK', \A b \in Board : sent[b] <= sent'[b]
  PROVE  WireCell \subseteq WireCell'
<1>1. \A b \in Live : 1 .. sent[b] \subseteq 1 .. sent'[b]
  BY ServerAssumption DEF ServerTypeOK
<1>2. QED
  BY <1>1 DEF WireCell

LEMMA WireCheck ==
  /\ BadCheck \notin WireCell
  /\ \A b, s : Check(b, s) \in WireCell => b \in Live /\ s \in 1 .. sent[b]
BY DEF WireCell, BadCheck, Check, Zero, Header

(* What a board sends is on the wire.                                      *)
LEMMA SentCells ==
  ASSUME NEW b \in Live, NEW s \in Nat \ {0}, s \in 1 .. sent'[b]
  PROVE  FrameStream(b, s) \in Seq(WireCell')
<1>1. b \in Nat /\ s \in Nat
  BY ServerAssumption, BoardsAssumption DEF Board
<1>2. \A j \in Nat : Word(b, s, j) \in WireCell' /\ Check(b, s) \in WireCell'
  BY <1>1, CellTypes DEF WireCell, Word, Check
<1>3. \A j \in 1 .. FRAME_LEN : FrameCell(b, s, j - 1) \in WireCell'
  BY <1>2, FrameLenNat DEF FrameCell, WireCell
<1>4. FrameStream(b, s) \in [1 .. FRAME_LEN -> WireCell']
  BY <1>3 DEF FrameStream
<1>5. QED
  BY <1>4, FrameLenNat

(* A frame whose CRC matches is one that was sent.                         *)
LEMMA MatchIsGenuine ==
  ASSUME NEW body, NEW frame \in Buffer(FRAME_LEN),
         body = [j \in 0 .. WORDS |-> frame[j]],
         frame[FRAME_LEN - 1] \in WireCell,
         CrcMatches(body, frame)
  PROVE  \E b \in Live : \E s \in 1 .. sent[b] : frame = Frame(b, s)
<1> DEFINE b == body[1][2]
           s == body[1][3]
<1>1. getModbusCRC16(body) = frame[FRAME_LEN - 1]
  BY DEF CrcMatches
<1>2. body = FrameBody(b, s) /\ frame[FRAME_LEN - 1] = Check(b, s)
  BY <1>1, WireCheck DEF getModbusCRC16
<1>3. b \in Live /\ s \in 1 .. sent[b]
  BY <1>2, WireCheck
<1>4. \A j \in 0 .. FRAME_LEN - 1 : frame[j] = FrameCell(b, s, j)
  <2> SUFFICES ASSUME NEW j \in 0 .. FRAME_LEN - 1 PROVE frame[j] = FrameCell(b, s, j)
    OBVIOUS
  <2>1. CASE j \in 0 .. WORDS
    <3>1. body[j] = frame[j]
      BY <2>1
    <3>2. FrameBody(b, s)[j] = FrameCell(b, s, j)
      BY <2>1 DEF FrameBody
    <3>3. QED
      BY <1>2, <3>1, <3>2
  <2>2. CASE j = FRAME_LEN - 1
    BY <1>2, <2>2, FrameLenNat DEF FrameCell
  <2>3. QED
    BY <2>1, <2>2, FrameLenNat
<1>5. frame = Frame(b, s)
  BY <1>4 DEF Frame, Buffer
<1>6. QED
  BY <1>3, <1>5

LEMMA CrcInit == ServerInit /\ MapInit => CrcInv
<1> SUFFICES ASSUME ServerInit PROVE CrcInv
  OBVIOUS
<1>1. OnlyLiveServed /\ CrcOfFrame /\ VerifiedGenuine
  BY DEF ServerInit, OnlyLiveServed, CrcOfFrame, VerifiedGenuine, NoConn
<1>2. \A t \in Board : conn[t].rx = <<>> /\ waiting[t].rx = <<>>
  BY DEF ServerInit, NoConn
<1>3. Zero \in WireCell /\ <<>> \in Seq(WireCell)
  BY EmptySeq DEF WireCell
<1>4. OnlySentReceived
  BY <1>2, <1>3, ServerAssumption, FrameLenNat DEF ServerInit, BlankBuffer, OnlySentReceived
<1>5. QED
  BY <1>1, <1>4 DEF CrcInv

(* A step that takes nothing from the wire keeps what is known of it.      *)
LEMMA WireKept ==
  ASSUME CrcIInv, ServerTypeOK', \A b \in Board : sent[b] <= sent'[b],
         UNCHANGED bufferVars
  PROVE  /\ \A j \in 0 .. BUF_LEN - 1 : Tcp_f407_Callbackbuf'[j] \in WireCell'
         /\ \A j \in 0 .. FRAME_LEN - 1 : F407_Buffer'[j] \in WireCell'
BY WireGrows DEF CrcIInv, CrcInv, OnlySentReceived, bufferVars

(* Only the thread of a powered board ever runs past accept().             *)
LEMMA LiveThreads ==
  ASSUME CrcIInv, NEW t \in Board, ThreadStep(t)
  PROVE  t \in Live
BY DEF CrcIInv, CrcInv, OnlyLiveServed, ServerTypeOK, ThreadStep, Accept, Clear, Read, ReadEnd,
       Close, ScanFound, ScanFailed, CopyCrc, CrcGood, CrcBad, Load, Store, StoreDone, Goto

(* What the board threads do keeps the invariant.                          *)
LEMMA ThreadCrc ==
  ASSUME OneLive, CrcIInv, NEW t \in Board, ThreadStep(t), ServerTypeOK'
  PROVE  CrcInv'
<1> USE DEF bufferVars, boardVars
<1>1. t \in Live /\ \A u \in Live : u = t
  BY LiveThreads DEF OneLive
<1>2. UNCHANGED <<boardVars, WireCell>>
  BY DEF ThreadStep, Accept, Clear, Read, ReadEnd, Close, ScanFound, ScanFailed, CopyCrc,
         CrcGood, CrcBad, Load, Store, StoreDone, WireCell
<1>3. \A u \in Board \ {t} : at'[u] = at[u] /\ conn'[u] = conn[u] /\ waiting'[u] = waiting[u]
  BY ZenonT(30) DEF ThreadStep, Accept, Clear, Read, ReadEnd, Close, ScanFound, ScanFailed, CopyCrc,
         CrcGood, CrcBad, Load, Store, StoreDone, Goto, CrcIInv, ServerTypeOK
<1>4. OnlyLiveServed'
  BY <1>1, <1>2, <1>3 DEF CrcIInv, CrcInv, OnlyLiveServed
<1>5. \A u \in Board \ {t} : at'[u] = "accept"
  BY <1>1, <1>4 DEF OnlyLiveServed
<1>6. SUFFICES OnlySentReceived' /\ CrcOfFrame' /\ VerifiedGenuine'
  BY <1>4 DEF CrcInv
<1> USE DEF CrcIInv, CrcInv, OnlySentReceived, CrcOfFrame, VerifiedGenuine, Goto
<1>7. at = [u \in Board |-> at[u]] /\ conn \in [Board -> Conn] /\ waiting \in [Board -> Conn]
  BY DEF ServerTypeOK
<1>8. <<>> \in Seq(WireCell) /\ Zero \in WireCell
  BY EmptySeq DEF WireCell
<1>9. CASE Accept(t)
  BY <1>2, <1>3, <1>5, <1>7, <1>8, <1>9 DEF Accept, NoConn
<1>10. CASE Clear(t)
  BY <1>2, <1>3, <1>5, <1>7, <1>8, <1>10 DEF Clear, BlankBuffer
<1>11. CASE Read(t)
  <2>1. PICK n \in ReadSizes(conn[t].rx) :
          /\ Tcp_f407_Callbackbuf' =
               Received(Tcp_f407_Callbackbuf, SubSeq(conn[t].rx, 1, n))
          /\ conn' = [conn EXCEPT ![t].rx = SubSeq(@, n + 1, Len(@))]
    BY <1>11 DEF Read
  <2>2. conn[t].rx \in Seq(WireCell) /\ n \in 1 .. Len(conn[t].rx)
    BY <2>1, LenProperties DEF ReadSizes
  <2>3. /\ SubSeq(conn[t].rx, 1, n) \in Seq(WireCell)
        /\ SubSeq(conn[t].rx, n + 1, Len(conn[t].rx)) \in Seq(WireCell)
    BY <2>2, SplitType
  <2>4. \A u \in Board : conn'[u].rx \in Seq(WireCell)
    BY <1>7, <2>1, <2>3 DEF Conn
  <2>5. Tcp_f407_Callbackbuf' \in [0 .. BUF_LEN - 1 -> WireCell]
    BY <2>1, <2>3, ReceivedType
  <2>6. QED
    BY <1>2, <1>3, <1>5, <1>7, <1>11, <2>4, <2>5 DEF Read
<1>12. CASE ReadEnd(t)
  BY <1>2, <1>3, <1>5, <1>7, <1>12 DEF ReadEnd
<1>13. CASE Close(t)
  BY <1>2, <1>3, <1>5, <1>7, <1>8, <1>13 DEF Close, NoConn
<1>14. CASE ScanFound(t)
  <2>1. PICK i \in 0 .. SCAN_LEN - 1 : F407_Buffer' = CopyFrom(Tcp_f407_Callbackbuf, i)
    BY <1>14 DEF ScanFound
  <2>2. \A j \in 0 .. FRAME_LEN - 1 : F407_Buffer'[j] \in WireCell
    BY <2>1, ServerAssumption, FrameLenNat DEF CopyFrom
  <2>3. QED
    BY <1>2, <1>3, <1>5, <1>7, <1>14, <2>2 DEF ScanFound
<1>15. CASE ScanFailed(t)
  BY <1>2, <1>3, <1>5, <1>7, <1>15 DEF ScanFailed
<1>16. CASE CopyCrc(t)
  BY <1>2, <1>3, <1>5, <1>7, <1>16 DEF CopyCrc
<1>17. CASE CrcGood(t)
  <2>1. F407_crc = [j \in 0 .. WORDS |-> F407_Buffer[j]]
    BY <1>17 DEF CrcGood
  <2>2. F407_Buffer \in Buffer(FRAME_LEN) /\ F407_Buffer[FRAME_LEN - 1] \in WireCell
    <3>1. FRAME_LEN - 1 \in 0 .. FRAME_LEN - 1
      BY FrameLenNat
    <3>2. QED
      BY <3>1 DEF ServerTypeOK
  <2>3. \E b \in Live : \E s \in 1 .. sent[b] : F407_Buffer = Frame(b, s)
    BY <1>17, <2>1, <2>2, MatchIsGenuine DEF CrcGood
  <2>4. \E s \in 1 .. sent[t] : F407_Buffer = Frame(t, s)
    BY <1>1, <2>3
  <2>5. QED
    BY <1>2, <1>3, <1>5, <1>7, <1>17, <2>4 DEF CrcGood
<1>18. CASE CrcBad(t)
  BY <1>2, <1>3, <1>5, <1>7, <1>18 DEF CrcBad
<1>19. CASE Load(t)
  BY <1>2, <1>3, <1>5, <1>7, <1>19 DEF Load
<1>20. CASE Store(t)
  BY <1>2, <1>3, <1>5, <1>7, <1>20 DEF Store
<1>21. CASE StoreDone(t)
  BY <1>2, <1>3, <1>5, <1>7, <1>21 DEF StoreDone
<1>22. QED
  BY <1>9, <1>10, <1>11, <1>12, <1>13, <1>14, <1>15, <1>16, <1>17, <1>18, <1>19, <1>20, <1>21
     DEF ThreadStep

(* What the boards and the network do keeps the invariant.                 *)
LEMMA BoardCrc ==
  ASSUME OneLive, CrcIInv, NEW b \in Board, BoardStep(b), ServerTypeOK'
  PROVE  CrcInv'
<1> USE DEF bufferVars
<1>1. b \in Live
  BY DEF CrcIInv, CrcInv, OnlyLiveServed, BoardStep, Dial, Send, Hangup, Lose
<1>2. at' = at /\ UNCHANGED bufferVars
  BY DEF BoardStep, Dial, Send, Hangup, Lose
<1>3. \A u \in Board : sent[u] <= sent'[u]
  <2>1. sent \in [Board -> Nat]
    BY ServerAssumption DEF CrcIInv, ServerTypeOK
  <2>2. QED
    BY <2>1 DEF BoardStep, Dial, Send, Hangup, Lose
<1>4. WireCell \subseteq WireCell'
  BY <1>3, WireGrows DEF CrcIInv
<1>5. \A u \in Board \ {b} : /\ conn'[u] = conn[u] /\ waiting'[u] = waiting[u]
                             /\ linked'[u] = linked[u]
  BY ZenonT(60) DEF BoardStep, Dial, Send, Hangup, Lose, SetCurrent, CrcIInv, ServerTypeOK
<1>6. OnlyLiveServed'
  BY <1>1, <1>2, <1>5 DEF CrcIInv, CrcInv, OnlyLiveServed
<1>7. CrcOfFrame'
  BY <1>2 DEF CrcIInv, CrcInv, CrcOfFrame
<1>8. VerifiedGenuine'
  <2>1. \A u \in Board : 1 .. sent[u] \subseteq 1 .. sent'[u]
    BY <1>3, SMTT(30) DEF CrcIInv, ServerTypeOK
  <2>2. QED
    BY <1>2, <2>1 DEF CrcIInv, CrcInv, VerifiedGenuine, Frame, FrameCell
<1>9. Current(b) \in Conn /\ Current(b).rx \in Seq(WireCell') /\ <<>> \in Seq(WireCell')
  BY <1>4, SeqMonotonic, EmptySeq
     DEF CrcIInv, CrcInv, OnlySentReceived, ServerTypeOK, Current
<1>10. ASSUME NEW c, c.rx \in Seq(WireCell'), SetCurrent(b, c)
       PROVE  conn'[b].rx \in Seq(WireCell') /\ waiting'[b].rx \in Seq(WireCell')
  BY <1>4, <1>10, SeqMonotonic
     DEF CrcIInv, CrcInv, OnlySentReceived, ServerTypeOK, SetCurrent
<1>11. conn'[b].rx \in Seq(WireCell') /\ waiting'[b].rx \in Seq(WireCell')
  <2>1. CASE Dial(b)
    BY <1>4, <1>9, <2>1, SeqMonotonic
       DEF Dial, NewConn, CrcIInv, CrcInv, OnlySentReceived, ServerTypeOK
  <2>2. CASE Send(b)
    <3> DEFINE c == [Current(b) EXCEPT !.rx = @ \o FrameStream(b, sent[b] + 1)]
    <3>1. sent[b] + 1 \in Nat \ {0} /\ sent[b] + 1 \in 1 .. sent'[b]
      BY <2>2, ServerAssumption DEF Send, CrcIInv, ServerTypeOK
    <3>2. FrameStream(b, sent[b] + 1) \in Seq(WireCell')
      BY <1>1, <3>1, SentCells
    <3>3. c.rx \in Seq(WireCell')
      BY <1>9, <3>2, ConcatProperties DEF Conn
    <3>4. QED
      BY <1>10, <2>2, <3>3 DEF Send
  <2>3. CASE Hangup(b)
    BY <1>9, <1>10, <2>3 DEF Hangup
  <2>4. CASE Lose(b)
    BY <1>9, <1>10, <2>4 DEF Lose, Conn
  <2>5. QED
    BY <2>1, <2>2, <2>3, <2>4 DEF BoardStep
<1>12. OnlySentReceived'
  <2>1. \A u \in Board : conn'[u].rx \in Seq(WireCell') /\ waiting'[u].rx \in Seq(WireCell')
    BY <1>4, <1>5, <1>11, SeqMonotonic DEF CrcIInv, CrcInv, OnlySentReceived
  <2>2. QED
    BY <1>2, <1>3, <2>1, WireKept DEF OnlySentReceived
<1>13. QED
  BY <1>6, <1>7, <1>8, <1>12 DEF CrcInv

LEMMA CrcStep == OneLive /\ CrcIInv /\ [ServerNext]_svars => CrcIInv'
<1> SUFFICES ASSUME OneLive, CrcIInv, [ServerNext]_svars PROVE CrcIInv'
  OBVIOUS
<1>1. ServerTypeOK'
  BY ServerTypeStep DEF CrcIInv
<1>2. CASE UNCHANGED svars
  BY <1>1, <1>2 DEF svars, serverVars, threadVars, bufferVars, boardVars, CrcIInv, CrcInv,
     OnlyLiveServed, OnlySentReceived, CrcOfFrame, VerifiedGenuine, WireCell
<1>3. CASE ServerNext
  BY <1>1, <1>3, ThreadCrc, BoardCrc DEF ServerNext, CrcIInv
<1>4. QED
  BY <1>2, <1>3

(***************************************************************************)
(* With one powered board only its thread runs, every cell on the wire or  *)
(* in the receive buffer is one the board sent, and what the CRC is        *)
(* computed on is the start of the frame that was found.                   *)
(***************************************************************************)
THEOREM CrcInvariant ==
  ASSUME OneLive
  PROVE  ServerSpec => []CrcInv
<1>1. ServerInit /\ MapInit => CrcIInv
  BY ServerInitType, CrcInit DEF CrcIInv
<1>2. CrcIInv /\ [ServerNext]_svars => CrcIInv'
  BY CrcStep
<1>3. CrcIInv => CrcInv
  BY DEF CrcIInv
<1>4. QED
  BY <1>1, <1>2, <1>3, PTL DEF ServerSpec, ServerAlone, svars

(***************************************************************************)
(* With one powered board, a frame whose CRC has been found correct is a   *)
(* frame the board sent, however TCP cuts or delays the stream and however *)
(* often the board reconnects.                                             *)
(***************************************************************************)
THEOREM VerifiedFramesGenuine ==
  ASSUME OneLive
  PROVE  ServerSpec => []VerifiedGenuine
<1>1. CrcInv => VerifiedGenuine
  BY DEF CrcInv
<1>2. QED
  BY <1>1, CrcInvariant, PTL
-----------------------------------------------------------------------------
(* Frames are accepted in the order they were sent, when one board is      *)
(* powered.                                                                *)

(* The frame numbers of the CRC cells among some cells.                    *)
CrcNumbers(cells) == {SeqOf(c) : c \in {d \in cells : d[1] = "crc"}}
Cells(s) == {s[i] : i \in 1 .. Len(s)}
Coming(rx) == CrcNumbers(Cells(rx))

Below(A, B) == \A a \in A, b \in B : a < b

(* The CRC cells of a stream come in the order of their frames.            *)
Ascending(s) ==
  \A i, j \in 1 .. Len(s) :
    i < j /\ s[i][1] = "crc" /\ s[j][1] = "crc" => SeqOf(s[i]) < SeqOf(s[j])

(* The CRC cells among which the thread may still find one to accept.      *)
InHand(t) ==
  IF at[t] \in {"read", "scan"}
    THEN CrcNumbers({Tcp_f407_Callbackbuf[j] : j \in 0 .. BUF_LEN - 1})
  ELSE IF at[t] \in {"copy", "check"}
    THEN CrcNumbers({F407_Buffer[j] : j \in 0 .. FRAME_LEN - 1})
  ELSE {}

Done(t) == Cells(accepted[t])

(***************************************************************************)
(* What a thread has accepted lies below what it has in hand, that below   *)
(* what is coming on its connection, and that below what waits behind it.  *)
(***************************************************************************)
OrderOf(t) ==
  /\ waiting[t].state = "none" => waiting[t].rx = <<>>
  /\ Ascending(conn[t].rx) /\ Ascending(waiting[t].rx)
  /\ Below(Done(t), InHand(t))
  /\ Below(Done(t) \cup InHand(t), Coming(conn[t].rx))
  /\ Below(Done(t) \cup InHand(t) \cup Coming(conn[t].rx), Coming(waiting[t].rx))

OrderInv == (\A t \in Board : OrderOf(t)) /\ AcceptedInOrder

OrderIInv == CrcIInv /\ OrderInv

(* A prefix of an ascending stream lies below the rest.                    *)
LEMMA ComingSplit ==
  ASSUME NEW S, NEW s \in Seq(S), Ascending(s), NEW n \in 1 .. Len(s)
  PROVE  LET first == SubSeq(s, 1, n)
             rest == SubSeq(s, n + 1, Len(s))
         IN  /\ Coming(first) \subseteq Coming(s) /\ Coming(rest) \subseteq Coming(s)
             /\ Below(Coming(first), Coming(rest))
             /\ Ascending(rest)
<1> DEFINE first == SubSeq(s, 1, n)
           rest == SubSeq(s, n + 1, Len(s))
<1>1. Len(s) \in Nat
  BY LenProperties
<1>2. Len(first) = n /\ \A i \in 1 .. n : first[i] = s[i]
  BY <1>1, SubSeqProperties
<1>3. Len(rest) = Len(s) - n /\ \A i \in 1 .. Len(s) - n : rest[i] = s[n + i]
  BY <1>1, SubSeqProperties
<1> HIDE DEF first, rest
<1>4. Coming(first) \subseteq Coming(s) /\ Coming(rest) \subseteq Coming(s)
  BY <1>1, <1>2, <1>3, SMTT(30) DEF Coming, Cells, CrcNumbers
<1>5. Below(Coming(first), Coming(rest))
  <2> SUFFICES ASSUME NEW i \in 1 .. n, NEW j \in 1 .. Len(s) - n,
                      first[i][1] = "crc", rest[j][1] = "crc"
               PROVE  SeqOf(first[i]) < SeqOf(rest[j])
    BY <1>2, <1>3 DEF Below, Coming, Cells, CrcNumbers
  <2>1. i \in 1 .. Len(s) /\ n + j \in 1 .. Len(s) /\ i < n + j
    BY <1>1
  <2>2. QED
    BY <1>2, <1>3, <2>1 DEF Ascending
<1>6. Ascending(rest)
  <2> SUFFICES ASSUME NEW i \in 1 .. Len(s) - n, NEW j \in 1 .. Len(s) - n, i < j,
                      rest[i][1] = "crc", rest[j][1] = "crc"
               PROVE  SeqOf(rest[i]) < SeqOf(rest[j])
    BY <1>3 DEF Ascending
  <2>1. n + i \in 1 .. Len(s) /\ n + j \in 1 .. Len(s) /\ n + i < n + j
    BY <1>1
  <2>2. QED
    BY <1>3, <2>1 DEF Ascending
<1>7. QED
  BY <1>4, <1>5, <1>6 DEF first, rest

(* The next frame sent goes on top of an ascending stream.                 *)
LEMMA ComingSent ==
  ASSUME NEW s \in Seq(Cell), Ascending(s), NEW b \in Board, NEW n \in Nat,
         Below(Coming(s), {n})
  PROVE  LET r == s \o FrameStream(b, n)
         IN  Coming(r) \subseteq Coming(s) \cup {n} /\ Ascending(r)
<1> DEFINE f == FrameStream(b, n)
           r == s \o f
<1>1. Len(s) \in Nat /\ Len(f) = FRAME_LEN /\ f \in Seq(Cell) /\ FRAME_LEN \in Nat
  BY LenProperties, FrameStreamType, FrameLenNat
<1>2. \A i \in 1 .. FRAME_LEN : f[i][1] = "crc" => i = FRAME_LEN /\ SeqOf(f[i]) = n
  BY FrameLenNat DEF FrameStream, FrameCell, Header, Word, Check, SeqOf
<1>3. /\ Len(r) = Len(s) + FRAME_LEN
      /\ \A i \in 1 .. Len(r) : r[i] = IF i <= Len(s) THEN s[i] ELSE f[i - Len(s)]
  BY <1>1, ConcatProperties
<1> HIDE DEF f, r
<1>4. \A i \in 1 .. Len(s) : s[i][1] = "crc" => SeqOf(s[i]) < n
  BY DEF Below, Coming, Cells, CrcNumbers
<1>5. \A i \in 1 .. Len(r) :
        \/ i \in 1 .. Len(s) /\ r[i] = s[i]
        \/ i > Len(s) /\ (r[i][1] = "crc" => i = Len(r) /\ SeqOf(r[i]) = n)
  <2> SUFFICES ASSUME NEW i \in 1 .. Len(r), ~(i <= Len(s))
               PROVE  r[i][1] = "crc" => i = Len(r) /\ SeqOf(r[i]) = n
    BY <1>1, <1>3
  <2>1. i - Len(s) \in 1 .. FRAME_LEN /\ r[i] = f[i - Len(s)]
    BY <1>1, <1>3
  <2>2. QED
    BY <1>1, <1>2, <1>3, <2>1
<1>6. Coming(r) \subseteq Coming(s) \cup {n}
  BY <1>5 DEF Coming, Cells, CrcNumbers
<1>7. Ascending(r)
  <2> SUFFICES ASSUME NEW i \in 1 .. Len(r), NEW j \in 1 .. Len(r), i < j,
                      r[i][1] = "crc", r[j][1] = "crc"
               PROVE  SeqOf(r[i]) < SeqOf(r[j])
    BY DEF Ascending
  <2>1. i \in 1 .. Len(s) /\ r[i] = s[i]
    BY <1>1, <1>3, <1>5
  <2>2. CASE j \in 1 .. Len(s) /\ r[j] = s[j]
    BY <2>1, <2>2 DEF Ascending
  <2>3. CASE SeqOf(r[j]) = n
    BY <1>4, <2>1, <2>3
  <2>4. QED
    BY <1>5, <2>2, <2>3
<1>8. QED
  BY <1>6, <1>7 DEF f, r

(* Sets of cells and of their frame numbers grow together.                 *)
LEMMA CrcNumbersGrow ==
  /\ \A A, B : A \subseteq B => CrcNumbers(A) \subseteq CrcNumbers(B)
  /\ \A A, B : CrcNumbers(A \cup B) = CrcNumbers(A) \cup CrcNumbers(B)
BY DEF CrcNumbers

(* The CRC cells on the wire have numbers of frames their board has sent.  *)
LEMMA NumbersSent ==
  ASSUME OneLive, NEW t \in Live, NEW S, S \subseteq WireCell
  PROVE  CrcNumbers(S) \subseteq 1 .. sent[t]
BY DEF OneLive, WireCell, CrcNumbers, SeqOf, Zero, Header

LEMMA OrderInit == ServerInit => OrderInv
<1> SUFFICES ASSUME ServerInit, NEW t \in Board PROVE OrderOf(t) /\ accepted[t] = <<>>
  BY DEF ServerInit, OrderInv, AcceptedInOrder
<1>1. conn[t].rx = <<>> /\ waiting[t].rx = <<>> /\ accepted[t] = <<>> /\ at[t] = "accept"
  BY DEF ServerInit, NoConn
<1>2. QED
  BY <1>1 DEF OrderOf, Ascending, Below, Done, InHand, Coming, Cells, CrcNumbers

(* What the board threads do keeps the order.                              *)
LEMMA ThreadOrder ==
  ASSUME OneLive, OrderIInv, NEW t \in Board, ThreadStep(t), CrcIInv'
  PROVE  OrderInv'
<1> USE DEF bufferVars, boardVars, Goto
<1>1. ServerTypeOK /\ CrcIInv /\ OrderOf(t) /\ AcceptedInOrder
  BY DEF OrderIInv, CrcIInv, OrderInv
<1>2. t \in Live /\ \A u \in Live : u = t
  BY <1>1, LiveThreads DEF OneLive
<1>3. \A u \in Board \ {t} : /\ at'[u] = "accept" /\ at[u] = "accept"
                             /\ conn'[u] = conn[u] /\ waiting'[u] = waiting[u]
                             /\ accepted'[u] = accepted[u]
  <2>1. \A u \in Board \ {t} : at'[u] = "accept" /\ at[u] = "accept"
    BY <1>1, <1>2 DEF CrcIInv, CrcInv, OnlyLiveServed
  <2>2. QED
    BY <1>1, <2>1 DEF ThreadStep, Accept, Clear, Read, ReadEnd, Close, ScanFound, ScanFailed,
       CopyCrc, CrcGood, CrcBad, Load, Store, StoreDone, ServerTypeOK
<1>4. \A u \in Board \ {t} : OrderOf(u)'
  <2>1. \A u \in Board \ {t} : OrderOf(u)
    BY DEF OrderIInv, OrderInv
  <2>2. QED
    BY <1>3, <2>1 DEF OrderOf, InHand, Done
<1>5. UNCHANGED sent
  BY DEF ThreadStep, Accept, Clear, Read, ReadEnd, Close, ScanFound, ScanFailed, CopyCrc,
         CrcGood, CrcBad, Load, Store, StoreDone
<1>6. at[t] \in {"accept", "clear", "read", "scan", "copy", "check", "load", "store", "close"}
  BY <1>1 DEF ServerTypeOK
<1>7. /\ at = [u \in Board |-> at[u]] /\ conn \in [Board -> Conn]
      /\ waiting \in [Board -> Conn] /\ accepted \in [Board -> Seq(Nat)]
  BY <1>1 DEF ServerTypeOK
<1>8. Coming(<<>>) = {} /\ Ascending(<<>>)
  BY DEF Coming, Cells, CrcNumbers, Ascending
<1>9. SUFFICES OrderOf(t)' /\ AcceptedInOrder'
  BY <1>4 DEF OrderInv
<1>10. accepted' = accepted => AcceptedInOrder' /\ Done(t)' = Done(t)
  BY <1>1, <1>5 DEF AcceptedInOrder, Done
<1> USE DEF OrderOf, Below
<1>11. ASSUME UNCHANGED <<conn, waiting, accepted>>, InHand(t)' \subseteq InHand(t)
       PROVE  OrderOf(t)' /\ AcceptedInOrder'
  BY <1>1, <1>10, <1>11
<1>12. CASE Accept(t)
  BY <1>1, <1>7, <1>8, <1>10, <1>12 DEF Accept, NoConn, InHand
<1>13. CASE Clear(t)
  <2>1. InHand(t)' = {}
    BY <1>7, <1>13 DEF Clear, InHand, BlankBuffer, Zero, CrcNumbers
  <2>2. QED
    BY <1>11, <1>13, <2>1 DEF Clear
<1>14. CASE Read(t)
  <2>1. PICK n \in ReadSizes(conn[t].rx) :
          /\ Tcp_f407_Callbackbuf' =
               Received(Tcp_f407_Callbackbuf, SubSeq(conn[t].rx, 1, n))
          /\ conn' = [conn EXCEPT ![t].rx = SubSeq(@, n + 1, Len(@))]
    BY <1>14 DEF Read
  <2> DEFINE first == SubSeq(conn[t].rx, 1, n)
             rest == SubSeq(conn[t].rx, n + 1, Len(conn[t].rx))
  <2>2. conn[t].rx \in Seq(Cell) /\ n \in 1 .. Len(conn[t].rx)
    BY <1>7, <2>1, LenProperties DEF ReadSizes, Conn
  <2>3. /\ Coming(first) \subseteq Coming(conn[t].rx) /\ Coming(rest) \subseteq Coming(conn[t].rx)
        /\ Below(Coming(first), Coming(rest)) /\ Ascending(rest)
    BY <1>1, <2>2, ComingSplit
  <2>4. first \in Seq(Cell)
    BY <2>2, SplitType
  <2> HIDE DEF first, rest
  <2>5. conn'[t].rx = rest
    BY <1>7, <2>1 DEF rest, Conn
  <2>6. InHand(t)' \subseteq InHand(t) \cup Coming(first)
    <3> DEFINE Old == {Tcp_f407_Callbackbuf[j] : j \in 0 .. BUF_LEN - 1}
               New == {Tcp_f407_Callbackbuf'[j] : j \in 0 .. BUF_LEN - 1}
    <3>1. New \subseteq Old \cup Cells(first)
      <4> SUFFICES ASSUME NEW j \in 0 .. BUF_LEN - 1
                   PROVE  Tcp_f407_Callbackbuf'[j] \in Old \cup Cells(first)
        OBVIOUS
      <4>1. Tcp_f407_Callbackbuf'[j] =
              IF j < Len(first) THEN first[j + 1] ELSE Tcp_f407_Callbackbuf[j]
        BY <2>1 DEF Received, first
      <4>2. Len(first) \in Nat /\ j \in Nat
        BY <2>4, LenProperties, ServerAssumption
      <4>3. QED
        BY <4>1, <4>2 DEF Cells
    <3>2. InHand(t) = CrcNumbers(Old) /\ InHand(t)' = CrcNumbers(New)
      BY <1>7, <1>14 DEF Read, InHand
    <3>3. CrcNumbers(New) \subseteq CrcNumbers(Old \cup Cells(first))
      BY <3>1, CrcNumbersGrow
    <3>4. CrcNumbers(Old \cup Cells(first)) = CrcNumbers(Old) \cup CrcNumbers(Cells(first))
      BY CrcNumbersGrow
    <3> HIDE DEF Old, New
    <3>5. QED
      BY <3>2, <3>3, <3>4 DEF Coming
  <2>7. QED
    BY <1>1, <1>10, <1>14, <2>3, <2>5, <2>6 DEF Read
<1>15. CASE ReadEnd(t)
  BY <1>7, <1>11, <1>15 DEF ReadEnd, InHand
<1>16. CASE Close(t)
  BY <1>1, <1>7, <1>8, <1>10, <1>16 DEF Close, NoConn, InHand
<1>17. CASE ScanFound(t)
  <2>1. PICK i \in 0 .. SCAN_LEN - 1 : F407_Buffer' = CopyFrom(Tcp_f407_Callbackbuf, i)
    BY <1>17 DEF ScanFound
  <2>2. {F407_Buffer'[j] : j \in 0 .. FRAME_LEN - 1}
          \subseteq {Tcp_f407_Callbackbuf[j] : j \in 0 .. BUF_LEN - 1}
    <3> SUFFICES ASSUME NEW j \in 0 .. FRAME_LEN - 1
                 PROVE  \E k \in 0 .. BUF_LEN - 1 : F407_Buffer'[j] = Tcp_f407_Callbackbuf[k]
      OBVIOUS
    <3>1. i + j \in Nat /\ (i + j >= BUF_LEN => 2 * i + j - BUF_LEN \in 0 .. BUF_LEN - 1)
      BY ServerAssumption, FrameLenNat
    <3>2. F407_Buffer'[j] = IF i + j < BUF_LEN THEN Tcp_f407_Callbackbuf[i + j]
                            ELSE Tcp_f407_Callbackbuf[2 * i + j - BUF_LEN]
      BY <2>1 DEF CopyFrom
    <3>3. QED
      BY <3>1, <3>2, ServerAssumption
  <2>3. InHand(t)' \subseteq InHand(t)
    BY <1>7, <1>17, <2>2, CrcNumbersGrow, ZenonT(60) DEF ScanFound, InHand
  <2>4. QED
    BY <1>11, <1>17, <2>3 DEF ScanFound
<1>18. CASE ScanFailed(t)
  BY <1>7, <1>11, <1>18 DEF ScanFailed, InHand
<1>19. CASE CopyCrc(t)
  <2>1. {F407_Buffer'[j] : j \in 0 .. FRAME_LEN - 1} = {F407_Buffer[j] : j \in 0 .. FRAME_LEN - 1}
    BY <1>19 DEF CopyCrc
  <2>2. InHand(t)' = InHand(t)
    BY <1>7, <1>19, <2>1 DEF CopyCrc, InHand
  <2>3. QED
    BY <1>11, <1>19, <2>2 DEF CopyCrc
<1>20. CASE CrcGood(t)
  <2>1. PICK s \in 1 .. sent[t] : F407_Buffer = Frame(t, s)
    BY <1>5, <1>7, <1>20 DEF CrcGood, CrcIInv, CrcInv, VerifiedGenuine
  <2>2. SeqOf(F407_Buffer[1]) = s /\ F407_Buffer[FRAME_LEN - 1] = Check(t, s)
    BY <2>1, FrameLenNat DEF Frame, FrameCell, SeqOf, Word
  <2>3. s \in InHand(t)
    <3>1. F407_Buffer[FRAME_LEN - 1] \in {F407_Buffer[j] : j \in 0 .. FRAME_LEN - 1}
      BY FrameLenNat
    <3>2. Check(t, s)[1] = "crc" /\ SeqOf(Check(t, s)) = s
      BY DEF Check, SeqOf
    <3>3. QED
      BY <1>20, <2>2, <3>1, <3>2 DEF CrcGood, InHand, CrcNumbers
  <2>4. accepted'[t] = Append(accepted[t], s) /\ accepted[t] \in Seq(Nat)
    BY <1>7, <1>20, <2>2 DEF CrcGood
  <2>5. /\ Len(accepted'[t]) = Len(accepted[t]) + 1 /\ Len(accepted[t]) \in Nat
        /\ \A i \in 1 .. Len(accepted[t]) : accepted'[t][i] = accepted[t][i]
        /\ accepted'[t][Len(accepted[t]) + 1] = s
    BY <2>4, AppendProperties, LenProperties
  <2>6. Done(t)' \subseteq Done(t) \cup {s}
    BY <2>5, SMTT(30) DEF Done, Cells
  <2>7. \A a \in Done(t) : a < s
    BY <1>1, <2>3
  <2>8. AcceptedInOrder'
    <3>1. \A i, j \in 1 .. Len(accepted'[t]) : i < j => accepted'[t][i] < accepted'[t][j]
      <4> SUFFICES ASSUME NEW i \in 1 .. Len(accepted[t]) + 1,
                          NEW j \in 1 .. Len(accepted[t]) + 1, i < j
                   PROVE  accepted'[t][i] < accepted'[t][j]
        BY <2>5
      <4>1. i \in 1 .. Len(accepted[t])
        BY <2>5
      <4>2. CASE j \in 1 .. Len(accepted[t])
        BY <1>1, <2>5, <4>1, <4>2 DEF AcceptedInOrder
      <4>3. CASE j = Len(accepted[t]) + 1
        BY <2>5, <2>7, <4>1, <4>3 DEF Done, Cells
      <4>4. QED
        BY <2>5, <4>2, <4>3
    <3>2. \A i \in 1 .. Len(accepted'[t]) : accepted'[t][i] \in 1 .. sent[t]
      <4>1. \A i \in 1 .. Len(accepted[t]) : accepted'[t][i] \in 1 .. sent[t]
        BY <1>1, <2>5 DEF AcceptedInOrder
      <4>2. accepted'[t][Len(accepted[t]) + 1] \in 1 .. sent[t]
        BY <2>1, <2>5
      <4>3. PICK n \in Nat : n = Len(accepted[t]) /\ n + 1 = Len(accepted'[t])
        BY <2>5
      <4>4. \A i \in 1 .. n + 1 : i \in 1 .. n \/ i = n + 1
        BY <4>3
      <4>5. QED
        BY <4>1, <4>2, <4>3, <4>4, Zenon
    <3>3. QED
      BY <1>1, <1>3, <1>5, <3>1, <3>2 DEF AcceptedInOrder
  <2>9. InHand(t)' = {}
    BY <1>7, <1>20 DEF CrcGood, InHand
  <2>10. QED
    BY <1>1, <1>20, <2>3, <2>6, <2>8, <2>9 DEF CrcGood
<1>21. CASE CrcBad(t)
  BY <1>7, <1>11, <1>21 DEF CrcBad, InHand
<1>22. CASE Load(t)
  BY <1>7, <1>11, <1>22 DEF Load, InHand
<1>23. CASE Store(t)
  BY <1>7, <1>11, <1>23 DEF Store, InHand
<1>24. CASE StoreDone(t)
  BY <1>7, <1>11, <1>24 DEF StoreDone, InHand
<1>25. QED
  BY <1>12, <1>13, <1>14, <1>15, <1>16, <1>17, <1>18, <1>19, <1>20, <1>21, <1>22, <1>23, <1>24
     DEF ThreadStep

(* What the boards and the network do keeps the order.                     *)
LEMMA BoardOrder ==
  ASSUME OneLive, OrderIInv, NEW b \in Board, BoardStep(b)
  PROVE  OrderInv'
<1> USE DEF bufferVars
<1>1. ServerTypeOK /\ CrcInv /\ OrderOf(b) /\ AcceptedInOrder
  BY DEF OrderIInv, CrcIInv, OrderInv
<1>2. b \in Live
  BY <1>1 DEF CrcInv, OnlyLiveServed, BoardStep, Dial, Send, Hangup, Lose
<1>3. UNCHANGED <<at, accepted, Tcp_f407_Callbackbuf, F407_Buffer>>
  BY DEF BoardStep, Dial, Send, Hangup, Lose
<1>4. /\ conn \in [Board -> Conn] /\ waiting \in [Board -> Conn]
      /\ sent \in [Board -> Nat] /\ accepted \in [Board -> Seq(Nat)]
  BY <1>1, ServerAssumption DEF ServerTypeOK
<1>5. AcceptedInOrder'
  <2>1. \A u \in Board : sent'[u] \in Nat /\ sent[u] <= sent'[u]
    BY <1>4 DEF BoardStep, Dial, Send, Hangup, Lose
  <2>2. \A u \in Board : 1 .. sent[u] \subseteq 1 .. sent'[u]
    BY <1>4, <2>1
  <2>3. QED
    BY <1>1, <1>3, <2>2 DEF AcceptedInOrder
<1>6. \A u \in Board \ {b} : conn'[u] = conn[u] /\ waiting'[u] = waiting[u]
  BY <1>4 DEF BoardStep, Dial, Send, Hangup, Lose, SetCurrent
<1>7. \A u \in Board : InHand(u)' = InHand(u) /\ Done(u)' = Done(u)
  BY <1>3 DEF InHand, Done
<1>8. \A u \in Board \ {b} : OrderOf(u)'
  <2>1. \A u \in Board : OrderOf(u)
    BY DEF OrderIInv, OrderInv
  <2>2. QED
    BY <1>6, <1>7, <2>1 DEF OrderOf
<1>9. SUFFICES OrderOf(b)'
  BY <1>5, <1>8 DEF OrderInv
<1>10. Coming(<<>>) = {} /\ Ascending(<<>>)
  BY DEF Coming, Cells, CrcNumbers, Ascending
(* Whatever replaces the current connection: it may drop cells or add the  *)
(* number of a new frame.                                                  *)
<1>11. ASSUME NEW c, SetCurrent(b, c), Ascending(c.rx), NEW N,
              waiting[b].state # "none" => c.state # "none", Coming(c.rx) \subseteq Coming(Current(b).rx) \cup N,
              Below(Done(b) \cup InHand(b) \cup Coming(conn[b].rx), N)
       PROVE  OrderOf(b)'
  <2>1. CASE waiting[b].state # "none"
    <3>1. conn'[b] = conn[b] /\ waiting'[b] = c /\ Current(b) = waiting[b]
      BY <1>4, <1>11, <2>1 DEF SetCurrent, Current
    <3>2. Coming(c.rx) \subseteq Coming(waiting[b].rx) \cup N
      BY <1>11, <3>1
    <3>3. Below(Done(b) \cup InHand(b) \cup Coming(conn[b].rx), Coming(c.rx))
      BY <1>1, <1>11, <3>2 DEF OrderOf, Below
    <3>4. QED
      BY <1>1, <1>7, <1>11, <2>1, <3>1, <3>3 DEF OrderOf
  <2>2. CASE waiting[b].state = "none"
    <3>1. conn'[b] = c /\ waiting'[b] = waiting[b] /\ Current(b) = conn[b]
      BY <1>4, <1>11, <2>2 DEF SetCurrent, Current
    <3>2. waiting[b].rx = <<>>
      BY <1>1, <2>2 DEF OrderOf
    <3>3. QED
      BY <1>1, <1>7, <1>10, <1>11, <3>1, <3>2 DEF OrderOf, Below
  <2>3. QED
    BY <2>1, <2>2
<1>12. Current(b) \in Conn /\ Ascending(Current(b).rx)
  BY <1>1, <1>4 DEF Current, OrderOf
<1>13. CASE Dial(b)
  BY <1>1, <1>4, <1>7, <1>10, <1>13 DEF Dial, NewConn, OrderOf, Below
<1>14. CASE Send(b)
  <2> DEFINE n == sent[b] + 1
             r == Current(b).rx \o FrameStream(b, n)
             c == [Current(b) EXCEPT !.rx = r]
  <2>1. SetCurrent(b, c)
    BY <1>14 DEF Send
  <2>2. /\ Coming(conn[b].rx) \subseteq 1 .. sent[b] /\ Coming(waiting[b].rx) \subseteq 1 .. sent[b]
        /\ InHand(b) \subseteq 1 .. sent[b] /\ Done(b) \subseteq 1 .. sent[b]
    <3>1. Cells(conn[b].rx) \subseteq WireCell /\ Cells(waiting[b].rx) \subseteq WireCell
      BY <1>1, ElementOfSeq DEF CrcInv, OnlySentReceived, Cells
    <3>2. /\ {Tcp_f407_Callbackbuf[j] : j \in 0 .. BUF_LEN - 1} \subseteq WireCell
          /\ {F407_Buffer[j] : j \in 0 .. FRAME_LEN - 1} \subseteq WireCell
      BY <1>1 DEF CrcInv, OnlySentReceived
    <3>3. Done(b) \subseteq 1 .. sent[b]
      BY <1>1 DEF AcceptedInOrder, Done, Cells
    <3>4. QED
      BY <1>2, <3>1, <3>2, <3>3, NumbersSent DEF Coming, InHand
  <2>3. n \in Nat /\ \A k \in 1 .. sent[b] : k < n
    BY <1>4
  <2>4. Coming(Current(b).rx) \subseteq 1 .. sent[b] /\ Current(b).rx \in Seq(Cell)
    BY <1>12, <2>2 DEF Current, Conn
  <2>5. Coming(r) \subseteq Coming(Current(b).rx) \cup {n} /\ Ascending(r)
    <3>1. Below(Coming(Current(b).rx), {n})
      BY <2>3, <2>4 DEF Below
    <3>2. QED
      BY <1>12, <2>3, <2>4, <3>1, ComingSent
  <2>6. Below(Done(b) \cup InHand(b) \cup Coming(conn[b].rx), {n})
    BY <2>2, <2>3 DEF Below
  <2> HIDE DEF n, r
  <2>7. c.rx = r /\ (waiting[b].state # "none" => c.state # "none")
    BY <1>12 DEF Current, Conn
  <2> HIDE DEF c
  <2>8. QED
    BY <1>11, <2>1, <2>5, <2>6, <2>7
<1>15. CASE Hangup(b)
  <2>1. PICK rest \in {Current(b).rx, <<>>} : SetCurrent(b, [state |-> "fin", rx |-> rest])
    BY <1>15 DEF Hangup
  <2>2. Ascending(rest) /\ Coming(rest) \subseteq Coming(Current(b).rx) \cup {}
    BY <1>10, <1>12
  <2>3. QED
    BY <1>11, <2>1, <2>2 DEF Below
<1>16. CASE Lose(b)
  <2> DEFINE c == [Current(b) EXCEPT !.state = "lost"]
  <2>1. SetCurrent(b, c) /\ c.rx = Current(b).rx /\ c.state = "lost"
    BY <1>12, <1>16 DEF Lose, Conn
  <2> HIDE DEF c
  <2>2. Coming(c.rx) \subseteq Coming(Current(b).rx) \cup {}
    BY <2>1
  <2>3. Below(Done(b) \cup InHand(b) \cup Coming(conn[b].rx), {})
    BY DEF Below
  <2>4. QED
    BY <1>11, <1>12, <2>1, <2>2, <2>3
<1>17. QED
  BY <1>13, <1>14, <1>15, <1>16 DEF BoardStep

LEMMA OrderStep == OneLive /\ OrderIInv /\ [ServerNext]_svars => OrderIInv'
<1> SUFFICES ASSUME OneLive, OrderIInv, [ServerNext]_svars PROVE OrderIInv'
  OBVIOUS
<1>1. CrcIInv'
  BY CrcStep DEF OrderIInv
<1>2. CASE UNCHANGED svars
  BY <1>1, <1>2 DEF svars, serverVars, threadVars, bufferVars, boardVars, OrderIInv, OrderInv,
     OrderOf, InHand, Done, AcceptedInOrder
<1>3. CASE ServerNext
  BY <1>1, <1>3, ThreadOrder, BoardOrder DEF ServerNext, OrderIInv
<1>4. QED
  BY <1>2, <1>3

(***************************************************************************)
(* With one powered board, a thread accepts the frames in the order they   *)
(* were sent and none twice, however TCP cuts or joins the stream and      *)
(* however often the board hangs up or falls silent.                       *)
(***************************************************************************)
THEOREM FramesAcceptedInOrder ==
  ASSUME OneLive
  PROVE  ServerSpec => []AcceptedInOrder
<1>1. ServerInit /\ MapInit => OrderIInv
  BY ServerInitType, CrcInit, OrderInit DEF OrderIInv, CrcIInv
<1>2. OrderIInv /\ [ServerNext]_svars => OrderIInv'
  BY OrderStep
<1>3. OrderIInv => AcceptedInOrder
  BY DEF OrderIInv, OrderInv
<1>4. QED
  BY <1>1, <1>2, <1>3, PTL DEF ServerSpec, ServerAlone, svars
-----------------------------------------------------------------------------
(* A stored value is genuine, when moreover frames are paced.              *)

PacedIInv == ServerTypeOK /\ PacedInv

(* A cell of a frame on the wire, at its place.                            *)
LEMMA StreamCell ==
  ASSUME NEW b, NEW s
  PROVE  /\ Len(FrameStream(b, s)) = FRAME_LEN
         /\ \A h \in 1 .. WORDS : FrameStream(b, s)[h + 1] = Word(b, s, h)
<1>1. Len(FrameStream(b, s)) = FRAME_LEN
  BY FrameLenNat DEF FrameStream
<1>2. \A h \in 1 .. WORDS : FrameStream(b, s)[h + 1] = Word(b, s, h)
  BY FrameLenNat DEF FrameStream, FrameCell
<1>3. QED
  BY <1>1, <1>2

LEMMA PacedInit == ServerInit /\ MapInit => PacedInv
BY DEF ServerInit, MapInit, PacedInv, OnlyLiveServed, WholeFrames, Processing, StoredGenuine,
       NoConn

LEMMA PacedLiveThreads ==
  ASSUME PacedIInv, NEW t \in Board, ThreadStep(t)
  PROVE  t \in Live
BY DEF PacedIInv, PacedInv, OnlyLiveServed, ServerTypeOK, ThreadStep, Accept, Clear, Read,
       ReadEnd, Close, ScanFound, ScanFailed, CopyCrc, CrcGood, CrcBad, Load, Store,
       StoreDone, Goto

(* What the board threads do keeps the invariant.                          *)
LEMMA ThreadPaced ==
  ASSUME OneLive, Paced, PacedIInv, NEW t \in Board, ThreadStep(t)
  PROVE  PacedInv'
<1> USE DEF bufferVars, boardVars, PacedIInv
<1>1. t \in Live /\ \A u \in Live : u = t
  BY PacedLiveThreads DEF OneLive
<1>2. UNCHANGED boardVars
  BY DEF ThreadStep, Accept, Clear, Read, ReadEnd, Close, ScanFound, ScanFailed, CopyCrc,
         CrcGood, CrcBad, Load, Store, StoreDone
<1>3. \A u \in Board \ {t} : at'[u] = at[u] /\ conn'[u] = conn[u] /\ waiting'[u] = waiting[u]
  BY DEF ThreadStep, Accept, Clear, Read, ReadEnd, Close, ScanFound, ScanFailed, CopyCrc,
         CrcGood, CrcBad, Load, Store, StoreDone, Goto, ServerTypeOK
<1>4. OnlyLiveServed'
  BY <1>1, <1>2, <1>3 DEF PacedInv, OnlyLiveServed
<1>5. \A u \in Board \ {t} : at'[u] = "accept"
  BY <1>1, <1>4 DEF OnlyLiveServed
<1>6. at = [u \in Board |-> at[u]] /\ conn \in [Board -> Conn] /\ waiting \in [Board -> Conn]
  BY DEF ServerTypeOK
<1> DEFINE Wires == \A u \in Board : WholeFrames(u, conn[u].rx) /\ WholeFrames(u, waiting[u].rx)
           Lying == \A u \in Board : Processing(u) => \E s \in 1 .. sent[u] :
                      \A h \in 1 .. WORDS : Tcp_f407_Callbackbuf[h] = Word(u, s, h)
           Loaded == \A u \in Board : at[u] = "store" =>
                       Data_From_F407 \in Samples(<<u, channel[u]>>, sent[u])
<1>7. SUFFICES Wires' /\ Lying' /\ Loaded' /\ StoredGenuine'
  BY <1>4 DEF PacedInv
<1>8. Wires /\ Lying /\ Loaded /\ StoredGenuine
  BY DEF PacedInv
<1>9. Factory_data_map' = Factory_data_map => StoredGenuine'
  BY <1>2, <1>8 DEF StoredGenuine, Samples
<1> USE DEF Goto, Processing
<1>10. CASE Accept(t)
  BY <1>2, <1>3, <1>5, <1>6, <1>8, <1>9, <1>10 DEF Accept, NoConn, WholeFrames
<1>11. CASE Clear(t)
  BY <1>2, <1>3, <1>5, <1>6, <1>8, <1>9, <1>11 DEF Clear, WholeFrames
<1>12. CASE Read(t)
  <2>1. /\ conn[t].rx # <<>>
        /\ Tcp_f407_Callbackbuf' =
             Received(Tcp_f407_Callbackbuf, SubSeq(conn[t].rx, 1, Len(conn[t].rx)))
        /\ conn' = [conn EXCEPT ![t].rx = SubSeq(@, Len(conn[t].rx) + 1, Len(@))]
    <3>1. \A n \in ReadSizes(conn[t].rx) : n = Len(conn[t].rx) /\ n # 0
      BY DEF ReadSizes
    <3>2. QED
      BY <1>12, <3>1, EmptySeq DEF Read
  <2>2. PICK s \in 1 .. sent[t] : conn[t].rx = FrameStream(t, s)
    BY <1>8, <2>1 DEF WholeFrames
  <2>3. conn[t].rx \in Seq(Cell) /\ Len(conn[t].rx) \in Nat
    BY <1>6, LenProperties DEF Conn
  <2>4. SubSeq(conn[t].rx, 1, Len(conn[t].rx)) = conn[t].rx
    BY <2>3, SubSeqFull
  <2>5. SubSeq(conn[t].rx, Len(conn[t].rx) + 1, Len(conn[t].rx)) = <<>>
    BY <2>3, SubSeqEmpty
  <2>6. \A h \in 1 .. WORDS : Tcp_f407_Callbackbuf'[h] = Word(t, s, h)
    <3>1. Tcp_f407_Callbackbuf' = Received(Tcp_f407_Callbackbuf, FrameStream(t, s))
      BY <2>1, <2>2, <2>4
    <3>2. \A h \in 1 .. WORDS : h \in 0 .. BUF_LEN - 1 /\ h < FRAME_LEN
      BY FrameLenNat, ServerAssumption
    <3>3. QED
      BY <3>1, <3>2, StreamCell DEF Received
  <2>7. Lying'
    BY <1>2, <1>5, <2>6
  <2>8. Wires'
    <3>1. conn'[t].rx = <<>>
      BY <1>6, <2>1, <2>5 DEF Conn
    <3>2. UNCHANGED <<waiting, sent>>
      BY <1>2, <1>12 DEF Read
    <3>3. QED
      BY <1>3, <1>8, <3>1, <3>2 DEF WholeFrames
  <2>9. QED
    BY <1>5, <1>6, <1>9, <1>12, <2>7, <2>8 DEF Read
<1>13. CASE ReadEnd(t)
  BY <1>2, <1>3, <1>5, <1>6, <1>8, <1>9, <1>13 DEF ReadEnd, WholeFrames
<1>14. CASE Close(t)
  BY <1>2, <1>3, <1>5, <1>6, <1>8, <1>9, <1>14 DEF Close, NoConn, WholeFrames
<1>15. CASE ScanFound(t)
  BY <1>2, <1>3, <1>5, <1>6, <1>8, <1>9, <1>15 DEF ScanFound, WholeFrames
<1>16. CASE ScanFailed(t)
  BY <1>2, <1>3, <1>5, <1>6, <1>8, <1>9, <1>16 DEF ScanFailed, WholeFrames
<1>17. CASE CopyCrc(t)
  BY <1>2, <1>3, <1>5, <1>6, <1>8, <1>9, <1>17 DEF CopyCrc, WholeFrames
<1>18. CASE CrcGood(t)
  BY <1>2, <1>3, <1>5, <1>6, <1>8, <1>9, <1>18 DEF CrcGood, WholeFrames
<1>19. CASE CrcBad(t)
  BY <1>2, <1>3, <1>5, <1>6, <1>8, <1>9, <1>19 DEF CrcBad, WholeFrames
<1>20. CASE Load(t)
  <2>1. channel[t] \in 1 .. WORDS
    <3>1. channel[t] \in 1 .. WORDS + 1 /\ channel[t] <= ChannelNum[t]
      BY <1>20 DEF Load, MoreChannels, ServerTypeOK
    <3>2. ChannelNum[t] \in 0 .. WORDS
      BY BoardsAssumption DEF Board
    <3>3. QED
      BY <3>1, <3>2, BoardsAssumption
  <2>2. Data_From_F407' \in Samples(<<t, channel[t]>>, sent[t])
    BY <1>8, <1>20, <2>1 DEF Load, ChannelWord, Samples
  <2>3. QED
    BY <1>2, <1>3, <1>5, <1>6, <1>8, <1>9, <1>20, <2>2 DEF Load, WholeFrames, Samples
<1>21. CASE Store(t)
  <2>1. <<t, channel[t]>> \in Key /\ Data_From_F407 \in Samples(<<t, channel[t]>>, sent[t])
    BY <1>8, <1>21 DEF Store, ServerTypeOK
  <2>2. \A k \in Key : \/ Factory_data_map'[k] = Factory_data_map[k]
                      \/ /\ k = <<t, channel[t]>>
                         /\ Factory_data_map'[k] = Data_From_F407
    <3>1. Factory_data_map \in [Key -> Cell]
      BY DEF ServerTypeOK
    <3>2. QED
      BY <1>21, <3>1 DEF Store, StoreWord, MapInsert, MapAssign
  <2>3. StoredGenuine'
    <3> SUFFICES ASSUME NEW k \in Key
                 PROVE  Factory_data_map'[k] \in {Absent, Zero} \cup Samples(k, sent[k[1]])
      BY <1>2 DEF StoredGenuine, Samples
    <3>1. QED
      BY <1>8, <2>1, <2>2 DEF StoredGenuine
  <2>4. QED
    BY <1>2, <1>3, <1>5, <1>6, <1>8, <1>21, <2>3 DEF Store, WholeFrames
<1>22. CASE StoreDone(t)
  BY <1>2, <1>3, <1>5, <1>6, <1>8, <1>9, <1>22 DEF StoreDone, WholeFrames
<1>23. QED
  BY <1>10, <1>11, <1>12, <1>13, <1>14, <1>15, <1>16, <1>17, <1>18, <1>19, <1>20, <1>21, <1>22
     DEF ThreadStep

(* What the boards and the network do keeps the invariant.                 *)
LEMMA BoardPaced ==
  ASSUME Paced, PacedIInv, NEW b \in Board, BoardStep(b)
  PROVE  PacedInv'
<1> USE DEF bufferVars, PacedIInv
<1>1. b \in Live
  BY DEF PacedInv, OnlyLiveServed, BoardStep, Dial, Send, Hangup, Lose
<1>2. at' = at /\ UNCHANGED <<bufferVars, channel, Factory_data_map>>
  BY DEF BoardStep, Dial, Send, Hangup, Lose
<1>3. sent \in [Board -> Nat] /\ \A u \in Board : 1 .. sent[u] \subseteq 1 .. sent'[u]
  <2>1. sent \in [Board -> Nat]
    BY ServerAssumption DEF ServerTypeOK
  <2>2. \A u \in Board : sent'[u] \in Nat /\ sent[u] <= sent'[u]
    BY <2>1 DEF BoardStep, Dial, Send, Hangup, Lose
  <2>3. QED
    BY <2>1, <2>2
<1>4. \A k : k[1] \in Board => Samples(k, sent[k[1]]) \subseteq Samples(k, sent'[k[1]])
  BY <1>3 DEF Samples
<1>5. \A u \in Board \ {b} : /\ conn'[u] = conn[u] /\ waiting'[u] = waiting[u]
                             /\ linked'[u] = linked[u]
  BY DEF BoardStep, Dial, Send, Hangup, Lose, SetCurrent, ServerTypeOK
<1>6. OnlyLiveServed'
  BY <1>1, <1>2, <1>5 DEF PacedInv, OnlyLiveServed
<1>7. StoredGenuine'
  BY <1>2, <1>4 DEF PacedInv, StoredGenuine, Key
<1>8. \A t \in Board : Processing(t)' =>
        \E s \in 1 .. sent'[t] : \A h \in 1 .. WORDS : Tcp_f407_Callbackbuf'[h] = Word(t, s, h)
  BY <1>2, <1>3 DEF PacedInv, Processing
<1>9. \A t \in Board : at'[t] = "store" =>
        Data_From_F407' \in Samples(<<t, channel'[t]>>, sent'[t])
  BY <1>2, <1>3 DEF PacedInv, Samples
<1>10. ASSUME NEW u \in Board, NEW rx, WholeFrames(u, rx)
       PROVE  rx = <<>> \/ \E s \in 1 .. sent'[u] : rx = FrameStream(u, s)
  BY <1>3, <1>10 DEF WholeFrames
<1>11. ASSUME NEW c, SetCurrent(b, c),
              c.rx = <<>> \/ \E s \in 1 .. sent'[b] : c.rx = FrameStream(b, s)
       PROVE  WholeFrames(b, conn[b].rx)' /\ WholeFrames(b, waiting[b].rx)'
  <2>1. WholeFrames(b, conn[b].rx) /\ WholeFrames(b, waiting[b].rx)
    BY DEF PacedInv
  <2>2. conn'[b].rx \in {c.rx, conn[b].rx} /\ waiting'[b].rx \in {c.rx, waiting[b].rx}
    BY <1>11 DEF SetCurrent, ServerTypeOK
  <2>3. QED
    BY <1>10, <1>11, <2>1, <2>2 DEF WholeFrames
<1>12. Current(b) \in Conn /\ WholeFrames(b, Current(b).rx)
  BY DEF Current, PacedInv, ServerTypeOK
<1>13. WholeFrames(b, conn[b].rx)' /\ WholeFrames(b, waiting[b].rx)'
  <2>1. CASE Dial(b)
    BY <1>10, <2>1 DEF Dial, NewConn, WholeFrames, PacedInv, ServerTypeOK
  <2>2. CASE Send(b)
    <3> DEFINE c == [Current(b) EXCEPT !.rx = @ \o FrameStream(b, sent[b] + 1)]
    <3>1. Current(b).rx = <<>> /\ SetCurrent(b, c)
      BY <2>2 DEF Send
    <3>2. FrameStream(b, sent[b] + 1) \in Seq(Cell)
      BY <1>3, FrameStreamType
    <3>3. c.rx = FrameStream(b, sent[b] + 1)
      BY <1>12, <3>1, <3>2, ConcatEmptySeq DEF Conn
    <3>4. sent[b] + 1 \in 1 .. sent'[b]
      BY <1>3, <2>2 DEF Send
    <3>5. QED
      BY <1>11, <3>1, <3>3, <3>4
  <2>3. CASE Hangup(b)
    BY <1>10, <1>11, <1>12, <2>3 DEF Hangup
  <2>4. CASE Lose(b)
    BY <1>10, <1>11, <1>12, <2>4 DEF Lose, Conn
  <2>5. QED
    BY <2>1, <2>2, <2>3, <2>4 DEF BoardStep
<1>14. \A u \in Board : WholeFrames(u, conn[u].rx)' /\ WholeFrames(u, waiting[u].rx)'
  <2>1. \A u \in Board : WholeFrames(u, conn[u].rx) /\ WholeFrames(u, waiting[u].rx)
    BY DEF PacedInv
  <2>2. ASSUME NEW u \in Board \ {b}
        PROVE  WholeFrames(u, conn[u].rx)' /\ WholeFrames(u, waiting[u].rx)'
    <3>1. conn'[u].rx = conn[u].rx /\ waiting'[u].rx = waiting[u].rx
      BY <1>5
    <3>2. /\ conn[u].rx = <<>> \/ \E s \in 1 .. sent'[u] : conn[u].rx = FrameStream(u, s)
          /\ waiting[u].rx = <<>> \/ \E s \in 1 .. sent'[u] : waiting[u].rx = FrameStream(u, s)
      BY <1>10, <2>1
    <3>3. QED
      BY <3>1, <3>2 DEF WholeFrames
  <2>3. QED
    BY <1>13, <2>2
<1>15. QED
  BY <1>6, <1>7, <1>8, <1>9, <1>14 DEF PacedInv, Samples

LEMMA PacedStep == OneLive /\ Paced /\ PacedIInv /\ [ServerNext]_svars => PacedIInv'
<1> SUFFICES ASSUME OneLive, Paced, PacedIInv, [ServerNext]_svars PROVE PacedIInv'
  OBVIOUS
<1>1. ServerTypeOK'
  BY ServerTypeStep DEF PacedIInv
<1>2. CASE UNCHANGED svars
  BY <1>1, <1>2 DEF svars, serverVars, threadVars, bufferVars, boardVars, PacedIInv, PacedInv,
     OnlyLiveServed, WholeFrames, Processing, StoredGenuine, Samples
<1>3. CASE ServerNext
  BY <1>1, <1>3, ThreadPaced, BoardPaced DEF ServerNext, PacedIInv
<1>4. QED
  BY <1>2, <1>3

(***************************************************************************)
(* With one powered board whose frames are read one at a time, a           *)
(* connection holds at most one whole frame and a thread that works on a   *)
(* frame has it at the start of the receive buffer.                        *)
(***************************************************************************)
THEOREM PacedInvariant ==
  ASSUME OneLive, Paced
  PROVE  ServerSpec => []PacedInv
<1>1. ServerInit /\ MapInit => PacedIInv
  BY ServerInitType, PacedInit DEF PacedIInv
<1>2. PacedIInv /\ [ServerNext]_svars => PacedIInv'
  BY PacedStep
<1>3. PacedIInv => PacedInv
  BY DEF PacedIInv
<1>4. QED
  BY <1>1, <1>2, <1>3, PTL DEF ServerSpec, ServerAlone, svars

(***************************************************************************)
(* With one powered board whose frames are read one at a time, everything  *)
(* the map ever holds is a sample that board sent for that very channel.   *)
(***************************************************************************)
THEOREM StoredSamplesGenuine ==
  ASSUME OneLive, Paced
  PROVE  ServerSpec => []StoredGenuine
<1>1. PacedInv => StoredGenuine
  BY DEF PacedInv
<1>2. QED
  BY <1>1, PacedInvariant, PTL
=============================================================================
