----------------------------- MODULE F407Server -----------------------------
(***************************************************************************)
(* src/F407_datacollect.cpp: one thread per configured board runs          *)
(* Tcp_sever_init, accepts the board's TCP connection, looks for a frame   *)
(* in what read() returns, checks its CRC and stores the channels in       *)
(* Factory_data_map.                                                       *)
(*                                                                         *)
(* The four buffers are globals, shared by every thread, as in the code.   *)
(* The wire is modelled word by word: a frame is the header 01 04 10 (one  *)
(* cell), WORDS channel words and the CRC (one cell).                      *)
(***************************************************************************)
EXTENDS FactoryData, Sequences

CONSTANTS
  BUF_LEN,     \* cells in Tcp_f407_Callbackbuf (128 bytes)
  SCAN_LEN,    \* positions tried by the header search (128 - 21 bytes)
  Live,        \* the boards that are powered and dial in
  Paced,       \* TRUE: a board's frame has been read before it sends the next
               \* one, and reaches read() in one segment
  SilentLoss,  \* TRUE: a link may die without FIN or RST reaching the server
  MaxFrames,   \* bound: frames one board sends
  MaxDials     \* bound: connections one board opens

FRAME_LEN == WORDS + 2

(***************************************************************************)
(* The last conjunct of the buffer sizes holds of 128, 107 and 37 bytes.   *)
(***************************************************************************)
ASSUME ServerAssumption ==
  /\ BUF_LEN \in Nat /\ SCAN_LEN \in 1 .. BUF_LEN
  /\ FRAME_LEN <= BUF_LEN
  /\ 2 * SCAN_LEN + FRAME_LEN <= 2 * BUF_LEN + 2
  /\ Live \subseteq Board
  /\ Paced \in BOOLEAN /\ SilentLoss \in BOOLEAN
  /\ MaxFrames \in Nat /\ MaxDials \in Nat

VARIABLES
  at,                    \* where each thread is in Tcp_sever_init
  conn,                  \* the accepted connection (cfd) of each thread
  waiting,               \* the connection in the thread's listen backlog
  flags,                 \* the local "first sample already inserted"
  channel,               \* the local h of the store loop
  Tcp_f407_Callbackbuf,  \* what read() filled in (shared)
  F407_Buffer,           \* the frame found by the header search (shared)
  F407_crc,              \* the bytes the CRC is computed on (shared)
  Data_From_F407,        \* the four bytes being assembled (shared)
  accepted,              \* history: the frames each thread found correct
  linked,                \* does the board believe it is connected?
  sent,                  \* frames each board has sent
  dials                  \* connections each board has opened

threadVars == <<at, conn, waiting, flags, channel, accepted>>
bufferVars == <<Tcp_f407_Callbackbuf, F407_Buffer, F407_crc, Data_From_F407>>
boardVars  == <<linked, sent, dials>>
serverVars == <<threadVars, bufferVars, boardVars>>

-----------------------------------------------------------------------------
(* The wire format.                                                        *)

Header      == <<"head", 0, 0, 0>>
Check(b, s) == <<"crc", b, s, 0>>
BadCheck    == <<"bad", 0, 0, 0>>

FrameCell(b, s, j) ==
  IF j = 0 THEN Header ELSE IF j <= WORDS THEN Word(b, s, j) ELSE Check(b, s)

Frame(b, s) == [j \in 0 .. FRAME_LEN - 1 |-> FrameCell(b, s, j)]
FrameBody(b, s) == [j \in 0 .. WORDS |-> FrameCell(b, s, j)]
FrameStream(b, s) == [j \in 1 .. FRAME_LEN |-> FrameCell(b, s, j - 1)]

(* The checksum tells genuine bodies apart and never matches another one.  *)
getModbusCRC16(body) ==
  LET b == body[1][2]
      s == body[1][3]
  IN  IF body = FrameBody(b, s) THEN Check(b, s) ELSE BadCheck

(* Mutant: the checksum is never compared.                                 *)
CrcUnchecked(body, frame) == TRUE

CrcMatches(body, frame) == getModbusCRC16(body) = frame[FRAME_LEN - 1]

-----------------------------------------------------------------------------
(* The buffers.                                                            *)

BlankBuffer == [j \in 0 .. BUF_LEN - 1 |-> Zero]

(* Mutant: the received bytes land one cell too far.                       *)
ReceivedLate(buffer, cells) ==
  [j \in 0 .. BUF_LEN - 1 |->
     IF j \in 1 .. Len(cells) THEN cells[j] ELSE buffer[j]]

(* read() overwrites the first cells and leaves the others alone.          *)
Received(buffer, cells) ==
  [j \in 0 .. BUF_LEN - 1 |-> IF j < Len(cells) THEN cells[j + 1] ELSE buffer[j]]

(* Mutant: the search starts at the second position.                       *)
HeaderPositionsLate(buffer) == {i \in 1 .. SCAN_LEN - 1 : buffer[i] = Header}

HeaderPositions(buffer) == {i \in 0 .. SCAN_LEN - 1 : buffer[i] = Header}

(* The search takes the first header and then leaves the loop.             *)
IsFirstHeader(buffer, i) ==
  /\ i \in HeaderPositions(buffer)
  /\ \A j \in HeaderPositions(buffer) : i <= j

(***************************************************************************)
(* The copy of a frame found near the end runs past the receive buffer.    *)
(* F407_Buffer lies right behind it, so the cells read there are the ones  *)
(* the same loop has just written.                                         *)
(***************************************************************************)
CopyFrom(buffer, i) ==
  [j \in 0 .. FRAME_LEN - 1 |->
     IF i + j < BUF_LEN THEN buffer[i + j] ELSE buffer[2 * i + j - BUF_LEN]]

(* Mutant: decoding starts one word late.                                  *)
ChannelWordLate(buffer, h) == buffer[h + 1]

(* Channel h is decoded at byte 3 + 4*(h-1) of the receive buffer.         *)
ChannelWord(buffer, h) == buffer[h]

(* Mutant: every sample is inserted.                                       *)
StoreWordOnce(m, first, k, v) == MapInsert(m, k, v)

(* The first sample of a thread is inserted, the later ones are assigned.  *)
StoreWord(m, first, k, v) ==
  IF first THEN MapInsert(m, k, v) ELSE MapAssign(m, k, v)

-----------------------------------------------------------------------------
NoConn == [state |-> "none", rx |-> <<>>]
NewConn == [state |-> "open", rx |-> <<>>]

ServerInit ==
  /\ at = [t \in Board |-> "accept"]
  /\ conn = [t \in Board |-> NoConn]
  /\ waiting = [t \in Board |-> NoConn]
  /\ flags = [t \in Board |-> 0]
  /\ channel = [t \in Board |-> 1]
  /\ Tcp_f407_Callbackbuf = BlankBuffer
  /\ F407_Buffer = [j \in 0 .. FRAME_LEN - 1 |-> Zero]
  /\ F407_crc = [j \in 0 .. WORDS |-> Zero]
  /\ Data_From_F407 = Zero
  /\ accepted = [t \in Board |-> <<>>]
  /\ linked = [b \in Board |-> FALSE]
  /\ sent = [b \in Board |-> 0]
  /\ dials = [b \in Board |-> 0]

Goto(t, from, to) == at[t] = from /\ at' = [at EXCEPT ![t] = to]

-----------------------------------------------------------------------------
(* The thread of board t.                                                  *)

(* accept() takes the connection out of the backlog.                       *)
Accept(t) ==
  /\ waiting[t].state # "none"
  /\ Goto(t, "accept", "clear")
  /\ conn' = [conn EXCEPT ![t] = waiting[t]]
  /\ waiting' = [waiting EXCEPT ![t] = NoConn]
  /\ UNCHANGED <<flags, channel, accepted, bufferVars, boardVars, Factory_data_map>>

(* Mutant: no bzero.                                                       *)
ClearNothing(t) ==
  /\ Goto(t, "clear", "read")
  /\ UNCHANGED <<conn, waiting, flags, channel, accepted, bufferVars, boardVars,
                 Factory_data_map>>

(* bzero of the receive buffer before each read().                         *)
Clear(t) ==
  /\ Goto(t, "clear", "read")
  /\ Tcp_f407_Callbackbuf' = BlankBuffer
  /\ UNCHANGED <<conn, waiting, flags, channel, accepted, F407_Buffer, F407_crc,
                 Data_From_F407, boardVars, Factory_data_map>>

(* How many cells one read() may return.                                   *)
ReadSizes(rx) ==
  IF Paced THEN {Len(rx)} \ {0} ELSE {n \in 1 .. BUF_LEN : n <= Len(rx)}

Read(t) ==
  /\ \E n \in ReadSizes(conn[t].rx) :
       /\ Tcp_f407_Callbackbuf' =
            Received(Tcp_f407_Callbackbuf, SubSeq(conn[t].rx, 1, n))
       /\ conn' = [conn EXCEPT ![t].rx = SubSeq(@, n + 1, Len(@))]
  /\ Goto(t, "read", "scan")
  /\ UNCHANGED <<waiting, flags, channel, accepted, F407_Buffer, F407_crc,
                 Data_From_F407, boardVars, Factory_data_map>>

(* Mutant: the end of the stream is taken for an empty read.               *)
ReadEndIgnored(t) ==
  /\ conn[t].rx = <<>>
  /\ conn[t].state = "fin"
  /\ Goto(t, "read", "clear")
  /\ UNCHANGED <<conn, waiting, flags, channel, accepted, bufferVars, boardVars,
                 Factory_data_map>>

(* read() returned 0 or -1: leave the inner loop.                          *)
ReadEnd(t) ==
  /\ conn[t].rx = <<>>
  /\ conn[t].state = "fin"
  /\ Goto(t, "read", "close")
  /\ UNCHANGED <<conn, waiting, flags, channel, accepted, bufferVars, boardVars,
                 Factory_data_map>>

(* sleep(1), close(cfd), back to accept().                                 *)
Close(t) ==
  /\ Goto(t, "close", "accept")
  /\ conn' = [conn EXCEPT ![t] = NoConn]
  /\ UNCHANGED <<waiting, flags, channel, accepted, bufferVars, boardVars,
                 Factory_data_map>>

(* The header search, and the copy of the frame it finds.                  *)
ScanFound(t) ==
  /\ \E i \in 0 .. SCAN_LEN - 1 :
       /\ IsFirstHeader(Tcp_f407_Callbackbuf, i)
       /\ F407_Buffer' = CopyFrom(Tcp_f407_Callbackbuf, i)
  /\ Goto(t, "scan", "copy")
  /\ UNCHANGED <<conn, waiting, flags, channel, accepted, Tcp_f407_Callbackbuf,
                 F407_crc, Data_From_F407, boardVars, Factory_data_map>>

ScanFailed(t) ==
  /\ HeaderPositions(Tcp_f407_Callbackbuf) = {}
  /\ Goto(t, "scan", "clear")
  /\ UNCHANGED <<conn, waiting, flags, channel, accepted, bufferVars, boardVars,
                 Factory_data_map>>

(* Mutant: the CRC is computed on the start of the receive buffer.         *)
CopyCrcFromStart(t) ==
  /\ Goto(t, "copy", "check")
  /\ F407_crc' = [j \in 0 .. WORDS |-> Tcp_f407_Callbackbuf[j]]
  /\ UNCHANGED <<conn, waiting, flags, channel, accepted, Tcp_f407_Callbackbuf,
                 F407_Buffer, Data_From_F407, boardVars, Factory_data_map>>

(* The 35 bytes in front of the CRC are copied out of the frame.           *)
CopyCrc(t) ==
  /\ Goto(t, "copy", "check")
  /\ F407_crc' = [j \in 0 .. WORDS |-> F407_Buffer[j]]
  /\ UNCHANGED <<conn, waiting, flags, channel, accepted, Tcp_f407_Callbackbuf,
                 F407_Buffer, Data_From_F407, boardVars, Factory_data_map>>

CrcGood(t) ==
  /\ CrcMatches(F407_crc, F407_Buffer)
  /\ Goto(t, "check", "load")
  /\ channel' = [channel EXCEPT ![t] = 1]
  /\ accepted' = [accepted EXCEPT ![t] = Append(@, SeqOf(F407_Buffer[1]))]
  /\ UNCHANGED <<conn, waiting, flags, bufferVars, boardVars, Factory_data_map>>

(* A wrong CRC drops whatever else the read returned.                      *)
CrcBad(t) ==
  /\ ~CrcMatches(F407_crc, F407_Buffer)
  /\ Goto(t, "check", "clear")
  /\ UNCHANGED <<conn, waiting, flags, channel, accepted, bufferVars, boardVars,
                 Factory_data_map>>

(* Mutants: the store loop runs once too often, or stops one channel short. *)
ChannelBeyond(t) == channel[t] <= ChannelNum[t] + 1
ChannelShort(t)  == channel[t] < ChannelNum[t]

(* The condition of the store loop.                                        *)
MoreChannels(t) == channel[t] <= ChannelNum[t]

(* Assemble the bytes of the next channel.                                 *)
Load(t) ==
  /\ MoreChannels(t)
  /\ Goto(t, "load", "store")
  /\ Data_From_F407' = ChannelWord(Tcp_f407_Callbackbuf, channel[t])
  /\ UNCHANGED <<conn, waiting, flags, channel, accepted, Tcp_f407_Callbackbuf,
                 F407_Buffer, F407_crc, boardVars, Factory_data_map>>

(* Store them under "IP<t>Channel<h>" and bzero the assembled bytes.       *)
Store(t) ==
  /\ Goto(t, "store", "load")
  /\ Factory_data_map' = StoreWord(Factory_data_map, flags[t] = 0,
                                   <<t, channel[t]>>, Data_From_F407)
  /\ flags' = [flags EXCEPT ![t] = 1]
  /\ channel' = [channel EXCEPT ![t] = @ + 1]
  /\ Data_From_F407' = Zero
  /\ UNCHANGED <<conn, waiting, accepted, Tcp_f407_Callbackbuf, F407_Buffer, F407_crc,
                 boardVars>>

StoreDone(t) ==
  /\ ~MoreChannels(t)
  /\ Goto(t, "load", "clear")
  /\ UNCHANGED <<conn, waiting, flags, channel, accepted, bufferVars, boardVars,
                 Factory_data_map>>

ThreadStep(t) ==
  \/ Accept(t) \/ Clear(t) \/ Read(t) \/ ReadEnd(t) \/ Close(t)
  \/ ScanFound(t) \/ ScanFailed(t) \/ CopyCrc(t) \/ CrcGood(t) \/ CrcBad(t)
  \/ Load(t) \/ Store(t) \/ StoreDone(t)

-----------------------------------------------------------------------------
(* The boards and the network (external).  A board talks to the thread     *)
(* that listens on its port, over its newest connection.                   *)

Current(b) == IF waiting[b].state # "none" THEN waiting[b] ELSE conn[b]

SetCurrent(b, c) ==
  IF waiting[b].state # "none"
    THEN waiting' = [waiting EXCEPT ![b] = c] /\ UNCHANGED conn
    ELSE conn' = [conn EXCEPT ![b] = c] /\ UNCHANGED waiting

(* The backlog is bounded by one waiting connection per board.             *)
Dial(b) ==
  /\ b \in Live /\ ~linked[b]
  /\ waiting[b].state = "none"
  /\ dials[b] < MaxDials
  /\ waiting' = [waiting EXCEPT ![b] = NewConn]
  /\ linked' = [linked EXCEPT ![b] = TRUE]
  /\ dials' = [dials EXCEPT ![b] = @ + 1]
  /\ UNCHANGED <<at, conn, flags, channel, accepted, bufferVars, sent, Factory_data_map>>

Send(b) ==
  /\ linked[b]
  /\ sent[b] < MaxFrames
  /\ Paced => Current(b).rx = <<>>
  /\ sent' = [sent EXCEPT ![b] = @ + 1]
  /\ SetCurrent(b, [Current(b) EXCEPT !.rx = @ \o FrameStream(b, sent[b] + 1)])
  /\ UNCHANGED <<at, flags, channel, accepted, bufferVars, linked, dials, Factory_data_map>>

(* The board closes or resets the connection; a reset discards what the    *)
(* server has not read yet.                                                *)
Hangup(b) ==
  /\ linked[b]
  /\ \E rest \in {Current(b).rx, <<>>} :
       SetCurrent(b, [state |-> "fin", rx |-> rest])
  /\ linked' = [linked EXCEPT ![b] = FALSE]
  /\ UNCHANGED <<at, flags, channel, accepted, bufferVars, sent, dials, Factory_data_map>>

(* The link dies and no packet ever tells the server.                      *)
Lose(b) ==
  /\ SilentLoss /\ linked[b]
  /\ SetCurrent(b, [Current(b) EXCEPT !.state = "lost"])
  /\ linked' = [linked EXCEPT ![b] = FALSE]
  /\ UNCHANGED <<at, flags, channel, accepted, bufferVars, sent, dials, Factory_data_map>>

BoardStep(b) == Dial(b) \/ Send(b) \/ Hangup(b) \/ Lose(b)

ServerNext == \E t \in Board : ThreadStep(t) \/ BoardStep(t)

(* A runnable thread is scheduled; boards owe nothing.                     *)
ServerFairness == \A t \in Board : WF_<<serverVars, Factory_data_map>>(ThreadStep(t))

ServerAlone == ServerInit /\ MapInit

ServerSpec ==
  /\ ServerAlone
  /\ [][ServerNext]_<<serverVars, Factory_data_map>>
  /\ ServerFairness

-----------------------------------------------------------------------------
Buffer(n) == [0 .. n - 1 -> Cell]

Conn == [state : {"none", "open", "fin", "lost"}, rx : Seq(Cell)]

(* Every variable of the board threads and the network keeps its type, and *)
(* the key a thread is about to store under is a configured channel.       *)
ServerTypeOK ==
  /\ Factory_data_map \in [Key -> Cell]
  /\ at \in [Board -> {"accept", "clear", "read", "scan", "copy", "check",
                       "load", "store", "close"}]
  /\ conn \in [Board -> Conn] /\ waiting \in [Board -> Conn]
  /\ flags \in [Board -> {0, 1}]
  /\ channel \in [Board -> 1 .. WORDS + 1]
  /\ \A t \in Board : at[t] = "store" => <<t, channel[t]>> \in Key
  /\ Tcp_f407_Callbackbuf \in Buffer(BUF_LEN)
  /\ F407_Buffer \in Buffer(FRAME_LEN)
  /\ F407_crc \in Buffer(WORDS + 1)
  /\ Data_From_F407 \in Cell
  /\ accepted \in [Board -> Seq(Nat)]
  /\ linked \in [Board -> BOOLEAN]
  /\ sent \in [Board -> 0 .. MaxFrames]
  /\ dials \in [Board -> 0 .. MaxDials]

-----------------------------------------------------------------------------
(* Safety.                                                                 *)

Samples(k, upto) == {Word(k[1], s, k[2]) : s \in 1 .. upto}

(***************************************************************************)
(* A stored value is 0.0 or a sample the same board sent for the same      *)
(* channel: decoding, checksum and store loop of Tcp_sever_init put no     *)
(* other board's, other channel's or unsent value under a key.             *)
(***************************************************************************)
StoredGenuine ==
  \A k \in Key :
    Factory_data_map[k] \in {Absent, Zero} \cup Samples(k, sent[k[1]])

(***************************************************************************)
(* Once a thread has found the CRC of a frame correct, F407_Buffer holds   *)
(* exactly a frame its board has sent, until the channels are stored.      *)
(***************************************************************************)
VerifiedGenuine ==
  \A t \in Board :
    at[t] \in {"load", "store"} =>
      \E s \in 1 .. sent[t] : F407_Buffer = Frame(t, s)

(***************************************************************************)
(* Frames are accepted in the order they were sent and never twice,        *)
(* however TCP cuts the stream and however often the board reconnects.     *)
(***************************************************************************)
AcceptedInOrder ==
  \A t \in Board :
    /\ \A i, j \in 1 .. Len(accepted[t]) : i < j => accepted[t][i] < accepted[t][j]
    /\ \A i \in 1 .. Len(accepted[t]) : accepted[t][i] \in 1 .. sent[t]

Newest(t) == accepted[t][Len(accepted[t])]

(* The thread has left the store loop of its newest accepted frame.        *)
Settled(t) == at[t] \in {"clear", "read", "scan", "close", "accept"}

Holds(t, s) ==
  \A h \in 1 .. ChannelNum[t] : Factory_data_map[<<t, h>>] = Word(t, s, h)

(***************************************************************************)
(* After the store loop the map holds every channel of the accepted frame: *)
(* what src/F407_datacollect.cpp:116 says of the first and of every later  *)
(* frame.                                                                  *)
(***************************************************************************)
StoreComplete ==
  \A t \in Board : Settled(t) /\ accepted[t] # <<>> => Holds(t, Newest(t))

(* The same from the second accepted frame of a thread on.                 *)
LaterStoreComplete ==
  \A t \in Board : Settled(t) /\ Len(accepted[t]) > 1 => Holds(t, Newest(t))

-----------------------------------------------------------------------------
(* Why an accepted frame is genuine: the inductive invariant.              *)

(* What can be on the wire or in a receive buffer.                         *)
WireCell ==
  {Zero, Header}
    \cup {c \in Cell : c[1] \in {"word", "crc"} /\ c[2] \in Live /\ c[3] \in 1 .. sent[c[2]]}

(* A board without power never reaches its thread.                         *)
OnlyLiveServed ==
  \A t \in Board \ Live :
    at[t] = "accept" /\ waiting[t].state = "none" /\ ~linked[t]

(* Nothing but sent cells is ever received.                                *)
OnlySentReceived ==
  /\ \A t \in Board : conn[t].rx \in Seq(WireCell) /\ waiting[t].rx \in Seq(WireCell)
  /\ \A j \in 0 .. BUF_LEN - 1 : Tcp_f407_Callbackbuf[j] \in WireCell
  /\ \A j \in 0 .. FRAME_LEN - 1 : F407_Buffer[j] \in WireCell

(* The CRC is computed on the body of the frame it is compared with.       *)
CrcOfFrame ==
  \A t \in Board : at[t] = "check" => F407_crc = [j \in 0 .. WORDS |-> F407_Buffer[j]]

(***************************************************************************)
(* No thread serves an absent board, only sent cells reach the buffers,    *)
(* F407_crc is the body of the frame under check, and so a CRC that        *)
(* matches belongs to a sent frame.                                        *)
(***************************************************************************)
CrcInv == OnlyLiveServed /\ OnlySentReceived /\ CrcOfFrame /\ VerifiedGenuine

-----------------------------------------------------------------------------
(* Why a stored value is genuine when frames are paced.                    *)

(* A paced connection carries at most one frame, and carries it whole.     *)
WholeFrames(t, rx) == rx = <<>> \/ \E s \in 1 .. sent[t] : rx = FrameStream(t, s)

(* The thread is between read() and the end of the store loop.             *)
Processing(t) == at[t] \in {"scan", "copy", "check", "load", "store"}

(***************************************************************************)
(* A read() starts on a blank buffer and returns one whole frame; until    *)
(* the thread reads again the frame stays at the start of the buffer,      *)
(* where the store loop decodes its channels.                              *)
(***************************************************************************)
PacedInv ==
  /\ OnlyLiveServed
  /\ \A t \in Board : WholeFrames(t, conn[t].rx) /\ WholeFrames(t, waiting[t].rx)
  /\ \A t \in Board : Processing(t) =>
       \E s \in 1 .. sent[t] : \A h \in 1 .. WORDS : Tcp_f407_Callbackbuf[h] = Word(t, s, h)
  /\ \A t \in Board : at[t] = "store" => Data_From_F407 \in Samples(<<t, channel[t]>>, sent[t])
  /\ StoredGenuine

-----------------------------------------------------------------------------
(* Liveness.                                                               *)

(***************************************************************************)
(* A board waiting in the backlog is accepted in the end, unless the       *)
(* connection the thread still serves died silently: read() has no         *)
(* timeout there.                                                          *)
(***************************************************************************)
WaitingServed ==
  \A t \in Board :
    (waiting[t].state # "none") ~> (waiting[t].state = "none" \/ conn[t].state = "lost")

(***************************************************************************)
(* A frame on its way to the server reaches the map, on every channel past *)
(* the first, without any further frame having to arrive, as long as the   *)
(* board stays connected and the thread does not still serve a connection  *)
(* that died silently.                                                     *)
(***************************************************************************)
NewestLands ==
  \A t \in Board : \A s \in 1 .. MaxFrames :
    (sent[t] = s /\ linked[t] /\ Current(t).rx # <<>>) ~>
      \/ ~linked[t] \/ conn[t].state = "lost"
      \/ \A h \in 2 .. ChannelNum[t] : SeqOf(Factory_data_map[<<t, h>>]) >= s
=============================================================================
