----------------------------- MODULE TcpClient -----------------------------
(***************************************************************************)
(* Tcp_client_init of src/Tcp_client.cpp: one thread that dials a board,   *)
(* receives its stream in chunks, checks the first frame of each chunk and *)
(* stores its channels; the board at the other end; and the Modbus thread, *)
(* which creates the keys it reads.  main() does not start this thread.    *)
(*                                                                         *)
(* One client only: Tcp_client_callbackbuf, Tcp_client_crc and CRC_S are   *)
(* globals, so a second client thread would overwrite this one's chunk     *)
(* between recv() and the search, as the board threads of F407Server do    *)
(* to each other.                                                          *)
(*                                                                         *)
(* Scaled: a frame is Header, data and check, three cells for 21 bytes; a  *)
(* cell is a frame number, a place in the frame and the byte it shows.     *)
(***************************************************************************)
EXTENDS Integers, Sequences

CONSTANTS
  CHUNK,       \* cells in Tcp_client_callbackbuf (128 bytes)
  SHORTEST,    \* cells below which a chunk is ignored (14 bytes)
  Channels,    \* channels configured for this board
  MaxFds,      \* descriptors the process may open
  MaxFrames    \* bound: frames the board sends

FRAME == 3

ASSUME ClientAssumption ==
  /\ CHUNK \in Nat /\ FRAME < CHUNK /\ SHORTEST \in 1 .. CHUNK
  /\ MaxFds \in Nat /\ MaxFds >= 3 /\ MaxFrames \in Nat

VARIABLES
  boardUp,      \* does the board accept connections?
  sent,         \* frames the board has sent
  wire,         \* cells under way on the current connection
  link,         \* the current connection: "open", "closed" by the board, or
                \* "dead": lost without a word
  step,         \* "dial", "recv" or "search"
  fds,          \* descriptors in use: none is ever closed
  sockfd,       \* is the current socket a descriptor?
  chunk,        \* Tcp_client_callbackbuf
  flags,        \* 0 until a frame has been stored
  store,        \* this board's part of Factory_data_map: data cells
  accepted      \* the frames that passed the check, in order

boardVars  == <<boardUp, sent, wire, link>>
clientVars == <<step, fds, sockfd, chunk, flags, store, accepted>>
tcpVars    == <<boardVars, clientVars>>

Zero   == <<0, 0, "zero">>
Absent == <<0, 0, "absent">>   \* no such key in the map; Zero is 0.0
Blank  == [c \in 1 .. CHUNK |-> Zero]

(* A data byte may be zero or look like the header.                        *)
FrameCells(n, byte) == <<<<n, 1, "head">>, <<n, 2, byte>>, <<n, 3, "check">>>>

(***************************************************************************)
(* The log file and the first socket are opened before the loop; the first *)
(* dial replaces that socket.                                              *)
(***************************************************************************)
ClientInit ==
  /\ boardUp \in BOOLEAN /\ sent = 0 /\ wire = <<>> /\ link = "closed"
  /\ step = "dial" /\ fds = 2 /\ sockfd = TRUE
  /\ chunk = Blank /\ flags = 0
  /\ store = [h \in Channels |-> Absent] /\ accepted = <<>>

-----------------------------------------------------------------------------
(* The board and the network.                                              *)
BoardSends ==
  /\ link = "open" /\ sent < MaxFrames
  /\ sent' = sent + 1
  /\ \E byte \in {"data", "zero", "head"} : wire' = wire \o FrameCells(sent + 1, byte)
  /\ UNCHANGED <<boardUp, link, clientVars>>

(* What is under way still arrives.                                        *)
BoardCloses ==
  /\ link = "open" /\ link' = "closed"
  /\ UNCHANGED <<boardUp, sent, wire, clientVars>>

(* The board loses its power or gets it back.                              *)
BoardSwitched ==
  /\ boardUp' = ~boardUp
  /\ link' = IF link = "open" THEN "dead" ELSE link
  /\ UNCHANGED <<sent, wire, clientVars>>

-----------------------------------------------------------------------------
(* socket(), SO_RCVTIMEO and connect(): on failure straight back.  The     *)
(* socket of the last round stays open.                                    *)
Dial ==
  /\ step = "dial"
  /\ sockfd' = (fds < MaxFds)
  /\ fds' = IF sockfd' THEN fds + 1 ELSE fds
  /\ step' = IF sockfd' /\ boardUp THEN "recv" ELSE "dial"
  /\ wire' = <<>> /\ link' = IF step' = "recv" THEN "open" ELSE "closed"
  /\ UNCHANGED <<boardUp, sent, chunk, flags, store, accepted>>

Received(n) == [c \in 1 .. CHUNK |-> IF c <= n THEN wire[c] ELSE Zero]

(* recv() with MSG_WAITALL has filled the buffer; or it ends after ten     *)
(* seconds, or at the end of the stream, with the n cells that have        *)
(* arrived by then, wherever in a frame that is.                           *)
Recv(n) ==
  /\ step = "recv" /\ n \in 1 .. CHUNK /\ n <= Len(wire)
  /\ wire' = SubSeq(wire, n + 1, Len(wire))
  /\ IF n < SHORTEST \/ wire[1][3] = "zero"
     THEN UNCHANGED <<chunk, step>>
     ELSE chunk' = Received(n) /\ step' = "search"
  /\ UNCHANGED <<boardUp, sent, link, fds, sockfd, flags, store, accepted>>

(* Mutant: a silent connection is kept.                                    *)
RecvNothingKept == step = "recv" /\ UNCHANGED tcpVars

(* Nothing has arrived in ten seconds, or the stream has ended: dial       *)
(* again.  What is under way on the old connection is lost.                *)
RecvNothing ==
  /\ step = "recv"
  /\ step' = "dial"
  /\ UNCHANGED <<boardVars, chunk, fds, sockfd, flags, store, accepted>>

(* Mutant: the search starts at the second byte.                           *)
HeadersLate == {c \in 2 .. CHUNK - FRAME : chunk[c][3] = "head"}

(* The search stops at the first header, whatever follows it.              *)
Headers == {c \in 1 .. CHUNK - FRAME : chunk[c][3] = "head"}
FrameAt(c) == SubSeq(chunk, c, c + FRAME - 1)

(* Mutant: the check is skipped.                                           *)
Unchecked(f) == TRUE

(* getModbusCRC16 agrees with the last two bytes: the cells are one frame. *)
Checks(f) == \A p \in 1 .. FRAME : f[p][1] = f[1][1] /\ f[p][2] = p

(* Mutant: every frame is inserted.                                        *)
StoredInserted(cell) ==
  [h \in Channels |-> IF store[h] # Absent THEN store[h] ELSE cell]

(* The first frame is inserted, which keeps a key already there; the later *)
(* ones are assigned.                                                      *)
Stored(cell) ==
  [h \in Channels |-> IF flags = 0 /\ store[h] # Absent THEN store[h] ELSE cell]

Cleared == Blank

Search ==
  /\ step = "search"
  /\ LET found == Headers # {}
         f == FrameAt(CHOOSE c \in Headers : \A d \in Headers : c <= d)
     IN IF found /\ Checks(f)
        THEN /\ store' = Stored(f[2]) /\ flags' = 1
             /\ accepted' = Append(accepted, f[1][1])
        ELSE UNCHANGED <<store, flags, accepted>>
  /\ chunk' = Cleared /\ step' = "recv"
  /\ UNCHANGED <<boardVars, fds, sockfd>>

(* The Modbus thread reads channel h: the subscript creates the key.       *)
Poll(h) ==
  /\ store[h] = Absent
  /\ store' = [store EXCEPT ![h] = Zero]
  /\ UNCHANGED <<boardVars, step, fds, sockfd, chunk, flags, accepted>>

ClientNext ==
  \/ BoardSends \/ BoardCloses \/ BoardSwitched
  \/ Dial \/ (\E n \in 1 .. CHUNK : Recv(n)) \/ RecvNothing \/ Search
  \/ \E h \in Channels : Poll(h)

(***************************************************************************)
(* The thread goes on.  recv() returns from a connection that has ended,   *)
(* by the end of the stream or by its timeout; from an open one it returns *)
(* when the board sends, or is silent for long, which no board must.       *)
(***************************************************************************)
RecvEnds == link # "open" /\ (RecvNothing \/ \E n \in 1 .. CHUNK : Recv(n))

ClientFairness == WF_tcpVars(Dial) /\ WF_tcpVars(RecvEnds) /\ WF_tcpVars(Search)

ClientSpec == ClientInit /\ [][ClientNext]_tcpVars /\ ClientFairness

-----------------------------------------------------------------------------
(* Every variable keeps its type.                                          *)
ClientTypeOK ==
  /\ boardUp \in BOOLEAN /\ link \in {"open", "closed", "dead"} /\ sockfd \in BOOLEAN
  /\ sent \in 0 .. MaxFrames /\ Len(wire) <= FRAME * MaxFrames
  /\ step \in {"dial", "recv", "search"} /\ fds \in 2 .. MaxFds
  /\ DOMAIN chunk = 1 .. CHUNK /\ (step # "search" => chunk = Blank)
  /\ flags = IF accepted = <<>> THEN 0 ELSE 1

(***************************************************************************)
(* Only the data of a frame the board sent reaches the map, although a     *)
(* chunk may start inside a frame, end inside one, and show a data byte    *)
(* that looks like the header.                                             *)
(***************************************************************************)
ClientStoresGenuine ==
  \A h \in Channels :
    store[h] \in {Absent, Zero} \/ (store[h][2] = 2 /\ store[h][1] \in 1 .. sent)

(***************************************************************************)
(* From the second accepted frame on every channel shows the last accepted *)
(* one, over reconnects too.  (The first is lost where the Modbus thread   *)
(* was there before it.)  A frame is accepted once and in order.           *)
(***************************************************************************)
ClientShowsLast ==
  /\ \A x, y \in 1 .. Len(accepted) : x < y => accepted[x] < accepted[y]
  /\ Len(accepted) > 1 => \A h \in Channels : store[h][1] = accepted[Len(accepted)]

(***************************************************************************)
(* A chunk that begins with a whole frame yields a sample: neither the     *)
(* look-alike bytes behind it nor a short read hide it.                    *)
(***************************************************************************)
WholeFrameCounts ==
  [][step = "search" /\ step' = "recv"
     /\ (\A p \in 1 .. FRAME : chunk[p][2] = p)
     => accepted' = Append(accepted, chunk[1][1])]_tcpVars

(***************************************************************************)
(* A client that has lost its connection, hung up on or cut off without a  *)
(* word, comes back to an open one, unless the board is switched off in    *)
(* the meantime or socket() has failed: the sockets of earlier rounds are  *)
(* never closed.                                                           *)
(***************************************************************************)
Connected == step # "dial" /\ link = "open"

Reconnects == ~Connected ~> (Connected \/ ~boardUp \/ ~sockfd)
=============================================================================
