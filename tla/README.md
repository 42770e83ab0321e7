# TLA+ specifications of F407_DataCollect

F407_DataCollect is a gateway. F407 boards dial in over TCP and send frames of
eight float samples; the program checks the frames, keeps the newest sample of
every channel in a map, and answers the Modbus/TCP polls of a PLC gateway from
that map. These modules model the program's threads, the data they share and the
protocols on both sides. `tlc` checks the configurations `*.cfg`, `tlapm` checks
the `*Proofs.tla` modules.

## 1. Inventory

| component | source | state | operations | works with |
|---|---|---|---|---|
| Board server threads | `src/F407_datacollect.cpp` | per thread: `cfd`, `flags`, `h`; shared by all threads: `Tcp_f407_Callbackbuf`, `F407_Buffer`, `F407_crc`, `Data_From_F407` | accept, clear, read, header search, frame copy, CRC, decode, store, close | boards (TCP), sample map |
| Sample map | `src/main.cpp:14` | `Factory_data_map` | `insert`, `[]=`, `[]` | written by board threads, read *and written* by the Modbus thread |
| Register image | `src/modbus.cpp:214-252` | local `analogValues`, global `analogValueBytes` | walk the channels, convert | sample map, parser |
| Modbus parser | `src/modbus.cpp:74-211` | `parseResult` | `parseModbusCommand` | Modbus server |
| Modbus/TCP server | `src/modbusTCP.cpp` | `cfd`, `buf`, `size` | accept, read with timeout, checks, send, close | PLC clients (TCP), parser |
| Start-up, configuration | `src/main.cpp`, `bin/Factory_config.json` | `Factory_map` | `config_read`, thread creation | everything |
| SafeQueue | `inc/SafeQueue.h` | `q`, `mutex`, `cond` | `push`, `pop` | no thread yet |
| Board client | `src/Tcp_client.cpp` | socket, buffers, log file | connect, receive, store | not started by `main` |
| RS485 reader | `src/usart.cpp` | `usart_buf`, `speed_value` | set-up, read | not started by `main` |
| CRC-16, CRC-8 | `getModbusCRC16`, `crc_high_first` | | checksum of a frame | board threads, client, RS485 |
| Service unit | `Datacollect.service` | | restart after 1800 s | process |
| JSON library | `src/jsoncpp.cpp`, `inc/json` | `Json::Value`; readers' `nodes_`, `errors_`; writers' `document_`, `indented_`, `childValues_` | `Reader::parse`, `CharReader::parse`, writers, container calls, conversions | `config_read` |
| Unused | `tcp_ser.cpp`, `inc/Acceleration.h`, `inc/data_collect.h` | | | |

What is hard about it, and what makes each part correct:

* **Board threads.** Nothing is locked and every buffer is global. TCP may split
  and join frames; a board may reconnect with its old connection half read.
  Correct means: only genuine frames pass the CRC, in order, none twice; what is
  stored under `IP<n>Channel<h>` was sent by board n for channel h; a waiting
  board is accepted; a frame on the wire reaches the map.
* **Image.** The reader walks the channels while a board thread stores. Correct
  means: a register of a configured channel shows 0.0 or a sample of that channel,
  never stack memory or a neighbour; it never goes back in time; channels of one
  answer are at most one accepted frame apart.
* **Modbus.** One `read()` is one request, buffers persist between clients, the
  connection of a silent client times out, a failed `send()` closes the connection.
  Correct means: a client gets answers to its own requests, in order; it never
  hangs on an open connection; one client cannot take the server away from
  others by falling silent, nor end the process by leaving.
* **Start-up.** Nothing is checked: neither `bind` nor the port strings nor the number of
  boards. Correct means: once a process started by the service is up, the Modbus port
  and every board's port are listened to, whatever the process before it left behind,
  and what arrives on a board's port is stored under that board.
* **Board client and RS485 reader.** The client receives chunks that start and end
  anywhere, and opens a new socket for every try. The reader sets a port up that others
  have used. Correct means: only checked frames are stored, the newest is shown, the
  client comes back; the line has the format asked for.
* **JSON library.** Two readers with a dozen switches, four writers, containers with
  holes, conversions at the ends of integer types. Correct means: a document is accepted
  if and only if it has a meaning, and read as that; what is written is read again;
  conversions agree with the tests that announce them; an array is a list.
* **SafeQueue.** `pop()` tests with `if`, and a wait may end without a signal. Correct means FIFO,
  each item once, no lost wakeup, and no `front()` on an empty queue.

`PROJECT.json` lists the hazards line by line.

## 2. Modules

```
BlockingQueue <- SafeQueue <- SafeQueueProofs, MCSafeQueue
FactoryData <- F407Server <- F407ServerProofs, MCF407Server
            <- AnalogReader
F407Server + AnalogReader <- DataCollect (implements BoardFeed) <- MCDataCollect
DataCollect + F407ServerProofs <- DataCollectProofs
ModbusParse <- ModbusServer <- ModbusServerProofs, MCModbusServer
Startup <- StartupProofs, MCStartup
Checksums <- ChecksumProofs
          <- SerialReader
TcpClient + SerialReader <- MCFieldbus
TcpClient + SerialReader + ChecksumProofs <- FieldbusProofs
JsonValue <- JsonText <- JsonReader <- JsonOrder <- JsonWriter
                                    <- JsonOurReader <- JsonGrammar
JsonContainer (implements JsonList)
JsonWriter + JsonGrammar + JsonContainer <- MCJson
JsonValue + JsonContainer <- JsonProofs
```

**FactoryData** holds the map. A cell of the model is one 4-byte float (or a frame's
header, or its CRC); a sampled word is tagged with board, frame number and channel.
The three map operations are the three the code uses: `insert` keeps an existing
key, `[]=` overwrites, and reading `[]` creates a missing key with 0.0.

**F407Server** is `Tcp_sever_init`, one thread per configured board. `at[t]` is the
place in the function: `accept` (55), `clear` (62), `read` (63), `scan` (78), `copy`
(86), `check` (90), `load` (108), `store` (117), `close` (136). A thread may be
preempted between any two of these places, and all of them work on the one set of
buffers. `CopyFrom` models the copy that runs past the receive buffer:
`F407_Buffer` is defined right behind it, and the Makefile builds without
optimisation, which keeps the order of definitions, so the loop reads cells it has
just written. `Dial`, `Send`, `Hangup`, `Lose` are the boards and the network.

**AnalogReader** is `getAnalogValueBytes`: one `Sample` action per map access.
**DataCollect** is the program `main` assembles from both. **BoardFeed** is what a reader
of the registers may rely on, with no thread, buffer or socket; DataCollect
implements it under the mapping "a missing key reads as 0.0".

**ModbusParse** is `parseModbusCommand` as a function of command, length and old
buffer. **ModbusServer** is `Tcpsever_init` with its clients: a byte stream per
client, `ReadSizes` for what one `read()` may return (all there is, or a cut at one of
`Cuts`), `ReadTimeout` for SO_RCVTIMEO, `SendLate` for a send that provokes a reset and
`SendFails` or `SendKills` for the next one, which returns an error or raises SIGPIPE. The answers are judged against `Answer`,
which is written from a request alone and shares nothing with the parser.

**SafeQueue** has one action per pthread call. `PopWoken` returns from `pthread_cond_wait` after a
signal, `PopSpurious` without one, as POSIX allows; it happens at most `MaxSpurious` times and
carries no fairness. In both cases `pop()` goes on without a second look at the queue.
`front()` and `pop()` of an empty queue are undefined: the model takes the item `Undefined` and
leaves the queue empty, and what is claimed of a queue ends there (`TakenUndefined`). The history
`callers` says which consumers have called `pop()`: `Alone` is the condition under which the
`if` is enough, one caller so far and no wait ended without a signal.
**BlockingQueue** is the FIFO queue it should be.

**Startup** is `config_read` and `main`, the head of every server thread up to `accept`,
the death of the process and its restart. A configuration file is the value it parses to.
Two operators name the key of a board's port, `PortKey` as `config_read` writes it (77-82)
and `DigitKey` as `main` computes it from one character (24-29); a thread knows its port
string only and finds its boards by comparing strings (`StoreTargets`). `bind` on a port
that is taken fails unnoticed, and `listen` on a socket without an address gets a port
nobody knows. A port stays in TIME_WAIT if the process closed a connection first or died;
`ServiceStarts` comes after all of them have expired, since `RestartSec` is 1800 s,
`OperatorStarts` at any time.

**TcpClient** is `Tcp_client_init`: `Dial`, `Recv`, `RecvNothing`, `Search`, with the board on
the other end and a poll of the Modbus thread that creates keys. `recv` with MSG_WAITALL returns a full
buffer, or after ten seconds, or at the end of the stream, whatever has arrived: `Recv(n)` for any n, so a chunk
may end anywhere in a frame. A board that is switched off leaves an open connection dead, without a
word. `fds` counts the sockets that are never closed. There is one client: its buffers are
globals, which a second client thread would share (section 5). **SerialReader** is `Usart_init` with `set_speed` and `set_Parity` on the
relevant termios flags. **Checksums** has both checksum functions, bit by bit, the
test of the receivers, the polynomial divisions the functions stand for, and what a sender
transmits and a disturbance does to it. A byte or register is the set of its bits that are 1.
The frames are messages of 19 and 35 bytes; the loop counter of `getModbusCRC16` and the
length of `crc_high_first` are 8 bits wide, so of the messages the module speaks about the
code can handle those shorter than 256 bytes.

**JsonText** is what the two readers share: `readToken` and its helpers, strings and
numbers. **JsonReader** is `Reader` (which `config_read` uses), **JsonOurReader** the reader made by
`CharReaderBuilder`, with its settings, recovery from errors, depth limit and byte order
mark. **JsonGrammar** says what a document means without following either reader: it
reduces brackets from the inside out and splits their contents at commas.
**JsonValue** has what looks at one value only: how it is written, integer tests and conversions, and
how two values compare, given how their elements do; **JsonOrder** closes that recursion to
`operator<`, `operator==` and `compare`. **JsonWriter** has the four writers, with the `childValues_` in which
the styled ones collect an array's elements to measure its line. In all of them a value is a tuple of type and payload, a document a sequence of
characters; the recursion of the code is recursion of operators. JsonValue declares none of those, so that it can be proved about.
**JsonContainer** is the state of one `Json::Value` under the calls that change it; an array is
a map from indices, as in the code, and may have holes; `call` keeps the last call with its arguments.
**JsonList** is the list it should read as. It has the same `call`, so that each step must be the operation
of its name.

Operators preceded by a comment that starts with "Mutant" are plausible bugs. No
action uses them; substituting one for the definition it follows must break a
property, and `PROJECT.json` says which.

## 3. Runs

| run | instance | shows |
|---|---|---|
| Paced | 2 boards with 1 and 2 channels, board 2 powered, 3 frames, 2 connections, silent link loss, reader unbounded | `StoredGenuine`, `LaterStoreComplete`, `LocalArrayInBounds`, `ImageGenuine`, `ImageSkew`, `ImageNeverRegresses`, refinement of BoardFeed, `WaitingServed`, `NewestLands`; `PacedInv` is the inductive invariant of the proof |
| Stream | 1 board, 4 frames cut and joined at will, 2 connections, silent link loss | `CrcInv`, `VerifiedGenuine`, `AcceptedInOrder` |
| Queue | 2 producers with 2 items each, 2 consumers, 1 spurious return | `FrontWhileAlone`, `QueueUntilUndefined` (a FIFO queue up to the first undefined `pop()`), `EverythingTaken`; `QueueInv` is the inductive invariant of the proof |
| Modbus | 2 clients, 3 requests of 5 kinds, cuts after 6 and 10 bytes | `RepliesGenuine`, `RegistersComplete`, `NoClientHangs`, `BacklogServed` |
| Start | 8 files, 3 boards of which one digit can number 2, 3 starts of the process | `BoardsReachable`, `OwnFrames`, `ServedAgain` |
| Fieldbus | client: chunks of up to 7 cells, frames of 3, 3 frames, 5 descriptors; reader: 54 formats asked for, all settings left behind; 16 messages | `ClientStoresGenuine`, `ClientShowsLast`, `WholeFrameCounts`, `ClientReconnects`; `LineAsAsked`, `ChecksumsAreRemainders`, `BurstsDetected` (4 bursts) |
| Json | every document one edit away from 13 seeds; 40 scalars wrapped up to twice; arrays of up to 4 elements | `ReadersSound`, `RoundTrips`, `Conversions`, `Ordered`, `KeepsDense`, refinement of JsonList |
| First | 1 board, reader | **violated**: the first frame may miss channel 1 (`insert` after the reader's `[]`) |
| Two | both boards powered | **violated**: shared buffers store one board's sample under the other's key |
| Backlog | 1 board, unpaced | **violated**: a frame found behind another's tail is checked, and the tail is stored |
| Queue2 | 2 consumers, no spurious return | **violated**: another consumer takes the item between the signal and the end of the wait, which `if` does not notice. With `MaxSpurious = 1` a wait that ends without a signal takes even a single consumer there |
| Sigpipe | 1 client, 2 requests | **violated**: the second `send()` to a client that has closed ends the process |

The five violated runs are disagreements of the code with its own comments or
error handling; `PROJECT.json` quotes the lines.

### Bounds, and why they are enough

* `WORDS = 2`, one or two boards, one or two channels: a second channel is needed for
  the `insert`/`[]=` difference, a channel less than `WORDS` for the end of the store
  loop, a second board for the boundary between boards in the image.
* `BUF_LEN = 9` against frames of 4 cells and `SCAN_LEN = 7`: the buffer holds two
  frames and a tail, and a header can be found so late that the copy overruns, as
  with 128, 37 and 107 bytes (`ServerAssumption` states the relation they share).
* Three frames (four in Backlog): first sample, later sample, and one more to be
  joined with. Two connections: one to lose and one that waits.
* Modbus: 3 registers instead of 36, a buffer of 15 bytes that they just fit, a
  request for more than the map holds, three requests so that a cut request can meet
  a following one of either client. `OVERFLOW = 30` makes three joined requests too
  long, as 2000 bytes do.
* Start: files with one and two enabled workshops, a port used twice, the same port
  spelled in two ways, a missing port, the Modbus port given to a board, a board too
  many, and a file that does not parse. `LastDigit = 2` stands for 9. Three starts: one
  process to leave ports behind, one that finds them, one restart after that.
* Queues: one spurious return is enough, since nothing is claimed after the undefined `pop()` it leads to
  and one that finds an item is an ordinary wakeup.
* Fieldbus: a chunk holds two frames and a rest, so that it starts and ends within
  frames, and short reads cut it anywhere else; data bytes may be zero, ordinary or look like the header; the second
  and third frames show what `insert` and assignment differ in. Five descriptors: two in use, and
  three tries until there are none. The messages include all of one to three bytes out
  of two values, a longer one, and one in which every bit of a byte is set once.
* Json: an edit replaces, inserts or removes one character of a document of up to 22
  characters; the 21 characters typed are the structural ones, quotes, escapes, comment
  characters, line ends, parts of numbers and literals, NUL and the byte order mark.
  A document is typed (a seed, an edit) and then parsed, a value built and then written (`Use` of MCJson);
  the properties are about that step. The seeds have every kind of value and every extension. Integer types have 5, 7 and 8
  bits instead of 32, 63 and 64, with the same relation of their limits; reals are
  tenths; the depth limit is 4 and the right margin 12, so that both are met from both
  sides. Each styled writer still holds the element texts of an earlier array, so that a missing `clear()` shows. Scalars lie on and around every limit, strings hold well-formed, overlong and cut UTF-8.
* Every other cap (`MaxStarts`, `MaxFrames`, `MaxDials`, `MaxRequests`, `MaxConnects`, `MaxPushes`, `MaxSpurious`)
  stands in a guard of the environment, never in one of the program's steps.

Runs with deadlock checking off are those in which the environment's bound or the
death of the process really ends all activity.

### Fairness

Weak fairness of each thread's steps: the OS schedules runnable threads, and a step of
a thread is enabled until it is taken. Boards, clients and producers owe nothing.
A consumer keeps calling `pop()`. In `ModbusServer` a timeout is a step of the server's
thread, so a silent client does time out. `WaitingServed` and `NewestLands` except a thread whose
link died silently: board sockets have no receive timeout. `BacklogServed` is
about clients that stop asking: requests are bounded, and a client that polls for ever
does keep the server to itself. `Startup` assumes that systemd restarts a dead process and that TIME_WAIT
ends; nobody has to connect, edit the file or start anything by hand. `ServedAgain` therefore
excepts a process the operator started. In `TcpClient` an open connection need not yield anything: `recv` is
sure to return only where the connection has ended, by the end of the stream or by its timeout (`RecvEnds`).
`ClientReconnects` speaks of every loss of the connection, and excepts a board that is
switched off by then and a `socket()` that fails because the descriptors are used up. `PopSpurious` has no fairness: no queue relies on it.

## 4. Proofs

Every safety property that a passing run checks is a theorem as well, for all values of the
constants that the named assumptions of the modules allow (for FrontDefined, QueueInv and the refinement of BlockingQueue: also
the hypotheses their sections name), with three kinds of exceptions: the properties of the JSON readers and writers;
`Ordered`, of which `ValuesOrdered` is the general form; and `ChecksumsAreRemainders` and `BurstsDetected`, which
look at sample messages and have their general forms in ChecksumProofs.

### Board threads: `F407ServerProofs`

* `ServerTyped`: type correctness. It needs nothing else to be inductive except that
  a thread at `store` has a configured key, which is part of `ServerTypeOK`.
* `VerifiedFramesGenuine`, assuming `OneLive` (at most one board dials in): a frame that passed
  the CRC is one its board sent. `VerifiedGenuine` is not inductive: a step needs to
  know that the CRC bytes are the body of the frame they are compared with
  (`CrcOfFrame`), that every received cell was sent by the live board
  (`OnlySentReceived`), and that the other threads are parked (`OnlyLiveServed`);
  together, `CrcInv`. TCP may cut the stream at will here.
* `CrcInvariant` is that strengthening itself, which run Stream checks too.
* `FramesAcceptedInOrder`, assuming `OneLive`: frames are accepted in the order sent, none twice.
  The sequence of accepted frames says nothing about what comes next, so `OrderInv` orders the
  whole way a frame takes: accepted frames lie below the one in hand (buffers and copy), that
  below what is still coming on the connection, that below what waits on the next one.
* `StoredSamplesGenuine`, assuming also `Paced`: what is stored is 0.0 or a sample of
  that board and channel (`PacedInvariant` is its strengthening). `PacedInv` adds that a connection carries at most one whole
  frame, that a thread between `read` and the end of the store loop finds the frame at the
  start of the receive buffer, and what the assembled float holds.

The assumptions are where the code stops being correct: run Two drops `OneLive`, run
Backlog drops `Paced`, and each finds the violation.

### Board threads and Modbus thread: `DataCollectProofs`

* `CollectTyped` and `LocalArrayBounded` need neither assumption: `count` is the `Rank` of
  the channel the walk is at, and ranks are below the number of configured channels.
* `FeedInvariant`, assuming `OneLive` and `Paced`, is the inductive invariant `FeedInv` the rest
  follows from. `LandInv` says which channels of the newest frame are in the map at each place of
  the store loop; `CursorInv` where the reader is; `ImageInv` that register, local copy and
  map entry of a channel are its own samples, the older first, and that of two channels of one board
  the later walked is at most one accepted frame behind: in the image, in the local array, and between
  what the reader has copied and what it has yet to copy. The last clause is the
  one a reader in the middle of its walk depends on.
* From it: `GuaranteesSurviveReader` (what F407ServerProofs shows still holds although the reader
  creates keys), `LaterFramesComplete`, `RegistersGenuine`, `RegistersAlmostAligned`,
  the action property `RegistersNeverRegress`, and `PathImplementsFeed`, the refinement of
  BoardFeed: a store is a step of the feed, every other step a stutter.

### Modbus

`ModbusServerProofs`, the parser (every command, every old buffer): `ReplyFresh`, the bytes sent do
not depend on what the buffer held, and `ReplyFramed`, a reply fits the
buffer, carries its transaction id and its length field counts its bytes.

The server (any clients, requests and cuts that `ClientAssumption` allows):
`ServerTyped`, `AnswersGenuine`, `ReadsComplete` from `ServerInvariant`. That a reply answers a
request of its client says nothing about the bytes from which the next reply is made, so
`ServerInv` gives each byte its place in the stream of the client's requests: what is under way is
the end of that stream and begins at a cut (`StreamInv`), the buffer holds the bytes from there on
and zeros behind them (`BufInv`), the reply answers the request that starts there
(`ReplyInv`), and what was answered started earlier (`AnswerInv`). The lemma `Aligned` is the heart:
a read that begins inside a request is refused by the checks of the header.

### Start-up: `StartupProofs`

`StartupTyped`, `BoardsAlwaysReachable` and `FramesStoredUnderOwnBoard`, for any set of files and
any numbers of boards and starts. `StartInv` adds which threads exist at each place of `main`
(`SpawnInv`), that the keys `main` computes are in the map and hold what the threads got
(`KeyInv`), and that a thread listens on the port it wanted unless another has it, while a
process systemd started finds no port lingering (`PortInv`).

### SafeQueue: `SafeQueueProofs`

For any number of producers and consumers and any number of spurious returns, with no other hypothesis:

* `LocksKept`: whoever is between lock and unlock owns the mutex. `QueueUntilFirstUndefined`: every step is one of
  the FIFO queue or leaves it alone until a `pop()` has taken from an empty queue.
* `QueueConsistent`, from `QueueInv`, which adds that a signalled consumer that is `Alone` still has its item because
  nobody else takes. It gives `FrontDefinedWhileAlone` and `QueueImplemented`: as long as one consumer only has called
  `pop()` and every wait has ended by a signal, no `pop()` takes from an empty queue and SafeQueue is the FIFO queue.
  Neither part of `Alone` can go (run Queue2), and POSIX grants neither.

### Field bus: `FieldbusProofs`

* The board client, alone on its buffers: `ClientSamplesGenuine`, `LastFrameShown`, `ClientTyped` and the action property
  `WholeFramesCount`, from `ClientInvariant`. `ClientInv` numbers the cells the board has sent: those on the
  wire are the last ones (`WireInv`), those in the buffer the ones just before
  (`ChunkInv`), and every accepted frame lies wholly before what is still to be searched (`AcceptedInv`), which is
  why no frame is accepted twice though a chunk may begin with the rest of one and hold the next.
* The RS485 reader: `LineFormatted`. `LineInv` adds what holds between the two calls that set the
  port: the speed is right only if `open` worked, and nothing reads before `set_Parity` has checked that. The input
  check INPCK is off for `'n'` only: the last test of `set_Parity` compares with the small letter (`usart.cpp:127`), so the `'N'` that
  `Usart_init` passes switches it on, without parity to check.

### Checksums: `ChecksumProofs`

Messages of every length, and every pattern of bits a disturbance may flip that `BurstsAssumption`
allows (at most 16 in a row): `ChecksumsAreRemaindersOfAll` and `BurstsDetectedInAll`. The RS485 reader computes neither
checksum; its messages serve run Fieldbus as inputs of these functions.

* Induction. The induction theorems of the library take an operator, which the provers cannot
  instantiate. `NatLessThanWellFounded` and `WFMin` speak of sets, though: every set of natural
  numbers has a least element (`Least`), hence `Induction` over the set of the numbers for which something
  holds. With it `LoopExists` and `FoldRun` show that the recursive function inside `Fold`, which TLA+
  defines by CHOOSE, exists and satisfies its equation.
* One form for both checksums. `SerialBit` is a register that takes in one bit of the message per
  shift. `OneByte` shows that putting a byte in at once, as both functions do, leaves the same
  register as its eight bits one by one (the bits not yet due ride along in the register); `ByteWise`
  extends that to messages. The 8-bit checksum is the same with every byte mirrored (`Crc8ByteStep`).
* Division. `Division` runs the register and the division side by side: after t steps the coefficient
  at position x is bit x - t of the register plus bit x of the message (`Left`). `PolynomialBits` relates exponents to
  positions in the order of transmission.
* Bursts. The checksum behind its message leaves the register empty, for both checksums (`Residual`,
  `Residual8`). The register is linear
  in the message (`Linear`), so two frames that both pass have a difference that leads from the empty register to the
  empty register. The first bit of the difference sets the top bit of the register; going backwards
  from the end, nothing a burst of 16 bits puts in can have come out again by then (`Burst`).

### JSON: `JsonProofs`

Conversions, for every value and any ranges of the integer types (`LimitsAssumption` keeps only that an unsigned
type reaches twice as far and one more, and that 64 bits hold 32): `ConversionsOfAll`, and `ExaminedConvert` for the set a run
examines. It needs no induction: one lemma per kind of value and test, since a number
in tenths is cut, compared and converted by linear arithmetic.

Order:

* `KeysOrdered`: strings of every length are ordered strictly and totally by `memcmp` and length. Two
  strings are decided at one position (`Decides`); the least one of two orders decides the third.
  `OrderExists` follows by induction over the number of names: `getMemberNames` is defined for every finite set.
* `ScalarsOrdered`: so are scalars of one type, NaN left out. `ContainersOrdered`: if the elements are ordered, so are
  the containers of one type, compared first by size and then by the first pair of key and element that differs; `ByType` puts the types together.
* All values of any finite depth (`Levels`: scalars, then containers of what the level below has), by induction over it.
  `Less` and `Equal` of JsonOrder are RECURSIVE operators, which no theorem can name, so the theorems speak
  of the relations that satisfy the equations by which they recur (`Compared`, from `ValueLess` and `ValueEqual`).
  `ValuesCompared`: on all values there is exactly one such relation each, because the comparison of two
  values depends on that of their elements only (`ValuesByElements`). `ValuesOrdered`: the first orders the values
  strictly and weakly, and the second holds where neither of two values comes first.

Containers, every bound on indices, every set of values and keys: `ContainerTyped`,
elements and members exclude each other and stay where they may be;
`HolesOnlyBySubscript`, that an array without holes gets one only from `operator[]`
behind the end, and that `resize` without holes reaches the size it asserts; and
`ArrayImplementsList`, the refinement of JsonList call by call, holes or none. An insert that overwrites, an append anywhere but
at the end or a removal that takes another element are list operations too, but not under that name. The
invariant is `ContainerTypeOK`; the work is in `SizeIs`, which shows that a bounded set of
indices has the maximum `size()` looks up, in the domain each call leaves, and in one lemma per
call that compares the list read before with the list read after.

### Only model-checked

* Liveness (`WaitingServed`, `NewestLands`, `EverythingTaken`, `NoClientHangs`, `BacklogServed`, `ServedAgain`,
  `ClientReconnects`): fairness and ENABLED are out of the prover's reach.
* The JSON readers and writers (`ReadersSound`, `RoundTrips`) and `Ordered`, which names `Less` itself:
  their operators are recursive, and the prover loses its SMT backend in a module that declares
  recursive operators.

## 5. Assumptions of the models

* Cells, not bytes, travel from the boards: a header, a float and a CRC are never
  split, and a float never looks like the header `01 04 10`.
* In the models of the threads the CRC tells different bodies apart. `BurstsDetectedInAll` justifies that for
  what a single disturbance of up to 16 bits does; other damage passes about once in 65536 times.
* Map operations are atomic. In the program they are unsynchronised accesses to a
  `std::map`; what such a race does to the tree is not modelled.
* In the modules of the running program (not in Startup) boards listen on distinct,
  bindable ports; at most 9 boards, at most 8 channels each, at most as many channels
  together as the image has floats.
* One connection per board waits in the backlog.
* One client thread in TcpClient: `Tcp_client_callbackbuf`, `Tcp_client_crc` and `CRC_S` are globals
  (`Tcp_client.cpp:21-26`) that every client thread would share, with the effect run Two shows for the board threads.
* What `pop()` of an empty queue leaves of a `std::queue`: nothing is claimed after it.
* Modbus clients read inside the register map and send length fields of 6. They make no
  request whose bytes behind a cut look like the start of another: a read of 6 registers
  from address 0 cut after 6 bytes, say. `ClientAssumption` names those requests for the
  cuts after 5, 6 and 7 bytes; no other cut can do it. One connection per client at a time.
* `usleep`, `sleep` and printing take no steps; loops that print are left out.

* `Datacollect.service` names `bin/Datacollect` while the Makefile builds `bin/Data_collect`, and its paths
  begin with `~`, which systemd does not expand: the model takes the unit as it is meant.

What the properties except by name, because the code does not give it:

* `BoardsReachable`: boards past the ninth, boards without a port, and a process
  restarted by hand while its old connections are in TIME_WAIT.
* `OwnFrames`: boards that share a number with another board or with the Modbus server.
* `ClientShowsLast`: the first frame of the client (`insert`, as in the server).
* `ReadersSound`: comments before a colon, alone before `]`, or behind a member's value where no `,` or
  `}` follows. A comma behind a member with an empty name (`{"":1,}`) is taken as trailing by every
  reader, strict ones too, since the name doubles as the mark of an empty object: the grammar says so. An unterminated
  comment that ends in `/` counts as closed, and the second half of a surrogate pair is
  not looked at: both are in `JsonText` and shared by grammar and readers.
* `Conversions`: a double of exactly 2^63 or 2^64 passes the range check and its cast is undefined.
* `RoundTrips`: names cut at a NUL by `StyledWriter` and `StyledStreamWriter`, bytes that
  are no UTF-8, NaN without special floats, and nulls a writer dropped where nothing marks their place.

## 6. Not modelled

* JSON: comments are recognised and skipped but not kept or written; error texts and
  locations are counted only; numbers are written exactly whatever the precision;
  `Path`, iterators, swap and copy of payloads and their memory are left out, and so are the
  declarations of `json.h`.
* Start-up: a missing file ends in `assert`, a root that is no object in an exception;
  both end the process before any thread starts.
* `Usart_encode` is compiled out (`TOF` is 0) and its call commented out; `tcp_ser.cpp` is a stub outside the build;
  `Acceleration` and `Common_data` hold data nobody uses.
* Data races on `std::map` and `std::string`: what they do to the memory is open.

## 7. Plan

1. Done: FactoryData, F407Server, AnalogReader, DataCollect against BoardFeed; SafeQueue
   against BlockingQueue; ModbusParse, ModbusServer; Startup; TcpClient, SerialReader,
   Checksums; the JSON library; the proofs of section 4, which cover the safety
   properties of every module without recursive operators.
2. Possible: the objects of JsonContainer against an abstract map; the scanner of JsonText (`readToken`, numbers,
   strings) with recursive functions instead of operators, to prove that tokens cover a document.
