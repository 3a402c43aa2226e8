# JBROSE_Common: specifications, model checking and proofs

JBROSE_Common is the library a ROSE Online server is built from: a single-threaded
TCP server that decrypts the packets of the game clients and hands them to the
application, with a logger, timers, database access and file readers beside it.
The repository holds no tests and no documentation; the specifications are
translated from the code under `src/`, and the only statements about intent they
quote are comments and log messages.

## 1. Inventory

| component | source | state | operations | interacts by |
|---|---|---|---|---|
| server loop | `NetworkServer.*`, `NetworkClient.*` | `clientList`, `fds`, `socket`; per client `socket`, `activeFlag`, `maxAllowedBytesToReceive` | prepare, select, accept, handle, disconnect | calls the virtual `onNewClient`, `onPrepareDataIncoming`, `onDataReceived`, `onClientDisconnecting` |
| sessions | `ROSEServer.*` | `clientList` (client to `ROSEClient`) | the four callbacks | keeps a second list in step with the first; calls `onPacketsReady` |
| receive path | `ROSEClient.*`, `ROSEMessageHandler.*`, `NetworkMessageFragment.*`, `Trackable.h` | `dataHolder`, `expectedAmountOfBytes`, `headerReceived`, `handlingFinished`, `packetQueue` | `accept`, `createPacketFromReceivedData`, `reset`, `getQueuedPackets` | recv limit set from the handler before each recv |
| cipher | `EncryptionHandler.*` | tables, `cryptStatus` | `decryptHeader`, `decryptBuffer`, `encryptBuffer`, table generation | works in place on the handler's buffer |
| packets | `Packet.*`, `PacketFactory.*`, `RequestPackets/` | `rawData`, `length`, `commandId`; map of commands | packet from bytes, `toSendable` | called by handler and by `sendData` |
| send path | `ROSEClient::sendData`, `SendablePacket`, `NetworkClient::send` | buffer and `caret` | compose, encrypt, send | application to socket |
| logger | `Logger.*` | `streamHolder`, `inputMutex`, the thread's local queue | `log`, `init`, printing thread | every component logs, from any thread |
| timers | `Timer.h` | `timestamp`, period | `updateTimestamp`, `onTimeWrap` | application |
| numbers | `WrappingNumeric.h` | value, bounds | arithmetic | application |
| database | `Database.h`, `PostgresDatabase.*`, `MySQLDatabase.h` | connection, rows and read positions | connect, queries, row access | application |
| configuration, files | `Config.*`, `FileReader.*`, `FileStoredReader.*`, `FileWriter.h`, `DirectoryParser.h` | positions in files | parse, read, write | application |
| left aside | `Randomizer.h`, `database.sql`, `mysql_include/`, `postgres_include/`, `VFSExtractor/` | | | |

What is hard here: TCP cuts messages anywhere and ends anywhere between them; the
count of missing bytes is a `uint16_t` that several calls maintain; the result of
`select` is used client by client while peers go on; two classes keep a list of
the same clients; a client may be deleted only where no iteration runs; handles
and heap addresses are used again; all sockets block and there is one thread;
the logger's thread touches the shared queue without the mutex, once when it
starts and again at every look; any thread may send to a client, without a lock,
and `::send` may take a part of a frame; a thread may hold a `ROSEClient` whose
`NetworkClient` the loop has deleted, and drain a queue the loop is about to
drain; a packet is copied by a length that only a successful `decryptBuffer` has
checked; a timer reads the clock twice in a call and cuts what it reads; a reader
keeps two positions that each operation has to move. `PROJECT.json` lists these hazards at their
lines, each with the properties aimed at it or the reason why none is.

## 2. Modules

| module | models | checked with | proved in |
|---|---|---|---|
| `PacketDelivery` | what the receive path promises to the application | as `Contract` of `ClientConnection` | |
| `ClientConnection` | the receive path of one connection | `MCClientConnection`, five cfgs | `ClientConnectionProofs` |
| `PeerService` | what the loop promises to one peer | as `Service` of each peer of `NetworkServer` | |
| `NetworkServer` | the loop, its clients and `ROSEServer`'s sessions | `MCNetworkServer`, two cfgs | `NetworkServerProofs` |
| `MessageQueue` | what the logger promises to the threads that log | as `Queue` of `ThreadedLogger` | |
| `ThreadedLogger` | `ROSEThreadedLogger` | `MCThreadedLogger` | `ThreadedLoggerProofs` |
| `SendPath` | `sendData` for one client, from the setters to the wire | `MCSendPath`, two cfgs | `SendPathProofs` |
| `SharedSession` | `ROSEClient`s shared by the loop and threads of the application | `MCSharedSession`; `PacketDelivery` as `Contract` of each session | `SharedSessionProofs` |
| `Timers` | `Timer` and `WrappingTimer` | `MCHelpers` | `TimersProofs` |
| `DataReaders` | the readers over memory, a file and a stored file | `MCHelpers` | `DataReadersProofs` |
| `SumTheorems` | sums over finite sets, for the proofs about `SendPath` | | itself |

### ClientConnection

One pass of `handleConnectedClients` over one client is one step, because the
server has one thread. The actions are the outcomes of such a pass:
`AwaitMore` (accept returns early), `PacketQueued` (a packet is made, queued,
drained by `onDataReceived`, handed to `onPacketsReady`, and the handler reset),
`PacketRefused` (the factory makes nothing: no reset, the client becomes
inactive), `PacketOverread` (the constructor of `Packet`, which runs before the
factory looks up the command, copies more bytes than the buffer has),
`BufferOverrun` (a fragment is written that the buffer cannot hold),
`ReceiveNothing` (recv gives 0 or -1) and `DropInactive` (the next preparation deletes the client). `PeerSend` and
`PeerLeave` are the game client: it may leave in the middle of a frame, orderly
or not. recv returns any number of bytes up to its limit.

Bytes are counted, not represented. The stream is the concatenation of the
frames; the handler's buffer is the interval from `base` to `received` of it.
`DecryptHeader`, `DecryptBuffer` and `Registered` give the *set* of answers the
code may give: one answer when the buffer starts at a frame, any answer when it
does not. `LengthRead` is the length `Packet` finds in the buffer: one that
`decryptBuffer` compared with 0x400 and wrote there if it succeeded, and any 16-bit
number if it failed or the message is not complete. So a damaged message, or the
first fragment of one taken for a message, may become a packet, be refused, or be
copied from beyond the buffer. `PacketOverread` and `BufferOverrun` are undefined
behaviour: the model stops there (`Defined`), the properties claim nothing
afterwards, and `PacketDelivery` sees an over-read as the end of the connection.
What is claimed of the buffer's bound concerns writes only: no fragment exceeds it
but after a rejected header. `handlingFinished` starts with any member of `FreshFlag`, since the
constructor leaves it uninitialised. `maxAllowedBytesToReceive` is no variable:
it is overwritten with `expectedAmountOfBytes` before each recv.
`expectedAmountOfBytes` keeps its 16 bits (`U16`).

### NetworkServer

The loop's program counter is `pc`: `prepare`, `select`, `accept`, then one step
per client in the order of the addresses (`std::set` of pointers), then the
deletions of the round. Peers act between any two of these steps. A
`NetworkClient` is known by its heap address, since both lists are keyed by it,
and a freed address is handed out again; a socket handle likewise. `Polled`
models `FD_SET` with its limit: clients first, the listening socket last.
`ReadClient` takes a unit of data and gets an arbitrary verdict from the session;
what a session really does is `ClientConnection`'s subject. The two modules meet
in these steps: `ReadClient` is a `ReceiveSome`, `EndClient` a `ReceiveNothing`,
the deletion in `Prepare` a `DropInactive`.

`PeerService` is the loop as one peer sees it: connect, be accepted, be read in
pieces, be given up. It knows no list, address, handle or other peer. Each step
of `NetworkServer` is, for every peer, one step of it or none; a peer is `Served`
if an active client has it at the other end of its socket.

### ThreadedLogger

`log` is `Lock`, `Push`, `Unlock`. The thread of `init` does `Replace` (the
unlocked `streamHolder = std::queue<LogMessage>()`), then for ever `Check` (the
unlocked `empty()`), `LockToMove`, `Move`, `PrintFront`, `PrintingDone`. If `Replace`
falls into a push, the queue may be `torn`: undefined behaviour, after which the
system stands still in the model. `accepted` and `discarded` are history
variables. `MessageQueue` has one queue instead of two and no mutex: its `waiting`
is the local queue followed by `streamHolder`, `Push` is its `Log`, `Replace` its
`Begin`, `PrintFront` its `Emit`, and every other step, `Move` among them, leaves
it as it is.

### SendPath

A thread fills in a response (`SetString`, with `onNewString`'s bookkeeping of the
length), composes it (`Compose`: all of `sendData` before `::send`, the thread's
own work), and is then in `::send`: `Take` is the socket accepting some bytes,
`ReturnAll`, `ReturnShort` and `ReturnError` are the ways out, with
`NetworkClient::send`'s comparison deciding what `sendData` returns. The classes
derived from `ResponsePacket` are not in `src/`; they are modelled as members of
a fixed size and strings, each with a setter that calls `onNewString`, all of
them appended. The caret starts with any member of `FreshCaret`. A response that
does not fit the buffer is an `Overrun`, after which nothing is claimed.
`current`, `missing` and `inStep` follow the peer, which cuts the stream by the
lengths in the headers; `overlapped`, `accepted`, `claimed` and `lost` are history
variables. The `NetworkClient` is assumed to exist while its client sends; what
happens otherwise is `SharedSession`'s subject.

### SharedSession

The composition of the loop with the application's threads, over several
sessions. What `ClientConnection` does in one step is taken apart here where
another thread can come in between: the push (`PacketArrives`; `PartArrives` is a
fragment without one), `CheckFilled`, `LoopTakes` and `LoopHandled`, each of
the first three one critical section of `packetQueueMutex`. A disconnection is
`Notify` (the application's callback and the two erasures) and `Delete`. A
thread copies the `shared_ptr` while the session is connected (`Hold`), may
drain the queue (`WorkerTakes`) and send: `ReadSocket` follows
`networkInterface`, `SendReturns` is the call of `::send` with what was read. An
address and a handle are free after `Delete` and may be the next client's;
reading through a pointer to freed memory gives anything (`SocketsSeen`).
`received`, `taken` and `lastTaker` are history variables. The module says
exactly how far sharing is safe: the queue keeps the contract with any number of
consumers, `onPacketsReady` may see an empty queue if another thread drained it,
and a send after the deletion may reach a stranger. No invariant claims that it
does not, since nothing in the code prevents it.

### Timers

`Ask` is the first reading of the clock in `updateTimestamp`, `FinishPlain` and
`FinishWrap` the second; between them `onTimeWrap` runs, the clock goes on
(`Tick`) and the period may be set (`SetPeriod`). An instant has a part below
the millisecond, so that `duration_cast` cuts it; passed times are 64-bit
unsigned numbers, and what `setTimestamp` makes of one is signed. `pushed`
records that the application brought the timestamp ahead of the clock, by
`setTimestamp` or by a period set within `onTimeWrap` that is longer than the
time passed: from then on the passed time may be huge, every call wraps, and
nothing is claimed until the timestamp is set again.

### DataReaders

`caret` is `DataReader`'s; `pos` is what the class reads from (`dataHolder`, the
file's position, `iterator`). The actions are the public operations, one for the
three classes with the difference in `Moved`, `ReadsOutside` and in the
conditions; the loop of `readString()` is `BeginString` and one `ReadChar` per
byte, with any value for a byte `fread` did not deliver. No class compares its
place with an end before it reads, and the model has no such guard: a file gives
less than was asked for, and a read from memory that is not the reader's sets
`outside`, after which nothing is claimed. The memory of a `FileStoredReader` is
the file and the 0 that `readString(bytes)` put behind it. A skip or a reset beyond
the end only moves the place. What is claimed holds for the two classes over
files. Nothing is claimed of a `LoadedDataReader`'s caret and `isEndOfFile`: its
`readString(bytes)` moves the caret and not `dataHolder`, which the model does
too, and the `isEndOfFile` it inherits is always true.

## 3. Runs

| run | shows |
|---|---|
| `conn_any_flag` | whatever `handlingFinished` starts with, for all kinds of frames: the counts add up (`CountsAddUp`), the header is decrypted once (`HeaderOnce`), a served client is asked for at least a byte (`RecvAsksForData`), a fragment is written beyond the buffer only after a rejected header (`OverrunOnlyAfterRejection`), a peer that left is noticed |
| `conn_in_step` | with the flag starting FALSE: the buffer starts at frame boundaries (`InStep`), packets are the frames in order (`DeliveredInOrder`), a connection ends only for a reason (`StopHasCause`), an inactive client is deleted, and the path implements `PacketDelivery` in safety (`KeepsContract`) and progress (`MakesProgress`) |
| `conn_unverified`, `conn_incomplete`, `conn_rejected` | three disagreements between code and comment, see below |
| `server_safety` | lists, sessions and sockets match (`SessionsMatch`, `OneClientPerSocket`); the set holds sockets of listed clients only and never more clients than it takes (`PolledAreClients`, `WithinFdSet`); `recv` and `accept` never block (`NeverBlocks`); only inactive clients are deleted and only outside an iteration (`OnlyInactiveDeleted`); every peer is served as though it were alone (`ServesEachAlone`); no deadlock |
| `server_liveness` | a peer that left after it was accepted is noticed and its client deleted, read to the end or not (`PeerGoneNoticed`; that an orderly ending is noticed only after the last byte is part of `PeerService`, thus of `ServesEachAlone`); data is read (`DataRead`); waiting connections are accepted (`WaitingAccepted`); no deadlock |
| `send` | the length in the header is the number of bytes sent (`LengthsAgree`) and, but for nullptr strings, the length the setters maintained (`DeclaredLength`); the peer loses its step only after overlapping calls or a cut frame (`OutOfStepHasCause`); `sendData`'s answers account for every byte (`BytesAccounted`); calls return if the peer reads on or is gone (`SendReturns`) |
| `send_caret` | a fourth disagreement, see below |
| `shared_session` | packets leave a shared queue once, in order and while the session is connected (`KeepsContract`), none is left in a queue the loop has turned away from (`NothingLeftBehind`); an empty queue is handed over only after another thread's take (`EmptyBatchExplained`); a send reaches the session's own peer until the deletion (`SendsReachPeer`) |
| `helpers` | a `WrappingTimer` loses the time within its calls and nothing else (`TimeAccounted`), its timestamp stays behind the clock unless the application puts it ahead (`NeverAhead`); the caret of a `FileInputReader` or `FileStoredReader` within its file is where the next read starts and `isEndOfFile` tells exactly whether bytes are left, after any calls (`PositionKnown`), `FileInputReader::readString()` loses no byte of a file but the last (`LossOnlyAtEnd`) |
| `logger` | the mutex excludes (`OneAtATime`), messages pushed after the start are kept in order and once (`NothingLost`), and are printed (`AllPrinted`); the two queues implement `MessageQueue` (`ActsAsQueue`); no deadlock |

Every property of a passing run has a mutant in `PROJECT.json`: a changed
operator, kept beside the original in the module, under which TLC finds the
property violated.

**Bounds.** `MCClientConnection` has a header of 3 bytes, a buffer of 6 and frames
of 3, 4 or 6 bytes: a header in pieces, a message that is a header only, one that
fills the buffer, and two messages that together do not fit are all reached, in
all fragmentations. `Word` is the real 2^16, so that the wrap-around is far from
any legal count, as in the code. Two or three frames (`MaxFrames`) are enough to
leave state behind and meet it again. `conn_any_flag` and `conn_in_step` switch
the deadlock check off: a connection ends. `MCNetworkServer` has three peers and
`FdSetSize = 2`, so that the set is full while a peer waits; three handles and
addresses for safety (a choice among free ones), two for liveness (they must be
used again). `MaxUnread = 1` suffices, since a visit consumes one unit.
Symmetry in peers and sockets is used in the safety run only. The liveness run
has orderly endings only, to keep it small. `MCThreadedLogger` has three threads
with two messages each: one may hold the mutex, one wait and one have pushed
before the start. `MCSendPath` has two threads with two calls each, so that a call
can overlap another, follow a cut frame of its own thread or of the other one;
a header of one byte and a buffer of four; two string members that are nullptr or
a string longer than the model's 16 bits; and room for two bytes on the wire, so
that every frame is sent in pieces. It does not check deadlock: threads stop
after their calls. `MCSharedSession` has two sessions, addresses, handles and
threads: a deleted session's address or handle can be the other session's while a
thread still holds the first, and two threads can compete with the loop for one
packet; two packets per session let one arrive after another was taken. Sessions
end, so deadlock is not checked. `MCHelpers` runs a timer or a reader, which share
nothing, so that their states add up instead of multiplying. Half milliseconds
are enough for a reading to be cut; in four milliseconds a timer wraps with
periods of one to three, has a period changed within a call and time go by
between the readings; the timestamp 5 is ahead of every instant, and a timestamp
beyond `MaxStamp` is not asked again. Readers have files of up to four bytes with
zeros anywhere, reads of one and two bytes, and a caret that may be as far beyond
the end, with skips, resets and, from a file, reads there. Deadlock is not checked: the clock and the caret are bounded.

**Fairness.** Weak fairness of the server's steps: the loop has no exit, `select`
has a timeout of one millisecond and reports a readable socket in every round.
Peers are not fair: they may stop anywhere. `WaitingAccepted` assumes, in the
formula itself, that the set has room again and again. The logger thread and a
thread that holds the mutex are weakly fair; threads need not log. `AllPrinted`
relies on the threads pausing, which the bound on messages provides: a
`std::mutex` does not promise the logger thread its turn among threads that never
pause. A thread in `::send` is weakly fair; `SendReturns` assumes, in the formula,
that the peer empties its side again and again or is gone, and relies on the
bound on calls: room may go to another thread each time.

**Disagreements.** (a) `accept` stores `decryptBuffer`'s result and does not read
it: a packet with a wrong checksum is delivered, or copied by a length nobody
checked. (b) `handlingFinished` is read
before it is set: if it starts TRUE, the first fragment is taken for a message.
(c) a length `decryptHeader` rejects becomes an expectation of 65530 bytes.
(d) `SendablePacket`'s caret is used before it is set: if it does not start with 0,
the header is not at the start of the frame (its length field still is, and
agrees with the bytes sent, since `updatePacketSize` writes it at offset 0).
Nothing in the source speaks against four more things the passing runs describe:
`LoadedDataReader::readString(bytes)` leaves `dataHolder` where it was, its
`readString()` ends after one byte since no size was ever set, the readers over
memory read beyond it when asked to, and a send after the deletion of a session
reaches whoever has its address or handle. The
theorems about frames assume the flag starts FALSE, and the contract has `Lose`
for (c), so that the rest of the path is described exactly.

## 4. Proofs

All theorems hold for every value of the constants that satisfies the named
assumptions; only those that need the flag initialised, and the one about a
single sending thread, say so.

- `ClientConnectionProofs`. `CountInv` is the conjunction of the type invariant
  and the counting properties, and inductive as it is: theorems `CountsCorrect`,
  `ServedIsAsked`, `HeaderDecryptedOnce`, `BufferKept`, `PathTypes`. `StepInv`
  adds, for `FreshFlag = {FALSE}`, where the frames lie in the stream and that the
  message in hand has the length of the next frame, a legal one: theorems
  `BufferInStep`, `FramesInOrder`, `ServiceEndsForCause` (the action property
  `StopHasCause`) and `PathKeepsContract`, the last showing that each step maps to
  `Post`, `Hand`, `Close`, `Lose` or a stutter of `PacketDelivery`.
- `NetworkServerProofs`. `ServerInv` adds to the properties that a peer is in the
  backlog at most once or has exactly one socket (`PeersApart`; otherwise reading
  one client could take another's input away), that planned deletions concern
  inactive clients already visited, that the listening socket is in the set only
  if one more client fits, and that what `select` reported stays true. Theorems
  `ListsMatch`, `SocketsApart`, `SetHoldsClients`, `SetIsOfClients`,
  `LoopNeverBlocks`, `DeletionsAreSafe`, `ServerTypes`. From the same invariant
  follow `PeersServedAlone`, the refinement of `PeerService` for every peer (a
  round's deletions are one `Close` for each of several peers at once; a client
  tells its peer from all others, so that reading or ending one changes nothing
  for another), `DataToOwnSession`, and `LoopNeverStuck`: the guards of the loop's
  next step hold in every state, since the place left for the listening socket
  means a free handle and a free address (by the pigeonhole principle), and a
  client that is visited has input or has ended.
- `ThreadedLoggerProofs`. `LoggerInv` adds that nothing is printed before the start
  and the local queue is empty outside printing. Theorems `MutexExcludes`,
  `MessagesKept`, and `LoggerIsAQueue`, the refinement of `MessageQueue`, on four
  lemmas about sequences. `Numbered`, an invariant of its own, says that what was
  pushed holds each thread's messages in order and without a gap; with
  `NothingLost`, by which the output is a stretch of it, follows `MessagesInTurn`.
- `SharedSessionProofs`. `Inv` adds where the threads can be with sessions in which
  stage (`Places`), that a queue is empty or holds the last packet (`QueueShape`)
  and that the loop finds again what it has seen unless a thread took it
  (`TakeExplained`). Theorems `SharingKeepsContract` (each session refines
  `PacketDelivery`: a drain is `Hand` of its one packet or a stutter),
  `QueueIsDrained`, `EmptyBatchHasTaker`, `PointerGoodUntilDeleted`,
  `SharingTypes`, for any number of sessions and threads; and `NoPacketDeleted`:
  since the queue is empty when a session ends and the packets leave it by number,
  each has been handed out.
- `TimersProofs`. `Inv` says what lies between timestamp and first reading: the
  passed time and a cut of less than a millisecond, which is none once the
  timestamp is a whole millisecond (`CallInv`, `Rest`). Theorems `TimeIsAccounted`,
  `TimestampNotAhead`, `TimerTypes`. They need `RangeAssumption`: instants and periods add up
  to less than 2^63 milliseconds.
- `DataReadersProofs`. `Inv` adds where the place is once the caret is beyond the
  end (`PlaceKnown`: between the end and the caret in a file, at the caret in a stored
  one) and that a `FileStoredReader` is never in the loop of `readString()`; no
  assumption is made about how much is read. Theorems
  `CaretTellsPosition`, `StringKeepsBytes`, `ReaderTypes`.
- `SendPathProofs`. `SendInv` adds that without an overlap one thread at most is in
  `::send`, and that until a frame is cut the peer is between frames or waits for
  exactly what this thread has left. Theorems `HeaderTellsSize`, `SendTypes`,
  `PeerKeepsStep` and, with one thread, `OneThreadKeepsStep`. They need that the
  buffer is smaller than the range of the header's eleven bits.
  `AnswersAccount` follows step by step from how one value changes a sum.
  `LengthIsDeclared` rests on `LengthInv`: `Counted`, the length a response
  declares plus a byte for each nullptr is that of its content up to a multiple of
  2^16, since a long string is cut and a difference may wrap; and `ComposedOfPacket`,
  a frame being sent is as long as its response says. That no multiple is left
  follows from both counts being within the buffer when the frame was composed
  (`FittingIsExact`).
- `SumTheorems`. The community modules define the sum of a function over a finite
  set by a recursion that takes away an element with CHOOSE. `SumIsSolution` shows
  that this recursion has a solution; `SumUpdate` (one value changed),
  `SumMonotone`, `SumCounts` (zeros and ones) and `SumOfZeros` are what the proofs
  cite. Induction is stated there about a set of numbers or of subsets, by the
  library's fact on minimal elements, since no theorem with an operator for a
  parameter can be used.

Assumptions: the sizes (`0 < HeaderSize <= BufferSize < Word`, and for sending
`BufferSize < LengthMod <= Word`), finite sets of sending threads and of a
response's members, a finite set of addresses ordered as numbers, `FdSetSize > 0`, the distinctness of the special
handles and threads. `ResourcesAssumption` (handles and memory last for a full
set) is needed by `LoopNeverStuck` and by liveness only.

Model-checked only: liveness (`PeerGoneNoticed`, `DataRead`, `WaitingAccepted`,
`InactiveDeleted`, `MakesProgress`, `AllPrinted`, `SendReturns`), which needs
fairness and ENABLED. Every other property of a passing run is a theorem. The
theorems `MessagesInTurn`, `OneThreadKeepsStep`, `DataToOwnSession`,
`LoopNeverStuck` and `NoPacketDeleted`, and four of those about types, state what no run lists as a
property: they follow from the invariants of the others.

## 5. Not modelled

- The bytes of the cipher. `encryptBuffer` writes the header in the server's layout
  and `decryptHeader` reads the client's, so nothing in `src/` undoes the other, and
  the reference for a round trip would have to be invented. What the server's
  control flow depends on, the results of `decryptHeader` and `decryptBuffer` and
  the length `encryptBuffer` stores, is modelled. The tables are generated by one
  fixed computation from constant seeds, with nothing to vary.
- The rest of the logger (formatting, colours, the unthreaded `ROSELogger`) and the
  contents of `IdentifyAccountRequestPacket`.
- `NetworkServer`'s destructor and the set-up of the listening socket: the loop has
  no exit, and a server that could not listen has no peers.
- The database classes. Each query is a straight line of calls of libpq by one
  caller; that two paths return without `PQclear`, and that the deleter of the
  column names refers to its `ResultSet`, is noted under the hazards.
- `WrappingNumeric.h` (a comparison and an assignment per operation), `Config.*`
  (splits text once), `Randomizer.h` (probability), `DirectoryParser.h` and
  `FileWriter.h` (pure input and output), `database.sql`.
- The vendored headers of MySQL, PostgreSQL and OpenSSL and the tools in
  `VFSExtractor/`. They make up more than 98 % of the lines in `src/` and declare
  what others implement: the library's own code is about 3500 lines, and the
  share of the whole that a specification of it can stand for is small for that
  reason alone.

What could follow: the life of a `PGresult` and of a `ResultSet`'s column names once
the application's use of them is part of the repository.
