# Simple chat: TLA+ models and proofs

The program under `src/ChatModuleDemo` is a chat: one server process
(`TCPServer`), any number of client processes (`TCPClient`) on Windows consoles,
and rooms the clients join and leave. The server is one thread on blocking
sockets with a `select()` loop. Each client is one thread which polls keyboard
and socket in turn. What makes it hard is what happens between two system calls:
the server remembers for a whole pass which sockets were readable, it sends to
every member of a room one after the other from one buffer, the client copies the
server's tables into two flags that change when messages arrive, and one `recv()`
can return several packets or none.

`README.md:N` below is the repository's `src/README.md`, line N. Other source
references are relative to `src/ChatModuleDemo`.

## Parts of the system

| part | state | operations | modelled by |
|---|---|---|---|
| packet buffer `cBuffer` (same class on both sides) | byte vector, read index, write index | the Read and Write members, `ReinitializeIndex`, `ClearBuffer` | `CBuffer.tla`, byte by byte in `ByteBuffer.tla` |
| protocol and TCP | packets `$NAME$ $JOIN$ $CHAT$ $EXIT$` up, `$READY$ $LEFT$ $REPLY$ YOU HAS_JOINED HAS_LEFT` down; connections | connect, close, reset, in-order delivery in arbitrary portions | `Packets.tla`, `Network.tla` (TCP is external); streams of bytes in `Framing.tla` |
| server (`serverMain.cpp`, `TCPServer/cNetworkManager.cpp`) | `mClientConnectionList`, `socketsReadyForReading`, `readCount`, `rooms`, `clientRooms`, `clientName`, the buffer | one pass of the loop: `select()`, `LoopThroughClientList`, `BroadcastToAll`, `AddNewClientToList` | `ChatServer.tla`; what it promises in `Rooms.tla` |
| client (`clientMain.cpp`, `TCPClient/cNetworkManager.cpp`, `cUserInterface.cpp`) | `mJoinedRoom`, `mChatReady`, `mEscapeSequencePressed`, `mFDCleared`, the buffer | `ConnectSocket`, `GetClientName`, `CheckUserInput`, `CheckForResponseFromServer`, `PrintReceivedMessage` | `ChatClient.tla` |
| arbitrary clients around the server | requests each has sent | connect, send any request, read, close, reset | `OpenServer.tla` |
| the program with its users | answers each user waits for, requests made | keys and lines | `ChatSystem.tla` |
| start-up and clean-up of both programs | Winsock, the address list, sockets | `InitializeWSA` ... `Listen`, `ConnectSocket`, `CleanSocket`, every error return | `Lifecycle.tla` |
| authentication demo, `.proto` messages, SQL schema, vendored protobuf | - | - | not modelled, see the end |

How they interact: the client's `CheckUserInput` writes one packet to the client's
buffer and sends it; `select()` in the server's `main` reports the socket;
`LoopThroughClientList` receives into the server's buffer, parses the first
packet, changes the three tables, and writes and sends the answer and the
notifications one by one from that same buffer, blocking while a receiver's socket
buffers are full; the client's loop polls its socket once per iteration and
`PrintReceivedMessage` sets the flags that `CheckUserInput` tests. While a user
types a line (`std::getline`) the client receives nothing. Every error return in
the server travels up to `main` and ends the process for everybody
(`README.md:41` says so).

What makes each part correct:

- the readiness set and `readCount` are still true when they are used, several
  handlers after `select()` set them;
- `rooms` and `clientRooms`, two tables of one relation, agree whatever requests
  arrive in whatever order; a socket loses its place only by its own `$EXIT$`;
- sockets found in rooms are connections the server still holds;
- one buffer for everything, yet each stream carries only packets meant for its
  client;
- seen from the clients a request is served in one step, though it is many `send()`
  calls between which connections come, go and break: a client that stays
  connected misses nothing, gets nothing twice and nothing of anybody else;
- a request of an accepted connection is eventually received;
- lines arrive byte for byte as they were typed, though each `send()` transmits four
  bytes too many and one vector serves both directions;
- no program goes on with what an error path has released, or releases it a second time
  but for a lost connection, and one that returns holds nothing;
- a user is in one room at most, the client's flags and the server's tables agree
  when nothing is under way, each 'J' and 'E' is answered exactly once, and only
  members speak to a room.

## Modules

**`CBuffer`** abstracts the bytes to the packet that starts at offset 0 and to
whether each index has left 0. That is what the program's use of the class can
tell apart: `recv()` stores and `send()` transmits at offset 0 whatever the
indices are, so a second write without a reset goes behind the first packet and is
not sent, and a second read starts in the zero bytes behind the packet.

**`Packets`** has the packets, the names they carry and which of them a client can
build.

**`Network`** has one connection per client. A channel is a sequence of packets of
bounded length (`UpCap`, `DownCap`: the socket buffers). A `recv()` returns between
1 and `MaxBatch` whole packets: TCP keeps no packet boundaries, and the code
handles the first packet and clears the rest away. Portions smaller than a packet
are the subject of `Framing`. `link` distinguishes an orderly end (`recv()` returns
0, which the code does not treat as an error) from a reset (`recv()` and `send()`
fail).

**`ChatServer`** has one action per system call with the computation around it,
because clients may act between any two of them and nothing else runs in the
server.

| action | code |
|---|---|
| `Select`, `SelectFails` | `serverMain.cpp:60-81`, `AddAllClientsToFDSET` |
| `ReceiveData`, `ReceiveEnd` with `HandleName`, `HandleJoin`, `HandleChat`, `HandleExit`, `HandleOther` | `LoopThroughClientList` up to the first `send()`: `recv()`, parse, tables |
| `ReceiveFails` | `cNetworkManager.cpp:249-257` |
| `SendAck`, `SendNotice`, `SendFails` | one call of `SendMessageToClient`, the answer first, then the members |
| `EndHandling` | `FD_CLR`, `readCount--`, `ClearBuffer` |
| `Accept`, `AcceptFails`, `PassEnds` | `serverMain.cpp:84-98`, `AddNewClientToList` |
| `ServerExit` (part of every failure) | the error return up to `main`; the system closes the sockets |

`rooms[r].clients` is a vector in which a socket may occur repeatedly; it is a
count per socket, and the order of a fan-out is left open, which includes the
code's order. `fan` is the work list of the fan-out: copies still to be sent to
each socket. `clientRooms` and `clientName` are total with the default that
`operator[]` would insert.

**`ChatClient`** has one action per branch and blocking call of the client. `cpc`
says where the thread is; `"room"`, `"text"` and `"name"` are inside `getline()`, then
inside the `send()` of what was entered. 'E' has no prompt: `PressE` leads to `"exit"`,
where `SendExit` waits in `send()` as the others do.
`PollNothing` includes the effect of `mFDCleared`: the first time `select()`
reports data the client only clears the set (`cNetworkManager.cpp:177-208`).

**`OpenServer`** puts the server among clients that do anything the protocol's
packets allow: connect at any time, send any request in any order, read in any
portions, close or be reset at any moment. What holds here does not depend on the
client program. `MaxSends` bounds the requests in TLC runs; the proofs are for
every value of it.

**`Rooms`** is the abstract specification of the server: who is a member of which
room, and for each client the packets it is owed. `Serve` handles one request in one
step and appends what follows from it for everybody at once. There are no
sockets, readiness sets, passes or buffers. What may go wrong is stated plainly:
requests behind another one may be dropped (`Serve` consumes any number of them and
serves the first), a client that departs loses what it has not heard, and when the
server stops each client still hears some beginning of what it was owed.
`OpenServer` implements it (`ServesRooms`) under this mapping:

| `Rooms` | `OpenServer` |
|---|---|
| `owed[c]` | the stream `s2c[c]`, followed by what the fan-out under way has still to send to `c` (`Pending(c)`) |
| `asked[c]` | `c2s[c]` |
| `members`, `roomOf`, `nameOf` | `rooms`, `clientRooms`, `clientName` |
| `presence[c]` | the connection: not yet, alive (also when only the server's end is closed), gone |
| `running` | `pc # "down"` |

So `ReceiveData` is `Serve`, `SendAck` and `SendNotice` are stutters (or a departure,
when the packet meets a closed end), and the end of the process is `Stop`.

**`ChatSystem`** composes the server with the real client and its users. A
*patient* user waits for the answer to 'J' or 'E' before pressing another key
(`Patient`); others press anything the client reacts to. `Quitters` may close
their terminals. `awaiting` counts the answers the user still has to see. It
observes the run and, through `Patient`, decides only what the user does. `cmds`
counts the requests sent, which is what `sent` counts in `OpenServer`: `ClientsConform`
says that the program, whatever its users do, is one of the systems `OpenServer`
describes, so everything that holds there holds of the program. Together with
`ServesRooms` that is a chain of two refinements, from the program with its users
to `Rooms`.

**`ByteBuffer`** is `cBuffer` byte by byte, with the packet both programs build in it
and the parse both make of it. `Framing` sends lines through it: typed at one
client, received by the server in portions TCP chooses, parsed, written anew for
every member, received and parsed there. `packetSize` counts twelve header bytes
where eight are written, `send()` transmits that many, the test that should grow
the vector is reversed, and `recv()` stores over what the vector held. The
connection is up all the time and everybody is in one room. `cutUp` says from which
clients the server's `recv()` returns arbitrary portions, several packets or a part of
one, and `cutDown` which clients' own `recv()` does; any other `recv()` returns one
packet. Replies that wait while a user types are the common case of `cutDown`: the
client prints the first and clears the others away.

**`Lifecycle`** has what each program acquires and releases: one step per call
that may fail, which takes the error all the way through the callers, each with
clean-up of its own. A call on something the program does not hold is recorded in
`faults`: `freeaddrinfo()` walks along the list it is given and so uses it, freed or
not; `closesocket()` of what is no open socket, or without Winsock, closes nothing. The
failure of the server's `select()`, behind which only one socket is closed, leads to a
stage of its own, `"selectFailed"`.

`MCOpenServer` and `MCChatSystem` name the clients of small instances and the
numbers of requests; `Framing` and `Lifecycle` are instantiated by their cfg alone.
Operators marked *Mutant* are not part of the specifications: each is the operator
after it with one plausible mistake, and stands for the bug that the property in
`PROJECT.json` "mutants" would find.

## What is checked

| run | instance | what it shows |
|---|---|---|
| `OpenServer.cfg` | 2 arbitrary clients, 2 rooms, 2 requests each, `recv()` returns up to 2 packets, closes and resets anywhere | `TypeOK`, `ReadCountExact`, `NeverBlocksOnStaleBit`, `RoomTablesAgree`, `RoomsHoldConnections`, `AnswersReachTheirClient`, `OnlyOwnExitLeaves`; `ServesRooms`: the server implements `Rooms` |
| `OpenServerLive.cfg` | 2 clients, 1 room, channels of 1 packet | `EveryRequestServed`: each request of an accepted connection is received, though a closed connection stays readable for ever and is handled in every pass; `ResetEndsServer`: one reset of an accepted connection ends the server |
| `OpenServerFull.cfg` | as `OpenServerLive`, with room for the listening socket and one client in a descriptor set | `EveryRequestServed` is violated |
| `ChatPatient.cfg` | 2 patient users, 3 requests each, 2 rooms of which one has the empty name, one packet per `recv()` | `OneRoom`, `ViewsAgree`, `OneAnswerEach`, `MembersAreNamed`, `OnlyMembersSpeak` |
| `ChatPatientLive.cfg` | 2 patient users, 2 and 3 requests, one packet of buffer in each direction | `Answered` and `RequestsReceived`, although `send()` blocks the server for clients at a prompt, if their users finish the line and unless server and client stop each other |
| `ChatAny.cfg` | 2 users who press anything and may leave, 2 requests each, `recv()` returns up to 2 packets | `NoStrayAnswer`, `MembersAreNamed`, `WritesAtStart` survive; `ClientsConform`: the program implements `OpenServer` |
| `TwoRooms.cfg` | 1 impatient user, 5 requests | `OneRoom` is violated |
| `Coalesced.cfg` | 2 patient users, `recv()` returns up to 2 packets | `ChatEnabled` is violated |
| `EmptyRoom.cfg` | 2 impatient users, a room with the empty name | `OnlyMembersSpeak` is violated |
| `Embrace.cfg` | as `ChatPatientLive` | `ServesEveryone` is violated: server and client do stop each other |
| `Framing.cfg` | 2 clients that both type, 2 lines in all, of 3, 18 and 24 bytes, a vector of 32 bytes, both streams of one client cut into portions of 6, 11, 17, 32 or all bytes | `ArriveAsSent`, `InBounds` and `NeverMixed` |
| `Lifecycle.cfg` | 3 connections, every call may fail | `ReturnedHoldsNothing`, `CleansAgainOnLossOnly` |

**Why the bounds are enough to be interesting.** Two clients are the least for
which one can be told of the other and one can hold up the other, and the server
treats all sockets alike. Two requests suffice for a client of `OpenServer` to
get into a room twice, into two rooms, or to leave a room it is not in; three are
a join, a line and an exit (or a re-join). Channels of two packets let `recv()`
return two at once and let a channel fill up. `FdSetSize` is 3 where the code has
64, room for the listening socket and both clients, and 2 in `OpenServerFull.cfg`.
`MaxSends` in the chat runs is only an upper bound of `MaxCmds`. Symmetry in the clients is
used only where no liveness is checked; the action properties and the two
refinements are of the form `Init /\ [][Next]_vars` and treat all clients alike. One
client is enough for `TwoRooms.cfg`.

`Framing.cfg` keeps the proportion of the program: `BufSize = 2 * Base`, 32 and 16
here, 512 and 256 there. A line of 18 bytes just fits with the twelve that
`packetSize` counts and the name the server adds; one of 24 fits the sender's vector
with its header of eight, and the two bytes of the name make it too long for the
server's, which it then leaves. A portion of 6 ends behind `messageType`, 11 and 17
in the text of a short and of a long line. Each line has a letter of its own, so
every byte can be traced to its line. `Behind` is what the memory behind the vector
may hold: zero or another value. Two lines are enough for one packet to follow
another in a stream and for both directions of one vector to meet. There are 14
letters, so no two lines of the instance share one.

**Fairness.** The server and the client processes are scheduled: weak fairness of a
`ServerStep` (all steps that need nothing to go wrong), of each client's `Loop`, and
of its `send()` of `$EXIT$`, for which no user is waited for. That is no more than
that a thread which can run does run; each thread is a single loop and its steps
stay enabled until taken. Failures, keys, closing a terminal and starting a client
are never forced. `FairSpec` of `ChatSystem` adds that a user who was asked for a
line enters one some time. Without that a single open prompt stops the server in
`send()`, as long as it stays open. `FairSpec` of `OpenServer` adds that clients go
on reading their sockets.

With that, the server may still come to wait in `send()` for a client which itself
waits in `send()` for the server, a state neither leaves, though every user has finished
the line (`Embrace.cfg`). `WaitForEachOther` is exactly that state, and the one escape
that `Answered` and `RequestsReceived` have besides the end of a process;
`ChatPatientLive.cfg` checks them at the same capacities, where the state is reached. The
real socket buffers are much larger than a chat line, but not unbounded: a user who sits
at the prompt while the others write fills the one direction, and the server, which then
waits, receives nothing from the other.

**Deadlock** is checked in every run. `Finished`, `Ended` and (in `Framing`) `Quiet`
are the only stuttering states: the process is gone, or the server waits in
`select()` for clients that have nothing more to send; `Quiet` is that every line
was typed and everything received.

## Where code and documentation disagree

Details are in `PROJECT.json` "findings"; each is a run with a counterexample.

1. `OneRoom` (`cUserInterface.cpp:156`, `README.md:39`): `mJoinedRoom` stays true
   until `$LEFT$` arrives, so 'E' can be sent twice. The second `$LEFT$` then
   resets the flags of a user who has joined again, and another 'J' puts the
   socket into a second room, or twice into one.
2. `ChatEnabled` (`cNetworkManager.cpp:247`, `README.md:7,29`): the length prefix is
   read but not used. Of two packets returned by one `recv()` the second is lost.
3. `OnlyMembersSpeak` (`cUserInterface.cpp:123`, `README.md:30`): `mChatReady` stays
   true until `$LEFT$` arrives, so a line can be sent behind `$EXIT$`. The room of a
   client in no room is the empty name (`cNetworkManager.cpp:327`), which users can also
   join: the line is told to its members. A second `$EXIT$` is announced there in the
   same way (`cNetworkManager.cpp:359`).
4. `ServesEveryone` (`cNetworkManager.cpp:152`, `README.md:9`): the server's one thread
   sends on blocking sockets. An open prompt makes it wait until that user finishes the
   line; with both directions of a connection full, server and client wait for each
   other for ever.
5. `EveryRequestServed` (`cNetworkManager.cpp:191`, `README.md:9,20`): `FD_SET()`
   ignores sockets once the set holds `FD_SETSIZE` of them; later connections are
   accepted and never read.

What else came up while modelling, without a run that fails:

- `connect()`'s result is discarded and the test that follows it
  (client `cNetworkManager.cpp:138-149`) is never true, so the client reports success
  without a server and asks for a name. `Lifecycle` goes that way too; only the `send()`
  of the name notices.
- On an error `CleanSocket` runs up to three times (`TCPServer/cNetworkManager.cpp:177`
  and `255`, `serverMain.cpp:102`; `TCPClient/cUserInterface.cpp:43`): behind the first
  `freeaddrinfo()` is given a list that was freed. `CleansAgainOnLossOnly` says when that
  happens: a `send()` or `recv()` on a connection has failed, and the program is on its
  way out. However often it runs, nothing is left behind (`ReturnedHoldsNothing`), but
  for `select()`'s failure in the server, which closes the listening socket and no more
  (`serverMain.cpp:76-81`).
- `README.md:8` has the buffer grow for larger packets. The growth test is reversed and
  comes after the `recv()` of at most 512 bytes; nothing grows it before a write. So
  `InBounds` and `ArriveAsSent` have `AllFit` for a premise: of longer lines `send()`
  transmits bytes from behind the vector, and still longer ones are written there, as
  `Framing` has it for the line of 24 bytes. With `AllFit`, both are proved for any length
  and any cuts (`Framing_proofs`).
- Whoever receives parses at once what has come, and once. Of two replies that come in
  one `recv()` the client prints the first and clears the second away
  (`clientMain.cpp:84-113`). From a stream that is cut a line may be
  handled cut short and filled up with zero bytes, or be lost; the remainder starts the
  next parse from within a packet, whose text is then read as a length, which may lead out
  of the vector: the server's, or the client's own. `NeverMixed` is what is left at the
  server, and that much is proved.

## What is proved

Eight modules are checked by TLAPS. Their theorems hold for every finite set of
clients, every set of rooms and lines, all buffer sizes and channel capacities, every
`FD_SETSIZE`, every number of packets per `recv()` and every number of connections,
where the table names no hypothesis. They use the assumptions the modules make on
their constants and no others:

| assumption | says |
|---|---|
| `PacketsAssumption` | the clients are finitely many, `None` is no client, room, line or packet |
| `NetworkAssumption`, `ServerAssumption` | capacities, `MaxBatch` and `FdSetSize` are positive, the listening socket is not a client's |
| `OpenAssumption`, `SystemAssumption` | the bounds on requests are numbers, `MaxSends` more than each of `MaxCmds` |
| `LifecycleAssumption` | the listening socket is not one of the accepted ones |
| `BytesAssumption` | a byte has at least two values, a vector at least one byte |
| `FramingAssumption` | every text is at least as long as its tag; a byte has values other than 0 and 1; two bytes hold `packetSize` of any text that fits (`BufSize + 4 < Base * Base`: 516 and 65536 in the program) |
| `SeparationAssumption` | the tag has at least two bytes, and the vector is at most six times as long as a byte has values (`BufSize <= 6 * Base`: 512 and 1536 in the program) |

| module | theorem | property | hypothesis |
|---|---|---|---|
| `OpenServer_proofs` | `TypeCorrect` | `TypeOK` | |
| | `ReadCountCorrect` | `ReadCountExact` | |
| | `NeverBlocksInReceive` | `NeverBlocksOnStaleBit` | |
| | `RoomTablesCorrect` | `RoomTablesAgree` | |
| | `RoomsHoldConnectionsCorrect` | `RoomsHoldConnections` | |
| | `AnswersCorrect` | `AnswersReachTheirClient` | |
| | `OnlyOwnExitCorrect` | `OnlyOwnExitLeaves` | |
| `OpenServer_refinement` | `ServesRoomsCorrect` | `ServesRooms` | |
| `ChatSystem_proofs` | `ClientsConformCorrect` | `ClientsConform` | |
| | `MembersAreNamedCorrect` | `MembersAreNamed` | |
| | `WritesAtStartCorrect` | `WritesAtStart` | |
| `ChatSystem_answers` | `SystemTypeCorrect` | `TypeOK` | |
| | `NoStrayAnswerCorrect` | `NoStrayAnswer` | |
| | `OneAnswerEachCorrect` | `OneAnswerEach` | `MaxBatch = 1` |
| `ChatSystem_dialogue` | `OneRoomCorrect` | `OneRoom` | `Patient` |
| | `OnlyMembersSpeakCorrect` | `OnlyMembersSpeak` | `Patient` |
| | `ViewsAgreeCorrect` | `ViewsAgree` | `Patient`, `MaxBatch = 1` |
| `Lifecycle_proofs` | `LifecycleTypeCorrect` | `TypeOK` | |
| | `ReturnedHoldsNothingCorrect` | `ReturnedHoldsNothing` | |
| | `CleansAgainOnLossOnlyCorrect` | `CleansAgainOnLossOnly` | |
| `Framing_proofs` | `RoundTrip` | a text that fits is parsed as it was written, for all bytes and all vectors | |
| | `FramingTypeCorrect` | `TypeOK` | |
| | `NeverMixedCorrect` | `NeverMixed` | |
| | `LinesArriveCorrect` | `LinesArrive`, the first half of `ArriveAsSent` | `AllFit` in the state |
| | `InBoundsCorrect` | `InBounds` | |
| | `ArriveAsSentCorrect` | `ArriveAsSent` | |

`ChatServer_proofs` holds what is true of the server whoever its clients are, and is
used by `OpenServer_proofs` and by the proofs about `ChatSystem`.

The hypotheses are the dividing lines that the violated runs mark.
Without `Patient`, `TwoRooms.cfg` and `EmptyRoom.cfg` are counterexamples to `OneRoom`
and `OnlyMembersSpeak`. With `MaxBatch = 2` a request behind another one is dropped, so
its user waits for ever (`Coalesced.cfg` shows what that leads to) and `OneAnswerEach`
fails; `NoStrayAnswer` and `OneRoom` need neither. The theorems
about `Framing` need none: their one premise, `AllFit`, is part of what `InBounds` and
`ArriveAsSent` say, and `NeverMixed` holds without it.

The argument:

- `TypeOK` is not inductive: that `rooms[m.arg]` is defined needs to know what the
  packets in the channels are, and that a fan-out makes sense needs to know which
  request it belongs to. `ServerInv` adds `RequestsAreOwn` (the channel of a client
  holds requests it built), `BufferRewound` (the write index is 0 between steps
  and the vector is zero between sockets, so `ReceiveEnd` parses nothing and
  `Send` transmits what was written) and `SendingJustified` (while packets are
  sent there is a socket being handled, its bit still set, with a request that
  calls for them). `ServerKeepsType` has one step per action of the server;
  `OpenServer` and `ChatSystem` add the steps of their clients.
- `PassInv` adds `CurIdle` to the two properties of a pass. The reason that bits
  do not go stale is in `ClientsKeepInput` and `SendKeepsInput`: whatever clients
  do, and whatever `send()` to one client does to its connection, a readable
  socket stays readable until the server itself receives from it, and no
  connection leaves the backlog but by `accept()`.
- `TablesChange` and `ReceivedIsHandled` reduce every step to "the three tables
  are unchanged" or "one request of the socket's own client is handled", after
  which the properties of the rooms are one case per request.
- `RoomsHoldConnections` needs `ConnectedOnce` (a connection is in the backlog or
  in the list, once) and `MembersAccepted`. It holds only because an error in
  `recv()`, which removes the connection from the list and not from its rooms, also
  ends the process.
- `AnswersReachTheirClient` needs `NamesAreOwn` and `OthersAreTold` (the
  requester is not in the work list of its own `$JOIN$` or `$EXIT$`);
  `StreamsChange` lists the ways in which a stream can change.

- `ServesRooms` needs the invariants above and `ReadRewound`: between two sockets the
  read index is 0, so that what `recv()` stores is what is parsed. `HandledIsOwed` is
  the heart: what a handler puts on the work list is exactly what `Rooms` makes
  owed. `SendRefines` moves one packet from `Pending(d)` to the end of the stream of
  `d`, so that `owed` is unchanged; `LossDeparts` and `ExitStops` map a broken
  connection and the end of the process. A fan-out whose `send()` fails half-way is a
  `Stop` in which everybody keeps a beginning of what was owed.
- `ClientsConform` first shows that the server's actions are the same in both
  systems (`SameServer`), then that each step of a client is one of `OpenServer`'s
  or a stutter (`ClientConforms`). For that `ConformInv` relates the place a client is
  at to its connection, bounds its requests, and says that a buffer whose
  write index has moved holds a request of the client: that what `WriteResponse`
  transmits is a request at all depends on it.
- `WritesAtStart` follows from `WriteInv`: the index is away from 0 only between a
  write and the next poll. `GetClientName` enters the loop with the index moved,
  and is saved by no key that writes being possible in the first iteration.
- `MembersAreNamed` needs `NamedInv`: as long as the server has no name for a
  client, the first request under way is the one that gives it, so that
  it is never among those a `recv()` drops; and the client is in no room. The
  proof uses both other invariants of `ChatSystem`.

- `NoStrayAnswer` and `OneAnswerEach` count packets in channels. `CountAppend` and
  `CountRest` say what `send()` and `recv()` do to a count. `ServerBalance` and
  `ClientBalance` say of each step that it changes `UnderWay(c)` by no more than
  `awaiting[c]`, and by exactly as much when packets are taken one by one and the
  connection stands; `ClientsApart` says that it touches one client only. `ReceiveData`
  turns a request in the channel into one to be answered, `SendAck` that into a packet,
  and the poll of the client takes both sides down by one. `OneAnswerEach` is not
  inductive because it says nothing of a client that has not connected yet; `OneInv`
  adds those, and no connection that was broken comes to stand again.
- `OneRoom`, `ViewsAgree` and `OnlyMembersSpeak` rest on `DialogueInv`, which says for
  every stage of the dialogue between a client and the server what is under way and
  what either side believes. `TablesFit` holds for connections of any kind: a socket has
  at most one entry, in the room that `clientRooms` names; nothing follows a `$JOIN$` or
  `$EXIT$` in the channel; a `$JOIN$` is under way only from a client in no room, `$CHAT$`
  and `$EXIT$` only from a member. `ViewFits` is for connections that stand. `FlagsFit`: a
  client that waits for nothing has `mJoinedRoom` and `mChatReady` as the tables are.
  `AnswerFits`: while a join is under way it cannot chat, while an exit is it still can,
  and when the answer is sent the tables already say so. By `NoStrayAnswer` only
  one answer can be under way, so no second `$LEFT$` can reset the flags of a
  client that has joined again, which is what happens in `TwoRooms.cfg`. Only `ViewsAgree`
  needs also that no answer is missing, which is `OneAnswerEach`.
- `LifeInv` says of every place in a program what it holds there (`Fits`). On an error
  path the functions up to `main` each clean up once more. `CleanSocketIs` is about one
  `CleanSocket`: the first releases everything, whichever socket it closes, and one
  that finds all released (`Released`) leaves it so; the number of runs does not matter
  for what is held. `FirstCleanUpFaultless` says that the first releases nothing twice, so
  that the paths on which only one runs add no fault: these are all but those behind a
  lost connection, which `CleansAgainOnLossOnly` names.
- `Framing` is about bytes. `U16RoundTrip` and `U32RoundTrip` say that a number is read
  as it was written; `WritePacketIs`, `TransmittedBegins` and `ParsePacket` follow
  a text through the vector of the sender, which is dirty from earlier packets, the
  stream, and the vector of the receiver, which grows in the middle of the parse.
  `Carries(s, q, k)` says that a stream is the packets of the texts from the
  `(k + 1)`-th on, one behind the other with the four bytes too many of each,
  by the function of their ends: sending appends one (`CarriesMore`), receiving takes
  the first away (`CarriesFirst`), and `OnePacketIs` says that `recv()` cuts there.
  `LinesInv` says that the streams up to the server that are not cut carry what has been
  typed and not been handled. A cut stream cannot disturb them, because of `ReadyInv`:
  whatever the server parses, it ends, clears the buffer, or goes on to tell, and when
  it has nothing to tell its vector is blank. `RepliesInv` is the same for the streams
  down to clients whose `recv()` returns one packet; any other client may at most end
  itself (`MayEnd`, `ClientReceivesCut`). It bounds the length of what is
  told, and with cut streams that rests on `PiecesInv`: what is told is as long as a line
  that was typed.
- `NeverMixed` is about a parse that may begin at any byte. `PiecesInv` gives every
  stream a past: all that was sent on it, packed from the lines typed so far, with
  the ends of the packets (`Packed`). What is left is an end of it (`Left`), and each
  line taken is the beginning of another of these lines, in order (`Taken`).
  `Deceived(all, k)` is what a parse from behind the `k`-th byte has to find to make a
  line of it: a type 1, a length that stays in the vector, a tag of equal bytes that
  are not zero. `WithinPacket` goes through the places where a type might be found. In
  a text no byte is 0 or 1, as the type would have to be; in the four bytes too many,
  the next packet's two zero bytes come where length or tag would be (`BehindPacket`).
  That leaves the header, and of it two cases: the high byte of a `packetSize` that is
  1 passes for a type, and then the length read is at least `12 * Base` and leads
  out of the vector; the length of a text of one byte passes for a type, and no text is
  that short. Both are excluded by `SeparationAssumption`. So a line comes from
  a parse at the beginning of a packet (`ParsedAtPacket`), and what had not come yet is
  zero, because the vector was blank.

From `ClientsConformCorrect` it follows that the theorems about `OpenServer`, and
`ServesRoomsCorrect`, hold of the program with its users, with `cmds` for `sent`.

**Only model-checked:** all liveness properties, because fairness and `ENABLED` are out
of the prover's reach: `EveryRequestServed`, `ResetEndsServer`, `Answered`,
`RequestsReceived`. Every invariant, every other action property and both refinements
that a passing run checks have a theorem.

## What is not modelled

- Bytes and connections together: `Framing` has no connections that break and no
  `$JOIN$`, the other modules have no portions smaller than a packet.
- The timeouts of both `select()` calls: they only repeat a pass or an iteration.
- Console output, colours and `ErasePreviousLines`: no state depends on them.
- `TCPAuthenticationServer/authMain.cpp`: 35 lines that serialise one message and parse
  it back, without a loop, a socket or anything kept.
- `protoFiles`: a few message definitions and the code the protobuf compiler makes of
  them; no program but the demo uses it.
- `SQLFiles`: two table definitions no program uses.
- `dev`: the vendored sources, tests and tools of protobuf, more than 250,000 lines
  against about 1,500 of the chat. None of it runs in the chat server or client. Every
  function of the two chat programs that changes state is modelled; the share
  of all lines in the repository that the models cover is small for this reason.

## Plan

Written, in this order: `CBuffer`, `Network`, `ChatServer`, `OpenServer` with its
proofs, `ChatClient`, `ChatSystem`; then `Rooms` with the refinement and its
proof, `OpenServerFull`, `ByteBuffer`, `Framing`, `Lifecycle`, and the first proofs for
`ChatSystem`; then the counting of answers, the dialogue, the error paths and the
arrival of lines, in one piece and in portions. Every safety property that a passing
run checks now has a theorem. Still worth doing: bytes and connections in one model, so
that a reset may cut a packet in two.
