----------------------------- MODULE ChatServer -----------------------------
(***************************************************************************)
(* The server process: main's select() loop and cNetworkManager.  It is a  *)
(* single thread on blocking sockets, so its handlers do not interleave    *)
(* with each other, but clients connect, send, close and read between any  *)
(* two of its system calls.  A step here is therefore one system call with *)
(* the computation around it.                                              *)
(*                                                                         *)
(* rooms[r].clients is a vector in which a socket can occur repeatedly; it *)
(* is modelled as the number of occurrences of each socket.  The order in  *)
(* which a fan-out visits the vector is left open, which includes the      *)
(* order of the code.  std::map keys that are absent and keys that map to  *)
(* a default value cannot be told apart by this code (only a log line      *)
(* does), so clientRooms and clientName are total with the default.        *)
(***************************************************************************)
EXTENDS Network, CBuffer

CONSTANTS
  Listener,    \* the listening socket
  FdSetSize    \* FD_SETSIZE: FD_SET() ignores sockets once a set holds this many

ASSUME ServerAssumption ==
  /\ Listener \notin Client
  /\ FdSetSize \in Nat \ {0}

VARIABLES
  pc,           \* "select", "scan" (between two sockets), "send", "down"
  conns,        \* mClientConnectionList
  ready,        \* socketsReadyForReading
  readCount,    \* readCount
  cur,          \* local socket of LoopThroughClientList
  req,          \* the request parsed from the buffer
  ack,          \* does the fan-out still start with a packet to cur itself?
  fan,          \* copies of the notification still to send to each socket
  rooms,        \* rooms[r].clients, as occurrences per socket
  clientRooms,  \* clientRooms
  clientName,   \* clientName
  buffer        \* the one cBuffer

serverVars == <<pc, conns, ready, readCount, cur, req, ack, fan, rooms,
                clientRooms, clientName, buffer>>
tables == <<rooms, clientRooms, clientName>>

Accepted == {conns[i] : i \in DOMAIN conns}
NoOne    == [c \in Client |-> 0]

ServerInit ==
  /\ pc = "select"
  /\ conns = <<>>
  /\ ready = {}
  /\ readCount = 0
  /\ cur = None
  /\ req = None
  /\ ack = FALSE
  /\ fan = NoOne
  /\ rooms = [r \in RoomName |-> NoOne]
  /\ clientRooms = [c \in Client |-> EmptyName]
  /\ clientName = [c \in Client |-> None]
  /\ buffer = Fresh

ServerTypeOK ==
  /\ pc \in {"select", "scan", "send", "down"}
  /\ conns \in Seq(Client)
  /\ ready \in SUBSET (Client \cup {Listener})
  /\ readCount \in Int
  /\ cur \in Client \cup {None}
  /\ req \in Packet \cup {None}
  /\ ack \in BOOLEAN
  /\ fan \in [Client -> Nat]
  /\ rooms \in [RoomName -> [Client -> Nat]]
  /\ clientRooms \in [Client -> RoomName]
  /\ clientName \in [Client -> Client \cup {None}]
  /\ buffer \in BufferOf(Packet)

-----------------------------------------------------------------------------
(* The process ends: a handler returned 1, main left its loop, and the     *)
(* system closes what is still open.                                       *)
ServerExit ==
  /\ pc' = "down"
  /\ CloseServerEnds
  /\ UNCHANGED <<ready, readCount, cur, req, ack, fan, tables, buffer>>

-----------------------------------------------------------------------------
(* main: one pass of the loop up to select().                              *)

\* recv() on c would not block: data, end of stream or a pending error.
Readable(c) == c2s[c] # <<>> \/ link[c] \in {"cfin", "rst"}

\* Mutant: the loop that fills the set stops one connection early.
PolledButLast == {Listener} \cup {conns[i] : i \in {j \in DOMAIN conns : j < Len(conns)}}

\* FD_SET(serverSocket) comes first, then the connections in list order, until
\* the set is full.
Polled == {Listener} \cup {conns[i] : i \in {j \in DOMAIN conns : j < FdSetSize}}

\* select() returns with at least one socket; a timeout just repeats the pass.
Select ==
  /\ pc = "select"
  /\ ready' = {s \in Polled : IF s = Listener THEN backlog # <<>> ELSE Readable(s)}
  /\ ready' # {}
  /\ readCount' = Cardinality(ready')
  /\ pc' = "scan"
  /\ UNCHANGED <<conns, cur, req, ack, fan, tables, buffer, netVars>>

\* select() returns SOCKET_ERROR: main closes its socket and returns 1.
SelectFails ==
  /\ pc = "select"
  /\ ServerExit
  /\ UNCHANGED conns

-----------------------------------------------------------------------------
(* LoopThroughClientList: the first connection of the list whose bit is    *)
(* still set.  Handled ones are cleared, so this is the order of the loop. *)

NextReady(s) ==
  \E i \in DOMAIN conns :
    /\ conns[i] = s
    /\ s \in ready
    /\ \A j \in 1 .. i - 1 : conns[j] \notin ready

\* Nothing to send: messageType is not 1, or the text has no known prefix.
HandleOther(m) ==
  /\ ~(m # None /\ m.kind \in RequestKind)
  /\ ack' = FALSE
  /\ fan' = NoOne
  /\ UNCHANGED tables

HandleName(s, m) ==
  /\ m # None /\ m.kind = "NAME"
  /\ clientName' = [clientName EXCEPT ![s] = m.who]
  /\ ack' = FALSE
  /\ fan' = NoOne
  /\ UNCHANGED <<rooms, clientRooms>>

\* The joiner is answered first, then everybody else in the room is told.
HandleJoin(s, m) ==
  /\ m # None /\ m.kind = "JOIN"
  /\ rooms' = [rooms EXCEPT ![m.arg][s] = @ + 1]
  /\ clientRooms' = [clientRooms EXCEPT ![s] = m.arg]
  /\ ack' = TRUE
  /\ fan' = [rooms[m.arg] EXCEPT ![s] = 0]
  /\ UNCHANGED clientName

\* Every entry of the room is sent the line, the sender's own included.
HandleChat(s, m) ==
  /\ m # None /\ m.kind = "CHAT"
  /\ ack' = FALSE
  /\ fan' = rooms[clientRooms[s]]
  /\ UNCHANGED tables

\* Mutants: the erase() of clientRooms is missing; the room is emptied instead
\* of one socket; the name is dropped as well; no $LEFT$ is sent.
HandleExitKeepsRoom(s, m) ==
  /\ m # None /\ m.kind = "EXIT"
  /\ rooms' = [rooms EXCEPT ![clientRooms[s]][s] = 0]
  /\ ack' = TRUE
  /\ fan' = [rooms[clientRooms[s]] EXCEPT ![s] = 0]
  /\ UNCHANGED <<clientRooms, clientName>>

HandleExitEmptiesRoom(s, m) ==
  /\ m # None /\ m.kind = "EXIT"
  /\ rooms' = [rooms EXCEPT ![clientRooms[s]] = NoOne]
  /\ clientRooms' = [clientRooms EXCEPT ![s] = EmptyName]
  /\ ack' = TRUE
  /\ fan' = [rooms[clientRooms[s]] EXCEPT ![s] = 0]
  /\ UNCHANGED clientName

HandleExitForgetsName(s, m) ==
  /\ m # None /\ m.kind = "EXIT"
  /\ rooms' = [rooms EXCEPT ![clientRooms[s]][s] = 0]
  /\ clientRooms' = [clientRooms EXCEPT ![s] = EmptyName]
  /\ clientName' = [clientName EXCEPT ![s] = None]
  /\ ack' = TRUE
  /\ fan' = [rooms[clientRooms[s]] EXCEPT ![s] = 0]

HandleExitSilently(s, m) ==
  /\ m # None /\ m.kind = "EXIT"
  /\ rooms' = [rooms EXCEPT ![clientRooms[s]][s] = 0]
  /\ clientRooms' = [clientRooms EXCEPT ![s] = EmptyName]
  /\ ack' = FALSE
  /\ fan' = [rooms[clientRooms[s]] EXCEPT ![s] = 0]
  /\ UNCHANGED clientName

\* erase(remove(...)) takes every occurrence out of the one room that
\* clientRooms names; that key is erased; the others of that room are told.
HandleExit(s, m) ==
  /\ m # None /\ m.kind = "EXIT"
  /\ rooms' = [rooms EXCEPT ![clientRooms[s]][s] = 0]
  /\ clientRooms' = [clientRooms EXCEPT ![s] = EmptyName]
  /\ ack' = TRUE
  /\ fan' = [rooms[clientRooms[s]] EXCEPT ![s] = 0]
  /\ UNCHANGED clientName

\* What follows a recv() that did not fail, up to the first send().
Handle(s, b) ==
  LET m == Parsed(b) IN
  /\ cur' = s
  /\ req' = m
  /\ buffer' = Consumed(b)
  /\ pc' = "send"
  /\ \/ HandleOther(m)
     \/ HandleName(s, m)
     \/ HandleJoin(s, m)
     \/ HandleChat(s, m)
     \/ HandleExit(s, m)
  /\ UNCHANGED <<conns, ready, readCount>>

\* Mutant: of several packets the last one is handled.
ReceiveDataLast(s) ==
  /\ pc = "scan" /\ NextReady(s)
  /\ link[s] # "rst" /\ c2s[s] # <<>>
  /\ \E n \in Batch(c2s[s]) :
       /\ c2s' = [c2s EXCEPT ![s] = Rest(@, n)]
       /\ Handle(s, Received(buffer, c2s[s][n]))
  /\ UNCHANGED <<link, backlog, s2c>>

\* recv() returns data: the packet at the front is handled, and whatever else
\* the call returned is behind it in the buffer, where nothing reads it.
ReceiveData(s) ==
  /\ pc = "scan" /\ NextReady(s)
  /\ link[s] # "rst" /\ c2s[s] # <<>>
  /\ \E n \in Batch(c2s[s]) : c2s' = [c2s EXCEPT ![s] = Rest(@, n)]
  /\ Handle(s, Received(buffer, Head(c2s[s])))
  /\ UNCHANGED <<link, backlog, s2c>>

\* recv() returns 0 at the end of the stream.  The code tests for SOCKET_ERROR
\* only, so it parses the buffer as it was before the call.
ReceiveEnd(s) ==
  /\ pc = "scan" /\ NextReady(s)
  /\ link[s] = "cfin" /\ c2s[s] = <<>>
  /\ Handle(s, buffer)
  /\ UNCHANGED netVars

\* Mutant: the error is not returned to main, and the loop goes on.
ReceiveFailsGoesOn(s) ==
  /\ pc = "scan" /\ NextReady(s)
  /\ link[s] = "rst"
  /\ \E i \in DOMAIN conns :
       /\ conns[i] = s
       /\ conns' = SubSeq(conns, 1, i - 1) \o SubSeq(conns, i + 1, Len(conns))
  /\ ready' = ready \ {s}
  /\ readCount' = readCount - 1
  /\ UNCHANGED <<pc, cur, req, ack, fan, tables, buffer, netVars>>

\* recv() fails: the client is taken out of the list (which holds each accepted
\* socket once) and the sets, and the error returned to main ends the process.
ReceiveFails(s) ==
  /\ pc = "scan" /\ NextReady(s)
  /\ link[s] = "rst"
  /\ \E i \in DOMAIN conns :
       /\ conns[i] = s
       /\ conns' = SubSeq(conns, 1, i - 1) \o SubSeq(conns, i + 1, Len(conns))
  /\ ServerExit

-----------------------------------------------------------------------------
(* SendMessageToClient, once per recipient.                                *)

\* The packet that answers the requester itself.
Ack == IF req.kind = "JOIN"
       THEN [kind |-> "READY", who |-> clientName[cur], arg |-> req.arg]
       ELSE [kind |-> "LEFT", who |-> cur, arg |-> None]

\* The packet a fan-out sends to d.
Notice(d) ==
  IF req.kind = "CHAT"
  THEN IF d = cur THEN [kind |-> "YOU", who |-> cur, arg |-> req.arg]
                  ELSE [kind |-> "REPLY", who |-> clientName[cur], arg |-> req.arg]
  ELSE [kind |-> IF req.kind = "JOIN" THEN "HAS_JOINED" ELSE "HAS_LEFT",
        who |-> clientName[cur], arg |-> None]

\* Mutant: the buffer is not cleared behind the packet.
SendWithoutClear(d, p) ==
  LET b == Written(buffer, p) IN
  /\ \/ /\ link[d] = "up" /\ Len(s2c[d]) < DownCap
        /\ s2c' = [s2c EXCEPT ![d] = Append(@, OnWire(b))]
        /\ UNCHANGED <<link, c2s>>
     \/ /\ link[d] = "cfin"
        /\ ResetLink(d)
  /\ buffer' = b
  /\ UNCHANGED <<pc, conns, ready, readCount, cur, req, tables, backlog>>

\* send() succeeds: it blocks while the receiver's buffers are full, and when
\* the peer has closed its end the packet only provokes a reset.
Send(d, p) ==
  LET b == Written(buffer, p) IN
  /\ \/ /\ link[d] = "up" /\ Len(s2c[d]) < DownCap
        /\ s2c' = [s2c EXCEPT ![d] = Append(@, OnWire(b))]
        /\ UNCHANGED <<link, c2s>>
     \/ /\ link[d] = "cfin"
        /\ ResetLink(d)
  /\ buffer' = ClearBuffer(b)
  /\ UNCHANGED <<pc, conns, ready, readCount, cur, req, tables, backlog>>

\* Mutants: the answer is sent over and over; a notification goes out once more
\* than the room has entries.
SendAckAgain ==
  /\ pc = "send" /\ ack
  /\ Send(cur, Ack)
  /\ UNCHANGED <<ack, fan>>

SendNoticeOnceMore(d) ==
  /\ pc = "send" /\ ~ack /\ fan # NoOne
  /\ Send(d, Notice(d))
  /\ fan' = [fan EXCEPT ![d] = @ - 1]
  /\ UNCHANGED ack

SendAck ==
  /\ pc = "send" /\ ack
  /\ Send(cur, Ack)
  /\ ack' = FALSE
  /\ UNCHANGED fan

SendNotice(d) ==
  /\ pc = "send" /\ ~ack /\ fan[d] > 0
  /\ Send(d, Notice(d))
  /\ fan' = [fan EXCEPT ![d] = @ - 1]
  /\ UNCHANGED ack

\* Mutant: the fan-out is broken off, and the error is not returned to main.
SendFailsDropsRest(d) ==
  /\ pc = "send"
  /\ \/ ack /\ d = cur
     \/ ~ack /\ fan[d] > 0
  /\ link[d] = "rst"
  /\ ack' = FALSE
  /\ fan' = NoOne
  /\ UNCHANGED <<pc, conns, ready, readCount, cur, req, tables, buffer, netVars>>

\* send() fails: SendMessageToClient and every caller return 1 up to main.
SendFails(d) ==
  /\ pc = "send"
  /\ \/ ack /\ d = cur
     \/ ~ack /\ fan[d] > 0
  /\ link[d] = "rst"
  /\ ServerExit
  /\ UNCHANGED conns

\* Mutants: readCount-- is missing; FD_CLR of the handled socket is missing.
EndHandlingUncounted ==
  /\ pc = "send" /\ ~ack /\ fan = NoOne
  /\ buffer' = ClearBuffer(buffer)
  /\ ready' = ready \ {cur}
  /\ cur' = None /\ req' = None
  /\ pc' = "scan"
  /\ UNCHANGED <<conns, readCount, ack, fan, tables, netVars>>

EndHandlingKeepsBit ==
  /\ pc = "send" /\ ~ack /\ fan = NoOne
  /\ buffer' = ClearBuffer(buffer)
  /\ readCount' = readCount - 1
  /\ cur' = None /\ req' = None
  /\ pc' = "scan"
  /\ UNCHANGED <<conns, ready, ack, fan, tables, netVars>>

\* The end of the loop body for one socket; its locals leave scope.
EndHandling ==
  /\ pc = "send" /\ ~ack /\ fan = NoOne
  /\ buffer' = ClearBuffer(buffer)
  /\ ready' = ready \ {cur}
  /\ readCount' = readCount - 1
  /\ cur' = None /\ req' = None
  /\ pc' = "scan"
  /\ UNCHANGED <<conns, ack, fan, tables, netVars>>

-----------------------------------------------------------------------------
(* After the loop over the clients: accept() if select() counted one more. *)

ScanOver == pc = "scan" /\ Accepted \cap ready = {}
AcceptDue == readCount > 0 /\ Listener \in ready

\* accept() blocks while no connection is waiting.
Accept ==
  /\ ScanOver /\ AcceptDue
  /\ backlog # <<>>
  /\ conns' = Append(conns, Head(backlog))
  /\ backlog' = Tail(backlog)
  /\ ready' = ready \ {Listener}
  /\ pc' = "select"
  /\ UNCHANGED <<readCount, cur, req, ack, fan, tables, buffer, link, c2s, s2c>>

\* accept() fails when the waiting connection was reset meanwhile.
AcceptFails ==
  /\ ScanOver /\ AcceptDue
  /\ backlog # <<>> /\ link[Head(backlog)] = "rst"
  /\ ServerExit
  /\ UNCHANGED conns

PassEnds ==
  /\ ScanOver /\ ~AcceptDue
  /\ pc' = "select"
  /\ UNCHANGED <<conns, ready, readCount, cur, req, ack, fan, tables, buffer, netVars>>

-----------------------------------------------------------------------------
Receive  == \E s \in Client : ReceiveData(s) \/ ReceiveEnd(s) \/ ReceiveFails(s)
Transmit == SendAck \/ (\E d \in Client : SendNotice(d) \/ SendFails(d)) \/ EndHandling

\* The steps of the server that need nothing to go wrong.
ServerStep == Select \/ Receive \/ Transmit \/ Accept \/ PassEnds

ServerNext == ServerStep \/ SelectFails \/ AcceptFails
=============================================================================
