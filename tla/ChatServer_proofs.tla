-------------------------- MODULE ChatServer_proofs --------------------------
(***************************************************************************)
(* What every step of the server keeps true of its own variables and of    *)
(* the channels, whoever its clients are.  The proofs for OpenServer and   *)
(* for ChatSystem, which have the server's steps in common, both rest on   *)
(* these lemmas.                                                           *)
(***************************************************************************)
EXTENDS ChatServer, FiniteSetTheorems, SequenceTheorems, TLAPS


\* What is under way to the server are requests of the client that sent them.
RequestsAreOwn == \A c \in Client : c2s[c] \in Seq(Request(c))

\* The write index is back at 0 whenever somebody else can look, and between two
\* sockets the vector holds zero bytes.
BufferRewound ==
  /\ ~buffer.wi
  /\ pc \in {"select", "scan"} => buffer.data = None

\* While packets are sent there is a socket being handled, its bit still set,
\* and a request that calls for packets if any are left to send.
SendingJustified ==
  pc = "send" =>
    /\ cur \in Client \cap ready
    /\ ack => req \in Packet /\ req.kind \in {"JOIN", "EXIT"}
    /\ \A d \in Client :
         fan[d] > 0 => req \in Packet /\ req.kind \in {"JOIN", "CHAT", "EXIT"}

ServerInv ==
  /\ NetTypeOK /\ ServerTypeOK
  /\ RequestsAreOwn /\ BufferRewound /\ SendingJustified

-----------------------------------------------------------------------------
(* Facts about the operators the actions are built from.                   *)

\* Every request a client can build is a packet of the protocol.
LEMMA RequestIsPacket ==
  ASSUME NEW c \in Client
  PROVE  Request(c) \subseteq Packet
BY DEF Request, Packet, Name, Exit, Join, Chat, RequestKind, ReplyKind, Argument,
       RoomName

\* A request has a kind the server knows; only $JOIN$ brings a room name, and
\* its text carries no other user's name.
LEMMA RequestFields ==
  ASSUME NEW c \in Client, NEW m \in Request(c)
  PROVE  /\ m # None => m.kind \in RequestKind
         /\ m.kind = "JOIN" => m.arg \in RoomName
         /\ m.who = c
BY DEF Request, Name, Exit, Join, Chat, RequestKind, RoomName

\* Reading from a channel leaves a channel.
LEMMA RestIsChannel ==
  ASSUME NEW S, NEW ch \in Seq(S), NEW n \in Batch(ch)
  PROVE  Rest(ch, n) \in Seq(S)
BY DEF Rest, Batch

\* A channel that was sent something is not empty.
LEMMA AppendNotEmpty ==
  ASSUME NEW S, NEW ch \in Seq(S), NEW m \in S
  PROVE  Append(ch, m) # <<>>
BY AppendProperties

\* A reset leaves channels that are empty or as they were.
LEMMA ResetLinkType ==
  ASSUME NetTypeOK, RequestsAreOwn, NEW c \in Client, ResetLink(c), UNCHANGED backlog
  PROVE  NetTypeOK' /\ RequestsAreOwn'
BY DEF NetTypeOK, RequestsAreOwn, ResetLink, LinkState

\* So does the end of the server process, whichever connections it resets.
LEMMA CloseServerEndsType ==
  ASSUME NetTypeOK, CloseServerEnds
  PROVE  NetTypeOK' /\ RequestsAreOwn'
BY DEF NetTypeOK, RequestsAreOwn, CloseServerEnds, LinkState

\* The end of the process keeps the invariant, with any list of connections.
LEMMA ServerExitType ==
  ASSUME ServerInv, ServerExit, conns' \in Seq(Client)
  PROVE  ServerInv'
<1>1. NetTypeOK' /\ RequestsAreOwn'
  BY CloseServerEndsType DEF ServerInv, ServerExit
<1>2. ServerTypeOK'
  BY DEF ServerInv, ServerTypeOK, ServerExit, tables
<1>3. BufferRewound' /\ SendingJustified'
  BY DEF ServerInv, ServerExit, BufferRewound, SendingJustified, tables
<1> QED
  BY <1>1, <1>2, <1>3 DEF ServerInv

\* Handling whatever recv() left in the buffer: nothing, or a request of s.
LEMMA HandleType ==
  ASSUME ServerInv, NEW s \in Client, NEW b, Handle(s, b),
         s \in ready, NetTypeOK', RequestsAreOwn',
         b \in BufferOf(Packet), ~b.wi,
         b.data \in Request(s) \cup {None}
  PROVE  ServerInv'
<1> DEFINE m == Parsed(b)
<1>1. /\ cur' = s /\ req' = m /\ pc' = "send"
      /\ UNCHANGED <<conns, ready, readCount>>
      /\ buffer' = Consumed(b)
  BY DEF Handle
<1>2. m \in Request(s) \cup {None}
  BY DEF Parsed
<1>3. m \in Packet \cup {None} /\ (m # None => m.kind \in RequestKind)
  BY <1>2, RequestIsPacket, RequestFields
<1>4. m # None /\ m.kind = "JOIN" => m.arg \in RoomName
  BY <1>2, RequestFields
<1>5. m # None => m.who = s
  BY <1>2, RequestFields
<1>6. rooms \in [RoomName -> [Client -> Nat]] /\ clientRooms \in [Client -> RoomName]
  BY DEF ServerInv, ServerTypeOK
<1>7. /\ rooms' \in [RoomName -> [Client -> Nat]]
      /\ clientRooms' \in [Client -> RoomName]
      /\ clientName' \in [Client -> Client \cup {None}]
      /\ fan' \in [Client -> Nat] /\ ack' \in BOOLEAN
      /\ ack' => m \in Packet /\ m.kind \in {"JOIN", "EXIT"}
      /\ \A d \in Client :
           fan'[d] > 0 => m \in Packet /\ m.kind \in {"JOIN", "CHAT", "EXIT"}
  <2> USE DEF NoOne, tables
  <2>1. CASE HandleOther(m)
    <3>1. ack' = FALSE /\ fan' = [c \in Client |-> 0]
      BY <2>1 DEF HandleOther
    <3>2. fan' \in [Client -> Nat] /\ \A d \in Client : ~(fan'[d] > 0)
      BY <3>1
    <3>3. /\ rooms' \in [RoomName -> [Client -> Nat]]
          /\ clientRooms' \in [Client -> RoomName]
          /\ clientName' \in [Client -> Client \cup {None}]
      BY <2>1 DEF HandleOther, ServerInv, ServerTypeOK
    <3> QED
      BY <3>1, <3>2, <3>3, Zenon
  <2>2. CASE HandleName(s, m)
    <3>1. ack' = FALSE /\ fan' = [c \in Client |-> 0]
      BY <2>2 DEF HandleName
    <3>2. fan' \in [Client -> Nat] /\ \A d \in Client : ~(fan'[d] > 0)
      BY <3>1
    <3>3. /\ rooms' \in [RoomName -> [Client -> Nat]]
          /\ clientRooms' \in [Client -> RoomName]
          /\ clientName' \in [Client -> Client \cup {None}]
      BY <2>2, <1>5 DEF HandleName, ServerInv, ServerTypeOK
    <3> QED
      BY <3>1, <3>2, <3>3, Zenon
  <2>3. CASE HandleJoin(s, m)
    BY <2>3, <1>3, <1>4 DEF HandleJoin, ServerInv, ServerTypeOK
  <2>4. CASE HandleChat(s, m)
    BY <2>4, <1>3 DEF HandleChat, ServerInv, ServerTypeOK
  <2>5. CASE HandleExit(s, m)
    BY <2>5, <1>3 DEF HandleExit, ServerInv, ServerTypeOK, RoomName
  <2> QED
    BY <2>1, <2>2, <2>3, <2>4, <2>5 DEF Handle
<1>8. ServerTypeOK'
  <2>1. buffer' \in BufferOf(Packet)
    BY <1>1 DEF Consumed, BufferOf
  <2> QED
    BY <1>1, <1>3, <1>7, <2>1 DEF ServerInv, ServerTypeOK
<1>9. BufferRewound'
  BY <1>1 DEF BufferRewound, Consumed, BufferOf
<1>10. SendingJustified'
  BY <1>1, <1>7 DEF SendingJustified
<1> QED
  BY <1>8, <1>9, <1>10 DEF ServerInv

\* What a send() leaves of the network and of the buffer.
LEMMA SendType ==
  ASSUME ServerInv, NEW d \in Client, NEW p \in Packet, Send(d, p)
  PROVE  /\ NetTypeOK' /\ RequestsAreOwn'
         /\ buffer' = Fresh
         /\ UNCHANGED <<pc, conns, ready, readCount, cur, req, tables>>
<1>1. buffer' = Fresh
  BY DEF Send, ClearBuffer, Fresh
<1>2. UNCHANGED <<pc, conns, ready, readCount, cur, req, tables, backlog>>
  BY DEF Send, tables
<1>3. OnWire(Written(buffer, p)) = p
  BY DEF ServerInv, BufferRewound, OnWire, Written
<1>4. CASE ResetLink(d)
  BY <1>1, <1>2, <1>4, ResetLinkType DEF ServerInv
<1>5. CASE /\ s2c' = [s2c EXCEPT ![d] = Append(@, p)]
           /\ UNCHANGED <<link, c2s>>
  BY <1>1, <1>2, <1>5 DEF ServerInv, NetTypeOK, RequestsAreOwn
<1> QED
  BY <1>3, <1>4, <1>5 DEF Send

\* The packets of a fan-out are packets of the protocol.
LEMMA AnswersArePackets ==
  ASSUME ServerInv, pc = "send", NEW d \in Client, ack \/ fan[d] > 0
  PROVE  /\ cur \in Client
         /\ ack => Ack \in Packet
         /\ ~ack => Notice(d) \in Packet
<1>1. cur \in Client /\ clientName[cur] \in Client \cup {None}
  BY DEF ServerInv, ServerTypeOK, SendingJustified
<1>2. req \in Packet
  BY DEF ServerInv, SendingJustified
<1>3. req.arg \in Argument
  BY <1>2 DEF Packet
<1> QED
  BY <1>1, <1>3 DEF Ack, Notice, Packet, ReplyKind, Argument

-----------------------------------------------------------------------------
(* The invariant.                                                          *)

\* The server starts in it.
LEMMA InitServer == NetInit /\ ServerInit => ServerInv
<1> SUFFICES ASSUME NetInit, ServerInit
             PROVE  ServerInv
  OBVIOUS
<1>1. NetTypeOK /\ RequestsAreOwn
  BY DEF NetInit, NetTypeOK, LinkState, RequestsAreOwn
<1>2. buffer \in BufferOf(Packet) /\ BufferRewound
  BY DEF ServerInit, Fresh, BufferOf, BufferRewound
<1>3. ServerTypeOK
  <2>1. NoOne \in [Client -> Nat]
    BY DEF NoOne
  <2>2. /\ fan \in [Client -> Nat]
        /\ rooms \in [RoomName -> [Client -> Nat]]
        /\ clientRooms \in [Client -> RoomName]
    BY <2>1 DEF ServerInit, RoomName
  <2>3. ack \in BOOLEAN
    BY Zenon DEF ServerInit
  <2> QED
    BY <1>2, <2>2, <2>3 DEF ServerInit, ServerTypeOK
<1>4. SendingJustified
  BY DEF ServerInit, SendingJustified
<1> QED
  BY <1>1, <1>2, <1>3, <1>4 DEF ServerInv

\* Every step of the server keeps it.
LEMMA ServerKeepsType ==
  ASSUME ServerInv, ServerNext
  PROVE  ServerInv'
<1> USE DEF ServerInv
<1>1. CASE Select
  <2>1. ready' \subseteq Client \cup {Listener}
    BY <1>1 DEF Select, Polled, ServerTypeOK
  <2>2. IsFiniteSet(ready')
    BY <2>1, PacketsAssumption, FS_AddElement, FS_Subset DEF PacketsAssumption
  <2>3. readCount' \in Int
    BY <1>1, <2>2, FS_CardinalityType DEF Select
  <2> QED
    BY <1>1, <2>1, <2>3 DEF Select, NetTypeOK, ServerTypeOK, RequestsAreOwn,
       BufferRewound, SendingJustified, tables, netVars
<1>2. ASSUME NEW s \in Client, ReceiveData(s)
      PROVE  ServerInv'
  <2>1. Head(c2s[s]) \in Request(s) /\ Head(c2s[s]) \in Packet
    BY <1>2, RequestIsPacket DEF ReceiveData, RequestsAreOwn, NetTypeOK
  <2>2. NetTypeOK' /\ RequestsAreOwn'
    <3>1. PICK n \in Batch(c2s[s]) : c2s' = [c2s EXCEPT ![s] = Rest(@, n)]
      BY <1>2 DEF ReceiveData
    <3>2. Rest(c2s[s], n) \in Seq(Request(s)) /\ Rest(c2s[s], n) \in Seq(Packet)
      BY <3>1, RestIsChannel DEF NetTypeOK, RequestsAreOwn
    <3> QED
      BY <1>2, <3>1, <3>2 DEF ReceiveData, NetTypeOK, RequestsAreOwn
  <2>3. /\ Received(buffer, Head(c2s[s])) \in BufferOf(Packet)
        /\ ~Received(buffer, Head(c2s[s])).wi
        /\ Received(buffer, Head(c2s[s])).data \in Request(s) \cup {None}
    BY <2>1 DEF ServerTypeOK, BufferRewound, BufferOf, Received
  <2>4. s \in ready
    BY <1>2 DEF ReceiveData, NextReady
  <2> QED
    BY <1>2, <2>2, <2>3, <2>4, HandleType DEF ReceiveData
<1>3. ASSUME NEW s \in Client, ReceiveEnd(s)
      PROVE  ServerInv'
  <2>1. NetTypeOK' /\ RequestsAreOwn'
    BY <1>3 DEF ReceiveEnd, netVars, NetTypeOK, RequestsAreOwn
  <2>2. /\ buffer \in BufferOf(Packet) /\ ~buffer.wi
        /\ buffer.data \in Request(s) \cup {None}
    BY <1>3 DEF ReceiveEnd, ServerTypeOK, BufferRewound
  <2>3. s \in ready
    BY <1>3 DEF ReceiveEnd, NextReady
  <2> QED
    BY <1>3, <2>1, <2>2, <2>3, HandleType DEF ReceiveEnd
<1>4. ASSUME NEW s \in Client, ReceiveFails(s)
      PROVE  ServerInv'
  <2>1. conns' \in Seq(Client)
    <3>1. PICK i \in DOMAIN conns :
            conns' = SubSeq(conns, 1, i - 1) \o SubSeq(conns, i + 1, Len(conns))
      BY <1>4 DEF ReceiveFails
    <3>2. conns \in Seq(Client) /\ i \in 1 .. Len(conns)
      BY <3>1, LenProperties DEF ServerTypeOK
    <3>3. /\ SubSeq(conns, 1, i - 1) \in Seq(Client)
          /\ SubSeq(conns, i + 1, Len(conns)) \in Seq(Client)
      BY <3>2
    <3> QED
      BY <3>1, <3>3
  <2> QED
    BY <1>4, <2>1, ServerExitType DEF ReceiveFails
<1>5. CASE SendAck
  <2>1. Ack \in Packet /\ cur \in Client
    BY <1>5, AnswersArePackets DEF SendAck, SendingJustified
  <2>2. /\ NetTypeOK' /\ RequestsAreOwn' /\ buffer' = Fresh
        /\ UNCHANGED <<pc, conns, ready, readCount, cur, req, tables>>
    BY <1>5, <2>1, SendType DEF SendAck
  <2>3. pc' = "send" /\ ack' = FALSE /\ fan' = fan
    BY <1>5, <2>2 DEF SendAck
  <2> QED
    BY <1>5, <2>2, <2>3 DEF ServerTypeOK, BufferRewound, SendingJustified, Fresh,
       BufferOf, tables
<1>6. ASSUME NEW d \in Client, SendNotice(d)
      PROVE  ServerInv'
  <2>1. Notice(d) \in Packet
    BY <1>6, AnswersArePackets DEF SendNotice
  <2>2. /\ NetTypeOK' /\ RequestsAreOwn' /\ buffer' = Fresh
        /\ UNCHANGED <<pc, conns, ready, readCount, cur, req, tables>>
    BY <1>6, <2>1, SendType DEF SendNotice
  <2>3. fan' \in [Client -> Nat] /\ \A e \in Client : fan'[e] > 0 => fan[e] > 0
    BY <1>6 DEF SendNotice, ServerTypeOK
  <2> QED
    BY <1>6, <2>2, <2>3 DEF SendNotice, ServerTypeOK, BufferRewound, SendingJustified,
       Fresh, BufferOf, tables
<1>7. ASSUME NEW d \in Client, SendFails(d)
      PROVE  ServerInv'
  BY <1>7, ServerExitType DEF SendFails, ServerTypeOK
<1>8. CASE EndHandling
  BY <1>8 DEF EndHandling, NetTypeOK, ServerTypeOK, RequestsAreOwn, BufferRewound,
     SendingJustified, ClearBuffer, BufferOf, tables, netVars
<1>9. CASE Accept
  <2>1. backlog' \in Seq(Client) /\ conns' \in Seq(Client)
    BY <1>9 DEF Accept, NetTypeOK, ServerTypeOK
  <2>2. NetTypeOK' /\ RequestsAreOwn'
    BY <1>9, <2>1 DEF Accept, NetTypeOK, RequestsAreOwn
  <2>3. ServerTypeOK'
    BY <1>9, <2>1 DEF Accept, ServerTypeOK, tables
  <2> QED
    BY <1>9, <2>2, <2>3 DEF Accept, ScanOver, BufferRewound, SendingJustified
<1>10. CASE PassEnds
  BY <1>10 DEF PassEnds, ScanOver, NetTypeOK, ServerTypeOK, RequestsAreOwn,
     BufferRewound, SendingJustified, tables, netVars
<1>11. CASE SelectFails \/ AcceptFails
  BY <1>11, ServerExitType DEF SelectFails, AcceptFails, ServerTypeOK
<1> QED
  BY <1>1, <1>2, <1>3, <1>4, <1>5, <1>6, <1>7, <1>8, <1>9, <1>10, <1>11
     DEF ServerNext, ServerStep, Receive, Transmit

\* Nor can anybody else break it, but by putting something else into a channel.
LEMMA OthersKeepType ==
  ASSUME ServerInv, UNCHANGED serverVars, NetTypeOK', RequestsAreOwn'
  PROVE  ServerInv'
<1>1. ServerTypeOK'
  BY DEF ServerInv, ServerTypeOK, serverVars
<1>2. BufferRewound' /\ SendingJustified'
  BY DEF ServerInv, BufferRewound, SendingJustified, serverVars
<1> QED
  BY <1>1, <1>2 DEF ServerInv
=============================================================================
