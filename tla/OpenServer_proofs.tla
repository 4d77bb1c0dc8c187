-------------------------- MODULE OpenServer_proofs --------------------------
(***************************************************************************)
(* Invariance proofs for the server among arbitrary clients: for every     *)
(* number of clients, rooms and lines, every buffer size and FD_SETSIZE.   *)
(***************************************************************************)
EXTENDS OpenServer, ChatServer_proofs

-----------------------------------------------------------------------------
(* The strengthening of TypeOK.                                            *)

TypeInv == ServerInv /\ sent \in [Client -> Nat]

\* Init establishes it.
LEMMA InitType == Init => TypeInv
BY InitServer DEF Init, TypeInv

\* Every step keeps it.
LEMMA StepType == TypeInv /\ [Next]_vars => TypeInv'
<1> SUFFICES ASSUME TypeInv, [Next]_vars
             PROVE  TypeInv'
  OBVIOUS
<1>1. CASE ServerNext /\ UNCHANGED sent
  BY <1>1, ServerKeepsType DEF TypeInv
<1> USE DEF TypeInv, ServerInv
<1>2. SUFFICES ASSUME \/ \E c \in Client : ClientStep(c)
                      \/ UNCHANGED vars
               PROVE  /\ NetTypeOK' /\ RequestsAreOwn' /\ sent' \in [Client -> Nat]
                      /\ UNCHANGED serverVars
  BY <1>1, OthersKeepType DEF Next, Finished
<1>3. ASSUME NEW c \in Client, Connect(c)
      PROVE  NetTypeOK' /\ RequestsAreOwn'
  BY <1>3 DEF Connect, Connected, NetTypeOK, LinkState, RequestsAreOwn
<1>4. ASSUME NEW c \in Client, NEW m \in Request(c), SendRequest(c, m)
      PROVE  NetTypeOK' /\ RequestsAreOwn' /\ sent' \in [Client -> Nat]
  <2>1. m \in Packet
    BY RequestIsPacket
  <2>2. Append(c2s[c], m) \in Seq(Packet) /\ Append(c2s[c], m) \in Seq(Request(c))
    BY <2>1 DEF NetTypeOK, RequestsAreOwn
  <2> QED
    BY <1>4, <2>2 DEF SendRequest, NetTypeOK, RequestsAreOwn
<1>5. ASSUME NEW c \in Client, ReadReplies(c)
      PROVE  NetTypeOK' /\ RequestsAreOwn'
  <2>1. PICK n \in Batch(s2c[c]) : s2c' = [s2c EXCEPT ![c] = Rest(@, n)]
    BY <1>5 DEF ReadReplies
  <2>2. Rest(s2c[c], n) \in Seq(Packet)
    BY <2>1, RestIsChannel DEF NetTypeOK
  <2> QED
    BY <1>5, <2>1, <2>2 DEF ReadReplies, NetTypeOK, RequestsAreOwn
<1>6. ASSUME NEW c \in Client, Close(c)
      PROVE  NetTypeOK' /\ RequestsAreOwn'
  BY <1>6 DEF Close, CloseClientEnd, NetTypeOK, LinkState, RequestsAreOwn
<1>7. ASSUME NEW c \in Client, Reset(c)
      PROVE  NetTypeOK' /\ RequestsAreOwn'
  BY <1>7, ResetLinkType DEF Reset
<1>8. CASE UNCHANGED vars
  BY <1>8 DEF vars, netVars, NetTypeOK, RequestsAreOwn
<1>9. ASSUME NEW c \in Client, Connect(c) \/ ReadReplies(c) \/ Close(c) \/ Reset(c)
      PROVE  UNCHANGED <<serverVars, sent>>
  BY <1>9 DEF Connect, ReadReplies, Close, Reset
<1>10. ASSUME NEW c \in Client, NEW m \in Request(c), SendRequest(c, m)
       PROVE  UNCHANGED serverVars
  BY <1>10 DEF SendRequest
<1> QED
  BY <1>2, <1>3, <1>4, <1>5, <1>6, <1>7, <1>8, <1>9, <1>10 DEF ClientStep, vars

\* The strengthened invariant holds of every behaviour of the specification.
THEOREM TypeInvariance == Spec => []TypeInv
BY InitType, StepType, PTL DEF Spec

\* Type correctness: the tables, the channels, the buffer and the work list of
\* a fan-out keep their types; in particular no fan-out sends more copies than
\* the room has entries (TypeOK has fan in Nat).
THEOREM TypeCorrect == Spec => []TypeOK
BY TypeInvariance, PTL DEF TypeInv, ServerInv, TypeOK

-----------------------------------------------------------------------------
(* One pass over the sockets that select() reported.                       *)

\* The clients' steps leave the server alone, and take nothing away that would
\* make recv() or accept() wait.
LEMMA ClientsKeepInput ==
  ASSUME TypeInv, NEW c \in Client, ClientStep(c)
  PROVE  /\ UNCHANGED serverVars
         /\ \A s \in Client : Readable(s) => Readable(s)'
         /\ backlog # <<>> => backlog' # <<>>
<1> USE DEF TypeInv, ServerInv, NetTypeOK, Readable
<1>1. CASE Connect(c)
  BY <1>1 DEF Connect, Connected
<1>2. ASSUME NEW m \in Request(c), SendRequest(c, m)
      PROVE  /\ UNCHANGED serverVars
             /\ \A s \in Client : Readable(s) => Readable(s)'
             /\ backlog' = backlog
  <2>1. c2s[c] \in Seq(Packet) /\ m \in Packet
    BY <1>2, RequestIsPacket
  <2>2. Append(c2s[c], m) # <<>>
    BY <2>1, AppendNotEmpty
  <2>3. /\ UNCHANGED <<link, backlog, serverVars>>
        /\ c2s' = [c2s EXCEPT ![c] = Append(c2s[c], m)]
    BY <1>2 DEF SendRequest
  <2>4. \A s \in Client : c2s[s] # <<>> => c2s'[s] # <<>>
    BY <2>2, <2>3
  <2> QED
    BY <2>3, <2>4
<1>3. CASE ReadReplies(c)
  BY <1>3 DEF ReadReplies
<1>4. CASE Close(c)
  BY <1>4 DEF Close, CloseClientEnd
<1>5. CASE Reset(c)
  BY <1>5 DEF Reset, ResetLink
<1> QED
  BY <1>1, <1>2, <1>3, <1>4, <1>5 DEF ClientStep

\* Nor does a send(): it may only turn a closed connection into a reset one.
LEMMA SendKeepsInput ==
  ASSUME TypeInv, NEW d \in Client, NEW p, Send(d, p)
  PROVE  /\ \A s \in Client : Readable(s) => Readable(s)'
         /\ backlog' = backlog
         /\ UNCHANGED <<pc, conns, ready, readCount, cur>>
BY DEF TypeInv, ServerInv, NetTypeOK, Readable, Send, ResetLink

\* No socket is being handled between two sockets.
CurIdle == pc \in {"select", "scan"} => cur = None

\* The invariant of a pass.
PassInv == ReadCountExact /\ NeverBlocksOnStaleBit /\ CurIdle

\* Every step keeps the invariant of the pass.
LEMMA StepPass == TypeInv /\ TypeInv' /\ PassInv /\ [Next]_vars => PassInv'
<1> SUFFICES ASSUME TypeInv, TypeInv', PassInv, [Next]_vars
             PROVE  PassInv'
  OBVIOUS
<1> USE DEF PassInv, ReadCountExact, NeverBlocksOnStaleBit, CurIdle, InPass
<1>1. ready \in SUBSET (Client \cup {Listener}) /\ IsFiniteSet(ready)
  <2>1. ready \in SUBSET (Client \cup {Listener})
    BY DEF TypeInv, ServerInv, ServerTypeOK
  <2> QED
    BY <2>1, PacketsAssumption, FS_AddElement, FS_Subset DEF PacketsAssumption
<1>2. Listener \notin Client /\ None \notin Client
  BY ServerAssumption, PacketsAssumption DEF ServerAssumption, PacketsAssumption
<1>3. CASE Select /\ UNCHANGED sent
  BY <1>2, <1>3 DEF Select, netVars, Readable
<1>4. ASSUME NEW s \in Client, ReceiveData(s) \/ ReceiveEnd(s)
      PROVE  PassInv'
  <2>1. /\ pc = "scan" /\ pc' = "send" /\ cur' = s /\ backlog' = backlog
        /\ UNCHANGED <<ready, readCount>>
    BY <1>4 DEF ReceiveData, ReceiveEnd, Handle, netVars
  <2>2. \A t \in Client \ {s} : Readable(t) => Readable(t)'
    BY <1>4 DEF ReceiveData, ReceiveEnd, netVars, Readable, TypeInv, ServerInv, NetTypeOK
  <2> QED
    BY <1>2, <2>1, <2>2
<1>5. ASSUME NEW d \in Client, NEW p, Send(d, p), pc = "send"
      PROVE  PassInv'
  BY <1>5, SendKeepsInput
<1>6. CASE EndHandling
  <2>1. /\ pc = "send" /\ pc' = "scan" /\ cur' = None /\ ready' = ready \ {cur}
        /\ readCount' = readCount - 1 /\ UNCHANGED netVars
    BY <1>6 DEF EndHandling
  <2>2. cur \in ready
    BY <2>1 DEF TypeInv, ServerInv, SendingJustified
  <2>3. Cardinality(ready') = Cardinality(ready) - 1
    BY <1>1, <2>1, <2>2, FS_RemoveElement
  <2> QED
    BY <2>1, <2>3, <1>2 DEF netVars, Readable
<1>7. CASE Accept
  BY <1>7 DEF Accept, ScanOver
<1>8. CASE PassEnds
  BY <1>8 DEF PassEnds, ScanOver
<1>9. CASE pc' = "down"
  BY <1>9
<1>10. ASSUME NEW c \in Client, ClientStep(c)
       PROVE  PassInv'
  <2>1. /\ UNCHANGED <<pc, ready, readCount, cur>>
        /\ \A s \in Client : Readable(s) => Readable(s)'
        /\ backlog # <<>> => backlog' # <<>>
    BY <1>10, ClientsKeepInput DEF serverVars
  <2> QED
    BY <2>1
<1>11. CASE UNCHANGED vars
  BY <1>11 DEF vars, serverVars, netVars, Readable
<1>12. ASSUME NEW d \in Client, SendNotice(d)
       PROVE  PassInv'
  BY <1>5, <1>12 DEF SendNotice
<1>13. CASE SendAck
  <2>1. cur \in Client
    BY <1>13 DEF SendAck, TypeInv, ServerInv, SendingJustified
  <2> QED
    BY <1>5, <1>13, <2>1 DEF SendAck
<1> QED
  BY <1>3, <1>4, <1>6, <1>7, <1>8, <1>9, <1>10, <1>11, <1>12, <1>13
     DEF Next, ServerNext, ServerStep, Receive, Transmit, Finished, ReceiveFails,
         SendFails, SelectFails, AcceptFails, ServerExit

\* Both hold of the initial state, before any pass.
LEMMA InitPass == Init => PassInv
BY DEF Init, ServerInit, PassInv, ReadCountExact, NeverBlocksOnStaleBit, CurIdle, InPass

\* The invariant of the pass holds of every behaviour.
THEOREM PassInvariance == Spec => []PassInv
<1>1. Init => TypeInv /\ PassInv
  BY InitType, InitPass
<1>2. TypeInv /\ PassInv /\ [Next]_vars => (TypeInv /\ PassInv)'
  BY StepType, StepPass
<1> QED
  BY <1>1, <1>2, PTL DEF Spec

\* readCount, which main compares with 0 to decide on accept() after all the
\* handlers have run (serverMain.cpp:89), is the number of sockets select()
\* reported that have not been handled yet.
THEOREM ReadCountCorrect == Spec => []ReadCountExact
BY PassInvariance, PTL DEF PassInv

\* The blocking recv() and accept() the server calls on a socket whose bit is set
\* return at once, however long ago select() set the bit and whatever the clients
\* did meanwhile.
THEOREM NeverBlocksInReceive == Spec => []NeverBlocksOnStaleBit
BY PassInvariance, PTL DEF PassInv

-----------------------------------------------------------------------------
(* The rooms.                                                              *)

\* What every recv() that does not fail leads to: a request of the socket's own
\* client, or nothing, is handled.
Handling(s, m) ==
  /\ pc = "scan" /\ pc' = "send"
  /\ NextReady(s) /\ cur' = s /\ req' = m
  /\ HandleOther(m) \/ HandleName(s, m) \/ HandleJoin(s, m) \/ HandleChat(s, m)
       \/ HandleExit(s, m)
  /\ UNCHANGED <<conns, link, backlog, s2c>>

\* A recv() that does not fail has handled a request of its own socket, or the
\* zero bytes of the cleared buffer.
LEMMA ReceivedIsHandled ==
  ASSUME TypeInv, NEW s \in Client, ReceiveData(s) \/ ReceiveEnd(s)
  PROVE  \E m \in Request(s) \cup {None} : Handling(s, m)
<1>1. CASE ReceiveData(s)
  <2> DEFINE m == Parsed(Received(buffer, Head(c2s[s])))
  <2>1. Head(c2s[s]) \in Request(s)
    BY <1>1 DEF ReceiveData, TypeInv, ServerInv, RequestsAreOwn
  <2>2. m \in Request(s) \cup {None}
    BY <2>1 DEF Parsed, Received
  <2>3. Handling(s, m)
    BY <1>1 DEF ReceiveData, Handle, Handling
  <2> QED
    BY <2>2, <2>3
<1>2. CASE ReceiveEnd(s)
  <2>1. Parsed(buffer) = None
    BY <1>2 DEF ReceiveEnd, TypeInv, ServerInv, BufferRewound, Parsed
  <2>2. Handling(s, Parsed(buffer))
    BY <1>2 DEF ReceiveEnd, Handle, Handling, netVars
  <2> QED
    BY <2>1, <2>2
<1> QED
  BY <1>1, <1>2

\* Only handling a request changes the three tables.
LEMMA TablesChange ==
  ASSUME TypeInv, [Next]_vars
  PROVE  \/ UNCHANGED tables
         \/ \E s \in Client : ReceiveData(s) \/ ReceiveEnd(s)
<1>1. ASSUME NEW c \in Client, ClientStep(c)
      PROVE  UNCHANGED tables
  BY <1>1, ClientsKeepInput DEF serverVars, tables
<1>2. ASSUME NEW d, NEW p, Send(d, p)
      PROVE  UNCHANGED tables
  BY <1>2 DEF Send, tables
<1>3. CASE SelectFails \/ AcceptFails \/ (\E d \in Client : ReceiveFails(d) \/ SendFails(d))
  BY <1>3 DEF SelectFails, AcceptFails, ReceiveFails, SendFails, ServerExit, tables
<1>4. CASE Select \/ EndHandling \/ Accept \/ PassEnds \/ UNCHANGED vars
  BY <1>4 DEF Select, EndHandling, Accept, PassEnds, vars, serverVars, tables
<1>5. CASE SendAck \/ (\E d \in Client : SendNotice(d))
  BY <1>2, <1>5 DEF SendAck, SendNotice
<1> QED
  BY <1>1, <1>3, <1>4, <1>5 DEF Next, ServerNext, ServerStep, Receive, Transmit, Finished

\* $JOIN$ and $EXIT$ change the two room tables together.
LEMMA StepTables == TypeInv /\ RoomTablesAgree /\ [Next]_vars => RoomTablesAgree'
<1> SUFFICES ASSUME TypeInv, RoomTablesAgree, [Next]_vars
             PROVE  RoomTablesAgree'
  OBVIOUS
<1> USE DEF RoomTablesAgree
<1>1. /\ rooms \in [RoomName -> [Client -> Nat]]
      /\ clientRooms \in [Client -> RoomName]
  BY DEF TypeInv, ServerInv, ServerTypeOK
<1>2. CASE UNCHANGED tables
  BY <1>2 DEF tables
<1>3. ASSUME NEW s \in Client, NEW m \in Request(s) \cup {None}, Handling(s, m)
      PROVE  RoomTablesAgree'
  <2>1. CASE HandleOther(m) \/ HandleName(s, m) \/ HandleChat(s, m)
    BY <2>1 DEF HandleOther, HandleName, HandleChat, tables
  <2>2. CASE HandleJoin(s, m)
    <3>1. m.arg \in RoomName
      BY <2>2, RequestFields DEF HandleJoin
    <3> QED
      BY <1>1, <2>2, <3>1 DEF HandleJoin
  <2>3. CASE HandleExit(s, m)
    BY <1>1, <2>3 DEF HandleExit
  <2> QED
    BY <1>3, <2>1, <2>2, <2>3 DEF Handling
<1> QED
  BY <1>2, <1>3, TablesChange, ReceivedIsHandled

\* The two tables of the rooms agree after every sequence of requests: the room
\* that clientRooms names for a socket has an entry for it.
THEOREM RoomTablesCorrect == Spec => []RoomTablesAgree
<1>1. Init => RoomTablesAgree
  BY DEF Init, ServerInit, RoomTablesAgree
<1> QED
  BY <1>1, StepTables, TypeInvariance, PTL DEF Spec

\* A step that takes a socket out of a room handles the $EXIT$ of that socket.
LEMMA StepExit ==
  ASSUME TypeInv, [Next]_vars, NEW r \in RoomName, NEW c \in Client,
         rooms[r][c] > 0, rooms'[r][c] = 0
  PROVE  cur' = c /\ req'.kind = "EXIT"
<1>1. /\ rooms \in [RoomName -> [Client -> Nat]]
      /\ clientRooms \in [Client -> RoomName]
  BY DEF TypeInv, ServerInv, ServerTypeOK
<1>2. ~UNCHANGED tables
  BY DEF tables
<1>3. PICK s \in Client : \E m \in Request(s) \cup {None} : Handling(s, m)
  BY <1>2, TablesChange, ReceivedIsHandled
<1>4. PICK m \in Request(s) \cup {None} : Handling(s, m)
  BY <1>3
<1>5. ~HandleOther(m) /\ ~HandleName(s, m) /\ ~HandleChat(s, m)
  BY DEF HandleOther, HandleName, HandleChat, tables
<1>6. ~HandleJoin(s, m)
  BY <1>1 DEF HandleJoin
<1>7. HandleExit(s, m)
  BY <1>4, <1>5, <1>6 DEF Handling
<1> QED
  BY <1>1, <1>4, <1>7 DEF Handling, HandleExit

\* A socket loses its place in a room in no other way than by its own $EXIT$.
THEOREM OnlyOwnExitCorrect == Spec => OnlyOwnExitLeaves
<1>1. TypeInv /\ [Next]_vars =>
        [\A r \in RoomName, c \in Client :
           rooms[r][c] > 0 /\ rooms'[r][c] = 0 =>
             cur' = c /\ req'.kind = "EXIT"]_vars
  BY StepExit
<1> QED
  BY <1>1, TypeInvariance, PTL DEF Spec, OnlyOwnExitLeaves

-----------------------------------------------------------------------------
(* The connections.                                                        *)

\* Every connection is known to the server once: it waits for accept() or is in
\* the list, and a client that never connected is in neither.
ConnectedOnce ==
  pc # "down" =>
    /\ \A i, j \in DOMAIN conns : conns[i] = conns[j] => i = j
    /\ \A i, j \in DOMAIN backlog : backlog[i] = backlog[j] => i = j
    /\ \A i \in DOMAIN conns, j \in DOMAIN backlog : conns[i] # backlog[j]
    /\ \A i \in DOMAIN conns : link[conns[i]] # "none"
    /\ \A i \in DOMAIN backlog : link[backlog[i]] # "none"

\* Whoever is in a room is in the connection list.
MembersAccepted ==
  pc # "down" => \A r \in RoomName, c \in Client : rooms[r][c] > 0 => c \in Accepted

\* Only connect() and accept() touch the two lists while the server runs, and a
\* connection never becomes unconnected again.
LEMMA ListsChange ==
  ASSUME TypeInv, [Next]_vars, pc' # "down"
  PROVE  \/ /\ UNCHANGED <<conns, backlog>> /\ pc # "down"
            /\ \A c \in Client : link[c] # "none" => link'[c] # "none"
         \/ \E c \in Client : Connect(c)
         \/ Accept
<1> USE DEF TypeInv, ServerInv, NetTypeOK
<1>1. ASSUME NEW c \in Client, ClientStep(c), ~Connect(c)
      PROVE  /\ UNCHANGED <<conns, backlog, pc>>
             /\ \A d \in Client : link[d] # "none" => link'[d] # "none"
  BY <1>1 DEF ClientStep, SendRequest, ReadReplies, Close, CloseClientEnd, Reset,
     ResetLink, serverVars
<1>2. ASSUME NEW d \in Client, NEW p, Send(d, p)
      PROVE  /\ UNCHANGED <<conns, backlog, pc>>
             /\ \A e \in Client : link[e] # "none" => link'[e] # "none"
  BY <1>2 DEF Send, ResetLink
<1>3. ASSUME NEW s \in Client, ReceiveData(s) \/ ReceiveEnd(s)
      PROVE  UNCHANGED <<conns, backlog, link>> /\ pc = "scan"
  BY <1>3 DEF ReceiveData, ReceiveEnd, Handle, netVars
<1>4. CASE Select \/ EndHandling \/ PassEnds
  BY <1>4 DEF Select, EndHandling, PassEnds, ScanOver, netVars
<1>5. CASE UNCHANGED vars
  BY <1>5 DEF vars, serverVars, netVars
<1>6. ASSUME SendAck \/ (\E d \in Client : SendNotice(d))
      PROVE  /\ UNCHANGED <<conns, backlog, pc>> /\ pc = "send"
             /\ \A e \in Client : link[e] # "none" => link'[e] # "none"
  BY <1>2, <1>6 DEF SendAck, SendNotice, SendingJustified
<1>7. ~SelectFails /\ ~AcceptFails
      /\ \A d \in Client : ~ReceiveFails(d) /\ ~SendFails(d)
  BY DEF SelectFails, AcceptFails, ReceiveFails, SendFails, ServerExit
<1> QED
  BY <1>1, <1>3, <1>4, <1>5, <1>6, <1>7
     DEF Next, ServerNext, ServerStep, Receive, Transmit, Finished

\* connect() adds an unknown connection, accept() moves one from list to list.
LEMMA StepConnected == TypeInv /\ ConnectedOnce /\ [Next]_vars => ConnectedOnce'
<1> SUFFICES ASSUME TypeInv, ConnectedOnce, [Next]_vars, pc' # "down"
             PROVE  ConnectedOnce'
  BY DEF ConnectedOnce
<1>1. /\ link \in [Client -> LinkState]
      /\ backlog \in Seq(Client) /\ conns \in Seq(Client)
  BY DEF TypeInv, ServerInv, NetTypeOK, ServerTypeOK
<1>2. CASE /\ UNCHANGED <<conns, backlog>> /\ pc # "down"
           /\ \A c \in Client : link[c] # "none" => link'[c] # "none"
  BY <1>1, <1>2 DEF ConnectedOnce
<1>3. ASSUME NEW c \in Client, Connect(c)
      PROVE  ConnectedOnce'
  <2>1. /\ link[c] = "none" /\ pc # "down"
        /\ link' = [link EXCEPT ![c] = "up"]
        /\ backlog' = Append(backlog, c) /\ conns' = conns
    BY <1>3 DEF Connect, Connected, serverVars
  <2>2. /\ DOMAIN backlog = 1 .. Len(backlog) /\ Len(backlog) \in Nat
        /\ DOMAIN backlog' = 1 .. Len(backlog) + 1
        /\ \A i \in 1 .. Len(backlog) : backlog'[i] = backlog[i]
        /\ backlog'[Len(backlog) + 1] = c
    BY <1>1, <2>1, AppendProperties, LenProperties
  <2>3. \A i \in DOMAIN backlog : backlog[i] # c /\ backlog[i] \in Client
    BY <1>1, <2>1, <2>2 DEF ConnectedOnce
  <2>4. \A i \in DOMAIN conns : conns[i] # c /\ conns[i] \in Client
    BY <1>1, <2>1 DEF ConnectedOnce
  <2> QED
    BY <1>1, <2>1, <2>2, <2>3, <2>4 DEF ConnectedOnce
<1>4. CASE Accept
  <2>1. /\ pc # "down" /\ backlog # <<>> /\ link' = link
        /\ backlog' = Tail(backlog) /\ conns' = Append(conns, Head(backlog))
    BY <1>4 DEF Accept, ScanOver
  <2>2. /\ DOMAIN backlog = 1 .. Len(backlog) /\ Len(backlog) \in Nat \ {0}
        /\ Head(backlog) = backlog[1]
        /\ DOMAIN backlog' = 1 .. Len(backlog) - 1
        /\ \A i \in 1 .. Len(backlog) - 1 : backlog'[i] = backlog[i + 1]
    BY <1>1, <2>1, HeadTailProperties, LenProperties, EmptySeq
  <2>3. /\ DOMAIN conns = 1 .. Len(conns) /\ Len(conns) \in Nat
        /\ DOMAIN conns' = 1 .. Len(conns) + 1
        /\ \A i \in 1 .. Len(conns) : conns'[i] = conns[i]
        /\ conns'[Len(conns) + 1] = backlog[1]
    BY <1>1, <2>1, <2>2, AppendProperties, LenProperties
  <2> QED
    BY <2>1, <2>2, <2>3 DEF ConnectedOnce
<1> QED
  BY <1>2, <1>3, <1>4, ListsChange

\* Only a socket that select() reported joins a room, and as long as the server
\* runs no socket leaves the connection list.
LEMMA StepMembers == TypeInv /\ MembersAccepted /\ [Next]_vars => MembersAccepted'
<1> SUFFICES ASSUME TypeInv, MembersAccepted, [Next]_vars, pc' # "down"
             PROVE  MembersAccepted'
  BY DEF MembersAccepted
<1>1. /\ rooms \in [RoomName -> [Client -> Nat]]
      /\ clientRooms \in [Client -> RoomName]
      /\ backlog \in Seq(Client) /\ conns \in Seq(Client)
  BY DEF TypeInv, ServerInv, NetTypeOK, ServerTypeOK
<1>2. pc # "down" /\ Accepted \subseteq Accepted'
  <2>1. CASE UNCHANGED conns /\ pc # "down"
    BY <2>1 DEF Accepted
  <2>2. CASE Accept
    <3>1. Head(backlog) \in Client /\ conns' = Append(conns, Head(backlog))
      BY <1>1, <2>2 DEF Accept
    <3>2. /\ DOMAIN conns = 1 .. Len(conns) /\ Len(conns) \in Nat
          /\ DOMAIN conns' = 1 .. Len(conns) + 1
          /\ \A i \in 1 .. Len(conns) : conns'[i] = conns[i]
      BY <1>1, <3>1, AppendProperties, LenProperties
    <3> QED
      BY <2>2, <3>2 DEF Accept, ScanOver, Accepted
  <2>3. ASSUME NEW c \in Client, Connect(c)
        PROVE  UNCHANGED conns /\ pc # "down"
    BY <2>3 DEF Connect, serverVars
  <2> QED
    BY <2>1, <2>2, <2>3, ListsChange
<1>3. CASE UNCHANGED tables
  BY <1>2, <1>3 DEF MembersAccepted, tables
<1>4. ASSUME NEW s \in Client, NEW m \in Request(s) \cup {None}, Handling(s, m)
      PROVE  MembersAccepted'
  <2>1. s \in Accepted
    BY <1>4 DEF Handling, NextReady, Accepted
  <2>2. CASE HandleOther(m) \/ HandleName(s, m) \/ HandleChat(s, m)
    BY <1>2, <2>2 DEF HandleOther, HandleName, HandleChat, tables, MembersAccepted
  <2>3. CASE HandleJoin(s, m)
    BY <1>1, <1>2, <2>1, <2>3 DEF HandleJoin, MembersAccepted
  <2>4. CASE HandleExit(s, m)
    BY <1>1, <1>2, <2>4 DEF HandleExit, MembersAccepted
  <2> QED
    BY <1>4, <2>2, <2>3, <2>4 DEF Handling
<1> QED
  BY <1>3, <1>4, TablesChange, ReceivedIsHandled

\* As long as the server runs, a socket found in a room is an accepted connection
\* that select() still watches, and no connection is in the list twice.
THEOREM RoomsHoldConnectionsCorrect == Spec => []RoomsHoldConnections
<1>1. Init => ConnectedOnce /\ MembersAccepted
  BY DEF Init, NetInit, ServerInit, ConnectedOnce, MembersAccepted, NoOne
<1>2. ConnectedOnce /\ MembersAccepted => RoomsHoldConnections
  BY DEF ConnectedOnce, MembersAccepted, RoomsHoldConnections
<1> QED
  BY <1>1, <1>2, StepConnected, StepMembers, TypeInvariance, PTL DEF Spec

-----------------------------------------------------------------------------
(* The answers.                                                            *)

\* The names the server knows are the ones the clients gave themselves, and a
\* socket is not among those told of its own $JOIN$ or $EXIT$.
NamesAreOwn == \A c \in Client : clientName[c] \in {c, None}

OthersAreTold ==
  pc = "send" /\ req \in Packet /\ req.kind \in {"JOIN", "EXIT"} => fan[cur] = 0

AnswerInv == NamesAreOwn /\ OthersAreTold /\ AnswersReachTheirClient

\* What a packet of a fan-out says of the receiver and of the others.
LEMMA AnswersAreRight ==
  ASSUME TypeInv, NamesAreOwn, OthersAreTold, pc = "send"
  PROVE  /\ ack => RightFor(cur, Ack)
         /\ \A d \in Client : ~ack /\ fan[d] > 0 => RightFor(d, Notice(d))
<1>1. cur \in Client /\ clientName[cur] \in {cur, None} /\ None \notin Client
  BY PacketsAssumption
     DEF PacketsAssumption, TypeInv, ServerInv, SendingJustified, NamesAreOwn
<1>2. ASSUME ack
      PROVE  RightFor(cur, Ack)
  BY <1>1, <1>2 DEF TypeInv, ServerInv, SendingJustified, RightFor, Ack, ReplyKind
<1>3. ASSUME NEW d \in Client, ~ack, fan[d] > 0
      PROVE  RightFor(d, Notice(d))
  <2>1. req \in Packet /\ req.kind \in {"JOIN", "CHAT", "EXIT"}
    BY <1>3 DEF TypeInv, ServerInv, SendingJustified
  <2>2. CASE req.kind = "CHAT"
    BY <1>1, <2>2 DEF RightFor, Notice, ReplyKind
  <2>3. CASE req.kind \in {"JOIN", "EXIT"}
    <3>1. d # cur
      BY <1>3, <2>1, <2>3 DEF OthersAreTold
    <3> QED
      BY <1>1, <2>3, <3>1 DEF RightFor, Notice, ReplyKind
  <2> QED
    BY <2>1, <2>2, <2>3
<1> QED
  BY <1>2, <1>3

\* A stream towards a client changes in four ways: it is read from the front,
\* lost, or a send() puts the answer or a copy of the notification behind it.
LEMMA StreamsChange ==
  ASSUME TypeInv, [Next]_vars, NEW c \in Client
  PROVE  \/ s2c'[c] = s2c[c]
         \/ s2c'[c] = <<>>
         \/ \E n \in Batch(s2c[c]) : s2c'[c] = Rest(s2c[c], n)
         \/ pc = "send" /\ ack /\ c = cur /\ s2c'[c] = Append(s2c[c], Ack)
         \/ pc = "send" /\ ~ack /\ fan[c] > 0 /\ s2c'[c] = Append(s2c[c], Notice(c))
<1> USE DEF TypeInv, ServerInv, NetTypeOK
<1>1. ASSUME NEW d \in Client, NEW p, Send(d, p)
      PROVE  s2c'[c] = s2c[c] \/ s2c'[c] = <<>> \/ (c = d /\ s2c'[c] = Append(s2c[c], p))
  BY <1>1 DEF Send, ResetLink, Written, OnWire, BufferRewound
<1>2. CASE SendAck
  BY <1>1, <1>2 DEF SendAck, SendingJustified
<1>3. ASSUME NEW d \in Client, SendNotice(d)
      PROVE  \/ s2c'[c] = s2c[c] \/ s2c'[c] = <<>>
             \/ /\ pc = "send" /\ ~ack /\ fan[c] > 0
                /\ s2c'[c] = Append(s2c[c], Notice(c))
  BY <1>1, <1>3 DEF SendNotice
<1>4. ASSUME NEW d \in Client, ReadReplies(d)
      PROVE  s2c'[c] = s2c[c] \/ \E n \in Batch(s2c[c]) : s2c'[c] = Rest(s2c[c], n)
  BY <1>4 DEF ReadReplies
<1>5. ASSUME NEW d \in Client, ClientStep(d), ~ReadReplies(d)
      PROVE  s2c'[c] = s2c[c] \/ s2c'[c] = <<>>
  BY <1>5 DEF ClientStep, Connect, Connected, SendRequest, Close, CloseClientEnd, Reset,
     ResetLink
<1>6. ASSUME ServerExit
      PROVE  s2c'[c] = s2c[c] \/ s2c'[c] = <<>>
  BY <1>6 DEF ServerExit, CloseServerEnds
<1>7. ASSUME NEW s \in Client, ReceiveData(s) \/ ReceiveEnd(s)
      PROVE  s2c'[c] = s2c[c]
  BY <1>7 DEF ReceiveData, ReceiveEnd, netVars
<1>8. CASE Select \/ EndHandling \/ Accept \/ PassEnds \/ UNCHANGED vars
  BY <1>8 DEF Select, EndHandling, Accept, PassEnds, vars, netVars
<1>9. CASE SelectFails \/ AcceptFails \/ (\E d \in Client : ReceiveFails(d) \/ SendFails(d))
  BY <1>6, <1>9 DEF SelectFails, AcceptFails, ReceiveFails, SendFails
<1> QED
  BY <1>2, <1>3, <1>4, <1>5, <1>7, <1>8, <1>9
     DEF Next, ServerNext, ServerStep, Receive, Transmit, Finished

\* Names are set by the client's own $NAME$ only; the list of those to be told is
\* made when a request is handled and only shrinks afterwards.
LEMMA StepNames == TypeInv /\ NamesAreOwn /\ [Next]_vars => NamesAreOwn'
<1> SUFFICES ASSUME TypeInv, NamesAreOwn, [Next]_vars
             PROVE  NamesAreOwn'
  OBVIOUS
<1> USE DEF NamesAreOwn
<1>1. clientName \in [Client -> Client \cup {None}]
  BY DEF TypeInv, ServerInv, ServerTypeOK
<1>2. CASE UNCHANGED tables
  BY <1>2 DEF tables
<1>3. ASSUME NEW s \in Client, NEW m \in Request(s) \cup {None}, Handling(s, m)
      PROVE  NamesAreOwn'
  <2>1. CASE HandleOther(m) \/ HandleJoin(s, m) \/ HandleChat(s, m) \/ HandleExit(s, m)
    BY <2>1 DEF HandleOther, HandleJoin, HandleChat, HandleExit, tables
  <2>2. CASE HandleName(s, m)
    <3>1. m.who = s
      BY <2>2, RequestFields DEF HandleName
    <3> QED
      BY <1>1, <2>2, <3>1 DEF HandleName
  <2> QED
    BY <1>3, <2>1, <2>2 DEF Handling
<1> QED
  BY <1>2, <1>3, TablesChange, ReceivedIsHandled

\* The socket whose request is handled stays out of the list of those told.
LEMMA StepOthers ==
  TypeInv /\ TypeInv' /\ OthersAreTold /\ [Next]_vars => OthersAreTold'
<1> SUFFICES ASSUME TypeInv, TypeInv', OthersAreTold, [Next]_vars, pc' = "send"
             PROVE  OthersAreTold'
  BY DEF OthersAreTold
<1> USE DEF OthersAreTold
<1>1. fan \in [Client -> Nat] /\ (pc = "send" => cur \in Client)
  BY DEF TypeInv, ServerInv, ServerTypeOK, SendingJustified
<1>2. ASSUME NEW s \in Client, NEW m \in Request(s) \cup {None}, Handling(s, m)
      PROVE  OthersAreTold'
  <2>1. rooms \in [RoomName -> [Client -> Nat]] /\ clientRooms \in [Client -> RoomName]
    BY DEF TypeInv, ServerInv, ServerTypeOK
  <2>2. cur' = s /\ req' = m
    BY <1>2 DEF Handling
  <2>3. CASE HandleOther(m) \/ HandleName(s, m)
    BY <2>2, <2>3 DEF HandleOther, HandleName, NoOne
  <2>4. CASE HandleJoin(s, m)
    <3>1. m.arg \in RoomName
      BY <2>4, RequestFields DEF HandleJoin
    <3> QED
      BY <2>1, <2>2, <2>4, <3>1 DEF HandleJoin
  <2>5. CASE HandleChat(s, m)
    BY <2>2, <2>5 DEF HandleChat
  <2>6. CASE HandleExit(s, m)
    BY <2>1, <2>2, <2>6 DEF HandleExit
  <2> QED
    BY <1>2, <2>3, <2>4, <2>5, <2>6 DEF Handling
<1>3. CASE SendAck
  BY <1>1, <1>3 DEF SendAck, Send
<1>4. ASSUME NEW d \in Client, SendNotice(d)
      PROVE  OthersAreTold'
  <2>1. UNCHANGED <<cur, req, pc>> /\ fan' = [fan EXCEPT ![d] = @ - 1] /\ fan[d] > 0
    BY <1>4 DEF SendNotice, Send
  <2> QED
    BY <1>1, <2>1
<1>5. ASSUME NEW c \in Client, ClientStep(c)
      PROVE  OthersAreTold'
  <2>1. UNCHANGED <<cur, req, pc, fan>>
    BY <1>5, ClientsKeepInput DEF serverVars
  <2> QED
    BY <2>1
<1>6. CASE UNCHANGED vars
  BY <1>6 DEF vars, serverVars
<1>7. ~Select /\ ~EndHandling /\ ~Accept /\ ~PassEnds
  BY DEF Select, EndHandling, Accept, PassEnds
<1>8. ~SelectFails /\ ~AcceptFails /\ \A d \in Client : ~ReceiveFails(d) /\ ~SendFails(d)
  BY DEF SelectFails, AcceptFails, ReceiveFails, SendFails, ServerExit
<1> QED
  BY <1>2, <1>3, <1>4, <1>5, <1>6, <1>7, <1>8, ReceivedIsHandled
     DEF Next, ServerNext, ServerStep, Receive, Transmit, Finished

\* With all this, every step leaves only right answers in the streams.
LEMMA StepAnswers ==
  TypeInv /\ NamesAreOwn /\ OthersAreTold /\ AnswersReachTheirClient /\ [Next]_vars
    => AnswersReachTheirClient'
<1> SUFFICES ASSUME TypeInv, NamesAreOwn, OthersAreTold, AnswersReachTheirClient,
                    [Next]_vars, NEW c \in Client
             PROVE  \A i \in DOMAIN s2c'[c] : RightFor(c, s2c'[c][i])
  BY DEF AnswersReachTheirClient, RightFor
<1>1. /\ s2c[c] \in Seq(Packet) /\ Len(s2c[c]) \in Nat
      /\ DOMAIN s2c[c] = 1 .. Len(s2c[c])
      /\ \A i \in DOMAIN s2c[c] : RightFor(c, s2c[c][i])
  BY LenProperties DEF TypeInv, ServerInv, NetTypeOK, AnswersReachTheirClient
<1>2. CASE s2c'[c] = s2c[c] \/ s2c'[c] = <<>>
  BY <1>1, <1>2
<1>3. ASSUME NEW n \in Batch(s2c[c]), s2c'[c] = Rest(s2c[c], n)
      PROVE  \A i \in DOMAIN s2c'[c] : RightFor(c, s2c'[c][i])
  <2>1. n \in Nat /\ n <= Len(s2c[c]) /\ n \in Int
    BY PacketsAssumption DEF PacketsAssumption, Batch
  <2>2. \A i \in 1 .. Len(s2c[c]) - n :
          i + n \in DOMAIN s2c[c] /\ s2c'[c][i] = s2c[c][i + n]
    BY <1>1, <1>3, <2>1 DEF Rest
  <2>3. DOMAIN s2c'[c] = 1 .. Len(s2c[c]) - n
    BY <1>1, <1>3, <2>1 DEF Rest
  <2> QED
    BY <1>1, <2>2, <2>3
<1>4. ASSUME NEW p \in Packet, s2c'[c] = Append(s2c[c], p), RightFor(c, p)
      PROVE  \A i \in DOMAIN s2c'[c] : RightFor(c, s2c'[c][i])
  <2>1. /\ DOMAIN s2c'[c] = 1 .. Len(s2c[c]) + 1
        /\ \A i \in 1 .. Len(s2c[c]) : s2c'[c][i] = s2c[c][i]
        /\ s2c'[c][Len(s2c[c]) + 1] = p
    BY <1>1, <1>4, AppendProperties, LenProperties
  <2>2. ASSUME NEW i \in 1 .. Len(s2c[c]) + 1
        PROVE  RightFor(c, s2c'[c][i])
    <3>1. CASE i = Len(s2c[c]) + 1
      BY <1>4, <2>1, <3>1
    <3>2. CASE i \in 1 .. Len(s2c[c])
      BY <1>1, <2>1, <3>2
    <3> QED
      BY <1>1, <3>1, <3>2
  <2> QED
    BY <2>1, <2>2
<1> QED
  BY <1>2, <1>3, <1>4, StreamsChange, AnswersAreRight, AnswersArePackets DEF TypeInv

\* The strengthened invariant of the answers.
THEOREM AnswerInvariance == Spec => []AnswerInv
<1>1. Init => AnswerInv
  BY DEF Init, NetInit, ServerInit, AnswerInv, NamesAreOwn, OthersAreTold,
     AnswersReachTheirClient
<1>2. TypeInv /\ TypeInv' /\ AnswerInv /\ [Next]_vars => AnswerInv'
  BY StepNames, StepOthers, StepAnswers DEF AnswerInv
<1> QED
  BY <1>1, <1>2, TypeInvariance, PTL DEF Spec

\* One vector is reused for the request and for every packet of a fan-out, yet
\* no client is ever sent the answer of another one or its own line as another's.
THEOREM AnswersCorrect == Spec => []AnswersReachTheirClient
BY AnswerInvariance, PTL DEF AnswerInv

=============================================================================
