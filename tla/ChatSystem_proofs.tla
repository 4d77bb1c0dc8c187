-------------------------- MODULE ChatSystem_proofs --------------------------
(***************************************************************************)
(* Proofs for the whole program, for every number of clients, rooms and    *)
(* lines, every buffer size, patient and impatient users: what a client    *)
(* does to the server is what OpenServer allows, a client writes at the    *)
(* start of its buffer only, and members of rooms have names.              *)
(***************************************************************************)
EXTENDS ChatSystem, SequenceTheorems, TLAPS

-----------------------------------------------------------------------------
(* The server's steps are the same in both systems.                        *)

\* Ending the process.
LEMMA SameExit == ServerExit <=> Open!ServerExit
BY DEF ServerExit, Open!ServerExit, CloseServerEnds, Open!CloseServerEnds, tables,
   Open!tables

\* Handling what recv() left in the buffer.
LEMMA SameHandle ==
  ASSUME NEW s, NEW b
  PROVE  Handle(s, b) <=> Open!Handle(s, b)
<1>1. Parsed(b) = Open!Parsed(b) /\ Consumed(b) = Open!Consumed(b)
  BY DEF Parsed, Open!Parsed, Consumed, Open!Consumed
<1>2. ASSUME NEW m
      PROVE  /\ HandleOther(m) <=> Open!HandleOther(m)
             /\ HandleName(s, m) <=> Open!HandleName(s, m)
             /\ HandleJoin(s, m) <=> Open!HandleJoin(s, m)
             /\ HandleChat(s, m) <=> Open!HandleChat(s, m)
             /\ HandleExit(s, m) <=> Open!HandleExit(s, m)
  BY DEF HandleOther, Open!HandleOther, HandleName, Open!HandleName,
     HandleJoin, Open!HandleJoin, HandleChat, Open!HandleChat,
     HandleExit, Open!HandleExit, NoOne, Open!NoOne, tables, Open!tables,
     RequestKind, Open!RequestKind
<1> QED
  BY <1>1, <1>2 DEF Handle, Open!Handle

\* Receiving.
LEMMA SameReceive ==
  ASSUME NEW s
  PROVE  /\ ReceiveData(s) <=> Open!ReceiveData(s)
         /\ ReceiveEnd(s) <=> Open!ReceiveEnd(s)
         /\ ReceiveFails(s) <=> Open!ReceiveFails(s)
<1>1. NextReady(s) <=> Open!NextReady(s)
  BY DEF NextReady, Open!NextReady
<1>2. ReceiveData(s) <=> Open!ReceiveData(s)
  BY <1>1, SameHandle DEF ReceiveData, Open!ReceiveData, Batch, Open!Batch, Rest, Open!Rest,
     Received, Open!Received
<1>3. ReceiveEnd(s) <=> Open!ReceiveEnd(s)
  BY <1>1, SameHandle DEF ReceiveEnd, Open!ReceiveEnd, netVars, Open!netVars
<1>4. ReceiveFails(s) <=> Open!ReceiveFails(s)
  BY <1>1, SameExit DEF ReceiveFails, Open!ReceiveFails
<1> QED
  BY <1>2, <1>3, <1>4

\* Sending.
LEMMA SameSend ==
  ASSUME NEW d
  PROVE  /\ SendAck <=> Open!SendAck
         /\ SendNotice(d) <=> Open!SendNotice(d)
         /\ SendFails(d) <=> Open!SendFails(d)
<1>1. Ack = Open!Ack /\ Notice(d) = Open!Notice(d)
  BY DEF Ack, Open!Ack, Notice, Open!Notice
<1>2. ASSUME NEW e, NEW p
      PROVE  Send(e, p) <=> Open!Send(e, p)
  BY DEF Send, Open!Send, Written, Open!Written, OnWire, Open!OnWire, ResetLink,
     Open!ResetLink, ClearBuffer, Open!ClearBuffer, tables, Open!tables
<1>3. SendAck <=> Open!SendAck
  BY <1>1, <1>2 DEF SendAck, Open!SendAck
<1>4. SendNotice(d) <=> Open!SendNotice(d)
  BY <1>1, <1>2 DEF SendNotice, Open!SendNotice
<1>5. SendFails(d) <=> Open!SendFails(d)
  BY SameExit DEF SendFails, Open!SendFails
<1> QED
  BY <1>3, <1>4, <1>5

\* All of them.
LEMMA SameServer == ServerNext <=> Open!ServerNext
<1>1. Select <=> Open!Select
  BY Zenon DEF Select, Open!Select, Polled, Open!Polled, Readable, Open!Readable, tables,
     Open!tables, netVars, Open!netVars, Cardinality, Open!Cardinality
<1>2. EndHandling <=> Open!EndHandling
  BY DEF EndHandling, Open!EndHandling, NoOne, Open!NoOne, ClearBuffer, Open!ClearBuffer,
     tables, Open!tables, netVars, Open!netVars
<1>3. /\ Accept <=> Open!Accept
      /\ PassEnds <=> Open!PassEnds
      /\ AcceptFails <=> Open!AcceptFails
      /\ SelectFails <=> Open!SelectFails
  BY SameExit DEF Accept, Open!Accept, PassEnds, Open!PassEnds, AcceptFails,
     Open!AcceptFails, SelectFails, Open!SelectFails, ScanOver, Open!ScanOver, AcceptDue,
     Open!AcceptDue, Accepted, Open!Accepted, tables, Open!tables, netVars, Open!netVars
<1> QED
  BY <1>1, <1>2, <1>3, SameReceive, SameSend
     DEF ServerNext, Open!ServerNext, ServerStep, Open!ServerStep, Receive, Open!Receive,
     Transmit, Open!Transmit

-----------------------------------------------------------------------------
(* What is always true of a client.                                        *)

\* The connection goes with the place the client is at; a buffer whose write
\* index has moved holds a request of the client; and the requests are counted.
ClientFits(c) ==
  /\ cpc[c] = "start" => link[c] = "none"
  /\ link[c] = "none" => s2c[c] = <<>>
  /\ link[c] = "cfin" => cpc[c] = "gone"
  /\ cbuf[c].wi => cbuf[c].data \in Request(c)
  /\ cpc[c] \in {"start", "name"} => cmds[c] = 0
  /\ cpc[c] \in {"room", "text", "exit"} => cmds[c] <= MaxCmds[c]

ClientShape ==
  /\ link \in [Client -> LinkState]
  /\ s2c = [c \in Client |-> s2c[c]]
  /\ cpc \in [Client -> ClientPc]
  /\ cbuf = [c \in Client |-> cbuf[c]]
  /\ cmds \in [Client -> Nat]

ConformInv == ClientShape /\ \A c \in Client : ClientFits(c)

\* The bound on the requests leaves room for each a client still makes.
LEMMA RequestsBounded ==
  ASSUME ConformInv, NEW c \in Client,
         cpc[c] \in {"name", "room", "text", "exit"} \/ cmds[c] <= MaxCmds[c]
  PROVE  cmds[c] \in Nat /\ cmds[c] < MaxSends
<1>1. MaxCmds[c] \in 0 .. MaxSends - 1 /\ MaxSends \in Nat
  BY SystemAssumption DEF SystemAssumption
<1> QED
  BY <1>1 DEF ConformInv, ClientShape, ClientFits

\* A packet a client writes to its buffer leaves a request of the client there.
LEMMA WrittenIsRequest ==
  ASSUME NEW c, NEW b, NEW p \in Request(c), b.wi => b.data \in Request(c)
  PROVE  Written(b, p).wi /\ Written(b, p).data \in Request(c)
BY DEF Written

\* So what WriteResponse does is what OpenServer allows.
LEMMA WriteConforms ==
  ASSUME ConformInv, NEW c \in Client, NEW p \in Request(c),
         WriteResponse(c, p), CountRequest(c), UNCHANGED serverVars,
         cmds[c] < MaxSends
  PROVE  Open!ClientStep(c)
<1> DEFINE m == OnWire(Written(cbuf[c], p))
<1>1. m \in Request(c)
  BY WrittenIsRequest DEF ConformInv, ClientFits, OnWire
<1>2. CASE link[c] = "up" /\ Len(c2s[c]) < UpCap
  <2>1. /\ c2s' = [c2s EXCEPT ![c] = Append(@, m)]
        /\ UNCHANGED <<link, backlog, s2c>>
    BY <1>2 DEF WriteResponse
  <2>2. cmds' = [cmds EXCEPT ![c] = @ + 1]
    BY <1>2, <2>1 DEF CountRequest
  <2>3. Open!SendRequest(c, m)
    BY <1>2, <2>1, <2>2 DEF Open!SendRequest, Open!serverVars, serverVars
  <2>4. m \in Open!Request(c)
    BY <1>1 DEF Request, Open!Request, Name, Open!Name, Join, Open!Join, Chat,
       Open!Chat, Exit, Open!Exit
  <2> HIDE DEF m
  <2> QED
    BY <2>3, <2>4 DEF Open!ClientStep
<1>3. CASE link[c] = "sfin" /\ ResetLink(c)
  <2>1. link'[c] = "rst"
    BY <1>3 DEF ResetLink, ConformInv, ClientShape
  <2>2. UNCHANGED <<cmds, backlog>>
    BY <2>1 DEF CountRequest, WriteResponse
  <2> QED
    BY <1>3, <2>2 DEF Open!ClientStep, Open!Reset, Open!ResetLink, ResetLink,
       Open!serverVars, serverVars
<1> QED
  BY <1>2, <1>3 DEF WriteResponse

\* Every step of a client is one OpenServer has, or changes nothing there.
LEMMA ClientConforms ==
  ASSUME ConformInv, NEW c \in Client, ClientStep(c)
  PROVE  Open!ClientStep(c) \/ UNCHANGED Open!vars
<1> USE DEF ConformInv, ClientFits
<1> USE DEF Open!vars, Open!netVars, Open!serverVars, Open!tables,
            netVars, serverVars, tables
<1>0. UNCHANGED serverVars
  BY DEF ClientStep
<1>1. CASE Start(c)
  <2>1. CASE pc # "down"
    BY <1>0, <1>1, <2>1 DEF Start, ConnectSocket, Connected, Open!ClientStep, Open!Connect,
       Open!Connected, userVars
  <2>2. CASE pc = "down"
    BY <1>0, <1>1, <2>2 DEF Start, ConnectSocket, userVars
  <2> QED
    BY <2>1, <2>2
<1>2. CASE Introduce(c)
  <2>1. Name(c) \in Request(c) /\ cmds[c] < MaxSends
    BY <1>2, RequestsBounded DEF Introduce, EnterName, Request
  <2> QED
    BY <1>0, <1>2, <2>1, WriteConforms DEF Introduce, EnterName
<1>3. CASE Press(c)
  BY <1>0, <1>3 DEF Press, PressEsc, PressJ, PressTab, PressE, userVars
<1>4. CASE Ask(c)
  <2>1. CASE \E r \in Room : EnterRoom(c, r)
    <3>1. PICK r \in Room : EnterRoom(c, r)
      BY <2>1
    <3>2. Join(c, r) \in Request(c) /\ cmds[c] < MaxSends
      BY <3>1, RequestsBounded DEF EnterRoom, Request
    <3> QED
      BY <1>0, <1>4, <3>1, <3>2, WriteConforms DEF Ask, EnterRoom
  <2>2. CASE SendExit(c)
    <3>1. Exit(c) \in Request(c) /\ cmds[c] < MaxSends
      BY <2>2, RequestsBounded DEF SendExit, Request
    <3> QED
      BY <1>0, <1>4, <2>2, <3>1, WriteConforms DEF Ask, SendExit
  <2> QED
    BY <1>4, <2>1, <2>2 DEF Ask
<1>5. CASE Say(c)
  <2>1. PICK t \in Text : EnterText(c, t)
    BY <1>5 DEF Say
  <2>2. Chat(c, t) \in Request(c) /\ cmds[c] < MaxSends
    BY <2>1, RequestsBounded DEF EnterText, Request
  <2> QED
    BY <1>0, <1>5, <2>1, <2>2, WriteConforms DEF Say, EnterText
<1>6. CASE Loop(c)
  <2>1. UNCHANGED cmds
    BY <1>6 DEF Loop
  <2>2. CASE PollNothing(c) \/ PollEnd(c) \/ PollFails(c)
    BY <1>0, <2>1, <2>2 DEF PollNothing, PollEnd, PollFails
  <2>3. CASE PollPacket(c)
    <3>1. link[c] \in {"up", "sfin"}
      BY <2>3 DEF PollPacket, Polling, ClientShape, LinkState
    <3>2. PICK n \in Batch(s2c[c]) : s2c' = [s2c EXCEPT ![c] = Rest(@, n)]
      BY <2>3 DEF PollPacket
    <3>3. n \in Open!Batch(s2c[c]) /\ s2c' = [s2c EXCEPT ![c] = Open!Rest(@, n)]
      BY <3>2 DEF Batch, Open!Batch, Rest, Open!Rest
    <3>4. Open!ReadReplies(c)
      BY <1>0, <2>1, <2>3, <3>1, <3>3 DEF PollPacket, Open!ReadReplies
    <3> QED
      BY <3>4 DEF Open!ClientStep
  <2> QED
    BY <1>6, <2>2, <2>3 DEF Loop
<1>7. CASE Leave(c)
  BY <1>0, <1>7 DEF Leave, Quit, userVars, Open!ClientStep, Open!Close, Open!Reset,
     CloseClientEnd, Open!CloseClientEnd, ResetLink, Open!ResetLink
<1>8. CASE WriteResponseFails(c) /\ UNCHANGED userVars
  BY <1>0, <1>8 DEF WriteResponseFails, userVars
<1> QED
  BY <1>1, <1>2, <1>3, <1>4, <1>5, <1>6, <1>7, <1>8 DEF ClientStep

\* So is every step of the program.
LEMMA StepConforms == ConformInv /\ [Next]_vars => [Open!Next]_Open!vars
<1> SUFFICES ASSUME ConformInv, [Next]_vars
             PROVE  [Open!Next]_Open!vars
  OBVIOUS
<1>1. CASE ServerNext /\ UNCHANGED <<clientVars, userVars>>
  BY <1>1, SameServer DEF userVars, Open!Next
<1>2. ASSUME NEW c \in Client, ClientStep(c)
      PROVE  [Open!Next]_Open!vars
  BY <1>2, ClientConforms DEF Open!Next
<1>3. CASE UNCHANGED vars
  BY <1>3 DEF vars, userVars, Open!vars, netVars, Open!netVars, serverVars,
     Open!serverVars
<1> QED
  BY <1>1, <1>2, <1>3 DEF Next, Ended

-----------------------------------------------------------------------------
(* The invariant is inductive.                                             *)

\* It holds at the start.
LEMMA InitConform == Init => ConformInv /\ Open!Init
<1> SUFFICES ASSUME Init
             PROVE  ConformInv /\ Open!Init
  OBVIOUS
<1>1. ClientShape
  BY DEF Init, NetInit, ClientInit, ClientShape, LinkState, ClientPc
<1>2. \A c \in Client : ClientFits(c)
  BY DEF Init, NetInit, ClientInit, ClientFits, Fresh
<1>3. Open!Init
  BY DEF Init, NetInit, ServerInit, Open!Init, Open!NetInit, Open!ServerInit, NoOne,
     Open!NoOne, Fresh, Open!Fresh, RoomName, Open!RoomName
<1> QED
  BY <1>1, <1>2, <1>3 DEF ConformInv

\* The server breaks connections and sends to those that are up.
LEMMA ServerKeepsLinks ==
  ASSUME ConformInv, ServerNext
  PROVE  /\ link' \in [Client -> LinkState]
         /\ s2c' = [c \in Client |-> s2c'[c]]
         /\ \A c \in Client : /\ link'[c] = "none" <=> link[c] = "none"
                              /\ link'[c] = "cfin" => link[c] = "cfin"
                              /\ link[c] = "none" => s2c'[c] = s2c[c]
<1> USE DEF ConformInv, ClientShape
<1>1. ASSUME ServerExit
      PROVE  /\ link' \in [Client -> LinkState]
             /\ s2c' = [c \in Client |-> s2c'[c]]
             /\ \A c \in Client : /\ link'[c] = "none" <=> link[c] = "none"
                                  /\ link'[c] = "cfin" => link[c] = "cfin"
                                  /\ link[c] = "none" => s2c'[c] = s2c[c]
  BY <1>1 DEF ServerExit, CloseServerEnds, LinkState
<1>2. ASSUME NEW d, NEW p, Send(d, p)
      PROVE  /\ link' \in [Client -> LinkState]
             /\ s2c' = [c \in Client |-> s2c'[c]]
             /\ \A c \in Client : /\ link'[c] = "none" <=> link[c] = "none"
                                  /\ link'[c] = "cfin" => link[c] = "cfin"
                                  /\ link[c] = "none" => s2c'[c] = s2c[c]
  BY <1>2 DEF Send, ResetLink, LinkState
<1>3. CASE SendAck \/ \E d \in Client : SendNotice(d)
  BY <1>2, <1>3 DEF SendAck, SendNotice
<1>4. CASE SelectFails \/ AcceptFails \/ \E s \in Client : ReceiveFails(s) \/ SendFails(s)
  BY <1>1, <1>4 DEF SelectFails, AcceptFails, ReceiveFails, SendFails
<1>5. CASE UNCHANGED <<link, s2c>>
  BY <1>5
<1>6. CASE Select \/ EndHandling \/ Accept \/ PassEnds
           \/ \E s \in Client : ReceiveData(s) \/ ReceiveEnd(s)
  BY <1>5, <1>6 DEF Select, EndHandling, Accept, PassEnds, ReceiveData, ReceiveEnd, netVars
<1> QED
  BY <1>3, <1>4, <1>6 DEF ServerNext, ServerStep, Receive, Transmit

\* No step of a client disturbs the others, and each keeps its own in order.
LEMMA ClientKeepsFit ==
  ASSUME ConformInv, NEW c \in Client, ClientStep(c)
  PROVE  ConformInv'
<1> USE DEF ConformInv, ClientShape, LinkState, ClientPc
<1>0. SUFFICES /\ ClientShape'
               /\ ClientFits(c)'
               /\ \A d \in Client \ {c} :
                    UNCHANGED <<cpc[d], link[d], s2c[d], cbuf[d], cmds[d]>>
  BY DEF ClientFits
<1>1. CASE Start(c)
  BY <1>1 DEF Start, ConnectSocket, Connected, Goto, userVars, netVars, ClientFits
<1>2. ASSUME NEW p \in Request(c), WriteResponse(c, p), CountRequest(c),
             NEW l \in {"loop", "poll"}, Goto(c, l)
      PROVE  /\ ClientShape'
             /\ ClientFits(c)'
             /\ \A d \in Client \ {c} :
                  UNCHANGED <<cpc[d], link[d], s2c[d], cbuf[d], cmds[d]>>
  <2>1. /\ cbuf'[c].wi => cbuf'[c].data \in Request(c)
        /\ cbuf' = [d \in Client |-> cbuf'[d]]
        /\ \A d \in Client \ {c} : cbuf'[d] = cbuf[d]
    <3>1. cbuf' = [cbuf EXCEPT ![c] = Written(cbuf[c], p)]
      BY <1>2 DEF WriteResponse
    <3>2. Written(cbuf[c], p).data \in Request(c)
      BY WrittenIsRequest DEF ClientFits
    <3> QED
      BY <3>1, <3>2
  <2>2. /\ link' \in [Client -> LinkState] /\ link'[c] \in {"up", "rst"}
        /\ s2c' = [d \in Client |-> s2c'[d]]
        /\ \A d \in Client \ {c} : UNCHANGED <<link[d], s2c[d]>>
    BY <1>2 DEF WriteResponse, ResetLink
  <2>3. /\ cpc' \in [Client -> ClientPc] /\ cpc'[c] \in {"loop", "poll"}
        /\ \A d \in Client \ {c} : UNCHANGED cpc[d]
    BY <1>2 DEF Goto
  <2>4. cmds' \in [Client -> Nat] /\ \A d \in Client \ {c} : UNCHANGED cmds[d]
    BY <1>2 DEF CountRequest
  <2> QED
    BY <2>1, <2>2, <2>3, <2>4 DEF ClientFits
<1>3. CASE Introduce(c) \/ Ask(c) \/ Say(c)
  <2>1. Name(c) \in Request(c) /\ Exit(c) \in Request(c)
    BY DEF Request
  <2>2. /\ \A r \in Room : Join(c, r) \in Request(c)
        /\ \A t \in Text : Chat(c, t) \in Request(c)
    BY DEF Request
  <2> QED
    BY <1>2, <1>3, <2>1, <2>2
       DEF Introduce, EnterName, Ask, EnterRoom, SendExit, Say, EnterText
<1>4. CASE Press(c)
  BY <1>4
     DEF Press, WillPress, PressEsc, PressJ, PressTab, PressE, Goto, userVars, netVars, ClientFits
<1>5. CASE Loop(c)
  <2>1. /\ cpc' = [cpc EXCEPT ![c] = cpc'[c]] /\ cpc'[c] \in {"loop", "gone"}
        /\ UNCHANGED <<link, cmds>>
    BY <1>5 DEF Loop, PollNothing, PollPacket, PollEnd, PollFails, PrintReceivedMessage,
       Goto, netVars
  <2>2. /\ cbuf' = [cbuf EXCEPT ![c] = cbuf'[c]]
        /\ cbuf'[c].wi => cbuf'[c].data \in Request(c)
    BY <1>5 DEF Loop, PollNothing, PollPacket, PollEnd, PollFails, PrintReceivedMessage,
       ReinitializeIndex, ClearBuffer, Received, ClientFits
  <2>3. s2c' = [s2c EXCEPT ![c] = s2c'[c]] /\ (link[c] = "none" => s2c'[c] = <<>>)
    BY <1>5 DEF Loop, PollNothing, PollPacket, PollEnd, PollFails, netVars, ClientFits
  <2>4. link[c] # "cfin"
    BY <1>5 DEF Loop, PollNothing, PollPacket, PollEnd, PollFails, Polling, ClientFits
  <2>5. ClientShape'
    BY <2>1, <2>2, <2>3
  <2>6. ClientFits(c)'
    BY <2>1, <2>2, <2>3, <2>4 DEF ClientFits
  <2>7. \A d \in Client \ {c} : UNCHANGED <<cpc[d], link[d], s2c[d], cbuf[d], cmds[d]>>
    BY <2>1, <2>2, <2>3
  <2> QED
    BY <2>5, <2>6, <2>7
<1>6. CASE Leave(c)
  BY <1>6 DEF Leave, Quit, CloseClientEnd, ResetLink, Goto, userVars, ClientFits
<1>7. CASE WriteResponseFails(c) /\ UNCHANGED userVars
  BY <1>7 DEF WriteResponseFails, Goto, userVars, netVars, ClientFits
<1> QED
  BY <1>1, <1>3, <1>4, <1>5, <1>6, <1>7 DEF ClientStep

\* So every step keeps the invariant.
LEMMA StepKeepsFit == ConformInv /\ [Next]_vars => ConformInv'
<1> SUFFICES ASSUME ConformInv, [Next]_vars
             PROVE  ConformInv'
  OBVIOUS
<1>1. CASE ServerNext /\ UNCHANGED <<clientVars, userVars>>
  BY <1>1, ServerKeepsLinks DEF clientVars, userVars, ConformInv, ClientShape, ClientFits
<1>2. ASSUME NEW c \in Client, ClientStep(c)
      PROVE  ConformInv'
  BY <1>2, ClientKeepsFit
<1>3. CASE UNCHANGED vars
  BY <1>3 DEF vars, netVars, clientVars, userVars, ConformInv, ClientShape, ClientFits
<1> QED
  BY <1>1, <1>2, <1>3 DEF Next, Ended

\* The program is one of the systems OpenServer describes: whatever its users
\* do, a client program only sends the server what OpenServer's clients may.
THEOREM ClientsConformCorrect == Spec => ClientsConform
BY InitConform, StepKeepsFit, StepConforms, PTL DEF Spec, ClientsConform, Open!Spec

-----------------------------------------------------------------------------
(* A client writes at the start of its buffer.                             *)

\* The write index is away from 0 only between a write and the next poll: in the
\* iteration of the key, or in the first one, which no key that writes fits.
WriteFits(c) ==
  /\ cbuf[c].wi => \/ cpc[c] \in {"poll", "gone"}
                   \/ cpc[c] = "loop" /\ ~esc[c] /\ ~chatReady[c]
  /\ cpc[c] \in {"start", "name"} => ~esc[c] /\ ~chatReady[c] /\ ~cbuf[c].wi

ClientFlags ==
  /\ cpc \in [Client -> ClientPc]
  /\ esc = [c \in Client |-> esc[c]]
  /\ chatReady = [c \in Client |-> chatReady[c]]
  /\ cbuf = [c \in Client |-> cbuf[c]]

WriteInv == ClientFlags /\ \A c \in Client : WriteFits(c)

\* A client's own steps keep it.
LEMMA ClientKeepsWrites ==
  ASSUME WriteInv, NEW c \in Client, ClientStep(c)
  PROVE  WriteInv'
<1> USE DEF WriteInv, ClientFlags, ClientPc, Goto
<1>0. SUFFICES /\ ClientFlags'
               /\ WriteFits(c)'
               /\ \A d \in Client \ {c} :
                    UNCHANGED <<cpc[d], esc[d], chatReady[d], cbuf[d]>>
  BY DEF WriteFits
<1>1. CASE Start(c)
  BY <1>1 DEF Start, ConnectSocket, WriteFits
<1>2. CASE Introduce(c)
  BY <1>2 DEF Introduce, EnterName, WriteResponse, WriteFits
<1>3. CASE Press(c)
  BY <1>3 DEF Press, PressEsc, PressJ, PressTab, PressE, WriteFits
<1>4. CASE Ask(c)
  BY <1>4 DEF Ask, EnterRoom, SendExit, WriteResponse, WriteFits
<1>5. CASE Say(c)
  BY <1>5 DEF Say, EnterText, WriteResponse, WriteFits
<1>6. CASE Loop(c)
  BY <1>6 DEF Loop, PollNothing, PollPacket, PollEnd, PollFails, PrintReceivedMessage,
     Polling, ReinitializeIndex, ClearBuffer, WriteFits
<1>7. CASE Leave(c) \/ WriteResponseFails(c)
  BY <1>7 DEF Leave, Quit, WriteResponseFails, WriteFits
<1> QED
  BY <1>1, <1>2, <1>3, <1>4, <1>5, <1>6, <1>7 DEF ClientStep

\* It holds at the start.
LEMMA InitWrites == Init => WriteInv
BY DEF Init, ClientInit, WriteInv, ClientFlags, ClientPc, WriteFits, Fresh

\* So every step keeps it.
LEMMA StepWrites == WriteInv /\ [Next]_vars => WriteInv'
<1> SUFFICES ASSUME WriteInv, [Next]_vars
             PROVE  WriteInv'
  OBVIOUS
<1>1. CASE UNCHANGED clientVars
  BY <1>1 DEF clientVars, WriteInv, ClientFlags, WriteFits
<1>2. ASSUME NEW c \in Client, ClientStep(c)
      PROVE  WriteInv'
  BY <1>2, ClientKeepsWrites
<1> QED
  BY <1>1, <1>2 DEF Next, Ended, vars

\* No client writes a packet behind another one: the reset of the indices that
\* the poll begins with is enough, though GetClientName leaves them as they are.
THEOREM WritesAtStartCorrect == Spec => []WritesAtStart
<1>1. WriteInv => WritesAtStart
  BY DEF WriteInv, WriteFits, WritesAtStart
<1> QED
  BY <1>1, InitWrites, StepWrites, PTL DEF Spec

-----------------------------------------------------------------------------
(* Members of rooms have names.                                            *)

\* A client that has no name on the server yet is in no room, and the request
\* that gives its name is the first of those under way, if it was sent.
NameFits(c) ==
  /\ cpc[c] \in {"start", "name"} => c2s[c] = <<>>
  /\ clientName[c] # c =>
       /\ \A r \in RoomName : rooms[r][c] = 0
       /\ c2s[c] # <<>> => Head(c2s[c]) = Name(c)
       /\ cpc[c] \notin {"start", "name"} /\ link[c] = "up" => c2s[c] # <<>>

ServerShape ==
  /\ link \in [Client -> LinkState]
  /\ c2s = [c \in Client |-> c2s[c]]
  /\ \A c \in Client : c2s[c] \in Seq(Request(c))
  /\ clientName \in [Client -> Client \cup {None}]
  /\ rooms \in [RoomName -> [Client -> Nat]]
  /\ pc \in {"select", "scan"} => ~buffer.ri /\ buffer.data = None
  /\ pc = "down" => \A c \in Client : link[c] # "up"

NamedInv == ServerShape /\ \A c \in Client : NameFits(c)

\* What the server does with a request, or with the empty buffer at the end of a
\* stream, names nobody wrongly and takes nobody without a name into a room.
LEMMA HandleNames ==
  ASSUME NamedInv, NEW s \in Client, NEW b, NEW m, m = Parsed(b), Handle(s, b),
         m \in Request(s) \cup {None},
         clientName[s] # s => m \in {None, Name(s)}
  PROVE  /\ clientName' \in [Client -> Client \cup {None}]
         /\ rooms' \in [RoomName -> [Client -> Nat]]
         /\ \A c \in Client : clientName'[c] # c =>
              clientName[c] # c /\ \A r \in RoomName : rooms'[r][c] = 0
         /\ m = Name(s) => clientName'[s] = s
<1> USE DEF NamedInv, ServerShape
<1>1. Name(s) \in Packet /\ None \notin Packet
  BY PacketsAssumption DEF PacketsAssumption, Name, Packet, RequestKind, Argument
<1>2. CASE HandleOther(m)
  <2>1. m # Name(s)
    BY <1>1, <1>2 DEF HandleOther, Name, RequestKind
  <2>2. UNCHANGED <<clientName, rooms>>
    BY <1>2 DEF HandleOther, tables
  <2> QED
    BY <2>1, <2>2 DEF NameFits
<1>3. CASE HandleName(s, m)
  <2>1. m.who = s
    BY <1>3 DEF HandleName, Request, Name, Join, Chat, Exit
  <2> QED
    BY <1>3, <2>1 DEF HandleName, NameFits
<1>4. CASE HandleJoin(s, m)
  <2>1. clientName[s] = s /\ m # Name(s) /\ m.arg \in RoomName
    BY <1>4 DEF HandleJoin, Request, Name, Join, Chat, Exit, RoomName
  <2>2. /\ clientName' = clientName
        /\ rooms' = [rooms EXCEPT ![m.arg][s] = @ + 1]
    BY <1>4 DEF HandleJoin
  <2>3. \A r \in RoomName, c \in Client \ {s} : rooms'[r][c] = rooms[r][c]
    BY <2>1, <2>2
  <2> QED
    BY <2>1, <2>2, <2>3 DEF NameFits
<1>5. CASE HandleChat(s, m)
  <2>1. m # Name(s)
    BY <1>5 DEF HandleChat, Name
  <2>2. UNCHANGED <<clientName, rooms>>
    BY <1>5 DEF HandleChat, tables
  <2> QED
    BY <2>1, <2>2 DEF NameFits
<1>6. CASE HandleExit(s, m)
  <2>1. m # Name(s)
    BY <1>6 DEF HandleExit, Name
  <2>2. /\ clientName' = clientName
        /\ rooms' = [rooms EXCEPT ![clientRooms[s]][s] = 0]
    BY <1>6 DEF HandleExit
  <2>3. \A r \in RoomName, c \in Client : rooms'[r][c] \in {0, rooms[r][c]}
    BY <2>2
  <2> QED
    BY <2>1, <2>2, <2>3 DEF NameFits
<1> QED
  BY <1>2, <1>3, <1>4, <1>5, <1>6 DEF Handle

\* The server's steps keep the invariant.
LEMMA ServerKeepsNames ==
  ASSUME NamedInv, ServerNext, UNCHANGED clientVars
  PROVE  NamedInv'
<1> USE DEF NamedInv, ServerShape
<1>0. UNCHANGED cpc
  BY DEF clientVars
<1>1. ASSUME NEW s \in Client, ReceiveData(s)
      PROVE  NamedInv'
  <2> DEFINE m == Head(c2s[s])
  <2>1. m \in Request(s) /\ (clientName[s] # s => m = Name(s))
    BY <1>1 DEF ReceiveData, NameFits
  <2>2. Parsed(Received(buffer, m)) = m
    BY <1>1 DEF ReceiveData, Parsed, Received
  <2>3. /\ clientName' \in [Client -> Client \cup {None}]
        /\ rooms' \in [RoomName -> [Client -> Nat]]
        /\ \A c \in Client : clientName'[c] # c =>
             clientName[c] # c /\ \A r \in RoomName : rooms'[r][c] = 0
        /\ m = Name(s) => clientName'[s] = s
    BY <1>1, <2>1, <2>2, HandleNames DEF ReceiveData
  <2>4. clientName'[s] = s
    BY <2>1, <2>3
  <2>5. PICK n \in Batch(c2s[s]) : c2s' = [c2s EXCEPT ![s] = Rest(@, n)]
    BY <1>1 DEF ReceiveData
  <2>6. Rest(c2s[s], n) \in Seq(Request(s))
    BY DEF Rest, Batch
  <2>7. /\ c2s' = [c \in Client |-> c2s'[c]]
        /\ \A c \in Client : c2s'[c] \in Seq(Request(c))
        /\ \A c \in Client \ {s} : c2s'[c] = c2s[c]
    BY <2>5, <2>6
  <2>8. cpc[s] \in {"start", "name"} => c2s'[s] = <<>>
    BY <1>1 DEF ReceiveData, NameFits
  <2>9. pc' = "send" /\ UNCHANGED link
    BY <1>1 DEF ReceiveData, Handle
  <2> HIDE DEF m
  <2> QED
    BY <1>0, <2>3, <2>4, <2>7, <2>8, <2>9 DEF NameFits
<1>2. ASSUME NEW s \in Client, ReceiveEnd(s)
      PROVE  NamedInv'
  <2>1. Parsed(buffer) = None
    BY <1>2 DEF ReceiveEnd, Parsed
  <2>2. /\ clientName' \in [Client -> Client \cup {None}]
        /\ rooms' \in [RoomName -> [Client -> Nat]]
        /\ \A c \in Client : clientName'[c] # c =>
             clientName[c] # c /\ \A r \in RoomName : rooms'[r][c] = 0
    BY <1>2, <2>1, HandleNames DEF ReceiveEnd
  <2>3. pc' = "send" /\ UNCHANGED <<link, c2s>>
    BY <1>2 DEF ReceiveEnd, Handle, netVars
  <2> QED
    BY <1>0, <2>2, <2>3 DEF NameFits
<1>3. ASSUME ServerExit
      PROVE  NamedInv'
  <2>1. /\ c2s' = [c \in Client |-> <<>>]
        /\ \A c \in Client : link'[c] # "up"
        /\ link' \in [Client -> LinkState]
    BY <1>3 DEF ServerExit, CloseServerEnds, LinkState
  <2> QED
    BY <1>0, <1>3, <2>1 DEF ServerExit, tables, NameFits
<1>4. CASE SelectFails \/ AcceptFails \/ \E s \in Client : ReceiveFails(s) \/ SendFails(s)
  BY <1>3, <1>4 DEF SelectFails, AcceptFails, ReceiveFails, SendFails
<1>5. ASSUME NEW d, NEW p, pc = "send", Send(d, p)
      PROVE  NamedInv'
  <2>1. /\ pc' = "send" /\ UNCHANGED tables
        /\ \/ UNCHANGED <<link, c2s>>
           \/ ResetLink(d)
    BY <1>5 DEF Send
  <2>2. /\ c2s' = [c \in Client |-> c2s'[c]]
        /\ \A c \in Client : \/ UNCHANGED <<link[c], c2s[c]>>
                             \/ c2s'[c] = <<>> /\ link'[c] = "rst"
    BY <2>1 DEF ResetLink
  <2>3. link' \in [Client -> LinkState] /\ UNCHANGED <<clientName, rooms>>
    BY <2>1 DEF ResetLink, LinkState, tables
  <2>4. ASSUME NEW c \in Client
        PROVE  c2s'[c] \in Seq(Request(c))
    <3>1. <<>> \in Seq(Request(c)) /\ c2s[c] \in Seq(Request(c))
      OBVIOUS
    <3>2. c2s'[c] = <<>> \/ c2s'[c] = c2s[c]
      BY <2>2
    <3> QED
      BY <3>1, <3>2
  <2>5. \A c \in Client : NameFits(c)'
    BY <1>0, <2>2, <2>3 DEF NameFits
  <2> QED
    BY <2>1, <2>2, <2>3, <2>4, <2>5
<1>6. CASE SendAck \/ \E d \in Client : SendNotice(d)
  BY <1>5, <1>6 DEF SendAck, SendNotice
<1>7. CASE Select \/ EndHandling \/ Accept \/ PassEnds
  <2>1. /\ UNCHANGED <<link, c2s, tables>>
        /\ pc' \in {"select", "scan"}
        /\ \/ buffer' = buffer /\ pc \in {"select", "scan"}
           \/ buffer' = ClearBuffer(buffer)
    BY <1>7 DEF Select, EndHandling, Accept, PassEnds, ScanOver, netVars, tables
  <2> QED
    BY <1>0, <2>1 DEF tables, NameFits, ClearBuffer
<1> QED
  BY <1>1, <1>2, <1>4, <1>6, <1>7 DEF ServerNext, ServerStep, Receive, Transmit

\* A client's steps keep it, too.
LEMMA ClientKeepsNames ==
  ASSUME ConformInv, WriteInv, NamedInv, NEW c \in Client, ClientStep(c)
  PROVE  NamedInv'
<1> USE DEF NamedInv, ServerShape
<1>0. /\ UNCHANGED <<clientName, rooms, pc, buffer>>
      /\ cpc \in [Client -> ClientPc]
  BY DEF ClientStep, serverVars, ConformInv, ClientShape
<1>1. SUFFICES /\ link' \in [Client -> LinkState]
               /\ pc = "down" => link'[c] # "up"
               /\ c2s' = [d \in Client |-> c2s'[d]]
               /\ c2s'[c] \in Seq(Request(c))
               /\ NameFits(c)'
               /\ \A d \in Client \ {c} : UNCHANGED <<cpc[d], link[d], c2s[d]>>
  BY <1>0 DEF NameFits
<1>2. CASE Start(c)
  <2>1. link[c] = "none" /\ cpc[c] = "start" /\ c2s[c] = <<>>
    BY <1>2 DEF Start, ConnectSocket, ConformInv, ClientFits, NameFits
  <2>2. /\ cpc' = [cpc EXCEPT ![c] = "name"] /\ UNCHANGED c2s
        /\ link' = IF pc # "down" THEN [link EXCEPT ![c] = "up"] ELSE link
    BY <1>2 DEF Start, ConnectSocket, Connected, Goto, netVars
  <2> QED
    BY <1>0, <2>1, <2>2 DEF NameFits, LinkState
<1>3. ASSUME NEW p \in Request(c), WriteResponse(c, p),
             cpc[c] = "name" => p = Name(c) /\ ~cbuf[c].wi,
             cpc[c] \notin {"start", "gone"},
             NEW l \in {"loop", "poll"}, Goto(c, l)
      PROVE  /\ link' \in [Client -> LinkState]
             /\ pc = "down" => link'[c] # "up"
             /\ c2s' = [d \in Client |-> c2s'[d]]
             /\ c2s'[c] \in Seq(Request(c))
             /\ NameFits(c)'
             /\ \A d \in Client \ {c} : UNCHANGED <<cpc[d], link[d], c2s[d]>>
  <2> DEFINE m == OnWire(Written(cbuf[c], p))
  <2>1. m \in Request(c) /\ (cpc[c] = "name" => m = Name(c))
    BY <1>3, WrittenIsRequest DEF OnWire, Written, ConformInv, ClientFits
  <2>2. cpc' = [cpc EXCEPT ![c] = l]
    BY <1>3 DEF Goto
  <2>3. CASE link[c] = "up" /\ c2s' = [c2s EXCEPT ![c] = Append(@, m)] /\ UNCHANGED link
    <3>1. /\ Append(c2s[c], m) \in Seq(Request(c)) /\ Append(c2s[c], m) # <<>>
          /\ Head(Append(c2s[c], m)) = IF c2s[c] = <<>> THEN m ELSE Head(c2s[c])
      <4> HIDE DEF m
      <4>1. c2s[c] \in Seq(Request(c))
        OBVIOUS
      <4>2. CASE c2s[c] = <<>>
        BY <2>1, <4>1, <4>2, AppendProperties
      <4>3. CASE c2s[c] # <<>>
        <5>1. Len(c2s[c]) > 0
          BY <4>1, <4>3, EmptySeq
        <5> QED
          BY <2>1, <4>1, <4>3, <5>1, AppendProperties
      <4> QED
        BY <4>2, <4>3
    <3>2. c2s'[c] = Append(c2s[c], m) /\ \A d \in Client \ {c} : c2s'[d] = c2s[d]
      BY <2>3
    <3>3. clientName[c] # c => Head(c2s'[c]) = Name(c)
      BY <1>3, <2>1, <2>3, <3>1, <3>2 DEF NameFits
    <3> HIDE DEF m
    <3> QED
      BY <1>0, <2>2, <2>3, <3>1, <3>2, <3>3 DEF NameFits
  <2>4. CASE ResetLink(c)
    <3>1. /\ link' = [link EXCEPT ![c] = "rst"]
          /\ c2s' = [c2s EXCEPT ![c] = <<>>]
      BY <2>4 DEF ResetLink
    <3>2. <<>> \in Seq(Request(c))
      OBVIOUS
    <3> QED
      BY <1>0, <2>2, <3>1, <3>2 DEF NameFits, LinkState
  <2> QED
    BY <1>3, <2>3, <2>4 DEF WriteResponse
<1>4. CASE Introduce(c)
  BY <1>3, <1>4 DEF Introduce, EnterName, Request, WriteInv, WriteFits
<1>5. CASE Ask(c)
  BY <1>3, <1>5 DEF Ask, EnterRoom, SendExit, Request
<1>6. CASE Say(c)
  BY <1>3, <1>6 DEF Say, EnterText, Request
<1>7. CASE Press(c) \/ Loop(c) \/ (WriteResponseFails(c) /\ UNCHANGED userVars)
  <2>1. UNCHANGED <<link, c2s>>
    BY <1>7 DEF Press, PressEsc, PressJ, PressTab, PressE, Loop, PollNothing, PollPacket, PollEnd,
       PollFails, WriteResponseFails, netVars
  <2>2. /\ cpc' = [cpc EXCEPT ![c] = cpc'[c]]
        /\ cpc'[c] \in {"start", "name"} => cpc[c] \in {"start", "name"}
        /\ link[c] = "up" => cpc[c] \notin {"start", "name"}
    BY <1>0, <1>7 DEF Press, PressEsc, PressJ, PressTab, PressE, Loop, PollNothing, PollPacket,
       PollEnd, PollFails, PrintReceivedMessage, WriteResponseFails, Goto, Polling, ClientPc
  <2> QED
    BY <1>0, <2>1, <2>2 DEF NameFits
<1>8. CASE Leave(c)
  <2>1. cpc' = [cpc EXCEPT ![c] = "gone"]
    BY <1>8 DEF Leave, Quit, Goto
  <2>2. CASE UNCHANGED <<link, c2s>>
    <3>1. link[c] # "up"
      BY <1>8, <2>2 DEF Leave, Quit, CloseClientEnd, ResetLink
    <3> QED
      BY <1>0, <2>1, <2>2, <3>1 DEF NameFits
  <2>3. CASE CloseClientEnd(c)
    BY <1>0, <2>1, <2>3 DEF CloseClientEnd, NameFits, LinkState
  <2>4. CASE ResetLink(c)
    <3>1. <<>> \in Seq(Request(c))
      OBVIOUS
    <3> QED
      BY <1>0, <2>1, <2>4, <3>1 DEF ResetLink, NameFits, LinkState
  <2> QED
    BY <1>8, <2>2, <2>3, <2>4 DEF Leave, Quit
<1> QED
  BY <1>2, <1>4, <1>5, <1>6, <1>7, <1>8 DEF ClientStep

\* It holds at the start.
LEMMA InitNames == Init => NamedInv
<1> SUFFICES ASSUME Init
             PROVE  NamedInv
  OBVIOUS
<1>1. \A c \in Client : <<>> \in Seq(Request(c))
  OBVIOUS
<1>2. /\ rooms \in [RoomName -> [Client -> Nat]]
      /\ \A r \in RoomName, c \in Client : rooms[r][c] = 0
  BY DEF Init, ServerInit, NoOne
<1>3. ServerShape
  BY <1>1, <1>2 DEF Init, NetInit, ServerInit, ServerShape, Fresh, LinkState
<1>4. \A c \in Client : NameFits(c)
  BY <1>2 DEF Init, NetInit, ClientInit, NameFits
<1> QED
  BY <1>3, <1>4 DEF NamedInv

\* So every step keeps it.
LEMMA StepNames == ConformInv /\ WriteInv /\ NamedInv /\ [Next]_vars => NamedInv'
<1> SUFFICES ASSUME ConformInv, WriteInv, NamedInv, [Next]_vars
             PROVE  NamedInv'
  OBVIOUS
<1>1. CASE ServerNext /\ UNCHANGED <<clientVars, userVars>>
  BY <1>1, ServerKeepsNames
<1>2. ASSUME NEW c \in Client, ClientStep(c)
      PROVE  NamedInv'
  BY <1>2, ClientKeepsNames
<1>3. CASE UNCHANGED vars
  BY <1>3 DEF vars, netVars, serverVars, clientVars, NamedInv, ServerShape, NameFits
<1> QED
  BY <1>1, <1>2, <1>3 DEF Next, Ended

\* A member of a room has the name its own first request gave: that request is
\* handled alone or with those behind it dropped, never dropped itself.
THEOREM MembersAreNamedCorrect == Spec => []MembersAreNamed
<1>1. NamedInv => MembersAreNamed
  BY DEF NamedInv, ServerShape, NameFits, MembersAreNamed, RoomsOf
<1> QED
  BY <1>1, InitNames, StepNames, InitConform, StepKeepsFit, InitWrites, StepWrites, PTL
     DEF Spec
=============================================================================
