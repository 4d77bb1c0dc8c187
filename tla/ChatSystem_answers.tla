-------------------------- MODULE ChatSystem_answers --------------------------
(***************************************************************************)
(* Proofs for the whole program about requests and their answers: for      *)
(* every number of clients, rooms and lines and every buffer size, no user *)
(* is told more than was asked; and where every packet is received by a    *)
(* call of its own, each is told once, and what patient users are told is  *)
(* what the server's tables say.                                           *)
(***************************************************************************)
EXTENDS ChatSystem_proofs, ChatServer_proofs

-----------------------------------------------------------------------------
(* Counting the packets of some kinds in a channel.                        *)

\* A count is a natural number, and zero when there is no such packet.
LEMMA CountType ==
  ASSUME NEW S, NEW ch \in Seq(S), NEW K
  PROVE  /\ IsFiniteSet({i \in DOMAIN ch : ch[i].kind \in K})
         /\ Count(ch, K) \in Nat
         /\ Count(ch, K) = 0 <=> \A i \in DOMAIN ch : ch[i].kind \notin K
<1> DEFINE I == {i \in DOMAIN ch : ch[i].kind \in K}
<1>1. DOMAIN ch = 1 .. Len(ch) /\ Len(ch) \in Nat
  BY LenProperties
<1>2. IsFiniteSet(I)
  <2>1. IsFiniteSet(1 .. Len(ch))
    BY <1>1, FS_Interval
  <2> QED
    BY <1>1, <2>1, FS_Subset
<1>3. Cardinality(I) \in Nat /\ (Cardinality(I) = 0 <=> I = {})
  BY <1>2, FS_CardinalityType, FS_EmptySet
<1> QED
  BY <1>2, <1>3 DEF Count

\* There is nothing to count in an empty channel.
LEMMA CountEmpty ==
  ASSUME NEW K
  PROVE  Count(<<>>, K) = 0
BY FS_EmptySet DEF Count

\* A packet sent adds one, if it is of one of the kinds.
LEMMA CountAppend ==
  ASSUME NEW S, NEW ch \in Seq(S), NEW m \in S, NEW K
  PROVE  Count(Append(ch, m), K) = Count(ch, K) + (IF m.kind \in K THEN 1 ELSE 0)
<1> DEFINE I == {i \in DOMAIN ch : ch[i].kind \in K}
           new == Append(ch, m)
           J == {i \in DOMAIN new : new[i].kind \in K}
           n == Len(ch) + 1
<1>1. DOMAIN ch = 1 .. Len(ch) /\ Len(ch) \in Nat
  BY LenProperties
<1>2. /\ DOMAIN new = 1 .. n
      /\ \A i \in 1 .. Len(ch) : new[i] = ch[i]
      /\ new[n] = m
  BY <1>1, AppendProperties, LenProperties
<1>3. n \notin I
  BY <1>1
<1>4. IsFiniteSet(I) /\ Count(ch, K) \in Nat
  BY CountType
<1> HIDE DEF new
<1>5. CASE m.kind \in K
  <2>1. J = I \cup {n}
    BY <1>1, <1>2, <1>5
  <2> HIDE DEF I, J
  <2>2. Cardinality(J) = Cardinality(I) + 1
    BY <1>3, <1>4, <2>1, FS_AddElement
  <2> QED
    BY <1>5, <2>2 DEF Count, new, I, J
<1>6. CASE m.kind \notin K
  <2>1. J = I
    BY <1>1, <1>2, <1>6
  <2>2. Count(new, K) = Cardinality(J) /\ Count(ch, K) = Cardinality(I)
    BY DEF Count
  <2>3. Count(new, K) = Count(ch, K)
    BY <2>1, <2>2
  <2> QED
    BY <1>4, <1>6, <2>3 DEF new
<1> QED
  BY <1>5, <1>6

\* Packets received take with them at least the first one, and a single one
\* takes nothing else.
LEMMA CountRest ==
  ASSUME NEW S, NEW ch \in Seq(S), NEW n \in 1 .. Len(ch), NEW K
  PROVE  LET h == IF Head(ch).kind \in K THEN 1 ELSE 0 IN
         /\ Count(Rest(ch, n), K) + h <= Count(ch, K)
         /\ n = 1 => Count(Rest(ch, n), K) + h = Count(ch, K)
<1> DEFINE I == {i \in DOMAIN ch : ch[i].kind \in K}
           rest == Rest(ch, n)
           J == {i \in DOMAIN rest : rest[i].kind \in K}
           f == [i \in J |-> i + n]
<1>1. /\ DOMAIN ch = 1 .. Len(ch) /\ Len(ch) \in Nat
      /\ 1 \in DOMAIN ch /\ Head(ch) = ch[1]
  BY LenProperties
<1>2. /\ DOMAIN rest = 1 .. Len(ch) - n
      /\ \A i \in 1 .. Len(ch) - n : rest[i] = ch[i + n]
      /\ rest \in Seq(S)
  BY <1>1 DEF Rest
<1> HIDE DEF rest
<1>3. /\ IsFiniteSet(I) /\ IsFiniteSet(J)
      /\ Cardinality(I) \in Nat /\ Cardinality(J) \in Nat
  BY <1>2, CountType, FS_CardinalityType
<1>4. IsFiniteSet(I \ {1}) /\ Cardinality(I \ {1}) =
        IF 1 \in I THEN Cardinality(I) - 1 ELSE Cardinality(I)
  BY <1>3, FS_RemoveElement
<1>5. 1 \in I <=> Head(ch).kind \in K
  BY <1>1
<1>6. f \in Injection(J, I \ {1})
  <2>1. \A i \in J : i + n \in I \ {1}
    BY <1>1, <1>2
  <2>2. J \subseteq Int
    BY <1>2
  <2> HIDE DEF I, J
  <2> QED
    BY <2>1, <2>2 DEF Injection, IsInjective
<1>7. Cardinality(J) <= Cardinality(I \ {1})
  BY <1>4, <1>6, FS_Injection
<1>8. ASSUME n = 1
      PROVE  Cardinality(J) = Cardinality(I \ {1})
  <2>1. ASSUME NEW i \in I \ {1}
        PROVE  i - 1 \in J /\ f[i - 1] = i
    <3>1. i \in 2 .. Len(ch) /\ i - 1 \in 1 .. Len(ch) - n /\ (i - 1) + n = i
      BY <1>1, <1>8, <2>1
    <3>2. i - 1 \in J
      BY <1>2, <2>1, <3>1
    <3> QED
      BY <3>1, <3>2
  <2>2. f \in Surjection(J, I \ {1})
    BY <1>6, <2>1 DEF Injection, Surjection
  <2> QED
    BY <1>4, <1>6, <2>2, FS_Injection
<1> HIDE DEF I, J
<1>9. Count(ch, K) = Cardinality(I) /\ Count(rest, K) = Cardinality(J)
  BY DEF Count, I, J
<1> QED
  BY <1>3, <1>4, <1>5, <1>7, <1>8, <1>9 DEF rest

-----------------------------------------------------------------------------
(* The types of all variables.                                             *)

SystemInv ==
  /\ ServerInv /\ ClientTypeOK
  /\ awaiting \in [Client -> Nat]

\* A client's packet leaves the buffer and the channels what they are.
LEMMA WriteResponseType ==
  ASSUME SystemInv, NEW c \in Client, NEW p \in Request(c), WriteResponse(c, p)
  PROVE  /\ cbuf' \in [Client -> BufferOf(Packet)]
         /\ s2c' \in [Client -> Seq(Packet)]
         /\ UNCHANGED <<backlog, fdCleared>>
<1> USE DEF SystemInv, ServerInv, ClientTypeOK, NetTypeOK
<1>1. cbuf' \in [Client -> BufferOf(Packet)]
  <2>1. Written(cbuf[c], p) \in BufferOf(Packet)
    BY RequestIsPacket DEF Written, BufferOf
  <2> QED
    BY <2>1 DEF WriteResponse
<1>2. s2c' \in [Client -> Seq(Packet)]
  <2>1. <<>> \in Seq(Packet)
    OBVIOUS
  <2> QED
    BY <2>1 DEF WriteResponse, ResetLink
<1> QED
  BY <1>1, <1>2 DEF WriteResponse

\* The steps of a client keep the types of its variables, of what it is sent and
\* of the backlog.
LEMMA ClientKeepsType ==
  ASSUME SystemInv, NEW c \in Client, ClientStep(c)
  PROVE  /\ ClientTypeOK'
         /\ awaiting' \in [Client -> Nat]
         /\ backlog' \in Seq(Client)
         /\ s2c' \in [Client -> Seq(Packet)]
<1>0. /\ ClientTypeOK
      /\ awaiting \in [Client -> Nat]
      /\ backlog \in Seq(Client)
      /\ s2c \in [Client -> Seq(Packet)]
  BY DEF SystemInv, ServerInv, NetTypeOK
<1> USE DEF ClientTypeOK, ClientPc, Goto
<1>1. CASE Start(c)
  <2>1. /\ cpc' = [cpc EXCEPT ![c] = "name"]
        /\ UNCHANGED <<joined, chatReady, esc, fdCleared, cbuf, awaiting, s2c>>
    BY <1>0, <1>1 DEF Start, ConnectSocket, Connected, netVars, userVars
  <2>2. backlog' = backlog \/ backlog' = Append(backlog, c)
    BY <1>0, <1>1 DEF Start, ConnectSocket, Connected, netVars
  <2>3. backlog' \in Seq(Client)
    <3>1. backlog \in Seq(Client)
      BY <1>0
    <3>2. Append(backlog, c) \in Seq(Client)
      BY <3>1, AppendProperties
    <3> QED
      BY <2>2, <3>1, <3>2
  <2> QED
    BY <1>0, <2>1, <2>3
<1>2. ASSUME NEW p \in Request(c), WriteResponse(c, p)
      PROVE  /\ cbuf' \in [Client -> BufferOf(Packet)]
             /\ s2c' \in [Client -> Seq(Packet)]
             /\ backlog' \in Seq(Client)
             /\ fdCleared' \in [Client -> BOOLEAN]
  BY <1>0, <1>2, WriteResponseType
<1>3. CASE Introduce(c)
  <2>1. Name(c) \in Request(c)
    BY DEF Request
  <2> QED
    BY <1>0, <1>2, <1>3, <2>1 DEF Introduce, EnterName
<1>4. CASE Press(c)
  BY <1>0, <1>4 DEF Press, PressEsc, PressJ, PressTab, PressE, netVars, userVars
<1>5. CASE Ask(c)
  <2>1. Exit(c) \in Request(c) /\ \A r \in Room : Join(c, r) \in Request(c)
    BY DEF Request
  <2>2. awaiting' \in [Client -> Nat]
    BY <1>0, <1>5 DEF Ask
  <2>3. CASE \E r \in Room : EnterRoom(c, r)
    BY <1>0, <1>2, <2>1, <2>2, <2>3 DEF EnterRoom
  <2>4. CASE SendExit(c)
    BY <1>0, <1>2, <2>1, <2>2, <2>4 DEF SendExit
  <2> QED
    BY <1>5, <2>3, <2>4 DEF Ask
<1>6. CASE Say(c)
  <2>1. \A t \in Text : Chat(c, t) \in Request(c)
    BY DEF Request
  <2> QED
    BY <1>0, <1>2, <1>6, <2>1 DEF Say, EnterText
<1>7. CASE Loop(c)
  <2>1. awaiting' \in [Client -> Nat]
    <3>1. \/ awaiting[c] > 0 /\ awaiting' = [awaiting EXCEPT ![c] = @ - 1]
          \/ awaiting' = awaiting
      BY <1>0, <1>7 DEF Loop
    <3>2. awaiting \in [Client -> Nat]
      BY <1>0
    <3>3. awaiting[c] > 0 => awaiting[c] - 1 \in Nat
      BY <3>2
    <3> QED
      BY <3>1, <3>2, <3>3
  <2>2. CASE PollNothing(c)
    <3>1. ReinitializeIndex(cbuf[c]) \in BufferOf(Packet)
      BY <1>0 DEF ReinitializeIndex, BufferOf
    <3>2. cbuf' \in [Client -> BufferOf(Packet)]
      BY <1>0, <2>2, <3>1 DEF PollNothing
    <3>3. fdCleared' \in [Client -> BOOLEAN]
      BY <1>0, <2>2, Zenon DEF PollNothing
    <3>4. /\ cpc' = [cpc EXCEPT ![c] = "loop"]
          /\ UNCHANGED <<joined, chatReady, esc, backlog, s2c>>
      BY <1>0, <2>2 DEF PollNothing, netVars
    <3> QED
      BY <1>0, <2>1, <3>2, <3>3, <3>4
  <2>3. ASSUME NEW b, PrintReceivedMessage(c, b)
        PROVE  ClientTypeOK'
    BY <1>0, <2>3 DEF PrintReceivedMessage, ClearBuffer, BufferOf
  <2>4. CASE PollPacket(c)
    <3>1. PICK n \in Batch(s2c[c]) : s2c' = [s2c EXCEPT ![c] = Rest(@, n)]
      BY <1>0, <2>4 DEF PollPacket
    <3>2. Rest(s2c[c], n) \in Seq(Packet)
      BY <1>0, <3>1, RestIsChannel
    <3>3. ClientTypeOK' /\ backlog' = backlog
      BY <1>0, <2>3, <2>4 DEF PollPacket
    <3> QED
      BY <1>0, <2>1, <3>1, <3>2, <3>3
  <2>5. CASE PollEnd(c)
    <3>1. ClientTypeOK'
      BY <1>0, <2>3, <2>5 DEF PollEnd
    <3> QED
      BY <1>0, <2>1, <2>5, <3>1 DEF PollEnd, netVars
  <2>6. CASE PollFails(c)
    BY <1>0, <2>1, <2>6 DEF PollFails, netVars
  <2> QED
    BY <1>7, <2>2, <2>4, <2>5, <2>6 DEF Loop
<1>8. CASE Leave(c)
  <2>1. <<>> \in Seq(Packet)
    OBVIOUS
  <2>2. s2c' \in [Client -> Seq(Packet)]
    BY <1>0, <1>8, <2>1 DEF Leave, Quit, CloseClientEnd, ResetLink
  <2> QED
    BY <1>0, <1>8, <2>2 DEF Leave, Quit, userVars
<1>9. CASE WriteResponseFails(c) /\ UNCHANGED userVars
  BY <1>0, <1>9 DEF WriteResponseFails, netVars, userVars
<1> QED
  BY <1>1, <1>3, <1>4, <1>5, <1>6, <1>7, <1>8, <1>9 DEF ClientStep

\* So every step of the program keeps all types: what is under way to the server
\* are requests (NamedInv), and the connections are in order (ConformInv).
LEMMA StepSystem ==
  ASSUME SystemInv, ConformInv', NamedInv', [Next]_vars
  PROVE  SystemInv'
<1>1. CASE ServerNext /\ UNCHANGED <<clientVars, userVars>>
  <2>1. ServerInv'
    BY <1>1, ServerKeepsType DEF SystemInv
  <2> QED
    BY <1>1, <2>1 DEF SystemInv, clientVars, userVars, ClientTypeOK
<1>2. ASSUME NEW c \in Client, ClientStep(c)
      PROVE  SystemInv'
  <2>1. RequestsAreOwn'
    BY DEF NamedInv, ServerShape, RequestsAreOwn
  <2>2. c2s' \in [Client -> Seq(Packet)]
    <3>1. ASSUME NEW d \in Client
          PROVE  c2s'[d] \in Seq(Packet)
      BY <2>1, RequestIsPacket DEF RequestsAreOwn
    <3> QED
      BY <3>1 DEF NamedInv, ServerShape
  <2>3. NetTypeOK'
    BY <1>2, <2>2, ClientKeepsType DEF NetTypeOK, ConformInv, ClientShape
  <2>4. ServerInv'
    BY <1>2, <2>1, <2>3, OthersKeepType DEF SystemInv, ClientStep
  <2> QED
    BY <1>2, <2>4, ClientKeepsType DEF SystemInv
<1>3. CASE UNCHANGED vars
  <2>1. NetTypeOK' /\ RequestsAreOwn' /\ UNCHANGED serverVars
    BY <1>3 DEF vars, netVars, SystemInv, ServerInv, NetTypeOK, RequestsAreOwn
  <2>2. ServerInv'
    BY <2>1, OthersKeepType DEF SystemInv
  <2> QED
    BY <1>3, <2>2 DEF SystemInv, vars, clientVars, userVars, ClientTypeOK
<1> QED
  BY <1>1, <1>2, <1>3 DEF Next, Ended

\* The program starts with them.
LEMMA InitSystem == Init => SystemInv
<1> SUFFICES ASSUME Init
             PROVE  SystemInv
  OBVIOUS
<1>1. ServerInv
  BY InitServer DEF Init
<1>2. ClientTypeOK
  <2>1. Fresh \in BufferOf(Packet)
    BY DEF Fresh, BufferOf
  <2> QED
    BY <2>1 DEF Init, ClientInit, ClientTypeOK, ClientPc
<1> QED
  BY <1>1, <1>2 DEF Init, SystemInv

\* What is always true of the program and was proved so far.
KnownInv == ConformInv /\ WriteInv /\ NamedInv /\ SystemInv

\* It is.
THEOREM KnownInvariance == Spec => []KnownInv
<1>1. Init => KnownInv
  BY InitConform, InitWrites, InitNames, InitSystem DEF KnownInv
<1>2. KnownInv /\ [Next]_vars => KnownInv'
  BY StepKeepsFit, StepWrites, StepNames, StepSystem DEF KnownInv
<1> QED
  BY <1>1, <1>2, PTL DEF Spec

\* Type correctness of the whole program: the server's tables and buffer, the
\* clients' flags and buffers, and what is under way between them.
THEOREM SystemTypeCorrect == Spec => []TypeOK
<1>1. KnownInv => TypeOK
  BY DEF KnownInv, SystemInv, ServerInv, ConformInv, ClientShape, TypeOK
<1> QED
  BY <1>1, KnownInvariance, PTL

-----------------------------------------------------------------------------
(* What a step does to the answers under way.                              *)

\* A client's step concerns its own connection, place and flags only.
LEMMA ClientsApart ==
  ASSUME KnownInv, NEW c \in Client, ClientStep(c), NEW d \in Client \ {c}
  PROVE  UNCHANGED <<link[d], c2s[d], s2c[d], cpc[d], joined[d], chatReady[d], awaiting[d]>>
<1>0. /\ link \in [Client -> LinkState]
      /\ c2s \in [Client -> Seq(Packet)] /\ s2c \in [Client -> Seq(Packet)]
      /\ cpc \in [Client -> ClientPc]
      /\ joined \in [Client -> BOOLEAN] /\ chatReady \in [Client -> BOOLEAN]
      /\ awaiting \in [Client -> Nat]
  BY DEF KnownInv, SystemInv, ServerInv, NetTypeOK, ClientTypeOK
<1>1. UNCHANGED <<link[d], c2s[d], s2c[d]>>
  BY <1>0 DEF ClientStep, Start, ConnectSocket, Connected, Introduce, EnterName, Press,
     PressEsc, PressJ, PressTab, PressE, Ask, EnterRoom, SendExit, Say, EnterText, WriteResponse,
     ResetLink, Loop, PollNothing, PollPacket, PollEnd, PollFails, Leave, Quit, CloseClientEnd,
     WriteResponseFails, netVars
<1>2. UNCHANGED <<cpc[d], joined[d], chatReady[d]>>
  BY <1>0 DEF ClientStep, Start, ConnectSocket, Introduce, EnterName, Press, PressEsc,
     PressJ, PressTab, PressE, Ask, EnterRoom, SendExit, Say, EnterText, Loop,
     PollNothing, PollPacket, PollEnd, PollFails, PrintReceivedMessage, Leave, Quit,
     WriteResponseFails, Goto
<1>3. UNCHANGED awaiting[d]
  BY <1>0 DEF ClientStep, Start, Introduce, Press, Ask, Say, Loop, Leave, userVars
<1> QED
  BY <1>1, <1>2, <1>3

\* What is under way for c: its requests, the answer due, and the answers sent.
Due(c) == IF pc = "send" /\ ack /\ cur = c THEN 1 ELSE 0

\* Each part of UnderWay is a number.
LEMMA UnderWayIs ==
  ASSUME SystemInv, NEW c \in Client
  PROVE  /\ Count(c2s[c], Asking) \in Nat
         /\ Count(s2c[c], Answering) \in Nat
         /\ Due(c) \in {0, 1}
         /\ UnderWay(c) = Count(c2s[c], Asking) + Count(s2c[c], Answering) + Due(c)
<1>1. c2s[c] \in Seq(Packet) /\ s2c[c] \in Seq(Packet)
  BY DEF SystemInv, ServerInv, NetTypeOK
<1> QED
  BY <1>1, CountType DEF UnderWay, Due

\* The request a recv() handles is taken from the channel and, if it is one that
\* is answered, the answer is due from then on.
LEMMA ReceiveMoves ==
  ASSUME KnownInv, NEW s \in Client, ReceiveData(s), NEW c \in Client
  PROVE  /\ UNCHANGED s2c /\ Due(c) = 0
         /\ Count(c2s'[c], Asking) + Due(c)' <= Count(c2s[c], Asking)
         /\ MaxBatch = 1 => Count(c2s'[c], Asking) + Due(c)' = Count(c2s[c], Asking)
<1> DEFINE m == Head(c2s[s])
           h == IF m.kind \in Asking THEN 1 ELSE 0
<1>1. /\ pc = "scan" /\ pc' = "send" /\ cur' = s /\ UNCHANGED s2c
      /\ c2s[s] # <<>>
  BY DEF ReceiveData, Handle
<1>2. m \in Request(s) /\ m # None
  BY <1>1, PacketsAssumption, RequestIsPacket
     DEF KnownInv, SystemInv, ServerInv, RequestsAreOwn, PacketsAssumption
<1>3. Parsed(Received(buffer, m)) = m
  BY <1>1 DEF KnownInv, NamedInv, ServerShape, Parsed, Received
<1>4. \/ ack' = TRUE /\ m.kind \in Asking
      \/ ack' = FALSE /\ m.kind \notin Asking
  <2>1. HandleOther(m) \/ HandleName(s, m) \/ HandleJoin(s, m) \/ HandleChat(s, m)
          \/ HandleExit(s, m)
    BY <1>3 DEF ReceiveData, Handle
  <2> HIDE DEF m
  <2> QED
    BY <1>2, <2>1 DEF HandleOther, HandleName, HandleJoin, HandleChat, HandleExit, Asking,
       RequestKind
<1>5. PICK n \in Batch(c2s[s]) : c2s' = [c2s EXCEPT ![s] = Rest(@, n)]
  BY DEF ReceiveData
<1>6. c2s \in [Client -> Seq(Packet)] /\ Count(c2s[c], Asking) \in Nat
  BY UnderWayIs DEF KnownInv, SystemInv, ServerInv, NetTypeOK
<1>7. n \in 1 .. Len(c2s[s]) /\ (MaxBatch = 1 => n = 1)
  BY NetworkAssumption DEF Batch, NetworkAssumption
<1>8. /\ Count(Rest(c2s[s], n), Asking) + h <= Count(c2s[s], Asking)
      /\ n = 1 => Count(Rest(c2s[s], n), Asking) + h = Count(c2s[s], Asking)
  BY <1>6, <1>7, CountRest
<1>9. Due(c) = 0 /\ Due(c)' = IF s = c THEN h ELSE 0
  BY <1>1, <1>4 DEF Due
<1>10. c2s'[c] = IF s = c THEN Rest(c2s[s], n) ELSE c2s[c]
  BY <1>5, <1>6
<1> HIDE DEF h
<1> QED
  BY <1>1, <1>6, <1>7, <1>8, <1>9, <1>10

\* A send() puts the answer into the channel, or loses it with the connection.
LEMMA SendMovesAnswer ==
  ASSUME KnownInv, NEW d \in Client, NEW q \in Packet, Send(d, q), NEW c \in Client
  PROVE  /\ c # d => UNCHANGED <<link[c], c2s[c], s2c[c]>>
         /\ \/ /\ UNCHANGED <<link[d], c2s[d]>>
               /\ s2c'[d] = Append(s2c[d], q)
               /\ Count(s2c'[d], Answering) =
                    Count(s2c[d], Answering) + (IF q.kind \in Answering THEN 1 ELSE 0)
            \/ /\ link'[d] = "rst" /\ c2s'[d] = <<>> /\ s2c'[d] = <<>>
               /\ Count(c2s'[d], Asking) = 0 /\ Count(s2c'[d], Answering) = 0
<1>1. /\ link \in [Client -> LinkState]
      /\ c2s \in [Client -> Seq(Packet)] /\ s2c \in [Client -> Seq(Packet)]
  BY DEF KnownInv, SystemInv, ServerInv, NetTypeOK
<1>2. OnWire(Written(buffer, q)) = q
  BY DEF KnownInv, SystemInv, ServerInv, BufferRewound, OnWire, Written
<1>3. CASE UNCHANGED <<link, c2s>> /\ s2c' = [s2c EXCEPT ![d] = Append(@, q)]
  <2>1. s2c'[d] = Append(s2c[d], q)
    BY <1>1, <1>3
  <2> QED
    BY <1>1, <1>3, <2>1, CountAppend
<1>4. CASE ResetLink(d)
  <2>1. link'[d] = "rst" /\ c2s'[d] = <<>> /\ s2c'[d] = <<>>
    BY <1>1, <1>4 DEF ResetLink
  <2> QED
    BY <1>1, <1>4, <2>1, CountEmpty DEF ResetLink
<1> QED
  BY <1>2, <1>3, <1>4 DEF Send

\* No step of the server makes more answers, and as long as packets are received
\* one by one and the connection lasts, none is lost.
LEMMA ServerBalance ==
  ASSUME KnownInv, KnownInv', ServerNext, NEW c \in Client
  PROVE  /\ UnderWay(c)' <= UnderWay(c)
         /\ MaxBatch = 1 /\ link'[c] \in {"none", "up"} /\ pc' # "down" =>
              UNCHANGED link[c] /\ pc # "down" /\ UnderWay(c)' = UnderWay(c)
<1> DEFINE A == Count(c2s[c], Asking)
           B == Count(s2c[c], Answering)
           Balance ==
             /\ UnderWay(c)' <= UnderWay(c)
             /\ MaxBatch = 1 /\ link'[c] \in {"none", "up"} /\ pc' # "down" =>
                  UNCHANGED link[c] /\ pc # "down" /\ UnderWay(c)' = UnderWay(c)
<1>0. /\ A \in Nat /\ B \in Nat /\ Due(c) \in {0, 1}
      /\ UnderWay(c) = A + B + Due(c)
  BY UnderWayIs DEF KnownInv
<1>1. /\ A' \in Nat /\ B' \in Nat /\ Due(c)' \in {0, 1}
      /\ UnderWay(c)' = A' + B' + Due(c)'
  <2>1. c2s'[c] \in Seq(Packet) /\ s2c'[c] \in Seq(Packet)
    BY DEF KnownInv, SystemInv, ServerInv, NetTypeOK
  <2> QED
    BY <2>1, CountType DEF UnderWay, Due
<1> HIDE DEF A, B
<1>2. ASSUME NEW s \in Client, ReceiveData(s)
      PROVE  Balance
  <2>1. /\ B' = B /\ Due(c) = 0
        /\ A' + Due(c)' <= A
        /\ MaxBatch = 1 => A' + Due(c)' = A
    BY <1>2, ReceiveMoves DEF A, B
  <2> QED
    BY <1>0, <1>1, <1>2, <2>1 DEF ReceiveData
<1>3. ASSUME NEW s \in Client, ReceiveEnd(s)
      PROVE  Balance
  <2>1. ack' = FALSE
    <3>1. Parsed(buffer) = None
      BY <1>3 DEF ReceiveEnd, Parsed, KnownInv, SystemInv, ServerInv, BufferRewound
    <3> QED
      BY <1>3, <3>1 DEF ReceiveEnd, Handle, HandleOther, HandleName, HandleJoin, HandleChat,
         HandleExit
  <2>2. UNCHANGED netVars /\ pc = "scan"
    BY <1>3 DEF ReceiveEnd
  <2>3. A' = A /\ B' = B /\ Due(c) = 0 /\ Due(c)' = 0
    BY <2>1, <2>2 DEF netVars, A, B, Due
  <2> QED
    BY <1>0, <1>1, <2>2, <2>3 DEF netVars
<1>4. ASSUME ServerExit
      PROVE  Balance
  <2>1. /\ pc' = "down" /\ c2s'[c] = <<>>
        /\ s2c'[c] = <<>> \/ s2c'[c] = s2c[c]
    BY <1>4 DEF ServerExit, CloseServerEnds
  <2>2. A' = 0 /\ B' \in {0, B} /\ Due(c)' = 0
    BY <2>1, CountEmpty DEF A, B, Due
  <2> QED
    BY <1>0, <1>1, <2>1, <2>2
<1>5. ASSUME SelectFails \/ AcceptFails \/ \E s \in Client : ReceiveFails(s) \/ SendFails(s)
      PROVE  Balance
  BY <1>4, <1>5 DEF SelectFails, AcceptFails, ReceiveFails, SendFails
<1>6. ASSUME SendAck
      PROVE  Balance
  <2>1. cur \in Client /\ Ack \in Packet /\ Ack.kind \in Answering
    BY <1>6, AnswersArePackets
       DEF SendAck, KnownInv, SystemInv, ServerInv, SendingJustified, Ack, Answering
  <2>2. pc = "send" /\ ack /\ Send(cur, Ack) /\ ack' = FALSE
    BY <1>6 DEF SendAck
  <2>3. PICK d \in Client : d = cur
    BY <2>1
  <2>4. Due(c) = (IF c = d THEN 1 ELSE 0) /\ Due(c)' = 0
    BY <2>2, <2>3 DEF Due
  <2>5. /\ c # d => UNCHANGED <<link[c], c2s[c], s2c[c]>>
        /\ \/ UNCHANGED <<link[d], c2s[d]>>
              /\ Count(s2c'[d], Answering) = Count(s2c[d], Answering) + 1
           \/ /\ link'[d] = "rst"
              /\ Count(c2s'[d], Asking) = 0 /\ Count(s2c'[d], Answering) = 0
    BY <2>1, <2>2, <2>3, SendMovesAnswer
  <2>6. CASE c = d
    <3>1. \/ UNCHANGED link[c] /\ A' = A /\ B' = B + 1
          \/ link'[c] = "rst" /\ A' = 0 /\ B' = 0
      BY <2>5, <2>6 DEF A, B
    <3>2. Due(c) = 1 /\ pc # "down"
      BY <2>2, <2>4, <2>6
    <3>3. \/ UNCHANGED link[c] /\ UnderWay(c)' = UnderWay(c)
          \/ link'[c] = "rst" /\ UnderWay(c)' <= UnderWay(c)
      BY <1>0, <1>1, <2>4, <3>1, <3>2
    <3> QED
      BY <1>0, <3>2, <3>3
  <2>7. CASE c # d
    <3>1. UNCHANGED link[c] /\ A' = A /\ B' = B
      BY <2>5, <2>7 DEF A, B
    <3> QED
      BY <1>0, <1>1, <2>2, <2>4, <2>7, <3>1
  <2> QED
    BY <2>6, <2>7
<1>7. ASSUME NEW d \in Client, SendNotice(d)
      PROVE  Balance
  <2>1. Notice(d) \in Packet /\ Notice(d).kind \notin Answering
    BY <1>7, AnswersArePackets
       DEF SendNotice, KnownInv, SystemInv, Notice, Answering
  <2>2. pc = "send" /\ ~ack /\ Send(d, Notice(d)) /\ UNCHANGED ack
    BY <1>7 DEF SendNotice
  <2>3. Due(c) = 0 /\ Due(c)' = 0
    BY <2>2 DEF Due
  <2>4. PICK q \in Packet : q = Notice(d)
    BY <2>1
  <2>5. /\ c # d => UNCHANGED <<link[c], c2s[c], s2c[c]>>
        /\ \/ UNCHANGED <<link[d], c2s[d]>>
              /\ Count(s2c'[d], Answering) = Count(s2c[d], Answering) + 0
           \/ /\ link'[d] = "rst"
              /\ Count(c2s'[d], Asking) = 0 /\ Count(s2c'[d], Answering) = 0
    BY <2>1, <2>2, <2>4, SendMovesAnswer
  <2>6. \/ UNCHANGED link[c] /\ A' = A /\ B' = B
        \/ link'[c] = "rst" /\ A' = 0 /\ B' = 0
    BY <1>0, <2>5 DEF A, B
  <2>7. \/ UNCHANGED link[c] /\ UnderWay(c)' = UnderWay(c)
        \/ link'[c] = "rst" /\ UnderWay(c)' <= UnderWay(c)
    BY <1>0, <1>1, <2>3, <2>6
  <2>8. pc # "down"
    BY <2>2
  <2> QED
    BY <1>0, <2>7, <2>8
<1>8. ASSUME Select \/ EndHandling \/ Accept \/ PassEnds
      PROVE  Balance
  <2>1. UNCHANGED <<link, c2s, s2c>> /\ pc # "down"
    BY <1>8 DEF Select, EndHandling, Accept, PassEnds, ScanOver, netVars
  <2>2. Due(c) = 0 /\ Due(c)' = 0
    BY <1>8 DEF Select, EndHandling, Accept, PassEnds, ScanOver, Due
  <2>3. A' = A /\ B' = B
    BY <2>1 DEF A, B
  <2> QED
    BY <1>0, <1>1, <2>1, <2>2, <2>3
<1>9. Balance
  <2> HIDE DEF Balance
  <2> QED
    BY <1>2, <1>3, <1>5, <1>6, <1>7, <1>8
       DEF ServerNext, ServerStep, Receive, Transmit
<1> QED
  BY <1>9

\* What WriteResponse puts on the wire is the packet it was given, as the places
\* it is called from have an empty buffer.
LEMMA ClientWrites ==
  ASSUME KnownInv, NEW c \in Client, NEW p \in Request(c), WriteResponse(c, p),
         cpc[c] \in {"name", "room", "text", "exit"}
  PROVE  \/ /\ link[c] = "up" /\ UNCHANGED <<link, s2c>>
            /\ c2s'[c] = Append(c2s[c], p)
            /\ Count(c2s'[c], Asking) =
                 Count(c2s[c], Asking) + (IF p.kind \in Asking THEN 1 ELSE 0)
         \/ link'[c] = "rst" /\ c2s'[c] = <<>> /\ s2c'[c] = <<>>
<1>1. /\ link \in [Client -> LinkState]
      /\ c2s \in [Client -> Seq(Packet)] /\ s2c \in [Client -> Seq(Packet)]
  BY DEF KnownInv, SystemInv, ServerInv, NetTypeOK
<1>2. ~cbuf[c].wi
  BY DEF KnownInv, WriteInv, WriteFits
<1>3. OnWire(Written(cbuf[c], p)) = p
  BY <1>2 DEF OnWire, Written
<1>4. CASE /\ link[c] = "up" /\ c2s' = [c2s EXCEPT ![c] = Append(@, p)]
           /\ UNCHANGED <<link, s2c>>
  <2>1. c2s'[c] = Append(c2s[c], p)
    BY <1>1, <1>4
  <2>2. p \in Packet
    BY RequestIsPacket
  <2> QED
    BY <1>1, <1>4, <2>1, <2>2, CountAppend
<1>5. CASE ResetLink(c)
  BY <1>1, <1>5 DEF ResetLink
<1> QED
  BY <1>3, <1>4, <1>5 DEF WriteResponse

\* A number one more than another is not zero.
LEMMA OneLess ==
  ASSUME NEW x \in Nat, NEW y \in Nat, NEW z \in Nat, x + 1 <= y, y <= z
  PROVE  z > 0
OBVIOUS

\* A client's step adds to what is under way only what its user then waits for.
LEMMA ClientBalance ==
  ASSUME KnownInv, KnownInv', NEW c \in Client, ClientStep(c),
         UnderWay(c) <= awaiting[c]
  PROVE  /\ UnderWay(c)' + awaiting[c] <= UnderWay(c) + awaiting'[c]
         /\ MaxBatch = 1 /\ link'[c] \in {"none", "up"} =>
              /\ link[c] \in {"none", "up"}
              /\ UnderWay(c)' + awaiting[c] = UnderWay(c) + awaiting'[c]
<1> DEFINE A == Count(c2s[c], Asking)
           B == Count(s2c[c], Answering)
           W == awaiting[c]
           Balance ==
             /\ UnderWay(c)' + W <= UnderWay(c) + W'
             /\ MaxBatch = 1 /\ link'[c] \in {"none", "up"} =>
                  /\ link[c] \in {"none", "up"}
                  /\ UnderWay(c)' + W = UnderWay(c) + W'
<1>0. /\ link \in [Client -> LinkState]
      /\ c2s \in [Client -> Seq(Packet)] /\ s2c \in [Client -> Seq(Packet)]
      /\ awaiting \in [Client -> Nat]
  BY DEF KnownInv, SystemInv, ServerInv, NetTypeOK
<1>1. /\ A \in Nat /\ B \in Nat /\ Due(c) \in {0, 1}
      /\ UnderWay(c) = A + B + Due(c)
  BY UnderWayIs DEF KnownInv
<1>2. A' \in Nat /\ B' \in Nat /\ UnderWay(c)' = A' + B' + Due(c)
  <2>1. c2s'[c] \in Seq(Packet) /\ s2c'[c] \in Seq(Packet)
    BY DEF KnownInv, SystemInv, ServerInv, NetTypeOK
  <2>2. Due(c)' = Due(c)
    BY DEF ClientStep, serverVars, Due
  <2> QED
    BY <2>1, <2>2, CountType DEF UnderWay, Due
<1>3. W \in Nat /\ W' \in Nat /\ UnderWay(c) <= W
  BY DEF KnownInv, SystemInv
<1> HIDE DEF A, B, W
\* The balance where nothing is received: what is sent is waited for.
<1>4. ASSUME NEW k \in {0, 1}, W' = W + k,
             \/ UNCHANGED link[c] /\ A' = A + k /\ B' = B
             \/ link'[c] \in {"rst", "cfin"} /\ A' \in {0, A} /\ B' = 0
      PROVE  Balance
  <2>1. CASE UNCHANGED link[c] /\ A' = A + k /\ B' = B
    <3>1. UnderWay(c)' = UnderWay(c) + k /\ UnderWay(c) \in Nat
      BY <1>1, <1>2, <2>1
    <3>2. UnderWay(c)' + W = UnderWay(c) + W'
      BY <1>3, <1>4, <3>1
    <3> QED
      BY <1>3, <2>1, <3>1, <3>2
  <2>2. CASE link'[c] \in {"rst", "cfin"} /\ A' \in {0, A} /\ B' = 0
    <3>1. UnderWay(c)' <= UnderWay(c) /\ UnderWay(c) \in Nat /\ UnderWay(c)' \in Nat
      BY <1>1, <1>2, <2>2
    <3> QED
      BY <1>3, <1>4, <2>2, <3>1
  <2> QED
    BY <1>4, <2>1, <2>2
<1>5. ASSUME UNCHANGED <<link[c], c2s[c], s2c[c], awaiting[c]>>
      PROVE  Balance
  <2>1. A' = A /\ B' = B /\ W' = W
    BY <1>5 DEF A, B, W
  <2>2. A' = A + 0 /\ W' = W + 0
    BY <1>1, <1>3, <2>1
  <2> HIDE DEF Balance
  <2> QED
    BY <1>4, <1>5, <2>1, <2>2
<1>6. ASSUME NEW p \in Request(c), WriteResponse(c, p),
             cpc[c] \in {"name", "room", "text", "exit"},
             W' = W + (IF p.kind \in Asking THEN 1 ELSE 0)
      PROVE  Balance
  <2> DEFINE k == IF p.kind \in Asking THEN 1 ELSE 0
  <2>1. \/ UNCHANGED <<link, s2c>> /\ A' = A + k
        \/ link'[c] = "rst" /\ c2s'[c] = <<>> /\ s2c'[c] = <<>>
    BY <1>6, ClientWrites DEF A
  <2>2. \/ UNCHANGED link[c] /\ A' = A + k /\ B' = B
        \/ link'[c] \in {"rst", "cfin"} /\ A' \in {0, A} /\ B' = 0
    BY <2>1, CountEmpty DEF A, B
  <2>3. k \in {0, 1} /\ W' = W + k
    BY <1>6
  <2> HIDE DEF Balance, k
  <2> QED
    BY <1>4, <2>2, <2>3
<1>7. ASSUME Start(c)
      PROVE  Balance
  <2>1. UNCHANGED <<c2s, s2c, awaiting>> /\ link[c] = "none"
    BY <1>7 DEF Start, ConnectSocket, Connected, netVars, userVars, KnownInv, ConformInv,
       ClientFits
  <2>2. A' = A /\ B' = B /\ W' = W
    BY <2>1 DEF A, B, W
  <2>3. UnderWay(c)' = UnderWay(c) /\ UnderWay(c) \in Nat
    BY <1>1, <1>2, <2>2
  <2> QED
    BY <1>3, <2>1, <2>2, <2>3
<1>8. ASSUME Introduce(c)
      PROVE  Balance
  <2>1. Name(c) \in Request(c) /\ Name(c).kind \notin Asking
    BY DEF Request, Name, Asking
  <2>2. W' = W + 0
    BY <1>3, <1>8 DEF Introduce, W
  <2>3. W' = W + (IF Name(c).kind \in Asking THEN 1 ELSE 0)
    BY <2>1, <2>2
  <2>4. WriteResponse(c, Name(c)) /\ cpc[c] = "name"
    BY <1>8 DEF Introduce, EnterName
  <2> HIDE DEF Balance
  <2> QED
    BY <1>6, <2>1, <2>3, <2>4
<1>9. ASSUME Say(c)
      PROVE  Balance
  <2>1. PICK t \in Text : EnterText(c, t)
    BY <1>9 DEF Say
  <2>2. Chat(c, t) \in Request(c) /\ Chat(c, t).kind \notin Asking
    BY DEF Request, Chat, Asking
  <2>3. W' = W + 0
    BY <1>3, <1>9 DEF Say, W
  <2>4. W' = W + (IF Chat(c, t).kind \in Asking THEN 1 ELSE 0)
    BY <2>2, <2>3
  <2>5. WriteResponse(c, Chat(c, t)) /\ cpc[c] = "text"
    BY <2>1 DEF EnterText
  <2> HIDE DEF Balance
  <2> QED
    BY <1>6, <2>2, <2>4, <2>5
<1>10. ASSUME Ask(c)
       PROVE  Balance
  <2>1. awaiting' = [awaiting EXCEPT ![c] = @ + 1]
    BY <1>10 DEF Ask
  <2>2. W' = W + 1
    BY <1>0, <2>1 DEF W
  <2>3. ASSUME NEW r \in Room, EnterRoom(c, r)
        PROVE  Balance
    <3>1. Join(c, r) \in Request(c) /\ Join(c, r).kind \in Asking
      BY DEF Request, Join, Asking
    <3>2. W' = W + (IF Join(c, r).kind \in Asking THEN 1 ELSE 0)
      BY <2>2, <3>1
    <3>3. WriteResponse(c, Join(c, r)) /\ cpc[c] = "room"
      BY <2>3 DEF EnterRoom
    <3> HIDE DEF Balance
    <3> QED
      BY <1>6, <3>1, <3>2, <3>3
  <2>4. ASSUME SendExit(c)
        PROVE  Balance
    <3>1. Exit(c) \in Request(c) /\ Exit(c).kind \in Asking
      BY DEF Request, Exit, Asking
    <3>2. W' = W + (IF Exit(c).kind \in Asking THEN 1 ELSE 0)
      BY <2>2, <3>1
    <3>3. WriteResponse(c, Exit(c)) /\ cpc[c] = "exit"
      BY <2>4 DEF SendExit
    <3> HIDE DEF Balance
    <3> QED
      BY <1>6, <3>1, <3>2, <3>3
  <2> HIDE DEF Balance
  <2> QED
    BY <1>10, <2>3, <2>4 DEF Ask
<1>11. ASSUME Press(c) \/ (WriteResponseFails(c) /\ UNCHANGED userVars)
       PROVE  Balance
  <2>1. UNCHANGED <<link, c2s, s2c, awaiting>>
    BY <1>11 DEF Press, PressEsc, PressJ, PressTab, PressE, WriteResponseFails, netVars,
       userVars
  <2> HIDE DEF Balance
  <2> QED
    BY <1>5, <2>1
<1>12. ASSUME Leave(c)
       PROVE  Balance
  <2>1. awaiting' = awaiting
    BY <1>12 DEF Leave, userVars
  <2>2. \/ UNCHANGED <<link[c], c2s[c], s2c[c]>>
        \/ link'[c] = "cfin" /\ UNCHANGED c2s[c] /\ s2c'[c] = <<>>
        \/ link'[c] = "rst" /\ c2s'[c] = <<>> /\ s2c'[c] = <<>>
    BY <1>0, <1>12 DEF Leave, Quit, CloseClientEnd, ResetLink
  <2>3. \/ UNCHANGED <<link[c], c2s[c], s2c[c]>>
        \/ link'[c] \in {"rst", "cfin"} /\ A' \in {0, A} /\ B' = 0
    BY <2>2, CountEmpty DEF A, B
  <2>4. W' = W + 0 /\ 0 \in {0, 1}
    BY <1>3, <2>1 DEF W
  <2>5. awaiting'[c] = awaiting[c]
    BY <2>1
  <2> HIDE DEF Balance
  <2> QED
    BY <1>4, <1>5, <2>3, <2>4, <2>5
<1>13. ASSUME Loop(c)
       PROVE  Balance
  <2>1. UNCHANGED <<link, c2s>>
    BY <1>13 DEF Loop, PollNothing, PollPacket, PollEnd, PollFails, netVars
  <2>2. ASSUME s2c' = s2c
        PROVE  Balance
    <3>1. awaiting' = awaiting
      BY <1>13, <2>2 DEF Loop
    <3> HIDE DEF Balance
    <3> QED
      BY <1>5, <2>1, <2>2, <3>1
  <2>3. ASSUME PollPacket(c)
        PROVE  Balance
    <3> DEFINE h == IF Head(s2c[c]).kind \in Answering THEN 1 ELSE 0
    <3>1. PICK n \in Batch(s2c[c]) : s2c' = [s2c EXCEPT ![c] = Rest(@, n)]
      BY <2>3 DEF PollPacket
    <3>2. s2c[c] \in Seq(Packet) /\ n \in 1 .. Len(s2c[c]) /\ (MaxBatch = 1 => n = 1)
      BY <1>0, <3>1, NetworkAssumption DEF Batch, NetworkAssumption
    <3>3. s2c'[c] = Rest(s2c[c], n) /\ s2c'[c] # s2c[c]
      <4>1. s2c'[c] = Rest(s2c[c], n)
        BY <1>0, <3>1
      <4>2. Len(Rest(s2c[c], n)) = Len(s2c[c]) - n /\ Len(s2c[c]) \in Nat
        BY <3>2 DEF Rest
      <4>3. Len(Rest(s2c[c], n)) # Len(s2c[c])
        BY <3>2, <4>2
      <4> QED
        BY <4>1, <4>3
    <3>4. B' + h <= B /\ (MaxBatch = 1 => B' + h = B)
      BY <3>2, <3>3, CountRest DEF B
    <3>5. A' = A
      BY <2>1 DEF A
    <3>6. h = 1 => W > 0
      <4>1. h \in {0, 1}
        OBVIOUS
      <4>2. B <= UnderWay(c)
        BY <1>1
      <4>3. B <= W
        BY <1>1, <1>3, <4>2
      <4>4. B' + h <= B
        BY <3>4
      <4> HIDE DEF h, Balance
      <4>5. ASSUME h = 1
            PROVE  W > 0
        <5>1. B' + 1 <= B
          BY <4>4, <4>5, Zenon
        <5> QED
          BY <1>1, <1>2, <1>3, <4>3, <5>1, OneLess, Zenon
      <4> QED
        BY <4>5
    <3>7. W' = W - h /\ h \in {0, 1}
      <4>1. IF Head(s2c[c]).kind \in Answering /\ awaiting[c] > 0
            THEN awaiting' = [awaiting EXCEPT ![c] = @ - 1]
            ELSE awaiting' = awaiting
        BY <1>13, <3>3 DEF Loop, Answering
      <4>2. W' = IF Head(s2c[c]).kind \in Answering /\ W > 0 THEN W - 1 ELSE W
        BY <1>0, <4>1 DEF W
      <4> QED
        BY <1>3, <3>6, <4>2
    <3> HIDE DEF h
    <3>8. UnderWay(c)' + W <= UnderWay(c) + W'
      BY <1>1, <1>2, <1>3, <3>4, <3>5, <3>7
    <3>9. MaxBatch = 1 => UnderWay(c)' + W = UnderWay(c) + W'
      <4> SUFFICES ASSUME MaxBatch = 1
                   PROVE  UnderWay(c)' + W = UnderWay(c) + W'
        OBVIOUS
      <4>1. B' + h = B /\ h \in Int
        BY <3>4, <3>7, SMT
      <4>2. B = B' + h /\ A \in Int /\ B' \in Int /\ Due(c) \in Int
        <5>1. B = B' + h
          BY <4>1
        <5>2. A \in Int /\ Due(c) \in Int
          BY <1>1
        <5>3. B' \in Int
          BY <1>2
        <5> QED
          BY <5>1, <5>2, <5>3
      <4>3. UnderWay(c)' = A + B' + Due(c) /\ UnderWay(c) = A + (B' + h) + Due(c)
        BY <1>1, <1>2, <3>5, <4>2
      <4>4. W' = W - h /\ W \in Int
        BY <1>3, <3>7
      <4> QED
        BY <4>1, <4>2, <4>3, <4>4
    <3>10. UNCHANGED link[c]
      BY <2>1
    <3> QED
      BY <3>8, <3>9, <3>10
  <2>4. PollPacket(c) \/ s2c' = s2c
    BY <1>13 DEF Loop, PollNothing, PollEnd, PollFails, netVars
  <2> HIDE DEF Balance
  <2> QED
    BY <2>2, <2>3, <2>4
<1>14. Balance
  <2> HIDE DEF Balance
  <2> QED
    BY <1>7, <1>8, <1>9, <1>10, <1>11, <1>12, <1>13 DEF ClientStep
<1> QED
  BY <1>14 DEF W

-----------------------------------------------------------------------------
(* No answer that nobody asked for.                                        *)

\* Where the steps of the system leave what is under way for one client.
StrayInv == KnownInv /\ NoStrayAnswer

\* No step of the program makes a stray answer.
LEMMA StepStray ==
  ASSUME KnownInv, KnownInv', NoStrayAnswer, [Next]_vars
  PROVE  NoStrayAnswer'
<1> SUFFICES ASSUME NEW c \in Client
             PROVE  UnderWay(c)' <= awaiting'[c]
  BY DEF NoStrayAnswer
<1>1. /\ UnderWay(c) \in Nat /\ awaiting[c] \in Nat /\ awaiting'[c] \in Nat
      /\ UnderWay(c) <= awaiting[c]
  BY UnderWayIs DEF KnownInv, SystemInv, NoStrayAnswer
<1>2. UnderWay(c)' \in Nat
  <2>1. c2s'[c] \in Seq(Packet) /\ s2c'[c] \in Seq(Packet)
    BY DEF KnownInv, SystemInv, ServerInv, NetTypeOK
  <2>2. Count(c2s'[c], Asking) \in Nat /\ Count(s2c'[c], Answering) \in Nat
    BY <2>1, CountType
  <2> QED
    BY <2>2 DEF UnderWay
<1>3. CASE ServerNext /\ UNCHANGED <<clientVars, userVars>>
  <2>1. UnderWay(c)' <= UnderWay(c) /\ awaiting'[c] = awaiting[c]
    BY <1>3, ServerBalance DEF userVars
  <2> QED
    BY <1>1, <1>2, <2>1
<1>4. ASSUME ClientStep(c)
      PROVE  UnderWay(c)' <= awaiting'[c]
  <2>1. UnderWay(c)' + awaiting[c] <= UnderWay(c) + awaiting'[c]
    BY <1>1, <1>4, ClientBalance
  <2> QED
    BY <1>1, <1>2, <2>1
<1>5. ASSUME NEW d \in Client \ {c}, ClientStep(d)
      PROVE  UnderWay(c)' <= awaiting'[c]
  <2>1. UNCHANGED <<c2s[c], s2c[c], awaiting[c], serverVars>>
    BY <1>5, ClientsApart DEF ClientStep
  <2> QED
    BY <1>1, <2>1 DEF UnderWay, serverVars
<1>6. CASE UNCHANGED vars
  BY <1>1, <1>6 DEF vars, netVars, serverVars, userVars, UnderWay
<1> QED
  BY <1>3, <1>4, <1>5, <1>6 DEF Next, Ended

\* Nothing is under way at the start.
LEMMA InitStray == Init => \A c \in Client : UnderWay(c) = 0 /\ awaiting[c] = 0
BY CountEmpty DEF Init, NetInit, ServerInit, UnderWay

\* No client is ever sent more answers to 'J' and 'E' than its user has asked
\* for, whatever the users press, however many packets one recv() returns and
\* drops, and whoever leaves.
THEOREM NoStrayAnswerCorrect == Spec => []NoStrayAnswer
<1>1. Init => StrayInv
  <2>1. Init => KnownInv
    BY InitConform, InitWrites, InitNames, InitSystem DEF KnownInv
  <2>2. Init => NoStrayAnswer
    BY InitStray DEF NoStrayAnswer
  <2> QED
    BY <2>1, <2>2 DEF StrayInv
<1>2. KnownInv /\ KnownInv' /\ NoStrayAnswer /\ [Next]_vars => NoStrayAnswer'
  BY StepStray
<1>3. StrayInv => NoStrayAnswer
  BY DEF StrayInv
<1> QED
  BY <1>1, <1>2, <1>3, KnownInvariance, PTL DEF Spec, StrayInv

-----------------------------------------------------------------------------
(* Where every packet is received by a call of its own, none is dropped.   *)

\* As long as the connection and the server last; a client that is not connected
\* yet has nothing under way and waits for nothing.
OneInv ==
  \A c \in Client :
    link[c] \in {"none", "up"} /\ pc # "down" => UnderWay(c) = awaiting[c]

\* No step of the program loses an answer.
LEMMA StepOne ==
  ASSUME MaxBatch = 1, KnownInv, KnownInv', NoStrayAnswer, OneInv, [Next]_vars
  PROVE  OneInv'
<1> SUFFICES ASSUME NEW c \in Client, link'[c] \in {"none", "up"}, pc' # "down"
             PROVE  UnderWay(c)' = awaiting'[c]
  BY DEF OneInv
<1>1. /\ UnderWay(c) \in Nat /\ awaiting[c] \in Nat /\ awaiting'[c] \in Nat
      /\ UnderWay(c) <= awaiting[c]
      /\ link[c] \in {"none", "up"} /\ pc # "down" => UnderWay(c) = awaiting[c]
  BY UnderWayIs DEF KnownInv, SystemInv, NoStrayAnswer, OneInv
<1>2. UnderWay(c)' \in Nat
  <2>1. c2s'[c] \in Seq(Packet) /\ s2c'[c] \in Seq(Packet)
    BY DEF KnownInv, SystemInv, ServerInv, NetTypeOK
  <2>2. Count(c2s'[c], Asking) \in Nat /\ Count(s2c'[c], Answering) \in Nat
    BY <2>1, CountType
  <2> QED
    BY <2>2 DEF UnderWay
<1>3. CASE ServerNext /\ UNCHANGED <<clientVars, userVars>>
  <2>1. link'[c] = link[c] /\ pc # "down" /\ UnderWay(c)' = UnderWay(c)
    BY <1>3, ServerBalance
  <2>2. awaiting'[c] = awaiting[c]
    BY <1>3 DEF userVars
  <2> QED
    BY <1>1, <2>1, <2>2
<1>4. ASSUME ClientStep(c)
      PROVE  UnderWay(c)' = awaiting'[c]
  <2>1. /\ link[c] \in {"none", "up"}
        /\ UnderWay(c)' + awaiting[c] = UnderWay(c) + awaiting'[c]
    BY <1>1, <1>4, ClientBalance
  <2>2. pc # "down"
    BY <1>4 DEF ClientStep, serverVars
  <2> QED
    BY <1>1, <1>2, <2>1, <2>2
<1>5. ASSUME NEW d \in Client \ {c}, ClientStep(d)
      PROVE  UnderWay(c)' = awaiting'[c]
  <2>1. UNCHANGED <<link[c], c2s[c], s2c[c], awaiting[c], serverVars>>
    BY <1>5, ClientsApart DEF ClientStep
  <2>2. UnderWay(c)' = UnderWay(c) /\ pc # "down"
    BY <2>1 DEF UnderWay, serverVars
  <2> QED
    BY <1>1, <2>1, <2>2
<1>6. CASE UNCHANGED vars
  <2>1. UNCHANGED <<link, pc, awaiting>> /\ UnderWay(c)' = UnderWay(c)
    BY <1>6 DEF vars, netVars, serverVars, userVars, UnderWay
  <2> QED
    BY <1>1, <2>1
<1> QED
  BY <1>3, <1>4, <1>5, <1>6 DEF Next, Ended

\* Where one recv() returns one packet, exactly one answer is under way for each
\* answer a user waits for, as long as the connection and the server last.
THEOREM OneAnswerEachCorrect ==
  ASSUME MaxBatch = 1
  PROVE  Spec => []OneAnswerEach
<1>1. Init => OneInv
  BY InitStray DEF OneInv
<1>2. KnownInv /\ KnownInv' /\ NoStrayAnswer /\ OneInv /\ [Next]_vars => OneInv'
  BY StepOne
<1>3. OneInv => OneAnswerEach
  BY DEF OneInv, OneAnswerEach
<1> QED
  BY <1>1, <1>2, <1>3, KnownInvariance, NoStrayAnswerCorrect, PTL DEF Spec
=============================================================================
