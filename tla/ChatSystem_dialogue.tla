------------------------- MODULE ChatSystem_dialogue -------------------------
(***************************************************************************)
(* Proofs for the whole program with patient users: for every number of    *)
(* clients, rooms and lines and every buffer size, a client is in one room *)
(* at most, its flags say what the server's tables say, and only members   *)
(* of a room are heard in it.                                              *)
(***************************************************************************)
EXTENDS ChatSystem_answers

-----------------------------------------------------------------------------
(* Which kinds of packets a channel holds.                                 *)

Holds(ch, k) == \E i \in DOMAIN ch : ch[i].kind = k

\* A packet of one of the kinds K can only be the last of the channel.
LastOf(ch, K) == \A i \in DOMAIN ch : ch[i].kind \in K => i = Len(ch)

\* An empty channel holds nothing.
LEMMA HoldsEmpty == \A k, K : ~Holds(<<>>, k) /\ LastOf(<<>>, K)
BY DEF Holds, LastOf

\* A channel holds what was sent last and what it held before.
LEMMA HoldsAppend ==
  ASSUME NEW S, NEW ch \in Seq(S), NEW m \in S
  PROVE  /\ \A k : Holds(Append(ch, m), k) <=> Holds(ch, k) \/ m.kind = k
         /\ \A K : (\A k \in K : ~Holds(ch, k)) => LastOf(Append(ch, m), K)
<1> DEFINE new == Append(ch, m)
           n == Len(ch) + 1
<1>1. /\ DOMAIN ch = 1 .. Len(ch) /\ Len(ch) \in Nat
      /\ DOMAIN new = 1 .. n /\ Len(new) = n
      /\ \A i \in 1 .. Len(ch) : new[i] = ch[i]
      /\ new[n] = m
  BY AppendProperties, LenProperties
<1> HIDE DEF new
<1>2. \A k : Holds(new, k) <=> Holds(ch, k) \/ m.kind = k
  <2> TAKE k
  <2>1. ASSUME Holds(new, k)
        PROVE  Holds(ch, k) \/ m.kind = k
    <3>1. PICK i \in 1 .. n : new[i].kind = k
      BY <1>1, <2>1 DEF Holds
    <3>2. i = n \/ i \in 1 .. Len(ch)
      BY <1>1, <3>1
    <3> QED
      BY <1>1, <3>1, <3>2 DEF Holds
  <2>2. ASSUME Holds(ch, k)
        PROVE  Holds(new, k)
    <3>1. PICK i \in 1 .. Len(ch) : ch[i].kind = k
      BY <1>1, <2>2 DEF Holds
    <3>2. i \in DOMAIN new /\ new[i].kind = k
      BY <1>1, <3>1
    <3> QED
      BY <3>2 DEF Holds
  <2>3. ASSUME m.kind = k
        PROVE  Holds(new, k)
    <3>1. n \in DOMAIN new /\ new[n].kind = k
      BY <1>1, <2>3
    <3> QED
      BY <3>1 DEF Holds
  <2> QED
    BY <2>1, <2>2, <2>3
<1>3. ASSUME NEW K, \A k \in K : ~Holds(ch, k)
      PROVE  LastOf(new, K)
  <2>1. ASSUME NEW i \in DOMAIN new, new[i].kind \in K
        PROVE  i = n
    <3>1. CASE i \in 1 .. Len(ch)
      <4>1. i \in DOMAIN ch /\ ch[i].kind \in K
        BY <1>1, <2>1, <3>1
      <4> QED
        BY <1>3, <4>1 DEF Holds
    <3> QED
      BY <1>1, <2>1, <3>1
  <2> QED
    BY <1>1, <2>1 DEF LastOf
<1> QED
  BY <1>2, <1>3 DEF new

\* What is left of a channel was in it, and nothing is left when the last packet
\* has been received; that one is a packet it held.
LEMMA HoldsRest ==
  ASSUME NEW S, NEW ch \in Seq(S), NEW n \in 1 .. Len(ch)
  PROVE  /\ \A k : Holds(Rest(ch, n), k) => Holds(ch, k)
         /\ \A K : LastOf(ch, K) => LastOf(Rest(ch, n), K)
         /\ \A K : LastOf(ch, K) /\ Head(ch).kind \in K => Rest(ch, n) = <<>>
         /\ Holds(ch, Head(ch).kind)
<1> DEFINE rest == Rest(ch, n)
<1>1. /\ DOMAIN ch = 1 .. Len(ch) /\ Len(ch) \in Nat
      /\ 1 \in DOMAIN ch /\ Head(ch) = ch[1]
  BY LenProperties
<1>2. /\ DOMAIN rest = 1 .. Len(ch) - n /\ Len(rest) = Len(ch) - n
      /\ \A i \in 1 .. Len(ch) - n : rest[i] = ch[i + n]
      /\ rest \in Seq(S)
  <2>1. /\ DOMAIN rest = 1 .. Len(ch) - n
        /\ \A i \in 1 .. Len(ch) - n : rest[i] = ch[i + n]
        /\ rest \in Seq(S)
    BY <1>1 DEF Rest
  <2>2. Len(ch) \in Nat /\ n \in 1 .. Len(ch)
    BY <1>1
  <2>3. Len(rest) = Len(ch) - n
    BY <2>2 DEF Rest
  <2> QED
    BY <2>1, <2>3
<1> HIDE DEF rest
<1>3. ASSUME NEW i \in DOMAIN rest
      PROVE  /\ i + n \in DOMAIN ch /\ rest[i] = ch[i + n]
             /\ i + n = Len(ch) => i = Len(rest)
  BY <1>1, <1>2
<1>4. \A k : Holds(rest, k) => Holds(ch, k)
  BY <1>3 DEF Holds
<1>5. \A K : LastOf(ch, K) => LastOf(rest, K)
  BY <1>3 DEF LastOf
<1>6. ASSUME NEW K, LastOf(ch, K), Head(ch).kind \in K
      PROVE  rest = <<>>
  <2>1. Len(ch) = 1
    BY <1>1, <1>6 DEF LastOf
  <2>2. Len(rest) = 0
    BY <1>2, <2>1
  <2> QED
    BY <1>2, <2>2
<1>7. Holds(ch, Head(ch).kind)
  BY <1>1 DEF Holds
<1> QED
  BY <1>4, <1>5, <1>6, <1>7 DEF rest

\* A channel with nothing to count holds none of the kinds.
LEMMA HoldsCount ==
  ASSUME NEW S, NEW ch \in Seq(S), NEW K, Count(ch, K) = 0
  PROVE  \A k \in K : ~Holds(ch, k)
<1>1. \A i \in DOMAIN ch : ch[i].kind \notin K
  BY CountType
<1> QED
  BY <1>1 DEF Holds

-----------------------------------------------------------------------------
(* The invariant.                                                          *)

InRoom(c) == RoomsOf(c) # {}

\* Connected, or not yet.
Live(c) == link[c] \in {"none", "up"} /\ pc # "down"

\* The server's tables agree on the one room of c, and what is under way suits
\* them: nobody asks to join who is in a room, nobody speaks or asks to leave who
\* is in none, and nothing follows such a request.
TablesFit(c) ==
  /\ \A r \in RoomName : rooms[r][c] <= 1 /\ (rooms[r][c] > 0 => clientRooms[c] = r)
  /\ LastOf(c2s[c], Asking)
  /\ Holds(c2s[c], "JOIN") => ~InRoom(c)
  /\ Holds(c2s[c], "CHAT") \/ Holds(c2s[c], "EXIT") => InRoom(c)

\* A client that waits for nothing knows where it is.
FlagsFit(c) ==
  /\ awaiting[c] <= 1
  /\ awaiting[c] = 0 => (joined[c] <=> InRoom(c)) /\ (chatReady[c] <=> InRoom(c))
  /\ awaiting[c] > 0 => joined[c]
  /\ cpc[c] \in {"start", "name", "room", "text", "exit"} => awaiting[c] = 0
  /\ cpc[c] = "room" => ~joined[c]
  /\ cpc[c] = "text" => chatReady[c]
  /\ cpc[c] = "exit" => joined[c]

\* One that waits can chat until it is told that it has left, and not before it
\* is told that it has joined; when it is told so, it is so.
AnswerFits(c) ==
  /\ Holds(c2s[c], "JOIN") => ~chatReady[c]
  /\ Holds(c2s[c], "EXIT") => chatReady[c]
  /\ Due(c) = 1 => IF req.kind = "JOIN" THEN ~chatReady[c] /\ InRoom(c)
                                        ELSE chatReady[c] /\ ~InRoom(c)
  /\ Holds(s2c[c], "READY") => ~chatReady[c] /\ InRoom(c)
  /\ Holds(s2c[c], "LEFT") => chatReady[c] /\ ~InRoom(c)

ViewFits(c) == FlagsFit(c) /\ AnswerFits(c)

DialogueInv == \A c \in Client : TablesFit(c) /\ (Live(c) => ViewFits(c))

\* Being in a room is having an entry in one.
LEMMA InRoomIs ==
  ASSUME NEW c
  PROVE  InRoom(c) <=> \E r \in RoomName : rooms[r][c] > 0
BY DEF InRoom, RoomsOf

\* A client whose entries are left alone stays where it is.
LEMMA InRoomSame ==
  ASSUME NEW c, \A r \in RoomName : rooms'[r][c] = rooms[r][c]
  PROVE  InRoom(c)' <=> InRoom(c)
BY DEF InRoom, RoomsOf

\* The invariant of c outlasts a step that leaves its tables, its flags and what
\* it sent alone, unless the step sends it an answer or has one due.
LEMMA Unmoved ==
  ASSUME NEW c, TablesFit(c), Live(c) => ViewFits(c),
         \A r \in RoomName : rooms'[r][c] = rooms[r][c],
         UNCHANGED <<clientRooms[c], joined[c], chatReady[c], cpc[c], awaiting[c]>>,
         UNCHANGED c2s[c] \/ c2s'[c] = <<>>,
         Live(c)' => /\ Live(c)
                     /\ \A k \in Answering : Holds(s2c'[c], k) => Holds(s2c[c], k)
                     /\ Due(c)' = 0 \/ UNCHANGED <<Due(c), req>>
  PROVE  TablesFit(c)' /\ (Live(c)' => ViewFits(c)')
<1>1. InRoom(c)' <=> InRoom(c)
  BY InRoomSame
<1>2. /\ LastOf(c2s[c], Asking) => LastOf(c2s'[c], Asking)
      /\ \A k : Holds(c2s'[c], k) => Holds(c2s[c], k)
  BY HoldsEmpty
<1>3. TablesFit(c)'
  BY <1>1, <1>2 DEF TablesFit
<1>4. ASSUME Live(c)'
      PROVE  ViewFits(c)'
  <2>1. ViewFits(c)
    BY <1>4
  <2>2. FlagsFit(c)'
    BY <1>1, <2>1 DEF ViewFits, FlagsFit
  <2>3. /\ Holds(s2c'[c], "READY") => Holds(s2c[c], "READY")
        /\ Holds(s2c'[c], "LEFT") => Holds(s2c[c], "LEFT")
    BY <1>4 DEF Answering
  <2>4. Due(c)' = 1 => Due(c) = 1 /\ req' = req
    BY <1>4
  <2>5. AnswerFits(c)'
    BY <1>1, <1>2, <2>1, <2>3, <2>4 DEF ViewFits, AnswerFits
  <2> QED
    BY <2>2, <2>5 DEF ViewFits
<1> QED
  BY <1>3, <1>4

-----------------------------------------------------------------------------
(* The server keeps it.                                                    *)

\* What recv() and the handler do with the request at the front of the channel.
LEMMA ReceiveDoes ==
  ASSUME KnownInv, NEW s \in Client, ReceiveData(s)
  PROVE  /\ pc = "scan" /\ UNCHANGED <<link, s2c>>
         /\ \A c \in Client \ {s} : UNCHANGED c2s[c] /\ Due(c)' = 0
         /\ \E n \in 1 .. Len(c2s[s]) : c2s'[s] = Rest(c2s[s], n)
         /\ Head(c2s[s]) \in Request(s) /\ Head(c2s[s]).kind \in RequestKind
         /\ c2s[s] \in Seq(Packet)
         /\ req' = Head(c2s[s])
         /\ Due(s)' = IF req'.kind \in Asking THEN 1 ELSE 0
         /\ \/ HandleName(s, req')
            \/ HandleJoin(s, req')
            \/ HandleChat(s, req')
            \/ HandleExit(s, req')
<1> DEFINE m == Head(c2s[s])
<1>1. c2s \in [Client -> Seq(Packet)] /\ c2s[s] \in Seq(Request(s))
  BY DEF KnownInv, SystemInv, ServerInv, NetTypeOK, NamedInv, ServerShape
<1>2. c2s[s] # <<>> /\ pc = "scan" /\ UNCHANGED <<link, s2c>>
  BY DEF ReceiveData
<1>3. m \in Request(s) /\ m.kind \in RequestKind
  <2>1. m \in Request(s)
    BY <1>1, <1>2
  <2>2. m \in Packet
    BY <2>1, RequestIsPacket
  <2>3. m # None
    BY <2>2, PacketsAssumption DEF PacketsAssumption
  <2> QED
    BY <2>1, <2>3, RequestFields
<1>4. Parsed(Received(buffer, m)) = m
  BY <1>2 DEF KnownInv, NamedInv, ServerShape, Parsed, Received
<1>5. PICK n \in Batch(c2s[s]) : c2s' = [c2s EXCEPT ![s] = Rest(@, n)]
  BY DEF ReceiveData
<1>6. n \in 1 .. Len(c2s[s]) /\ c2s'[s] = Rest(c2s[s], n)
  BY <1>1, <1>5, NetworkAssumption DEF Batch, NetworkAssumption
<1>7. Handle(s, Received(buffer, m))
  BY DEF ReceiveData
<1> HIDE DEF m
<1>8. /\ cur' = s /\ req' = m /\ pc' = "send"
      /\ HandleOther(m) \/ HandleName(s, m) \/ HandleJoin(s, m) \/ HandleChat(s, m)
           \/ HandleExit(s, m)
  BY <1>4, <1>7 DEF Handle
<1>9. ~HandleOther(m)
  <2>1. m \in Packet
    BY <1>3, RequestIsPacket
  <2>2. m # None
    BY <2>1, PacketsAssumption DEF PacketsAssumption
  <2> QED
    BY <1>3, <2>2 DEF HandleOther
<1>10. \/ ack' = TRUE /\ m.kind \in Asking
       \/ ack' = FALSE /\ m.kind \notin Asking
  BY <1>8, <1>9 DEF HandleName, HandleJoin, HandleChat, HandleExit, Asking
<1>11. Due(s)' = IF m.kind \in Asking THEN 1 ELSE 0
  BY <1>8, <1>10 DEF Due
<1>12. \A c \in Client \ {s} : UNCHANGED c2s[c] /\ Due(c)' = 0
  BY <1>1, <1>5, <1>8 DEF Due
<1> QED
  BY <1>1, <1>2, <1>3, <1>6, <1>8, <1>9, <1>11, <1>12 DEF m

\* Receiving from c.
LEMMA ReceiveKeepsOwn ==
  ASSUME KnownInv, NoStrayAnswer, NEW c \in Client, ReceiveData(c),
         TablesFit(c), Live(c) => ViewFits(c),
         UNCHANGED <<joined, chatReady, cpc, awaiting>>
  PROVE  TablesFit(c)' /\ (Live(c)' => ViewFits(c)')
<1> DEFINE k == Head(c2s[c]).kind
<1>0. /\ rooms \in [RoomName -> [Client -> Nat]] /\ clientRooms \in [Client -> RoomName]
      /\ c2s[c] \in Seq(Packet) /\ s2c[c] \in Seq(Packet)
      /\ awaiting[c] \in Nat /\ UnderWay(c) <= awaiting[c]
  BY DEF KnownInv, SystemInv, ServerInv, ServerTypeOK, NetTypeOK, NoStrayAnswer
<1>1. /\ pc = "scan" /\ UNCHANGED <<link, s2c>>
      /\ req' = Head(c2s[c]) /\ Due(c)' = IF k \in Asking THEN 1 ELSE 0
      /\ Head(c2s[c]) \in Request(c)
  BY ReceiveDoes
<1>2. /\ \A j : Holds(c2s'[c], j) => Holds(c2s[c], j)
      /\ LastOf(c2s'[c], Asking)
      /\ k \in Asking => c2s'[c] = <<>>
      /\ Holds(c2s[c], k)
  <2>1. PICK n \in 1 .. Len(c2s[c]) : c2s'[c] = Rest(c2s[c], n)
    BY ReceiveDoes
  <2> QED
    BY <1>0, <2>1, HoldsRest DEF TablesFit
<1>3. Live(c)' => Live(c)
  BY <1>1 DEF Live
<1>4. CASE k \notin Asking
  <2>1. UNCHANGED <<rooms, clientRooms>>
    <3>1. \/ HandleName(c, req') \/ HandleJoin(c, req') \/ HandleChat(c, req')
          \/ HandleExit(c, req')
      BY ReceiveDoes
    <3> QED
      BY <1>1, <1>4, <3>1 DEF HandleName, HandleJoin, HandleChat, HandleExit, Asking, tables
  <2>2. InRoom(c)' <=> InRoom(c)
    BY <2>1, InRoomSame
  <2>3. Due(c)' = 0
    BY <1>1, <1>4
  <2>4. TablesFit(c)'
    BY <1>2, <2>1, <2>2 DEF TablesFit
  <2>5. ASSUME Live(c)'
        PROVE  ViewFits(c)'
    <3>1. FlagsFit(c)'
      BY <1>3, <2>2, <2>5 DEF ViewFits, FlagsFit
    <3>2. AnswerFits(c)'
      BY <1>1, <1>2, <1>3, <2>2, <2>3, <2>5 DEF ViewFits, AnswerFits
    <3> QED
      BY <3>1, <3>2 DEF ViewFits
  <2> QED
    BY <2>4, <2>5
\* A user who has asked waits, so nothing is on its way back.
<1>5. ASSUME k \in Asking, Live(c)
      PROVE  /\ awaiting[c] # 0 /\ joined[c]
             /\ ~Holds(s2c'[c], "READY") /\ ~Holds(s2c'[c], "LEFT")
  <2>1. Count(c2s[c], Asking) # 0
    BY <1>0, <1>2, <1>5, HoldsCount
  <2>2. /\ UnderWay(c) = Count(c2s[c], Asking) + Count(s2c[c], Answering) + Due(c)
        /\ Count(c2s[c], Asking) \in Nat /\ Count(s2c[c], Answering) \in Nat
        /\ Due(c) \in {0, 1}
    BY UnderWayIs DEF KnownInv
  <2>3. awaiting[c] <= 1
    BY <1>5 DEF ViewFits, FlagsFit
  <2>4. awaiting[c] # 0 /\ Count(s2c[c], Answering) = 0
    BY <1>0, <2>1, <2>2, <2>3
  <2>5. ~Holds(s2c[c], "READY") /\ ~Holds(s2c[c], "LEFT")
    BY <1>0, <2>4, HoldsCount DEF Answering
  <2>6. joined[c]
    BY <1>0, <1>5, <2>4 DEF ViewFits, FlagsFit
  <2> QED
    BY <1>1, <2>4, <2>5, <2>6
<1>6. ASSUME k \in Asking
      PROVE  /\ LastOf(c2s'[c], Asking) /\ \A j : ~Holds(c2s'[c], j)
             /\ Due(c)' = 1
  BY <1>1, <1>2, <1>6, HoldsEmpty
<1>7. ASSUME k \in Asking, Live(c)'
      PROVE  FlagsFit(c)'
  BY <1>0, <1>3, <1>5, <1>7 DEF ViewFits, FlagsFit
<1>8. CASE k = "JOIN"
  <2>1. HandleJoin(c, req') /\ req'.kind = "JOIN"
    <3>1. \/ HandleName(c, req') \/ HandleJoin(c, req') \/ HandleChat(c, req')
          \/ HandleExit(c, req')
      BY ReceiveDoes
    <3> QED
      BY <1>1, <1>8, <3>1 DEF HandleName, HandleChat, HandleExit
  <2>2. PICK r \in RoomName : r = req'.arg
    BY <1>1, <1>8, RequestFields
  <2>3. /\ rooms' = [rooms EXCEPT ![r][c] = @ + 1]
        /\ clientRooms' = [clientRooms EXCEPT ![c] = r]
    BY <2>1, <2>2 DEF HandleJoin
  <2>4. \A q \in RoomName : ~(rooms[q][c] > 0)
    BY <1>2, <1>8, InRoomIs DEF TablesFit
  <2>5. \A q \in RoomName : rooms'[q][c] = IF q = r THEN rooms[q][c] + 1 ELSE rooms[q][c]
    BY <1>0, <2>3
  <2>6. clientRooms'[c] = r
    BY <1>0, <2>3
  <2>7. \A q \in RoomName : rooms[q][c] \in Nat
    BY <1>0
  <2>8. /\ \A q \in RoomName :
             rooms'[q][c] <= 1 /\ (rooms'[q][c] > 0 => clientRooms'[c] = q)
        /\ rooms'[r][c] > 0
    BY <2>4, <2>5, <2>6, <2>7
  <2>9. InRoom(c)'
    BY <2>8 DEF InRoom, RoomsOf
  <2>10. k \in Asking
    BY <1>8 DEF Asking
  <2>11. TablesFit(c)'
    BY <1>6, <2>8, <2>10 DEF TablesFit
  <2>12. ASSUME Live(c)'
         PROVE  AnswerFits(c)'
    <3>1. ~chatReady[c]
      BY <1>2, <1>3, <1>8, <2>12 DEF ViewFits, AnswerFits
    <3> QED
      BY <1>3, <1>5, <1>6, <2>1, <2>9, <2>10, <2>12, <3>1 DEF AnswerFits
  <2> QED
    BY <1>7, <2>10, <2>11, <2>12 DEF ViewFits
<1>9. CASE k = "EXIT"
  <2>1. HandleExit(c, req') /\ req'.kind = "EXIT"
    <3>1. \/ HandleName(c, req') \/ HandleJoin(c, req') \/ HandleChat(c, req')
          \/ HandleExit(c, req')
      BY ReceiveDoes
    <3> QED
      BY <1>1, <1>9, <3>1 DEF HandleName, HandleChat, HandleJoin
  <2>2. PICK r \in RoomName : r = clientRooms[c]
    BY <1>0
  <2>3. rooms' = [rooms EXCEPT ![r][c] = 0]
    BY <2>1, <2>2 DEF HandleExit
  <2>4. \A q \in RoomName : rooms'[q][c] = IF q = r THEN 0 ELSE rooms[q][c]
    BY <1>0, <2>3
  <2>5. \A q \in RoomName : rooms[q][c] \in Nat /\ (rooms[q][c] > 0 => q = r)
    BY <1>0, <2>2 DEF TablesFit
  <2>6. \A q \in RoomName : rooms'[q][c] = 0
    BY <2>4, <2>5
  <2>7. ~InRoom(c)'
    BY <2>6 DEF InRoom, RoomsOf
  <2>8. k \in Asking
    BY <1>9 DEF Asking
  <2>9. TablesFit(c)'
    BY <1>6, <2>6, <2>8 DEF TablesFit
  <2>10. ASSUME Live(c)'
         PROVE  AnswerFits(c)'
    <3>1. chatReady[c]
      BY <1>2, <1>3, <1>9, <2>10 DEF ViewFits, AnswerFits
    <3> QED
      BY <1>3, <1>5, <1>6, <2>1, <2>7, <2>8, <2>10, <3>1 DEF AnswerFits
  <2> QED
    BY <1>7, <2>8, <2>9, <2>10 DEF ViewFits
<1> QED
  BY <1>4, <1>8, <1>9 DEF Asking

\* Receiving from one client leaves every other one alone.
LEMMA ReceiveKeepsOthers ==
  ASSUME KnownInv, NEW s \in Client, ReceiveData(s), NEW c \in Client \ {s},
         TablesFit(c), Live(c) => ViewFits(c),
         UNCHANGED <<joined, chatReady, cpc, awaiting>>
  PROVE  TablesFit(c)' /\ (Live(c)' => ViewFits(c)')
<1>1. /\ rooms \in [RoomName -> [Client -> Nat]] /\ clientRooms \in [Client -> RoomName]
  BY DEF KnownInv, SystemInv, ServerInv, ServerTypeOK
<1>2. /\ pc = "scan" /\ UNCHANGED <<link, s2c>>
      /\ UNCHANGED c2s[c] /\ Due(c)' = 0
      /\ \/ HandleName(s, req') \/ HandleJoin(s, req') \/ HandleChat(s, req')
         \/ HandleExit(s, req')
  BY ReceiveDoes
<1>3. /\ \A r \in RoomName : rooms'[r][c] = rooms[r][c]
      /\ clientRooms'[c] = clientRooms[c]
  BY <1>1, <1>2 DEF HandleName, HandleJoin, HandleChat, HandleExit, tables
<1>4. Live(c)' => Live(c) /\ \A k \in Answering : Holds(s2c'[c], k) => Holds(s2c[c], k)
  BY <1>2 DEF Live
<1> QED
  BY <1>2, <1>3, <1>4, Unmoved

\* Sending a packet to d: c = d holds the packet from then on, or its connection
\* is lost; everybody else is left alone.
LEMMA SendKeeps ==
  ASSUME KnownInv, NEW d \in Client, NEW q \in Packet, Send(d, q), pc = "send",
         NEW c \in Client, TablesFit(c), Live(c) => ViewFits(c),
         Due(c)' = 0, c = d => q.kind \notin Answering,
         UNCHANGED <<joined, chatReady, cpc, awaiting>>
  PROVE  TablesFit(c)' /\ (Live(c)' => ViewFits(c)')
<1>1. /\ c # d => UNCHANGED <<link[c], c2s[c], s2c[c]>>
      /\ \/ UNCHANGED <<link[d], c2s[d]>> /\ s2c'[d] = Append(s2c[d], q)
         \/ link'[d] = "rst" /\ c2s'[d] = <<>> /\ s2c'[d] = <<>>
  BY SendMovesAnswer
<1>2. UNCHANGED tables /\ pc' = pc
  BY DEF Send
<1>3. s2c[c] \in Seq(Packet)
  BY DEF KnownInv, SystemInv, ServerInv, NetTypeOK
<1>4. ASSUME Live(c)'
      PROVE  Live(c) /\ \A k \in Answering : Holds(s2c'[c], k) => Holds(s2c[c], k)
  <2>1. /\ link'[c] = link[c]
        /\ s2c'[c] = s2c[c] \/ (c = d /\ s2c'[c] = Append(s2c[c], q))
    BY <1>1, <1>4 DEF Live
  <2>2. Live(c)
    BY <1>2, <1>4, <2>1 DEF Live
  <2>3. \A k \in Answering : Holds(s2c'[c], k) => Holds(s2c[c], k)
    <3>1. \A k : Holds(Append(s2c[c], q), k) <=> Holds(s2c[c], k) \/ q.kind = k
      BY <1>3, HoldsAppend
    <3> QED
      BY <2>1, <3>1, Zenon
  <2> QED
    BY <2>2, <2>3
<1>5. UNCHANGED c2s[c] \/ c2s'[c] = <<>>
  BY <1>1
<1>6. /\ \A r \in RoomName : rooms'[r][c] = rooms[r][c]
      /\ clientRooms'[c] = clientRooms[c]
  BY <1>2 DEF tables
<1> QED
  BY <1>4, <1>5, <1>6, Unmoved

\* Sending c the answer it waits for: what was due is then on its way.
LEMMA SendAckKeeps ==
  ASSUME KnownInv, NEW c \in Client, c = cur, SendAck,
         TablesFit(c), Live(c) => ViewFits(c),
         UNCHANGED <<joined, chatReady, cpc, awaiting>>
  PROVE  TablesFit(c)' /\ (Live(c)' => ViewFits(c)')
<1>1. Ack \in Packet
  BY AnswersArePackets DEF SendAck, KnownInv, SystemInv
<1>2. pc = "send" /\ ack /\ Send(c, Ack) /\ ack' = FALSE
  BY DEF SendAck
<1>3. PICK q \in Packet : q = Ack
  BY <1>1
<1>4. /\ \/ UNCHANGED <<link[c], c2s[c]>> /\ s2c'[c] = Append(s2c[c], q)
         \/ link'[c] = "rst" /\ c2s'[c] = <<>> /\ s2c'[c] = <<>>
  BY <1>2, <1>3, SendMovesAnswer
<1>5. UNCHANGED tables /\ pc' = pc /\ UNCHANGED req
  BY <1>2 DEF Send
<1>6. Due(c) = 1 /\ Due(c)' = 0
  BY <1>2 DEF Due
<1>7. q.kind = IF req.kind = "JOIN" THEN "READY" ELSE "LEFT"
  BY <1>3 DEF Ack
<1>8. s2c[c] \in Seq(Packet)
  BY DEF KnownInv, SystemInv, ServerInv, NetTypeOK
<1>9. InRoom(c)' <=> InRoom(c)
  BY <1>5, InRoomSame DEF tables
<1>10. TablesFit(c)'
  BY <1>4, <1>5, <1>9, HoldsEmpty DEF TablesFit, tables
<1>11. ASSUME Live(c)'
       PROVE  ViewFits(c)'
  <2>1. UNCHANGED <<link[c], c2s[c]>> /\ s2c'[c] = Append(s2c[c], q)
    BY <1>4, <1>11 DEF Live
  <2>2. ViewFits(c)
    BY <1>5, <1>11, <2>1 DEF Live
  <2>3. FlagsFit(c)'
    BY <1>9, <2>2 DEF ViewFits, FlagsFit
  <2>4. /\ Holds(s2c'[c], "READY") => Holds(s2c[c], "READY") \/ req.kind = "JOIN"
        /\ Holds(s2c'[c], "LEFT") => Holds(s2c[c], "LEFT") \/ req.kind # "JOIN"
    BY <1>7, <1>8, <2>1, HoldsAppend
  <2>5. AnswerFits(c)'
    BY <1>6, <1>9, <2>1, <2>2, <2>4 DEF ViewFits, AnswerFits
  <2> QED
    BY <2>3, <2>5 DEF ViewFits
<1> QED
  BY <1>10, <1>11

\* Every step of the server keeps the invariant.
LEMMA ServerKeepsDialogue ==
  ASSUME KnownInv, NoStrayAnswer, DialogueInv, ServerNext,
         UNCHANGED <<joined, chatReady, cpc, awaiting>>
  PROVE  DialogueInv'
<1> SUFFICES ASSUME NEW c \in Client
             PROVE  TablesFit(c)' /\ (Live(c)' => ViewFits(c)')
  BY DEF DialogueInv
<1> DEFINE Kept == TablesFit(c)' /\ (Live(c)' => ViewFits(c)')
<1>0. TablesFit(c) /\ (Live(c) => ViewFits(c))
  BY DEF DialogueInv
<1>1. ASSUME UNCHANGED <<rooms, clientRooms>>, Due(c)' = 0,
             UNCHANGED netVars, pc # "down"
      PROVE  Kept
  <2>1. Live(c)' => Live(c) /\ \A k \in Answering : Holds(s2c'[c], k) => Holds(s2c[c], k)
    BY <1>1 DEF netVars, Live
  <2>2. UNCHANGED c2s[c]
    BY <1>1 DEF netVars
  <2> QED
    BY <1>0, <1>1, <2>1, <2>2, Unmoved
<1>2. ASSUME NEW s \in Client, ReceiveData(s)
      PROVE  Kept
  BY <1>0, <1>2, ReceiveKeepsOwn, ReceiveKeepsOthers
<1>3. ASSUME NEW s \in Client, ReceiveEnd(s)
      PROVE  Kept
  <2>1. UNCHANGED tables /\ ack' = FALSE
    <3>1. Parsed(buffer) = None
      BY <1>3 DEF ReceiveEnd, Parsed, KnownInv, SystemInv, ServerInv, BufferRewound
    <3> QED
      BY <1>3, <3>1 DEF ReceiveEnd, Handle, HandleOther, HandleName, HandleJoin, HandleChat,
         HandleExit
  <2>2. Due(c)' = 0
    BY <2>1 DEF Due
  <2>3. UNCHANGED netVars /\ pc # "down"
    BY <1>3 DEF ReceiveEnd
  <2> HIDE DEF Kept
  <2> QED
    BY <1>1, <2>1, <2>2, <2>3 DEF tables
<1>4. ASSUME ServerExit
      PROVE  Kept
  <2>1. pc' = "down" /\ c2s'[c] = <<>> /\ UNCHANGED tables
    BY <1>4 DEF ServerExit, CloseServerEnds
  <2>2. ~Live(c)'
    BY <2>1 DEF Live
  <2> QED
    BY <1>0, <2>1, <2>2, Unmoved DEF tables
<1>5. ASSUME SelectFails \/ AcceptFails \/ \E s \in Client : ReceiveFails(s) \/ SendFails(s)
      PROVE  Kept
  BY <1>4, <1>5 DEF SelectFails, AcceptFails, ReceiveFails, SendFails
<1>6. ASSUME SendAck
      PROVE  Kept
  <2>1. cur \in Client /\ Ack \in Packet
    BY <1>6, AnswersArePackets
       DEF SendAck, KnownInv, SystemInv, ServerInv, SendingJustified
  <2>2. pc = "send" /\ Send(cur, Ack) /\ Due(c)' = 0
    BY <1>6 DEF SendAck, Due
  <2>3. CASE c = cur
    BY <1>0, <1>6, <2>3, SendAckKeeps
  <2>4. CASE c # cur
    <3>1. PICK d \in Client, q \in Packet : d = cur /\ q = Ack
      BY <2>1
    <3> QED
      BY <1>0, <2>2, <2>4, <3>1, SendKeeps
  <2> QED
    BY <2>3, <2>4
<1>7. ASSUME NEW d \in Client, SendNotice(d)
      PROVE  Kept
  <2>1. Notice(d) \in Packet /\ Notice(d).kind \notin Answering
    BY <1>7, AnswersArePackets
       DEF SendNotice, KnownInv, SystemInv, Notice, Answering
  <2>2. pc = "send" /\ Send(d, Notice(d)) /\ Due(c)' = 0
    BY <1>7 DEF SendNotice, Due
  <2>3. PICK q \in Packet : q = Notice(d)
    BY <2>1
  <2> QED
    BY <1>0, <2>1, <2>2, <2>3, SendKeeps
<1>8. ASSUME Select \/ EndHandling \/ Accept \/ PassEnds
      PROVE  Kept
  <2>1. UNCHANGED <<link, c2s, s2c>> /\ pc # "down" /\ UNCHANGED tables
    BY <1>8 DEF Select, EndHandling, Accept, PassEnds, ScanOver, netVars
  <2>2. Due(c)' = 0
    BY <1>8 DEF Select, EndHandling, Accept, PassEnds, ScanOver, Due
  <2>3. Live(c)' => Live(c) /\ \A k \in Answering : Holds(s2c'[c], k) => Holds(s2c[c], k)
    BY <2>1 DEF Live
  <2> QED
    BY <1>0, <2>1, <2>2, <2>3, Unmoved DEF tables
<1>9. Kept
  <2> HIDE DEF Kept
  <2> QED
    BY <1>2, <1>3, <1>5, <1>6, <1>7, <1>8
       DEF ServerNext, ServerStep, Receive, Transmit
<1> QED
  BY <1>9

-----------------------------------------------------------------------------
(* The clients keep it, when their users are patient.                      *)

\* For a user who waits for nothing, nothing is under way.
LEMMA IdleIs ==
  ASSUME KnownInv, NoStrayAnswer, NEW c \in Client, awaiting[c] = 0
  PROVE  /\ Due(c) = 0
         /\ \A k \in Asking : ~Holds(c2s[c], k)
         /\ \A k \in Answering : ~Holds(s2c[c], k)
<1>1. c2s[c] \in Seq(Packet) /\ s2c[c] \in Seq(Packet) /\ UnderWay(c) <= awaiting[c]
  BY DEF KnownInv, SystemInv, ServerInv, NetTypeOK, NoStrayAnswer
<1>2. /\ UnderWay(c) = Count(c2s[c], Asking) + Count(s2c[c], Answering) + Due(c)
      /\ Count(c2s[c], Asking) \in Nat /\ Count(s2c[c], Answering) \in Nat
      /\ Due(c) \in {0, 1}
  BY UnderWayIs DEF KnownInv
<1>3. Count(c2s[c], Asking) = 0 /\ Count(s2c[c], Answering) = 0 /\ Due(c) = 0
  BY <1>1, <1>2
<1> QED
  BY <1>1, <1>3, HoldsCount

\* A client's connection is not established by anything but its start.
LEMMA StaysLive ==
  ASSUME KnownInv, NEW c \in Client, ClientStep(c), Live(c)'
  PROVE  Live(c)
<1>0. link \in [Client -> LinkState]
  BY DEF KnownInv, SystemInv, ServerInv, NetTypeOK
<1>1. pc # "down"
  BY DEF ClientStep, serverVars, Live
<1>2. CASE Start(c)
  BY <1>1, <1>2 DEF Start, ConnectSocket, KnownInv, ConformInv, ClientFits, Live
<1>3. CASE ~Start(c)
  <2>1. link'[c] \in {link[c], "cfin", "rst"}
    BY <1>0, <1>3 DEF ClientStep, Introduce, EnterName, Press, PressEsc,
       PressJ, PressTab, PressE, Ask, EnterRoom, SendExit, Say, EnterText, WriteResponse,
       ResetLink, Loop,
       PollNothing, PollPacket, PollEnd, PollFails, Leave, Quit, CloseClientEnd,
       WriteResponseFails, netVars
  <2> QED
    BY <1>1, <2>1 DEF Live
<1> QED
  BY <1>2, <1>3

\* A request that suits the place its client has is the last packet on the way,
\* and nothing is on its way back.
LEMMA RequestKeeps ==
  ASSUME KnownInv, NoStrayAnswer, NEW c \in Client,
         TablesFit(c), Live(c) => ViewFits(c),
         NEW p \in Request(c), WriteResponse(c, p), UNCHANGED serverVars,
         cpc[c] \in {"name", "room", "text", "exit"},
         Live(c) => /\ awaiting[c] = 0
                    /\ p.kind = "JOIN" => ~InRoom(c)
                    /\ p.kind \in {"CHAT", "EXIT"} => InRoom(c)
  PROVE  /\ TablesFit(c)'
         /\ Live(c)' =>
              /\ Live(c) /\ Due(c)' = 0
              /\ Holds(c2s'[c], "JOIN") => p.kind = "JOIN"
              /\ Holds(c2s'[c], "EXIT") => p.kind = "EXIT"
              /\ ~Holds(s2c'[c], "READY") /\ ~Holds(s2c'[c], "LEFT")
<1>0. c2s[c] \in Seq(Packet) /\ p \in Packet
  BY RequestIsPacket DEF KnownInv, SystemInv, ServerInv, NetTypeOK
<1>1. UNCHANGED <<rooms, clientRooms, pc>> /\ Due(c)' = Due(c)
  BY DEF serverVars, Due
<1>2. InRoom(c)' <=> InRoom(c)
  BY <1>1, InRoomSame
<1>3. CASE link[c] = "up" /\ UNCHANGED <<link, s2c>> /\ c2s'[c] = Append(c2s[c], p)
  <2>1. Live(c)
    BY <1>3 DEF Live, KnownInv, NamedInv, ServerShape
  <2>2. /\ Due(c) = 0
        /\ \A k \in Asking : ~Holds(c2s[c], k)
        /\ \A k \in Answering : ~Holds(s2c[c], k)
    BY <2>1, IdleIs
  <2>3. /\ \A k : Holds(c2s'[c], k) <=> Holds(c2s[c], k) \/ p.kind = k
        /\ LastOf(c2s'[c], Asking)
    BY <1>0, <1>3, <2>2, HoldsAppend
  <2>4. ~Holds(c2s[c], "JOIN") /\ ~Holds(c2s[c], "EXIT")
    BY <2>2 DEF Asking
  <2>5. TablesFit(c)'
    BY <1>1, <1>2, <2>1, <2>3, <2>4 DEF TablesFit
  <2>6. ~Holds(s2c'[c], "READY") /\ ~Holds(s2c'[c], "LEFT")
    BY <1>3, <2>2 DEF Answering
  <2> QED
    BY <1>1, <2>1, <2>2, <2>3, <2>4, <2>5, <2>6
<1>4. CASE link'[c] = "rst" /\ c2s'[c] = <<>>
  BY <1>1, <1>2, <1>4, HoldsEmpty DEF TablesFit, Live
<1> QED
  BY <1>3, <1>4, ClientWrites

\* The tables stay as they suit c when its client sends nothing, and what is under
\* way suits its flags when they and the channels stay too.
LEMMA QuietKeeps ==
  ASSUME NEW c, UNCHANGED serverVars, UNCHANGED c2s[c] \/ c2s'[c] = <<>>, TablesFit(c)
  PROVE  /\ TablesFit(c)'
         /\ (InRoom(c)' <=> InRoom(c)) /\ Due(c)' = Due(c) /\ UNCHANGED req
         /\ AnswerFits(c) /\ UNCHANGED <<chatReady[c], s2c[c]>> => AnswerFits(c)'
<1>1. UNCHANGED <<rooms, clientRooms, pc, req>> /\ Due(c)' = Due(c)
  BY DEF serverVars, Due
<1>2. InRoom(c)' <=> InRoom(c)
  BY <1>1, InRoomSame
<1>3. /\ LastOf(c2s'[c], Asking)
      /\ \A k : Holds(c2s'[c], k) => Holds(c2s[c], k)
  BY HoldsEmpty DEF TablesFit
<1>4. TablesFit(c)'
  BY <1>1, <1>2, <1>3 DEF TablesFit
<1>5. ASSUME AnswerFits(c), UNCHANGED <<chatReady[c], s2c[c]>>
      PROVE  AnswerFits(c)'
  BY <1>1, <1>2, <1>3, <1>5 DEF AnswerFits
<1> QED
  BY <1>1, <1>2, <1>4, <1>5

\* What printing a packet does to the flags, and to the count of its user.
LEMMA PollDoes ==
  ASSUME KnownInv, NEW c \in Client, Loop(c), PollPacket(c)
  PROVE  LET m == Head(s2c[c]) IN
         /\ s2c[c] \in Seq(Packet) /\ \E n \in 1 .. Len(s2c[c]) : s2c'[c] = Rest(s2c[c], n)
         /\ UNCHANGED <<link, c2s>> /\ cpc'[c] = "loop"
         /\ joined'[c] <=> joined[c] /\ m.kind # "LEFT"
         /\ chatReady'[c] <=> (chatReady[c] \/ m.kind = "READY") /\ m.kind # "LEFT"
         /\ awaiting'[c] = IF m.kind \in Answering /\ awaiting[c] > 0
                           THEN awaiting[c] - 1 ELSE awaiting[c]
<1> DEFINE m == Head(s2c[c])
<1>0. /\ s2c \in [Client -> Seq(Packet)] /\ awaiting \in [Client -> Nat]
      /\ cpc \in [Client -> ClientPc]
      /\ joined \in [Client -> BOOLEAN] /\ chatReady \in [Client -> BOOLEAN]
  BY DEF KnownInv, SystemInv, ServerInv, NetTypeOK, ClientTypeOK
<1>1. s2c[c] \in Seq(Packet) /\ s2c[c] # <<>> /\ UNCHANGED <<link, c2s>>
  BY <1>0 DEF PollPacket
<1>2. PICK n \in Batch(s2c[c]) : s2c' = [s2c EXCEPT ![c] = Rest(@, n)]
  BY DEF PollPacket
<1>3. n \in 1 .. Len(s2c[c]) /\ s2c'[c] = Rest(s2c[c], n)
  BY <1>0, <1>2, NetworkAssumption DEF Batch, NetworkAssumption
<1>4. s2c'[c] # s2c[c]
  <2>1. Len(Rest(s2c[c], n)) = Len(s2c[c]) - n /\ Len(s2c[c]) \in Nat
    BY <1>1, <1>3 DEF Rest
  <2>2. Len(Rest(s2c[c], n)) # Len(s2c[c])
    BY <1>3, <2>1
  <2> QED
    BY <1>3, <2>2
<1>5. m \in Packet /\ m # None
  <2>1. m \in Packet
    BY <1>1
  <2> QED
    BY <2>1, PacketsAssumption DEF PacketsAssumption
<1>6. Parsed(Received(ReinitializeIndex(cbuf[c]), m)) = m
  BY DEF Parsed, Received, ReinitializeIndex
<1>7. PrintReceivedMessage(c, Received(ReinitializeIndex(cbuf[c]), m))
  BY DEF PollPacket
<1> HIDE DEF m
<1>8. /\ cpc' = [cpc EXCEPT ![c] = "loop"]
      /\ joined' = [joined EXCEPT ![c] = @ /\ ~(m # None /\ m.kind = "LEFT")]
      /\ chatReady' = [chatReady EXCEPT
           ![c] = (@ \/ (m # None /\ m.kind = "READY")) /\ ~(m # None /\ m.kind = "LEFT")]
  BY <1>6, <1>7 DEF PrintReceivedMessage, Goto
<1>9. /\ cpc'[c] = "loop"
      /\ joined'[c] <=> joined[c] /\ m.kind # "LEFT"
      /\ chatReady'[c] <=> (chatReady[c] \/ m.kind = "READY") /\ m.kind # "LEFT"
  BY <1>0, <1>5, <1>8
<1>10. IF m.kind \in Answering /\ awaiting[c] > 0
       THEN awaiting' = [awaiting EXCEPT ![c] = @ - 1]
       ELSE awaiting' = awaiting
  BY <1>4 DEF Loop, Answering, m
<1>11. awaiting'[c] = IF m.kind \in Answering /\ awaiting[c] > 0
                      THEN awaiting[c] - 1 ELSE awaiting[c]
  BY <1>0, <1>10
<1> QED
  BY <1>1, <1>3, <1>9, <1>11 DEF m

\* Printing a packet.
LEMMA PollKeeps ==
  ASSUME KnownInv, NoStrayAnswer, NEW c \in Client, Loop(c), PollPacket(c),
         TablesFit(c), Live(c), ViewFits(c), UNCHANGED serverVars
  PROVE  ViewFits(c)'
<1> DEFINE m == Head(s2c[c])
<1>0. /\ s2c[c] \in Seq(Packet) /\ awaiting[c] \in Nat /\ UnderWay(c) <= awaiting[c]
      /\ c2s[c] \in Seq(Packet)
  BY DEF KnownInv, SystemInv, ServerInv, NetTypeOK, NoStrayAnswer
<1>1. PICK n \in 1 .. Len(s2c[c]) : s2c'[c] = Rest(s2c[c], n)
  BY PollDoes
<1>2. /\ UNCHANGED <<link, c2s>> /\ cpc'[c] = "loop"
      /\ joined'[c] <=> joined[c] /\ m.kind # "LEFT"
      /\ chatReady'[c] <=> (chatReady[c] \/ m.kind = "READY") /\ m.kind # "LEFT"
      /\ awaiting'[c] = IF m.kind \in Answering /\ awaiting[c] > 0
                        THEN awaiting[c] - 1 ELSE awaiting[c]
  BY PollDoes
<1>3. /\ \A k : Holds(s2c'[c], k) => Holds(s2c[c], k)
      /\ Holds(s2c[c], m.kind)
  BY <1>0, <1>1, HoldsRest
<1>4. (InRoom(c)' <=> InRoom(c)) /\ Due(c)' = Due(c) /\ UNCHANGED req
  BY <1>2, QuietKeeps
<1>5. awaiting[c] <= 1 /\ (awaiting[c] > 0 => joined[c])
  BY DEF ViewFits, FlagsFit
<1> HIDE DEF m
<1>6. CASE m.kind \notin Answering
  <2>1. /\ joined'[c] <=> joined[c]
        /\ chatReady'[c] <=> chatReady[c]
        /\ awaiting'[c] = awaiting[c]
    BY <1>2, <1>6 DEF Answering
  <2>2. FlagsFit(c)'
    BY <1>2, <1>4, <2>1 DEF ViewFits, FlagsFit
  <2>3. AnswerFits(c)'
    BY <1>2, <1>3, <1>4, <2>1 DEF ViewFits, AnswerFits
  <2> QED
    BY <2>2, <2>3 DEF ViewFits
<1>7. CASE m.kind \in Answering
  <2>1. /\ UnderWay(c) = Count(c2s[c], Asking) + Count(s2c[c], Answering) + Due(c)
        /\ Count(c2s[c], Asking) \in Nat /\ Count(s2c[c], Answering) \in Nat
        /\ Due(c) \in {0, 1}
    BY UnderWayIs DEF KnownInv
  <2>2. s2c'[c] \in Seq(Packet) /\ Count(s2c'[c], Answering) \in Nat
    <3>1. s2c'[c] \in Seq(Packet)
      BY <1>0, <1>1 DEF Rest
    <3> QED
      BY <3>1, CountType
  <2>3. Count(s2c'[c], Answering) + 1 <= Count(s2c[c], Answering)
    BY <1>0, <1>1, <1>7, CountRest DEF m
  <2>4. /\ awaiting[c] = 1 /\ Count(c2s[c], Asking) = 0 /\ Due(c) = 0
        /\ Count(s2c'[c], Answering) = 0
    BY <1>0, <1>5, <2>1, <2>2, <2>3
  <2>5. /\ ~Holds(c2s[c], "JOIN") /\ ~Holds(c2s[c], "EXIT")
        /\ ~Holds(s2c'[c], "READY") /\ ~Holds(s2c'[c], "LEFT")
    BY <1>0, <2>2, <2>4, HoldsCount DEF Asking, Answering
  <2>6. awaiting'[c] = 0 /\ joined[c]
    BY <1>2, <1>5, <1>7, <2>4
  <2>7. /\ joined'[c] <=> InRoom(c)
        /\ chatReady'[c] <=> InRoom(c)
    <3>1. CASE m.kind = "READY"
      <4>1. InRoom(c)
        BY <1>3, <3>1 DEF ViewFits, AnswerFits
      <4> QED
        BY <1>2, <2>6, <3>1, <4>1
    <3>2. CASE m.kind = "LEFT"
      <4>1. ~InRoom(c)
        BY <1>3, <3>2 DEF ViewFits, AnswerFits
      <4> QED
        BY <1>2, <3>2, <4>1
    <3> QED
      BY <1>7, <3>1, <3>2 DEF Answering
  <2>8. FlagsFit(c)'
    BY <1>2, <1>4, <2>6, <2>7 DEF FlagsFit
  <2>9. AnswerFits(c)'
    BY <1>2, <1>4, <2>4, <2>5 DEF AnswerFits
  <2> QED
    BY <2>8, <2>9 DEF ViewFits
<1> QED
  BY <1>6, <1>7

\* Every step of a client keeps the invariant for it.
LEMMA ClientKeepsDialogue ==
  ASSUME Patient, KnownInv, NoStrayAnswer, NEW c \in Client, ClientStep(c),
         TablesFit(c), Live(c) => ViewFits(c)
  PROVE  TablesFit(c)' /\ (Live(c)' => ViewFits(c)')
<1> DEFINE Kept == TablesFit(c)' /\ (Live(c)' => ViewFits(c)')
<1>0. /\ cpc \in [Client -> ClientPc] /\ awaiting \in [Client -> Nat]
      /\ joined \in [Client -> BOOLEAN] /\ chatReady \in [Client -> BOOLEAN]
      /\ UNCHANGED serverVars
  BY DEF KnownInv, SystemInv, ClientTypeOK, ClientStep
<1>1. Live(c)' => Live(c)
  BY StaysLive
<1>2. InRoom(c)' <=> InRoom(c)
  BY <1>0, InRoomSame DEF serverVars
\* A client that goes somewhere else and sends and prints nothing.
<1>3. ASSUME UNCHANGED <<joined[c], chatReady[c], awaiting[c], c2s[c], s2c[c]>>,
             Live(c) => \/ cpc'[c] \notin {"start", "name", "room", "text", "exit"}
                        \/ cpc'[c] = "name" /\ awaiting[c] = 0
                        \/ cpc'[c] = "room" /\ awaiting[c] = 0 /\ ~joined[c]
                        \/ cpc'[c] = "text" /\ awaiting[c] = 0 /\ chatReady[c]
                        \/ cpc'[c] = "exit" /\ awaiting[c] = 0 /\ joined[c]
      PROVE  Kept
  <2>1. TablesFit(c)' /\ (AnswerFits(c) => AnswerFits(c)')
    BY <1>0, <1>3, QuietKeeps
  <2>2. ASSUME Live(c)'
        PROVE  FlagsFit(c)'
    BY <1>1, <1>2, <1>3, <2>2 DEF ViewFits, FlagsFit
  <2> QED
    BY <1>1, <2>1, <2>2 DEF ViewFits
<1>4. ASSUME Start(c)
      PROVE  Kept
  <2>1. /\ UNCHANGED <<joined, chatReady, awaiting, c2s, s2c>>
        /\ cpc[c] = "start" /\ cpc'[c] = "name"
    BY <1>0, <1>4 DEF Start, ConnectSocket, Connected, Goto, netVars, userVars
  <2>2. Live(c) => awaiting[c] = 0
    BY <2>1 DEF ViewFits, FlagsFit
  <2> HIDE DEF Kept
  <2> QED
    BY <1>3, <2>1, <2>2
<1>5. ASSUME Press(c)
      PROVE  Kept
  <2>1. UNCHANGED <<joined, chatReady, awaiting, c2s, s2c>> /\ awaiting[c] = 0
    BY <1>5 DEF Press, WillPress, PressEsc, PressJ, PressTab, PressE, netVars, userVars
  <2>2. \/ cpc'[c] = "poll"
        \/ cpc'[c] = "room" /\ ~joined[c]
        \/ cpc'[c] = "text" /\ chatReady[c]
        \/ cpc'[c] = "exit" /\ joined[c]
    BY <1>0, <1>5 DEF Press, PressEsc, PressJ, PressTab, PressE, Goto
  <2> HIDE DEF Kept
  <2> QED
    BY <1>3, <2>1, <2>2
<1>6. ASSUME WriteResponseFails(c), UNCHANGED userVars
      PROVE  Kept
  <2>1. UNCHANGED <<joined, chatReady, awaiting, c2s, s2c>> /\ cpc'[c] = "gone"
    BY <1>0, <1>6 DEF WriteResponseFails, Goto, netVars, userVars
  <2> HIDE DEF Kept
  <2> QED
    BY <1>3, <2>1
<1>7. ASSUME Leave(c)
      PROVE  Kept
  <2>1. /\ UNCHANGED <<joined, chatReady, awaiting>> /\ cpc'[c] = "gone"
        /\ \/ UNCHANGED <<c2s[c], s2c[c]>>
           \/ ~Live(c)' /\ (UNCHANGED c2s[c] \/ c2s'[c] = <<>>)
    <3>1. /\ link \in [Client -> LinkState]
          /\ c2s \in [Client -> Seq(Packet)] /\ s2c \in [Client -> Seq(Packet)]
      BY DEF KnownInv, SystemInv, ServerInv, NetTypeOK
    <3> QED
      BY <1>0, <1>7, <3>1
         DEF Leave, Quit, CloseClientEnd, ResetLink, Goto, Live, userVars
  <2>2. CASE UNCHANGED <<c2s[c], s2c[c]>>
    <3> HIDE DEF Kept
    <3> QED
      BY <1>3, <2>1, <2>2
  <2>3. CASE ~Live(c)' /\ (UNCHANGED c2s[c] \/ c2s'[c] = <<>>)
    BY <1>0, <2>3, QuietKeeps
  <2> QED
    BY <2>1, <2>2, <2>3
\* What a request that suits the client's place leaves.
<1>8. ASSUME NEW p \in Request(c), WriteResponse(c, p),
             cpc[c] \in {"name", "room", "text", "exit"},
             Live(c) => /\ awaiting[c] = 0
                        /\ p.kind = "JOIN" => ~joined[c]
                        /\ p.kind \in {"CHAT", "EXIT"} => joined[c] \/ chatReady[c]
      PROVE  /\ TablesFit(c)'
             /\ Live(c)' =>
                  /\ FlagsFit(c) /\ awaiting[c] = 0
                  /\ Due(c)' = 0
                  /\ Holds(c2s'[c], "JOIN") => p.kind = "JOIN"
                  /\ Holds(c2s'[c], "EXIT") => p.kind = "EXIT"
                  /\ ~Holds(s2c'[c], "READY") /\ ~Holds(s2c'[c], "LEFT")
  <2>1. Live(c) => /\ FlagsFit(c) /\ awaiting[c] = 0
                   /\ p.kind = "JOIN" => ~InRoom(c)
                   /\ p.kind \in {"CHAT", "EXIT"} => InRoom(c)
    BY <1>8 DEF ViewFits, FlagsFit
  <2> QED
    BY <1>0, <1>1, <1>8, <2>1, RequestKeeps
<1>9. ASSUME Introduce(c)
      PROVE  Kept
  <2>1. /\ Name(c) \in Request(c) /\ Name(c).kind = "NAME"
        /\ WriteResponse(c, Name(c)) /\ cpc[c] = "name" /\ cpc'[c] = "loop"
        /\ UNCHANGED <<joined, chatReady, awaiting>>
    BY <1>0, <1>9 DEF Introduce, EnterName, Goto, Request, Name
  <2>2. Live(c) => awaiting[c] = 0
    BY <2>1 DEF ViewFits, FlagsFit
  <2>3. /\ TablesFit(c)'
        /\ Live(c)' => /\ FlagsFit(c) /\ Due(c)' = 0
                       /\ ~Holds(c2s'[c], "JOIN") /\ ~Holds(c2s'[c], "EXIT")
                       /\ ~Holds(s2c'[c], "READY") /\ ~Holds(s2c'[c], "LEFT")
    BY <1>8, <2>1, <2>2
  <2>4. Live(c)' => FlagsFit(c)' /\ AnswerFits(c)'
    BY <1>2, <2>1, <2>3 DEF FlagsFit, AnswerFits
  <2> QED
    BY <2>3, <2>4 DEF ViewFits
<1>10. ASSUME Say(c)
       PROVE  Kept
  <2>1. PICK t \in Text : EnterText(c, t)
    BY <1>10 DEF Say
  <2>2. /\ Chat(c, t) \in Request(c) /\ Chat(c, t).kind = "CHAT"
        /\ WriteResponse(c, Chat(c, t)) /\ cpc[c] = "text" /\ cpc'[c] = "poll"
        /\ UNCHANGED <<joined, chatReady, awaiting>>
    BY <1>0, <1>10, <2>1 DEF Say, EnterText, Goto, Request, Chat
  <2>3. Live(c) => awaiting[c] = 0 /\ chatReady[c]
    BY <2>2 DEF ViewFits, FlagsFit
  <2>4. /\ TablesFit(c)'
        /\ Live(c)' => /\ FlagsFit(c) /\ Due(c)' = 0
                       /\ ~Holds(c2s'[c], "JOIN") /\ ~Holds(c2s'[c], "EXIT")
                       /\ ~Holds(s2c'[c], "READY") /\ ~Holds(s2c'[c], "LEFT")
    BY <1>8, <2>2, <2>3
  <2>5. Live(c)' => FlagsFit(c)' /\ AnswerFits(c)'
    BY <1>2, <2>2, <2>4 DEF FlagsFit, AnswerFits
  <2> QED
    BY <2>4, <2>5 DEF ViewFits
<1>11. ASSUME Ask(c)
       PROVE  Kept
  <2>1. awaiting'[c] = awaiting[c] + 1
    BY <1>0, <1>11 DEF Ask
  <2>2. ASSUME NEW r \in Room, EnterRoom(c, r)
        PROVE  Kept
    <3>1. /\ Join(c, r) \in Request(c) /\ Join(c, r).kind = "JOIN"
          /\ WriteResponse(c, Join(c, r)) /\ cpc[c] = "room" /\ cpc'[c] = "poll"
          /\ joined'[c] /\ UNCHANGED chatReady
      BY <1>0, <2>2 DEF EnterRoom, Goto, Request, Join
    <3>2. Live(c) => awaiting[c] = 0 /\ ~joined[c]
      BY <3>1 DEF ViewFits, FlagsFit
    <3>3. /\ TablesFit(c)'
          /\ Live(c)' => /\ FlagsFit(c) /\ Due(c)' = 0
                         /\ ~Holds(c2s'[c], "EXIT")
                         /\ ~Holds(s2c'[c], "READY") /\ ~Holds(s2c'[c], "LEFT")
      BY <1>8, <3>1, <3>2
    <3>4. Live(c)' => ~chatReady[c] /\ awaiting[c] = 0
      BY <1>1, <3>2, <3>3 DEF FlagsFit
    <3>5. Live(c)' => FlagsFit(c)' /\ AnswerFits(c)'
      BY <2>1, <3>1, <3>3, <3>4 DEF FlagsFit, AnswerFits
    <3> QED
      BY <3>3, <3>5 DEF ViewFits
  <2>3. ASSUME SendExit(c)
        PROVE  Kept
    <3>1. /\ Exit(c) \in Request(c) /\ Exit(c).kind = "EXIT"
          /\ WriteResponse(c, Exit(c)) /\ cpc[c] = "exit" /\ cpc'[c] = "poll"
          /\ UNCHANGED <<joined, chatReady>>
      BY <1>0, <2>3 DEF SendExit, Goto, Request, Exit
    <3>2. Live(c) => awaiting[c] = 0 /\ joined[c]
      BY <3>1 DEF ViewFits, FlagsFit
    <3>3. /\ TablesFit(c)'
          /\ Live(c)' => /\ FlagsFit(c) /\ Due(c)' = 0
                         /\ ~Holds(c2s'[c], "JOIN")
                         /\ ~Holds(s2c'[c], "READY") /\ ~Holds(s2c'[c], "LEFT")
      BY <1>8, <3>1, <3>2
    <3>4. Live(c)' => joined[c] /\ chatReady[c] /\ awaiting[c] = 0
      BY <1>1, <3>2, <3>3 DEF FlagsFit
    <3>5. Live(c)' => FlagsFit(c)' /\ AnswerFits(c)'
      BY <2>1, <3>1, <3>3, <3>4 DEF FlagsFit, AnswerFits
    <3> QED
      BY <3>3, <3>5 DEF ViewFits
  <2> HIDE DEF Kept
  <2> QED
    BY <1>11, <2>2, <2>3 DEF Ask
<1>12. ASSUME Loop(c)
       PROVE  Kept
  <2>1. ASSUME PollPacket(c)
        PROVE  Kept
    <3>1. UNCHANGED c2s[c]
      BY <2>1, <1>12, PollDoes
    <3>2. TablesFit(c)'
      BY <1>0, <3>1, QuietKeeps
    <3> QED
      BY <1>0, <1>1, <1>12, <2>1, <3>2, PollKeeps
  <2>2. ASSUME PollNothing(c) \/ PollFails(c)
        PROVE  Kept
    <3>1. /\ UNCHANGED <<joined, chatReady, c2s, s2c>> /\ cpc'[c] \in {"loop", "gone"}
      BY <1>0, <2>2 DEF PollNothing, PollFails, Goto, netVars
    <3>2. UNCHANGED awaiting
      BY <1>12, <3>1 DEF Loop
    <3> HIDE DEF Kept
    <3> QED
      BY <1>3, <3>1, <3>2
  <2>3. ASSUME PollEnd(c)
        PROVE  Kept
    <3>1. UNCHANGED netVars /\ link[c] = "sfin"
      BY <2>3 DEF PollEnd
    <3>2. UNCHANGED c2s[c] /\ ~Live(c)'
      BY <3>1 DEF netVars, Live
    <3> QED
      BY <1>0, <3>2, QuietKeeps
  <2> HIDE DEF Kept
  <2> QED
    BY <1>12, <2>1, <2>2, <2>3 DEF Loop
<1>13. Kept
  <2> HIDE DEF Kept
  <2> QED
    BY <1>4, <1>5, <1>6, <1>7, <1>9, <1>10, <1>11, <1>12 DEF ClientStep
<1> QED
  BY <1>13

-----------------------------------------------------------------------------
(* What follows.                                                           *)

\* The steps of the program keep the invariant.
LEMMA StepDialogue ==
  ASSUME Patient, KnownInv, NoStrayAnswer, DialogueInv, [Next]_vars
  PROVE  DialogueInv'
<1>1. CASE ServerNext /\ UNCHANGED <<clientVars, userVars>>
  BY <1>1, ServerKeepsDialogue DEF clientVars, userVars
<1>2. ASSUME NEW d \in Client, ClientStep(d)
      PROVE  DialogueInv'
  <2>1. ASSUME NEW c \in Client
        PROVE  TablesFit(c)' /\ (Live(c)' => ViewFits(c)')
    <3>1. TablesFit(c) /\ (Live(c) => ViewFits(c))
      BY DEF DialogueInv
    <3>2. CASE c = d
      BY <1>2, <3>1, <3>2, ClientKeepsDialogue
    <3>3. CASE c # d
      <4>1. /\ UNCHANGED <<link[c], c2s[c], s2c[c], cpc[c]>>
            /\ UNCHANGED <<joined[c], chatReady[c], awaiting[c]>>
            /\ UNCHANGED serverVars
        BY <1>2, <3>3, ClientsApart DEF ClientStep
      <4>2. /\ UNCHANGED <<rooms, clientRooms, pc, req>> /\ Due(c)' = Due(c)
        BY <4>1 DEF serverVars, Due
      <4>3. Live(c)' =>
              Live(c) /\ \A k \in Answering : Holds(s2c'[c], k) => Holds(s2c[c], k)
        BY <4>1, <4>2 DEF Live
      <4> QED
        BY <3>1, <4>1, <4>2, <4>3, Unmoved
    <3> QED
      BY <3>2, <3>3
  <2> QED
    BY <2>1 DEF DialogueInv
<1>3. CASE UNCHANGED vars
  <2>1. ASSUME NEW c \in Client
        PROVE  TablesFit(c)' /\ (Live(c)' => ViewFits(c)')
    <3>1. TablesFit(c) /\ (Live(c) => ViewFits(c))
      BY DEF DialogueInv
    <3>2. /\ UNCHANGED <<rooms, clientRooms, pc, req, link, c2s, s2c>>
          /\ UNCHANGED <<cpc, joined, chatReady, awaiting>> /\ Due(c)' = Due(c)
      BY <1>3 DEF vars, netVars, serverVars, clientVars, userVars, Due
    <3>3. Live(c)' => Live(c) /\ \A k \in Answering : Holds(s2c'[c], k) => Holds(s2c[c], k)
      BY <3>2 DEF Live
    <3> QED
      BY <3>1, <3>2, <3>3, Unmoved
  <2> QED
    BY <2>1 DEF DialogueInv
<1> QED
  BY <1>1, <1>2, <1>3 DEF Next, Ended

\* It holds at the start, when nobody is anywhere.
LEMMA InitDialogue == Init => DialogueInv
<1> SUFFICES ASSUME Init, NEW c \in Client
             PROVE  TablesFit(c) /\ ViewFits(c)
  BY DEF DialogueInv
<1>1. /\ c2s[c] = <<>> /\ s2c[c] = <<>> /\ cpc[c] = "start" /\ awaiting[c] = 0
      /\ ~joined[c] /\ ~chatReady[c] /\ pc = "select"
  BY DEF Init, NetInit, ServerInit, ClientInit
<1>2. \A r \in RoomName : rooms[r][c] = 0
  BY DEF Init, ServerInit, NoOne
<1>3. ~InRoom(c)
  BY <1>2, InRoomIs
<1>4. Due(c) = 0
  BY <1>1 DEF Due
<1>5. TablesFit(c)
  BY <1>1, <1>2, HoldsEmpty DEF TablesFit
<1>6. FlagsFit(c)
  BY <1>1, <1>3 DEF FlagsFit
<1>7. AnswerFits(c)
  BY <1>1, <1>4, HoldsEmpty DEF AnswerFits
<1> QED
  BY <1>5, <1>6, <1>7 DEF ViewFits

\* So with patient users it is always true.
THEOREM DialogueInvariance ==
  ASSUME Patient
  PROVE  Spec => []DialogueInv
<1>1. KnownInv /\ NoStrayAnswer /\ DialogueInv /\ [Next]_vars => DialogueInv'
  BY StepDialogue
<1> QED
  BY <1>1, InitDialogue, KnownInvariance, NoStrayAnswerCorrect, PTL DEF Spec

\* With patient users a socket has at most one place in all rooms together,
\* though the server itself would take it into any number of them, and though
\* packets received together are dropped.
THEOREM OneRoomCorrect ==
  ASSUME Patient
  PROVE  Spec => []OneRoom
<1>1. DialogueInv => OneRoom
  <2> SUFFICES ASSUME DialogueInv, NEW c \in Client
               PROVE  /\ Cardinality(RoomsOf(c)) <= 1
                      /\ \A r \in RoomName : rooms[r][c] <= 1
    BY DEF OneRoom
  <2>1. \A r \in RoomName : rooms[r][c] <= 1 /\ (rooms[r][c] > 0 => clientRooms[c] = r)
    BY DEF DialogueInv, TablesFit
  <2>2. RoomsOf(c) \subseteq {clientRooms[c]}
    BY <2>1 DEF RoomsOf
  <2>3. RoomsOf(c) = {} \/ RoomsOf(c) = {clientRooms[c]}
    BY <2>2
  <2>4. Cardinality(RoomsOf(c)) \in {0, 1}
    BY <2>3, FS_EmptySet, FS_Singleton
  <2> QED
    BY <2>1, <2>4
<1> QED
  BY <1>1, DialogueInvariance, PTL

\* With patient users and one packet per recv(), what the client's two flags say
\* is what the server's tables say, whenever nothing is under way.
THEOREM ViewsAgreeCorrect ==
  ASSUME Patient, MaxBatch = 1
  PROVE  Spec => []ViewsAgree
<1>1. KnownInv /\ DialogueInv /\ OneAnswerEach => ViewsAgree
  <2> SUFFICES ASSUME KnownInv, DialogueInv, OneAnswerEach, NEW c \in Client, Settled(c)
               PROVE  /\ joined[c] <=> RoomsOf(c) # {}
                      /\ chatReady[c] <=> RoomsOf(c) # {}
    BY DEF ViewsAgree
  <2>1. /\ link[c] = "up" /\ pc = "select" /\ c2s[c] = <<>> /\ s2c[c] = <<>>
        /\ ViewFits(c)
    BY DEF Settled, DialogueInv, Live
  <2>2. Due(c) = 0 /\ Count(c2s[c], Asking) = 0 /\ Count(s2c[c], Answering) = 0
    BY <2>1, CountEmpty DEF Due
  <2>3. UnderWay(c) = 0
    BY <2>2, UnderWayIs DEF KnownInv
  <2>4. awaiting[c] = 0
    BY <2>1, <2>3 DEF OneAnswerEach
  <2> QED
    BY <2>1, <2>4 DEF ViewFits, FlagsFit, InRoom
<1> QED
  BY <1>1, KnownInvariance, DialogueInvariance, OneAnswerEachCorrect, PTL

\* With patient users chat lines and notices about leaving come from members of
\* the room they are sent to.
THEOREM OnlyMembersSpeakCorrect ==
  ASSUME Patient
  PROVE  Spec => OnlyMembersSpeak
<1> DEFINE Speaks == /\ pc = "scan" /\ pc' = "send" /\ fan' # NoOne
                     /\ req'.kind \in {"CHAT", "EXIT"}
           Member == rooms[clientRooms[cur']][cur'] > 0
<1>1. KnownInv /\ DialogueInv /\ [Next]_vars => [Speaks => Member]_vars
  <2> SUFFICES ASSUME KnownInv, DialogueInv, Next, Speaks
               PROVE  Member
    OBVIOUS
  <2>1. pc = "scan" /\ pc' = "send"
    OBVIOUS
  <2>2. PICK s \in Client : ReceiveData(s) \/ ReceiveEnd(s)
    BY <2>1 DEF Next, Ended, vars, ClientStep, serverVars, ServerNext, ServerStep, Receive,
       Transmit, Select, SelectFails, ReceiveFails, SendAck, SendNotice, SendFails,
       EndHandling, Accept, AcceptFails, PassEnds, ScanOver, ServerExit
  <2>3. cur' = s
    BY <2>2 DEF ReceiveData, ReceiveEnd, Handle
  <2>4. CASE ReceiveEnd(s)
    <3>1. Parsed(buffer) = None
      BY <2>4 DEF ReceiveEnd, Parsed, KnownInv, SystemInv, ServerInv, BufferRewound
    <3>2. fan' = NoOne
      BY <2>4, <3>1 DEF ReceiveEnd, Handle, HandleOther, HandleName, HandleJoin, HandleChat,
         HandleExit
    <3> QED
      BY <3>2
  <2>5. CASE ReceiveData(s)
    <3>1. req' = Head(c2s[s]) /\ c2s[s] \in Seq(Packet)
      BY <2>5, ReceiveDoes
    <3>2. PICK n \in 1 .. Len(c2s[s]) : c2s'[s] = Rest(c2s[s], n)
      BY <2>5, ReceiveDoes
    <3>3. Holds(c2s[s], req'.kind)
      BY <3>1, <3>2, HoldsRest
    <3>4. InRoom(s)
      BY <3>3 DEF DialogueInv, TablesFit
    <3>5. PICK r \in RoomName : rooms[r][s] > 0
      BY <3>4, InRoomIs
    <3>6. clientRooms[s] = r
      BY <3>5 DEF DialogueInv, TablesFit
    <3> QED
      BY <2>3, <3>5, <3>6
  <2> QED
    BY <2>2, <2>4, <2>5
<1> QED
  BY <1>1, KnownInvariance, DialogueInvariance, PTL DEF Spec, OnlyMembersSpeak
=============================================================================
