------------------------ MODULE OpenServer_refinement ------------------------
(***************************************************************************)
(* The server implements Rooms: every behaviour of OpenServer is, under    *)
(* the mapping given there, a behaviour of the service, for every number   *)
(* of clients, rooms and lines, every buffer size and FD_SETSIZE.          *)
(***************************************************************************)
EXTENDS OpenServer_proofs

-----------------------------------------------------------------------------
(* Sequences.                                                              *)

\* n copies of one packet.
Repeat(n, p) == [i \in 1 .. n |-> p]

\* They are a sequence; the first can be split off.
LEMMA RepeatIsSeq ==
  ASSUME NEW S, NEW p \in S, NEW n \in Nat
  PROVE  /\ Repeat(n, p) \in Seq(S)
         /\ Len(Repeat(n, p)) = n
         /\ n = 0 => Repeat(n, p) = <<>>
         /\ n > 0 => Repeat(n, p) = <<p>> \o Repeat(n - 1, p)
<1>1. Repeat(n, p) \in Seq(S) /\ Len(Repeat(n, p)) = n
  BY DEF Repeat
<1>2. n = 0 => Repeat(n, p) = <<>>
  BY DEF Repeat
<1>3. ASSUME n > 0 PROVE Repeat(n, p) = <<p>> \o Repeat(n - 1, p)
  <2>1. Repeat(n - 1, p) \in Seq(S) /\ Len(Repeat(n - 1, p)) = n - 1
    BY <1>3 DEF Repeat
  <2>2. /\ <<p>> \in Seq(S) /\ Len(<<p>>) = 1
        /\ <<p>> \o Repeat(n - 1, p) \in Seq(S)
        /\ Len(<<p>> \o Repeat(n - 1, p)) = n
    BY <2>1
  <2>3. \A i \in 1 .. n : Repeat(n, p)[i] = (<<p>> \o Repeat(n - 1, p))[i]
    BY <1>3, <2>1, <2>2 DEF Repeat
  <2> QED
    BY <1>1, <2>2, <2>3, SeqEqual
<1> QED
  BY <1>1, <1>2, <1>3

\* Taking packets from the front of a stream does not touch what follows it.
LEMMA RestOfConcat ==
  ASSUME NEW S, NEW s \in Seq(S), NEW t \in Seq(S), NEW n \in 0 .. Len(s)
  PROVE  /\ Rest(s \o t, n) = Rest(s, n) \o t
         /\ n <= Len(s \o t)
<1>1. /\ s \o t \in Seq(S) /\ Len(s \o t) = Len(s) + Len(t)
      /\ \A i \in 1 .. Len(s) + Len(t) :
           (s \o t)[i] = IF i <= Len(s) THEN s[i] ELSE t[i - Len(s)]
  BY ConcatProperties
<1>2. /\ Rest(s, n) \in Seq(S) /\ Len(Rest(s, n)) = Len(s) - n
      /\ \A i \in 1 .. Len(s) - n : Rest(s, n)[i] = s[n + i]
  BY DEF Rest
<1>3. /\ Rest(s \o t, n) \in Seq(S) /\ Len(Rest(s \o t, n)) = Len(s) + Len(t) - n
      /\ \A i \in 1 .. Len(s) + Len(t) - n : Rest(s \o t, n)[i] = (s \o t)[n + i]
  BY <1>1 DEF Rest
<1>4. /\ Rest(s, n) \o t \in Seq(S) /\ Len(Rest(s, n) \o t) = Len(s) - n + Len(t)
      /\ \A i \in 1 .. Len(s) - n + Len(t) :
           (Rest(s, n) \o t)[i] = IF i <= Len(s) - n THEN Rest(s, n)[i]
                                  ELSE t[i - (Len(s) - n)]
  <2> DEFINE r == Rest(s, n)
  <2>1. r \in Seq(S) /\ Len(r) = Len(s) - n
    BY <1>2
  <2> HIDE DEF r
  <2>2. /\ r \o t \in Seq(S) /\ Len(r \o t) = Len(r) + Len(t)
        /\ \A i \in 1 .. Len(r) + Len(t) :
             (r \o t)[i] = IF i <= Len(r) THEN r[i] ELSE t[i - Len(r)]
    BY <2>1, ConcatProperties
  <2>3. /\ r \o t \in Seq(S) /\ Len(r \o t) = Len(s) - n + Len(t)
        /\ \A i \in 1 .. Len(s) - n + Len(t) :
             (r \o t)[i] = IF i <= Len(s) - n THEN r[i] ELSE t[i - (Len(s) - n)]
    BY <2>1, <2>2
  <2> QED
    BY Zenon, <2>3 DEF r
<1>5. ASSUME NEW i \in 1 .. Len(s) + Len(t) - n
      PROVE  Rest(s \o t, n)[i] = (Rest(s, n) \o t)[i]
  <2>1. /\ Len(s) \in Nat /\ Len(t) \in Nat /\ n \in 0 .. Len(s)
        /\ n + i \in 1 .. Len(s) + Len(t) /\ i \in 1 .. Len(s) - n + Len(t)
    BY LenProperties
  <2>2. Rest(s \o t, n)[i] = IF n + i <= Len(s) THEN s[n + i] ELSE t[n + i - Len(s)]
    BY <1>1, <1>3, <2>1
  <2>3. CASE n + i <= Len(s)
    <3>1. i \in 1 .. Len(s) - n /\ i <= Len(s) - n
      BY <2>1, <2>3
    <3> QED
      BY <1>2, <1>4, <2>1, <2>2, <2>3, <3>1
  <2>4. CASE ~(n + i <= Len(s))
    <3>1. ~(i <= Len(s) - n) /\ n + i - Len(s) = i - (Len(s) - n)
      BY <2>1, <2>4
    <3> QED
      BY <1>4, <2>1, <2>2, <2>4, <3>1
  <2> QED
    BY <2>3, <2>4
<1>6. Rest(s \o t, n) = Rest(s, n) \o t
  <2> DEFINE u == Rest(s \o t, n)
             v == Rest(s, n) \o t
  <2>1. u \in Seq(S) /\ v \in Seq(S)
    BY <1>3, <1>4
  <2>2. Len(u) = Len(s) + Len(t) - n /\ Len(v) = Len(u)
    BY <1>3, <1>4, LenProperties
  <2>3. \A i \in 1 .. Len(u) : u[i] = v[i]
    BY <1>5, <2>2
  <2> HIDE DEF u, v
  <2>4. u = v
    BY <2>1, <2>2, <2>3, SeqEqual
  <2> QED
    BY Zenon, <2>4 DEF u, v
<1> QED
  BY <1>1, <1>6

\* Without the whole front only what follows is left, and the other way round.
LEMMA PartsOfConcat ==
  ASSUME NEW S, NEW s \in Seq(S), NEW t \in Seq(S)
  PROVE  /\ Rest(s \o t, Len(s)) = t
         /\ SubSeq(s \o t, 1, Len(s)) = s
         /\ SubSeq(s \o t, 1, 0) = <<>>
         /\ Len(s) \in 0 .. Len(s \o t)
<1>1. Rest(s, Len(s)) = <<>>
  BY SubSeqEmpty DEF Rest
<1>2. Rest(s \o t, Len(s)) = t
  <2>1. Len(s) \in 0 .. Len(s)
    BY LenProperties
  <2>2. Rest(s \o t, Len(s)) = Rest(s, Len(s)) \o t
    BY <2>1, RestOfConcat
  <2> QED
    BY <1>1, <2>2, ConcatEmptySeq
<1>3. /\ s \o t \in Seq(S) /\ Len(s \o t) = Len(s) + Len(t)
      /\ \A i \in 1 .. Len(s) : (s \o t)[i] = s[i]
  BY ConcatProperties
<1>4. /\ SubSeq(s \o t, 1, Len(s)) \in Seq(S)
      /\ Len(SubSeq(s \o t, 1, Len(s))) = Len(s)
      /\ \A i \in 1 .. Len(s) : SubSeq(s \o t, 1, Len(s))[i] = s[i]
  BY <1>3
<1>5. SubSeq(s \o t, 1, Len(s)) = s
  BY <1>4, SeqEqual
<1> QED
  BY <1>2, <1>3, <1>5, SubSeqEmpty

\* What is sent next moves from what is owed into the stream.
LEMMA SendMoves ==
  ASSUME NEW S, NEW s \in Seq(S), NEW p \in S, NEW t \in Seq(S)
  PROVE  Append(s, p) \o t = s \o (<<p>> \o t)
<1>1. Append(s, p) = s \o <<p>> /\ <<p>> \in Seq(S)
  BY AppendIsConcat
<1> QED
  BY <1>1, ConcatAssociative

-----------------------------------------------------------------------------
(* The mapping.                                                            *)

\* What OpenServer substitutes for owed and for presence.
Owes == [c \in Client |-> s2c[c] \o Pending(c)]
Presences == [c \in Client |-> Presence(c)]

\* The packets a fan-out has still to send are packets of the protocol.
LEMMA PendingIsSeq ==
  ASSUME TypeInv, NEW d \in Client
  PROVE  /\ pc = "send" /\ ack => Ack \in Packet
         /\ pc = "send" /\ fan[d] > 0 => Notice(d) \in Packet
         /\ fan[d] \in Nat
         /\ pc = "send" => Repeat(fan[d], Notice(d)) \in Seq(Packet)
         /\ Pending(d) \in Seq(Packet)
         /\ s2c[d] \in Seq(Packet)
<1>1. fan[d] \in Nat /\ s2c[d] \in Seq(Packet)
  BY DEF TypeInv, ServerInv, ServerTypeOK, NetTypeOK
<1>2. ASSUME pc = "send", ack
      PROVE  Ack \in Packet
  BY <1>2, AnswersArePackets DEF TypeInv
<1>3. ASSUME pc = "send", fan[d] > 0
      PROVE  Notice(d) \in Packet
  <2>1. cur \in Client /\ clientName[cur] \in Client \cup {None}
    BY <1>3 DEF TypeInv, ServerInv, ServerTypeOK, SendingJustified
  <2>2. req \in Packet
    BY <1>3 DEF TypeInv, ServerInv, SendingJustified
  <2>3. req.arg \in Argument
    BY <2>2 DEF Packet
  <2> QED
    BY <2>1, <2>3 DEF Notice, Packet, ReplyKind, Argument
<1>4. ASSUME pc = "send"
      PROVE  Repeat(fan[d], Notice(d)) \in Seq(Packet)
  <2>1. CASE fan[d] > 0
    BY <1>1, <1>3, <1>4, <2>1, RepeatIsSeq
  <2>2. CASE fan[d] = 0
    <3>1. Repeat(fan[d], Notice(d)) = <<>>
      BY <2>2 DEF Repeat
    <3>2. <<>> \in Seq(Packet)
      OBVIOUS
    <3> QED
      BY <3>1, <3>2
  <2> QED
    BY <1>1, <2>1, <2>2
<1>5. Pending(d) \in Seq(Packet)
  <2>1. CASE pc # "send"
    BY <2>1 DEF Pending
  <2>2. CASE pc = "send"
    <3>1. (IF ack /\ d = cur THEN <<Ack>> ELSE <<>>) \in Seq(Packet)
      BY <1>2, <2>2
    <3>2. Pending(d) = (IF ack /\ d = cur THEN <<Ack>> ELSE <<>>)
                         \o Repeat(fan[d], Notice(d))
      BY <2>2 DEF Pending, Repeat
    <3> QED
      BY <1>4, <2>2, <3>1, <3>2
  <2> QED
    BY <2>1, <2>2
<1> QED
  BY <1>1, <1>2, <1>3, <1>4, <1>5

\* A step that changes nothing the mapping looks at.
LEMMA Stutter ==
  ASSUME Owes' = Owes, Presences' = Presences, UNCHANGED <<c2s, tables>>,
         pc' = "down" <=> pc = "down"
  PROVE  UNCHANGED Service!vars
BY DEF Service!vars, Owes, Presences, tables

\* Each client's stream and fan-out are what the mapping makes of them.
LEMMA OwesOf ==
  ASSUME NEW c \in Client
  PROVE  /\ Owes[c] = s2c[c] \o Pending(c)
         /\ Presences[c] = Presence(c)
BY DEF Owes, Presences

\* How to recognise the service's steps in terms of Owes and Presences.
LEMMA Departs ==
  ASSUME NEW c \in Client, Presences[c] # "new",
         Presences' = [Presences EXCEPT ![c] = "gone"],
         c2s' \in {c2s, [c2s EXCEPT ![c] = <<>>]},
         NEW n \in 0 .. Len(Owes[c]), Owes' = [Owes EXCEPT ![c] = Rest(@, n)],
         UNCHANGED tables, pc' = "down" <=> pc = "down"
  PROVE  Service!Next
BY DEF Service!Next, Service!Depart, Owes, Presences, tables, Service!Rest, Rest

\* A client that is connected reads from the front of its stream.
LEMMA Hears ==
  ASSUME NEW c \in Client, Presences[c] = "here",
         NEW n \in 1 .. Len(Owes[c]), Owes' = [Owes EXCEPT ![c] = Rest(@, n)],
         UNCHANGED <<c2s, tables>>, Presences' = Presences, pc' = "down" <=> pc = "down"
  PROVE  Service!Next
BY DEF Service!Next, Service!Hear, Owes, Presences, tables, Service!Rest, Rest

\* A connection appears, and nothing else changes.
LEMMA Arrives ==
  ASSUME NEW c \in Client, Presences[c] = "new", pc # "down",
         Presences' = [Presences EXCEPT ![c] = "here"],
         UNCHANGED <<c2s, tables>>, Owes' = Owes, pc' = pc
  PROVE  Service!Next
BY DEF Service!Next, Service!Arrive, Owes, Presences, tables

\* A request is put behind those of its client; the packets a client can build
\* are the same for the service.
LEMMA Asks ==
  ASSUME NEW c \in Client, NEW m \in Request(c), Presences[c] = "here",
         c2s' = [c2s EXCEPT ![c] = Append(@, m)],
         UNCHANGED tables, Owes' = Owes, Presences' = Presences, pc' = pc
  PROVE  Service!Next
<1>1. Service!Request(c) = Request(c)
  BY DEF Service!Request, Service!Name, Service!Exit, Service!Join, Service!Chat,
     Request, Name, Exit, Join, Chat
<1>2. Service!Ask(c, m)
  BY DEF Service!Ask, Owes, Presences, tables
<1> QED
  BY <1>1, <1>2 DEF Service!Next

\* The first request of s is taken, the tables change by it, and what follows from
\* it is owed behind everything else.
LEMMA Serves ==
  ASSUME NEW s \in Client, pc # "down", pc' # "down", c2s[s] # <<>>,
         NEW n \in 1 .. Len(c2s[s]), c2s' = [c2s EXCEPT ![s] = Rest(@, n)],
         Service!Admit(s, Head(c2s[s])),
         \A d \in Client : Owes'[d] = Owes[d] \o Service!Owed(s, Head(c2s[s]), d),
         Presences' = Presences
  PROVE  Service!Next
<1>1. Owes' = [d \in Client |-> Owes[d] \o Service!Owed(s, Head(c2s[s]), d)]
  BY DEF Owes
<1>2. Service!Serve(s)
  BY <1>1 DEF Service!Serve, Owes, Presences, Service!Rest, Rest
<1> QED
  BY <1>2 DEF Service!Next

\* The server stops, some connections are lost with it, and every client still
\* hears a beginning of what it was owed.
LEMMA Stops ==
  ASSUME pc # "down", pc' = "down", NEW left \in SUBSET Client,
         \A c \in Client : Presences'[c] = IF Presences[c] = "here" /\ c \in left
                                           THEN "gone" ELSE Presences[c],
         c2s' = [c \in Client |-> <<>>],
         \A c \in Client : \E k \in 0 .. Len(Owes[c]) : Owes'[c] = SubSeq(Owes[c], 1, k),
         UNCHANGED tables
  PROVE  Service!Next
<1>1. Presences' = [c \in Client |-> IF Presences[c] = "here" /\ c \in left
                                     THEN "gone" ELSE Presences[c]]
  BY DEF Presences
<1>2. DOMAIN Owes' = Client
  BY DEF Owes
<1>3. Service!Stop
  BY <1>1, <1>2 DEF Service!Stop, Owes, Presences, tables
<1> QED
  BY <1>3 DEF Service!Next

-----------------------------------------------------------------------------
(* The steps.                                                              *)

\* Between two sockets the read index is back at 0, so that what the next recv()
\* stores is what is parsed.
ReadRewound == pc \in {"select", "scan"} => ~buffer.ri

\* Only handling a receipt moves the read index, and it ends with ClearBuffer().
LEMMA StepRewound == ReadRewound /\ [Next]_vars => ReadRewound'
<1> SUFFICES ASSUME ReadRewound, [Next]_vars, pc' \in {"select", "scan"}
             PROVE  ~buffer'.ri
  BY DEF ReadRewound
<1>1. CASE EndHandling
  BY <1>1 DEF EndHandling, ClearBuffer
<1>2. CASE Select \/ Accept \/ PassEnds
  BY <1>2 DEF Select, Accept, PassEnds, ScanOver, ReadRewound
<1>3. ASSUME NEW s \in Client, ReceiveData(s) \/ ReceiveEnd(s)
      PROVE  FALSE
  BY <1>3 DEF ReceiveData, ReceiveEnd, Handle
<1>4. ASSUME SendAck \/ (\E d \in Client : SendNotice(d))
      PROVE  FALSE
  BY <1>4 DEF SendAck, SendNotice, Send
<1>5. CASE SelectFails \/ AcceptFails \/ (\E d \in Client : ReceiveFails(d) \/ SendFails(d))
  BY <1>5 DEF SelectFails, AcceptFails, ReceiveFails, SendFails, ServerExit
<1>6. ASSUME NEW c \in Client, ClientStep(c)
      PROVE  UNCHANGED <<pc, buffer>>
  BY <1>6 DEF ClientStep, Connect, SendRequest, ReadReplies, Close, Reset, serverVars
<1>7. CASE UNCHANGED vars
  BY <1>7 DEF vars, serverVars, ReadRewound
<1> QED
  BY <1>1, <1>2, <1>3, <1>4, <1>5, <1>6, <1>7
     DEF Next, ServerNext, ServerStep, Receive, Transmit, Finished, ReadRewound

\* The end of the server process: what a connection closed in order delivered
\* so far, and of a reset one nothing, is a beginning of what it was owed.
LEMMA ExitStops ==
  ASSUME TypeInv, ServerExit, pc # "down"
  PROVE  Service!Next
<1>1. PICK how \in [Client -> {"sfin", "rst"}] :
        /\ link' = [c \in Client |-> IF link[c] = "up" THEN how[c]
                                     ELSE IF link[c] = "cfin" THEN "rst"
                                     ELSE link[c]]
        /\ s2c' = [c \in Client |-> IF link'[c] = "rst" THEN <<>> ELSE s2c[c]]
  BY DEF ServerExit, CloseServerEnds
<1>2. pc' = "down" /\ UNCHANGED tables /\ c2s' = [c \in Client |-> <<>>]
  BY DEF ServerExit, CloseServerEnds
<1> DEFINE left == {c \in Client : link'[c] = "rst"}
<1>3. ASSUME NEW c \in Client
      PROVE  Presences'[c] = IF Presences[c] = "here" /\ c \in left
                             THEN "gone" ELSE Presences[c]
  <2>1. link[c] \in LinkState
    BY DEF TypeInv, ServerInv, NetTypeOK
  <2> QED
    BY <1>1, <2>1 DEF Presences, Presence, LinkState
<1>4. ASSUME NEW c \in Client
      PROVE  \E k \in 0 .. Len(Owes[c]) : Owes'[c] = SubSeq(Owes[c], 1, k)
  <2>1. s2c[c] \in Seq(Packet) /\ Pending(c) \in Seq(Packet)
    BY PendingIsSeq
  <2>2. Owes[c] = s2c[c] \o Pending(c)
    BY OwesOf
  <2>3. Pending(c)' = <<>>
    BY <1>2 DEF Pending
  <2>4. s2c'[c] \in Seq(Packet) /\ s2c'[c] \in {<<>>, s2c[c]}
    BY <1>1, <2>1
  <2>5. Owes'[c] = s2c'[c] \o <<>>
    BY <2>3 DEF Owes
  <2>6. Owes'[c] = s2c'[c]
    BY <2>4, <2>5, ConcatEmptySeq
  <2>7. /\ SubSeq(Owes[c], 1, Len(s2c[c])) = s2c[c]
        /\ SubSeq(Owes[c], 1, 0) = <<>>
        /\ Len(s2c[c]) \in 0 .. Len(Owes[c]) /\ 0 \in 0 .. Len(Owes[c])
    <3>1. Owes[c] \in Seq(Packet)
      BY <2>1, <2>2
    <3> QED
      BY <2>1, <2>2, <3>1, PartsOfConcat, LenProperties
  <2> QED
    BY <2>4, <2>6, <2>7
<1> HIDE DEF left
<1>5. left \in SUBSET Client
  BY DEF left
<1> QED
  BY <1>2, <1>3, <1>4, <1>5, Stops

\* A connection that goes away loses its stream to the client; if the server has
\* just sent it a packet, that one too.
LEMMA LossDeparts ==
  ASSUME TypeInv, NEW c \in Client, link[c] # "none",
         link' = [link EXCEPT ![c] = "cfin"] \/ link' = [link EXCEPT ![c] = "rst"],
         c2s' \in {c2s, [c2s EXCEPT ![c] = <<>>]},
         s2c' = [s2c EXCEPT ![c] = <<>>],
         UNCHANGED tables, pc' = "down" <=> pc = "down",
         \A d \in Client \ {c} : Pending(d)' = Pending(d),
         Pending(c)' \in Seq(Packet),
         NEW p \in Packet,
         \/ Pending(c)' = Pending(c)
         \/ Pending(c) = <<p>> \o Pending(c)'
  PROVE  Service!Next
<1>1. s2c[c] \in Seq(Packet) /\ Pending(c) \in Seq(Packet) /\ link \in [Client -> LinkState]
      /\ s2c \in [Client -> Seq(Packet)]
  BY PendingIsSeq DEF TypeInv, ServerInv, NetTypeOK
<1>2. Presences[c] # "new" /\ Presences' = [Presences EXCEPT ![c] = "gone"]
  <2>1. Presence(c)' = "gone" /\ Presence(c) # "new"
    BY <1>1 DEF Presence, LinkState
  <2>2. \A d \in Client \ {c} : Presence(d)' = Presence(d)
    BY <1>1 DEF Presence
  <2> QED
    BY <2>1, <2>2 DEF Presences
<1>3. Owes'[c] = Pending(c)' /\ \A d \in Client \ {c} : Owes'[d] = Owes[d]
  <2>1. Owes'[c] = <<>> \o Pending(c)'
    BY <1>1 DEF Owes
  <2> QED
    BY <1>1, <2>1, ConcatEmptySeq DEF Owes
<1>4. \E n \in 0 .. Len(Owes[c]) : Owes'[c] = Rest(Owes[c], n)
  <2>1. CASE Pending(c)' = Pending(c)
    <3>1. /\ Rest(s2c[c] \o Pending(c), Len(s2c[c])) = Pending(c)
          /\ Len(s2c[c]) \in 0 .. Len(s2c[c] \o Pending(c))
      BY <1>1, PartsOfConcat
    <3>2. Owes[c] = s2c[c] \o Pending(c)
      BY OwesOf
    <3> QED
      BY <1>3, <2>1, <3>1, <3>2
  <2>2. CASE Pending(c) = <<p>> \o Pending(c)'
    <3> DEFINE a == Append(s2c[c], p)
    <3>1. a \in Seq(Packet)
      BY <1>1
    <3>2. a \o Pending(c)' = s2c[c] \o (<<p>> \o Pending(c)')
      BY <1>1, SendMoves
    <3> HIDE DEF a
    <3>3. Owes[c] = a \o Pending(c)'
      BY <2>2, <3>2, OwesOf
    <3>4. /\ Rest(a \o Pending(c)', Len(a)) = Pending(c)'
          /\ Len(a) \in 0 .. Len(a \o Pending(c)')
      BY <3>1, PartsOfConcat
    <3> QED
      BY <1>3, <3>3, <3>4
  <2> QED
    BY <2>1, <2>2
<1>5. PICK n \in 0 .. Len(Owes[c]) : Owes'[c] = Rest(Owes[c], n)
  BY <1>4
<1>6. Owes' = [Owes EXCEPT ![c] = Rest(@, n)]
  BY <1>3, <1>5 DEF Owes
<1> QED
  BY <1>2, <1>5, <1>6, Departs

\* Steps that leave the server alone leave what its fan-out has still to send.
LEMMA PendingKept ==
  ASSUME UNCHANGED <<pc, ack, cur, fan, req, clientName>>
  PROVE  \A d \in Client : Pending(d)' = Pending(d)
BY DEF Pending, Ack, Notice

\* A step of a client is a step of the service.
LEMMA ClientRefines ==
  ASSUME TypeInv, NEW c \in Client, ClientStep(c)
  PROVE  Service!Next
<1> USE DEF TypeInv, ServerInv, NetTypeOK
<1>1. \A d \in Client : Pending(d)' = Pending(d)
  <2>1. UNCHANGED serverVars
    BY DEF ClientStep, Connect, SendRequest, ReadReplies, Close, Reset
  <2> QED
    BY <2>1, PendingKept DEF serverVars, tables
<1>2. UNCHANGED <<pc, tables>>
  BY DEF ClientStep, Connect, SendRequest, ReadReplies, Close, Reset, serverVars, tables
<1>3. CASE Connect(c)
  <2>1. Owes' = Owes
    BY <1>1, <1>3 DEF Connect, Connected, Owes
  <2>2. Presences[c] = "new" /\ Presences' = [Presences EXCEPT ![c] = "here"]
    BY <1>3 DEF Connect, Connected, Presences, Presence
  <2> QED
    BY <1>2, <1>3, <2>1, <2>2, Arrives DEF Connect, Connected
<1>4. ASSUME NEW m \in Request(c), SendRequest(c, m)
      PROVE  Service!Next
  <2>1. Owes' = Owes /\ Presences' = Presences /\ Presences[c] = "here"
    BY <1>1, <1>4 DEF SendRequest, Owes, Presences, Presence
  <2> QED
    BY <1>2, <1>4, <2>1, Asks DEF SendRequest
<1>5. CASE ReadReplies(c)
  <2>1. PICK n \in Batch(s2c[c]) : s2c' = [s2c EXCEPT ![c] = Rest(@, n)]
    BY <1>5 DEF ReadReplies
  <2>2. s2c[c] \in Seq(Packet) /\ Pending(c) \in Seq(Packet) /\ n \in 0 .. Len(s2c[c])
        /\ n >= 1 /\ Len(s2c[c]) \in Nat
    BY PendingIsSeq DEF Batch
  <2>3. /\ Rest(s2c[c] \o Pending(c), n) = Rest(s2c[c], n) \o Pending(c)
        /\ n <= Len(s2c[c] \o Pending(c))
    BY <2>2, RestOfConcat
  <2>4. s2c[c] \o Pending(c) \in Seq(Packet)
    BY <2>2
  <2>5. n \in 1 .. Len(Owes[c])
    BY <2>2, <2>3, <2>4, OwesOf, LenProperties
  <2>6. Owes' = [Owes EXCEPT ![c] = Rest(@, n)]
    BY <1>1, <2>1, <2>3 DEF Owes
  <2>7. Presences' = Presences /\ Presences[c] = "here"
    BY <1>5 DEF ReadReplies, Presences, Presence
  <2> QED
    BY <1>2, <1>5, <2>5, <2>6, <2>7, Hears DEF ReadReplies
<1>6. CASE Close(c) \/ Reset(c)
  <2>1. /\ link[c] # "none"
        /\ link' = [link EXCEPT ![c] = "cfin"] \/ link' = [link EXCEPT ![c] = "rst"]
        /\ c2s' \in {c2s, [c2s EXCEPT ![c] = <<>>]}
        /\ s2c' = [s2c EXCEPT ![c] = <<>>]
    BY <1>6 DEF Close, CloseClientEnd, Reset, ResetLink
  <2>2. Pending(c)' \in Seq(Packet)
    BY <1>1, PendingIsSeq
  <2>3. Name(c) \in Packet
    BY DEF Name, Packet, RequestKind, Argument
  <2> QED
    BY <1>1, <1>2, <2>1, <2>2, <2>3, LossDeparts
<1> QED
  BY <1>3, <1>4, <1>5, <1>6 DEF ClientStep

\* A send() of the next packet of the fan-out changes nothing for a client that
\* is connected, and is part of the loss for one that has closed its end.
LEMMA SendRefines ==
  ASSUME TypeInv, NEW d \in Client, NEW p \in Packet, Send(d, p), pc = "send",
         \A e \in Client \ {d} : Pending(e)' = Pending(e),
         Pending(d)' \in Seq(Packet), Pending(d) = <<p>> \o Pending(d)'
  PROVE  Service!Next \/ UNCHANGED Service!vars
<1> USE DEF TypeInv, ServerInv, NetTypeOK
<1>1. OnWire(Written(buffer, p)) = p
  BY DEF BufferRewound, OnWire, Written
<1>2. UNCHANGED <<pc, tables>>
  BY DEF Send, tables
<1>3. CASE /\ s2c' = [s2c EXCEPT ![d] = Append(@, p)]
           /\ UNCHANGED <<link, c2s>>
  <2>1. s2c[d] \in Seq(Packet)
    OBVIOUS
  <2>2. Append(s2c[d], p) \o Pending(d)' = s2c[d] \o (<<p>> \o Pending(d)')
    BY <2>1, SendMoves
  <2>3. s2c'[d] \o Pending(d)' = s2c[d] \o Pending(d)
    BY <1>3, <2>2
  <2>4. Owes' = Owes
    BY <1>3, <2>3 DEF Owes
  <2>5. Presences' = Presences
    BY <1>3 DEF Presences, Presence
  <2> QED
    BY <1>2, <1>3, <2>4, <2>5, Stutter
<1>4. CASE link[d] = "cfin" /\ ResetLink(d)
  <2>1. /\ link' = [link EXCEPT ![d] = "rst"]
        /\ c2s' \in {c2s, [c2s EXCEPT ![d] = <<>>]}
        /\ s2c' = [s2c EXCEPT ![d] = <<>>]
    BY <1>4 DEF ResetLink
  <2> QED
    BY <1>2, <1>4, <2>1, LossDeparts
<1> QED
  BY <1>1, <1>3, <1>4 DEF Send

\* SendAck and SendNotice are such steps.
LEMMA TransmitRefines ==
  ASSUME TypeInv, SendAck \/ (\E d \in Client : SendNotice(d))
  PROVE  Service!Next \/ UNCHANGED Service!vars
<1> USE DEF TypeInv, ServerInv, ServerTypeOK
<1>1. UNCHANGED <<pc, cur, req, clientName>>
  BY DEF SendAck, SendNotice, Send, tables
<1>2. Ack' = Ack /\ \A d \in Client : Notice(d)' = Notice(d)
  BY <1>1 DEF Ack, Notice
<1>3. CASE SendAck
  <2>1. /\ pc = "send" /\ ack /\ Send(cur, Ack)
        /\ ack' = FALSE /\ fan' = fan
    BY <1>3 DEF SendAck
  <2>2. PICK d \in Client : d = cur
    BY <2>1 DEF SendingJustified
  <2>3. Ack \in Packet
    BY <2>1, <2>2, PendingIsSeq
  <2>4. PICK p \in Packet : p = Ack
    BY <2>3
  <2>5. \A e \in Client : Repeat(fan[e], Notice(e)) \in Seq(Packet)
    BY <2>1, PendingIsSeq
  <2>6. \A e \in Client : Pending(e)' = <<>> \o Repeat(fan[e], Notice(e))
    BY <1>1, <1>2, <2>1 DEF Pending, Repeat
  <2>7. \A e \in Client : Pending(e)' = Repeat(fan[e], Notice(e))
    BY <2>5, <2>6, ConcatEmptySeq
  <2>8. /\ \A e \in Client \ {d} : Pending(e) = <<>> \o Repeat(fan[e], Notice(e))
        /\ Pending(d) = <<p>> \o Repeat(fan[d], Notice(d))
    BY <2>1, <2>2, <2>4 DEF Pending, Repeat
  <2>9. /\ \A e \in Client \ {d} : Pending(e)' = Pending(e)
        /\ Pending(d)' \in Seq(Packet)
        /\ Pending(d) = <<p>> \o Pending(d)'
    BY <2>5, <2>6, <2>7, <2>8
  <2>10. Send(d, p)
    BY <2>1, <2>2, <2>4
  <2> QED
    BY <2>1, <2>9, <2>10, SendRefines
<1>4. ASSUME NEW d \in Client, SendNotice(d)
      PROVE  Service!Next \/ UNCHANGED Service!vars
  <2>1. /\ pc = "send" /\ ~ack /\ fan[d] > 0 /\ Send(d, Notice(d))
        /\ fan' = [fan EXCEPT ![d] = @ - 1] /\ ack' = ack
    BY <1>4 DEF SendNotice
  <2>2. /\ fan[d] \in Nat /\ fan[d] - 1 \in Nat /\ Notice(d) \in Packet
        /\ \A e \in Client \ {d} : fan'[e] = fan[e]
        /\ fan'[d] = fan[d] - 1
    BY <2>1, PendingIsSeq
  <2>3. /\ \A e \in Client \ {d} : Pending(e)' = Pending(e)
        /\ Pending(d) = <<>> \o Repeat(fan[d], Notice(d))
        /\ Pending(d)' = <<>> \o Repeat(fan[d] - 1, Notice(d))
    BY <1>1, <1>2, <2>1, <2>2 DEF Pending, Repeat
  <2>4. /\ Repeat(fan[d], Notice(d)) \in Seq(Packet)
        /\ Repeat(fan[d] - 1, Notice(d)) \in Seq(Packet)
        /\ Repeat(fan[d], Notice(d)) = <<Notice(d)>> \o Repeat(fan[d] - 1, Notice(d))
    BY <2>1, <2>2, RepeatIsSeq
  <2>5. /\ Pending(d)' \in Seq(Packet)
        /\ Pending(d) = <<Notice(d)>> \o Pending(d)'
    BY <2>3, <2>4, ConcatEmptySeq
  <2> QED
    BY <2>1, <2>2, <2>3, <2>5, SendRefines
<1> QED
  BY <1>3, <1>4

\* Nothing before copies of a packet, or behind one packet, makes no difference.
LEMMA NothingAdded ==
  ASSUME NEW n \in Nat, NEW p
  PROVE  <<>> \o Repeat(n, p) = Repeat(n, p) /\ <<p>> \o <<>> = <<p>>
<1> DEFINE r == Repeat(n, p)
           S == {p}
<1>1. r \in Seq(S)
  <2>1. p \in S
    OBVIOUS
  <2> HIDE DEF S
  <2> QED
    BY <2>1, RepeatIsSeq
<1>2. <<p>> \in Seq(S)
  OBVIOUS
<1> HIDE DEF r, S
<1>3. <<>> \o r = r /\ <<p>> \o <<>> = <<p>>
  BY <1>1, <1>2, ConcatEmptySeq
<1> QED
  BY <1>3 DEF r

\* What is owed to everybody once the request m of s is handled is what the
\* service makes owed.
LEMMA HandledIsOwed ==
  ASSUME TypeInv, NEW s \in Client, NEW m \in Request(s), NEW d \in Client,
         m # None, pc' = "send", cur' = s, req' = m,
         \/ HandleOther(m) \/ HandleName(s, m) \/ HandleJoin(s, m)
         \/ HandleChat(s, m) \/ HandleExit(s, m)
  PROVE  Pending(d)' = Service!Owed(s, m, d)
<1>1. /\ m.kind \in RequestKind
      /\ m.kind = "JOIN" => m.arg \in RoomName
  BY RequestFields
<1>2. /\ rooms \in [RoomName -> [Client -> Nat]]
      /\ clientRooms \in [Client -> RoomName]
  BY DEF TypeInv, ServerInv, ServerTypeOK
<1>3. Pending(d)' = (IF ack' /\ d = s THEN <<Ack'>> ELSE <<>>)
                      \o Repeat(fan'[d], Notice(d)')
  BY DEF Pending, Repeat
<1>4. \A n : \A p : Service!Copies(n, p) = Repeat(n, p)
  BY DEF Service!Copies, Repeat
<1>5. ~HandleOther(m)
  BY <1>1 DEF HandleOther
<1>6. CASE HandleName(s, m)
  <2>1. ack' = FALSE /\ fan'[d] = 0 /\ m.kind = "NAME"
    BY <1>6 DEF HandleName, NoOne
  <2>2. Repeat(fan'[d], Notice(d)') = <<>>
    BY <2>1 DEF Repeat
  <2>3. Pending(d)' = <<>> \o <<>>
    BY <1>3, <2>1, <2>2
  <2>4. Service!Owed(s, m, d) = <<>>
    BY <2>1 DEF Service!Owed
  <2> QED
    BY <2>3, <2>4
<1>7. CASE HandleJoin(s, m)
  <2>1. /\ m.kind = "JOIN" /\ ack' = TRUE /\ clientName' = clientName
        /\ fan' = [rooms[m.arg] EXCEPT ![s] = 0]
        /\ m.arg \in RoomName
    BY <1>1, <1>7 DEF HandleJoin
  <2>2. CASE d = s
    <3>1. fan'[d] = 0
      BY <1>2, <2>1, <2>2
    <3>2. Repeat(fan'[d], Notice(d)') = <<>>
      BY <3>1 DEF Repeat
    <3>3. Pending(d)' = <<Ack'>> \o <<>>
      BY <1>3, <2>1, <2>2, <3>2
    <3>4. Ack' = [kind |-> "READY", who |-> clientName[s], arg |-> m.arg]
      BY <2>1 DEF Ack
    <3>5. Service!Owed(s, m, d) = <<Ack'>>
      BY <2>1, <2>2, <3>4 DEF Service!Owed
    <3> QED
      BY <3>3, <3>5, NothingAdded
  <2>3. CASE d # s
    <3>1. fan'[d] = rooms[m.arg][d] /\ fan'[d] \in Nat
      BY <1>2, <2>1, <2>3
    <3>2. Pending(d)' = Repeat(fan'[d], Notice(d)')
      BY <1>3, <2>3, <3>1, NothingAdded
    <3>3. Notice(d)' = [kind |-> "HAS_JOINED", who |-> clientName[s], arg |-> None]
      BY <2>1 DEF Notice
    <3>4. Service!Owed(s, m, d) = Service!Copies(fan'[d], Notice(d)')
      BY <2>1, <2>3, <3>1, <3>3 DEF Service!Owed
    <3> QED
      BY <1>4, <3>2, <3>4
  <2> QED
    BY <2>2, <2>3
<1>8. CASE HandleChat(s, m)
  <2>1. /\ m.kind = "CHAT" /\ ack' = FALSE /\ clientName' = clientName
        /\ fan' = rooms[clientRooms[s]]
    BY <1>8 DEF HandleChat, tables
  <2>2. fan'[d] = rooms[clientRooms[s]][d] /\ fan'[d] \in Nat
    BY <1>2, <2>1
  <2>3. Pending(d)' = Repeat(fan'[d], Notice(d)')
    BY <1>3, <2>1, <2>2, NothingAdded
  <2>4. Notice(d)' = IF d = s THEN [kind |-> "YOU", who |-> s, arg |-> m.arg]
                     ELSE [kind |-> "REPLY", who |-> clientName[s], arg |-> m.arg]
    BY <2>1 DEF Notice
  <2>5. Service!Owed(s, m, d) = Service!Copies(fan'[d], Notice(d)')
    BY <2>1, <2>2, <2>4 DEF Service!Owed
  <2> QED
    BY <1>4, <2>3, <2>5
<1>9. CASE HandleExit(s, m)
  <2>1. /\ m.kind = "EXIT" /\ ack' = TRUE /\ clientName' = clientName
        /\ fan' = [rooms[clientRooms[s]] EXCEPT ![s] = 0]
    BY <1>9 DEF HandleExit
  <2>2. CASE d = s
    <3>1. fan'[d] = 0
      BY <1>2, <2>1, <2>2
    <3>2. Repeat(fan'[d], Notice(d)') = <<>>
      BY <3>1 DEF Repeat
    <3>3. Pending(d)' = <<Ack'>> \o <<>>
      BY <1>3, <2>1, <2>2, <3>2
    <3>4. Ack' = [kind |-> "LEFT", who |-> s, arg |-> None]
      BY <2>1 DEF Ack
    <3>5. Service!Owed(s, m, d) = <<Ack'>>
      BY <2>1, <2>2, <3>4 DEF Service!Owed
    <3> QED
      BY <3>3, <3>5, NothingAdded
  <2>3. CASE d # s
    <3>1. fan'[d] = rooms[clientRooms[s]][d] /\ fan'[d] \in Nat
      BY <1>2, <2>1, <2>3
    <3>2. Pending(d)' = Repeat(fan'[d], Notice(d)')
      BY <1>3, <2>3, <3>1, NothingAdded
    <3>3. Notice(d)' = [kind |-> "HAS_LEFT", who |-> clientName[s], arg |-> None]
      BY <2>1 DEF Notice
    <3>4. Service!Owed(s, m, d) = Service!Copies(fan'[d], Notice(d)')
      BY <2>1, <2>3, <3>1, <3>3 DEF Service!Owed
    <3> QED
      BY <1>4, <3>2, <3>4
  <2> QED
    BY <2>2, <2>3
<1> QED
  BY <1>5, <1>6, <1>7, <1>8, <1>9

\* The tables change as the service says.
LEMMA HandledIsAdmitted ==
  ASSUME NEW s \in Client, NEW m \in Request(s), m # None,
         \/ HandleOther(m) \/ HandleName(s, m) \/ HandleJoin(s, m)
         \/ HandleChat(s, m) \/ HandleExit(s, m)
  PROVE  Service!Admit(s, m)
<1>1. m.kind \in RequestKind
  BY RequestFields
<1>2. ~HandleOther(m)
  BY <1>1 DEF HandleOther
<1>3. CASE HandleName(s, m)
  BY <1>3 DEF HandleName, Service!Admit
<1>4. CASE HandleJoin(s, m)
  BY <1>4 DEF HandleJoin, Service!Admit
<1>5. CASE HandleChat(s, m)
  BY <1>5 DEF HandleChat, Service!Admit, tables
<1>6. CASE HandleExit(s, m)
  BY <1>6 DEF HandleExit, Service!Admit
<1> QED
  BY <1>2, <1>3, <1>4, <1>5, <1>6

\* recv() and the handler behind it serve one request; at the end of a stream
\* there is none.
LEMMA ReceiveRefines ==
  ASSUME TypeInv, ReadRewound, NEW s \in Client, ReceiveData(s) \/ ReceiveEnd(s)
  PROVE  Service!Next \/ UNCHANGED Service!vars
<1>1. /\ pc = "scan" /\ ~buffer.ri
      /\ buffer.data = None
  BY DEF ReceiveData, ReceiveEnd, ReadRewound, TypeInv, ServerInv, BufferRewound
<1>2. \A d \in Client : Pending(d) = <<>>
  BY <1>1 DEF Pending
<1>3. CASE ReceiveData(s)
  <2>1. /\ c2s[s] \in Seq(Request(s)) /\ c2s[s] # <<>>
        /\ Handle(s, Received(buffer, Head(c2s[s])))
        /\ UNCHANGED <<link, s2c>>
    BY <1>3 DEF ReceiveData, TypeInv, ServerInv, RequestsAreOwn
  <2>2. PICK m \in Request(s) : m = Head(c2s[s])
    BY <2>1
  <2>3. m \in Packet /\ m # None
    BY <2>2, RequestIsPacket, PacketsAssumption DEF PacketsAssumption
  <2>4. PICK n \in Batch(c2s[s]) : c2s' = [c2s EXCEPT ![s] = Rest(@, n)]
    BY <1>3 DEF ReceiveData
  <2>5. n \in 1 .. Len(c2s[s])
    BY <2>1, <2>4, LenProperties DEF Batch
  <2>6. Parsed(Received(buffer, m)) = m
    BY <1>1 DEF Parsed, Received
  <2>7. /\ pc' = "send" /\ cur' = s /\ req' = m
        /\ \/ HandleOther(m) \/ HandleName(s, m) \/ HandleJoin(s, m)
           \/ HandleChat(s, m) \/ HandleExit(s, m)
    BY <2>1, <2>2, <2>6 DEF Handle
  <2>8. ASSUME NEW d \in Client
        PROVE  Owes'[d] = Owes[d] \o Service!Owed(s, m, d)
    <3>1. s2c[d] \in Seq(Packet)
      BY DEF TypeInv, ServerInv, NetTypeOK
    <3>2. Owes[d] = s2c[d] \o <<>>
      BY <1>2 DEF Owes
    <3>3. Owes[d] = s2c[d]
      BY <3>1, <3>2, ConcatEmptySeq
    <3>4. Owes'[d] = s2c[d] \o Pending(d)'
      BY <2>1 DEF Owes
    <3> QED
      BY <2>3, <2>7, <3>3, <3>4, HandledIsOwed
  <2>9. Presences' = Presences
    BY <2>1 DEF Presences, Presence
  <2>10. Service!Admit(s, m)
    BY <2>3, <2>7, HandledIsAdmitted
  <2> QED
    BY <1>1, <2>1, <2>2, <2>4, <2>5, <2>7, <2>8, <2>9, <2>10, Serves
<1>4. CASE ReceiveEnd(s)
  <2>1. Parsed(buffer) = None
    BY <1>1 DEF Parsed
  <2>2. pc' = "send" /\ HandleOther(None)
    BY <1>4, <2>1 DEF ReceiveEnd, Handle, HandleName, HandleJoin, HandleChat, HandleExit
  <2>3. ack' = FALSE /\ UNCHANGED tables /\ \A d \in Client : fan'[d] = 0
    BY <2>2 DEF HandleOther, NoOne
  <2>4. \A d \in Client : Pending(d)' = <<>> \o Repeat(0, Notice(d)')
    BY <2>2, <2>3 DEF Pending, Repeat
  <2>5. \A d \in Client : Repeat(0, Notice(d)') = <<>>
    BY DEF Repeat
  <2>6. \A d \in Client : Pending(d)' = Pending(d)
    BY <1>2, <2>4, <2>5
  <2>7. UNCHANGED netVars
    BY <1>4 DEF ReceiveEnd
  <2>8. Owes' = Owes /\ Presences' = Presences
    BY <2>6, <2>7 DEF Owes, Presences, Presence, netVars
  <2> QED
    BY <1>1, <2>2, <2>3, <2>7, <2>8, Stutter DEF netVars
<1> QED
  BY <1>3, <1>4

-----------------------------------------------------------------------------
(* The theorem.                                                            *)

\* The initial states are initial states of the service.
LEMMA InitRefines == Init => Service!Init
<1> SUFFICES ASSUME Init
             PROVE  Service!Init
  OBVIOUS
<1>1. /\ pc = "select" /\ link = [c \in Client |-> "none"]
      /\ c2s = [c \in Client |-> <<>>] /\ s2c = [c \in Client |-> <<>>]
      /\ rooms = [r \in RoomName |-> [c \in Client |-> 0]]
      /\ clientRooms = [c \in Client |-> EmptyName]
      /\ clientName = [c \in Client |-> None]
  BY DEF Init, NetInit, ServerInit, NoOne
<1>2. \A c \in Client : s2c[c] \o Pending(c) = <<>>
  <2>1. \A c \in Client : s2c[c] \o Pending(c) = <<>> \o <<>>
    BY <1>1 DEF Pending
  <2> QED
    BY <2>1
<1>3. \A c \in Client : Presence(c) = "new"
  BY <1>1 DEF Presence
<1>4. RoomName = Service!RoomName
  BY DEF RoomName, Service!RoomName
<1> QED
  BY <1>1, <1>2, <1>3, <1>4 DEF Service!Init

\* Every step is a step of the service or changes nothing it speaks of.
LEMMA StepRefines ==
  TypeInv /\ ReadRewound /\ [Next]_vars => [Service!Next]_(Service!vars)
<1> SUFFICES ASSUME TypeInv, ReadRewound, [Next]_vars
             PROVE  Service!Next \/ UNCHANGED Service!vars
  OBVIOUS
<1>1. CASE Select \/ PassEnds \/ Accept
  <2>1. /\ pc # "send" /\ pc' # "send" /\ pc # "down" /\ pc' # "down"
        /\ UNCHANGED <<link, c2s, s2c, tables>>
    BY <1>1 DEF Select, PassEnds, Accept, ScanOver, netVars
  <2>2. Owes' = Owes /\ Presences' = Presences
    BY <2>1 DEF Owes, Pending, Presences, Presence
  <2> QED
    BY <2>1, <2>2, Stutter
<1>2. ASSUME NEW s \in Client, ReceiveData(s) \/ ReceiveEnd(s)
      PROVE  Service!Next \/ UNCHANGED Service!vars
  BY <1>2, ReceiveRefines
<1>3. CASE SendAck \/ (\E d \in Client : SendNotice(d))
  BY <1>3, TransmitRefines
<1>4. CASE EndHandling
  <2>1. /\ pc = "send" /\ pc' = "scan" /\ ~ack /\ fan = NoOne
        /\ UNCHANGED <<link, c2s, s2c, tables>>
    BY <1>4 DEF EndHandling, netVars
  <2>2. \A d \in Client : Repeat(fan[d], Notice(d)) = <<>>
    BY <2>1 DEF NoOne, Repeat
  <2>3. \A d \in Client : Pending(d) = <<>> \o Repeat(fan[d], Notice(d))
    BY <2>1 DEF Pending, Repeat
  <2>4. \A d \in Client : Pending(d)' = <<>>
    BY <2>1 DEF Pending
  <2>5. \A d \in Client : Pending(d)' = Pending(d)
    BY <2>2, <2>3, <2>4
  <2>6. Owes' = Owes /\ Presences' = Presences
    BY <2>1, <2>5 DEF Owes, Presences, Presence
  <2> QED
    BY <2>1, <2>6, Stutter
<1>5. CASE SelectFails \/ AcceptFails \/ (\E d \in Client : ReceiveFails(d) \/ SendFails(d))
  <2>1. ServerExit /\ pc # "down"
    BY <1>5 DEF SelectFails, AcceptFails, ScanOver, ReceiveFails, SendFails
  <2> QED
    BY <2>1, ExitStops
<1>6. ASSUME NEW c \in Client, ClientStep(c)
      PROVE  Service!Next
  BY <1>6, ClientRefines
<1>7. CASE UNCHANGED vars
  <2>1. UNCHANGED <<link, c2s, s2c, tables, pc>>
        /\ UNCHANGED <<pc, ack, cur, fan, req, clientName>>
    BY <1>7 DEF vars, serverVars, netVars, tables
  <2>2. Owes' = Owes /\ Presences' = Presences
    BY <2>1, PendingKept DEF Owes, Presences, Presence
  <2> QED
    BY <2>1, <2>2, Stutter
<1> QED
  BY <1>1, <1>2, <1>3, <1>4, <1>5, <1>6, <1>7
     DEF Next, ServerNext, ServerStep, Receive, Transmit, Finished

\* The server, with its readiness sets, its one buffer and its fan-outs that are
\* interrupted by everything clients do, implements the service Rooms.
THEOREM ServesRoomsCorrect == Spec => ServesRooms
<1>1. Init => Service!Init /\ ReadRewound
  <2>1. Init => ReadRewound
    BY DEF Init, ServerInit, Fresh, ReadRewound
  <2> QED
    BY <2>1, InitRefines
<1>2. TypeInv /\ ReadRewound /\ [Next]_vars => ReadRewound' /\ [Service!Next]_(Service!vars)
  BY StepRewound, StepRefines
<1> QED
  BY <1>1, <1>2, TypeInvariance, PTL DEF Spec, ServesRooms, Service!Spec
=============================================================================
