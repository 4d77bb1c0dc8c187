----------------------------- MODULE OpenServer -----------------------------
(***************************************************************************)
(* The server among arbitrary clients.  A client here may connect, send    *)
(* any request of the protocol at any moment and in any order, read its    *)
(* replies in any portions, close its end in order, or be reset.  What     *)
(* holds of this specification holds of the server whatever the client     *)
(* program and its user do.                                                *)
(***************************************************************************)
EXTENDS ChatServer

CONSTANT MaxSends    \* requests each client sends (bounds the model)

ASSUME OpenAssumption == MaxSends \in Nat

VARIABLE sent        \* requests each client has sent

vars == <<netVars, serverVars, sent>>

Init == NetInit /\ ServerInit /\ sent = [c \in Client |-> 0]

-----------------------------------------------------------------------------
(* The clients.                                                            *)

Connect(c) ==
  /\ link[c] = "none" /\ pc # "down"
  /\ Connected(c)
  /\ UNCHANGED <<serverVars, sent>>

SendRequest(c, m) ==
  /\ link[c] = "up" /\ Len(c2s[c]) < UpCap /\ sent[c] < MaxSends
  /\ c2s' = [c2s EXCEPT ![c] = Append(@, m)]
  /\ sent' = [sent EXCEPT ![c] = @ + 1]
  /\ UNCHANGED <<link, backlog, s2c, serverVars>>

ReadReplies(c) ==
  /\ link[c] \in {"up", "sfin"} /\ s2c[c] # <<>>
  /\ \E n \in Batch(s2c[c]) : s2c' = [s2c EXCEPT ![c] = Rest(@, n)]
  /\ UNCHANGED <<link, backlog, c2s, serverVars, sent>>

Close(c) ==
  /\ link[c] = "up"
  /\ CloseClientEnd(c)
  /\ UNCHANGED <<backlog, serverVars, sent>>

Reset(c) ==
  /\ link[c] \in {"up", "cfin", "sfin"}
  /\ ResetLink(c)
  /\ UNCHANGED <<backlog, serverVars, sent>>

ClientStep(c) ==
  \/ Connect(c)
  \/ \E m \in Request(c) : SendRequest(c, m)
  \/ ReadReplies(c)
  \/ Close(c)
  \/ Reset(c)

\* Nothing is left to do: the process is gone, or it waits in select() for
\* clients that have all used up their requests.
Finished ==
  /\ \/ pc = "down"
     \/ pc = "select" /\ backlog = <<>> /\ \A s \in Polled \ {Listener} : ~Readable(s)
  /\ UNCHANGED vars

Next ==
  \/ ServerNext /\ UNCHANGED sent
  \/ \E c \in Client : ClientStep(c)
  \/ Finished

\* The server process is scheduled, and clients go on reading their sockets.
Fairness ==
  /\ WF_vars(ServerStep /\ UNCHANGED sent)
  /\ \A c \in Client : WF_vars(ReadReplies(c))

Spec     == Init /\ [][Next]_vars
FairSpec == Spec /\ Fairness

-----------------------------------------------------------------------------
(* Properties.                                                             *)

TypeOK == NetTypeOK /\ ServerTypeOK /\ sent \in [Client -> Nat]

InPass == pc \in {"scan", "send"}

\* readCount is at every moment of a pass the number of sockets that select()
\* reported and the pass has not handled yet.  main decides on accept() by it
\* (serverMain.cpp:89), several handlers after select() returned it.
ReadCountExact == InPass => readCount = Cardinality(ready)

\* A readiness bit is used long after select() set it.  It is never stale: the
\* blocking recv() on a socket whose bit is set, and the blocking accept(),
\* return at once, so no single client can hold up the server there.
NeverBlocksOnStaleBit ==
  InPass => /\ \A s \in Client \cap ready : s = cur \/ Readable(s)
            /\ Listener \in ready => backlog # <<>>

\* The two room tables agree: the room clientRooms names holds the socket.
\* (For the empty name the entry may be one operator[] inserted.)
RoomTablesAgree ==
  \A c \in Client :
    clientRooms[c] # EmptyName => rooms[clientRooms[c]][c] > 0

\* Rooms and the connection list agree: a socket found in a room is one the
\* server has accepted and still polls for requests, at most once per pass.
RoomsHoldConnections ==
  pc # "down" =>
    /\ \A r \in RoomName, c \in Client : rooms[r][c] > 0 => c \in Accepted
    /\ \A i, j \in DOMAIN conns : conns[i] = conns[j] => i = j

\* The one buffer is reused for the request and for every packet of a fan-out;
\* still a client only ever finds an answer of its own ($READY$, $LEFT$, YOU)
\* and another client's line or notice ($REPLY$) in its stream.
RightFor(c, m) ==
  /\ m.kind \in ReplyKind
  /\ m.kind \in {"LEFT", "YOU"} => m.who = c
  /\ m.kind = "READY" => m.who \in {c, None}
  /\ m.kind \in {"REPLY", "HAS_JOINED", "HAS_LEFT"} => m.who # c

AnswersReachTheirClient ==
  \A c \in Client : \A i \in DOMAIN s2c[c] : RightFor(c, s2c[c][i])

\* A socket leaves a room only while its own $EXIT$ is handled: neither another
\* client's request nor a closed connection empties its place.
OnlyOwnExitLeaves ==
  [][\A r \in RoomName, c \in Client :
       rooms[r][c] > 0 /\ rooms'[r][c] = 0 =>
         cur' = c /\ req'.kind = "EXIT"]_vars

\* Every request of an accepted connection is eventually consumed, whatever the
\* other clients send, unless its connection is reset or the server ends.
EveryRequestServed ==
  \A c \in Client :
    (c \in Accepted /\ c2s[c] # <<>>) ~> (c2s[c] = <<>> \/ pc = "down")

\* A reset of one accepted connection ends the server for everybody.
ResetEndsServer ==
  \A c \in Client : (c \in Accepted /\ link[c] = "rst") ~> pc = "down"

-----------------------------------------------------------------------------
(* The server implements Rooms.                                            *)

\* What the fan-out under way has still to send to d: the answer, then the
\* copies of the notification.
Pending(d) ==
  IF pc # "send" THEN <<>>
  ELSE (IF ack /\ d = cur THEN <<Ack>> ELSE <<>>) \o [i \in 1 .. fan[d] |-> Notice(d)]

Presence(c) == IF link[c] = "none" THEN "new"
               ELSE IF link[c] \in {"up", "sfin"} THEN "here" ELSE "gone"

Service == INSTANCE Rooms WITH
  running  <- pc # "down",
  presence <- [c \in Client |-> Presence(c)],
  asked    <- c2s,
  owed     <- [c \in Client |-> s2c[c] \o Pending(c)],
  members  <- rooms,
  roomOf   <- clientRooms,
  nameOf   <- clientName

\* A fan-out is many send() calls from one buffer, between which connections come,
\* go and break; seen from the clients it is one step, and the stream of a client
\* that stays connected has nothing missing, repeated or misdirected.
ServesRooms == Service!Spec
=============================================================================
