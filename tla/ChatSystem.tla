----------------------------- MODULE ChatSystem -----------------------------
(***************************************************************************)
(* The whole program: one server, the clients, and their users.            *)
(*                                                                         *)
(* The users are the environment.  A patient user waits for the answer to  *)
(* 'J' or 'E' before touching the keyboard again; any other user presses   *)
(* whatever keys the client reacts to.  Users in Quitters may close their  *)
(* terminal at any time.                                                   *)
(***************************************************************************)
EXTENDS ChatServer, ChatClient

CONSTANTS
  Patient,     \* do the users wait for the answers to 'J' and 'E'?
  Quitters,    \* the clients whose terminal may be closed
  MaxCmds,     \* requests each user makes after the name (bounds the model)
  MaxSends     \* more than any of them

ASSUME SystemAssumption ==
  /\ Patient \in BOOLEAN
  /\ Quitters \subseteq Client
  /\ MaxSends \in Nat
  /\ MaxCmds \in [Client -> 0 .. MaxSends - 1]

VARIABLES
  awaiting,    \* answers each user still has to see: one per 'J' or 'E' sent
  cmds         \* requests each client has sent, the name included

userVars == <<awaiting, cmds>>
vars == <<netVars, serverVars, clientVars, userVars>>

Init ==
  /\ NetInit /\ ServerInit /\ ClientInit
  /\ awaiting = [c \in Client |-> 0]
  /\ cmds = [c \in Client |-> 0]

-----------------------------------------------------------------------------
(* The users.                                                              *)

Start(c) ==
  /\ ConnectSocket(c, pc # "down")
  /\ UNCHANGED userVars

WillPress(c) == cmds[c] <= MaxCmds[c] /\ (Patient => awaiting[c] = 0)

\* The request of c has been sent, unless the server turned out to be gone.
CountRequest(c) ==
  IF link'[c] = "up" THEN cmds' = [cmds EXCEPT ![c] = @ + 1] ELSE UNCHANGED cmds

\* A key is pressed; what it sends is sent by a later step.
Press(c) ==
  /\ WillPress(c)
  /\ PressEsc(c) \/ PressJ(c) \/ PressTab(c) \/ PressE(c)
  /\ UNCHANGED userVars

Ask(c) ==
  /\ (\E r \in Room : EnterRoom(c, r)) \/ SendExit(c)
  /\ awaiting' = [awaiting EXCEPT ![c] = @ + 1]
  /\ CountRequest(c)

Say(c) ==
  /\ \E t \in Text : EnterText(c, t)
  /\ CountRequest(c)
  /\ UNCHANGED awaiting

Introduce(c) ==
  /\ EnterName(c)
  /\ CountRequest(c)
  /\ UNCHANGED awaiting

\* The loop; the user sees the answer it prints.
Loop(c) ==
  /\ PollNothing(c) \/ PollPacket(c) \/ PollEnd(c) \/ PollFails(c)
  /\ IF /\ s2c'[c] # s2c[c]
        /\ Head(s2c[c]).kind \in {"READY", "LEFT"}
        /\ awaiting[c] > 0
     THEN awaiting' = [awaiting EXCEPT ![c] = @ - 1]
     ELSE UNCHANGED awaiting
  /\ UNCHANGED cmds

Leave(c) ==
  /\ c \in Quitters
  /\ Quit(c)
  /\ UNCHANGED userVars

ClientStep(c) ==
  /\ \/ Start(c) \/ Introduce(c) \/ Press(c) \/ Ask(c) \/ Say(c)
     \/ Loop(c) \/ Leave(c)
     \/ WriteResponseFails(c) /\ UNCHANGED userVars
  /\ UNCHANGED serverVars

\* Every process has ended.
Ended ==
  /\ pc = "down" /\ \A c \in Client : cpc[c] = "gone"
  /\ UNCHANGED vars

Next ==
  \/ ServerNext /\ UNCHANGED <<clientVars, userVars>>
  \/ \E c \in Client : ClientStep(c)
  \/ Ended

(***************************************************************************)
(* The three kinds of process are scheduled.  Nobody has to press a key,   *)
(* to start a client or to close one; FairSpec also has a user who was     *)
(* asked for a line enter one some time.                                   *)
(***************************************************************************)
ProcessFairness ==
  /\ WF_vars(ServerStep /\ UNCHANGED <<clientVars, userVars>>)
  /\ \A c \in Client : /\ WF_vars(Loop(c) /\ UNCHANGED serverVars)
                        /\ WF_vars(cpc[c] = "exit" /\ Ask(c) /\ UNCHANGED serverVars)

EnterLine(c) == Introduce(c) \/ (cpc[c] = "room" /\ Ask(c)) \/ Say(c)

UserFairness ==
  \A c \in Client : WF_vars(EnterLine(c) /\ UNCHANGED serverVars)

Spec        == Init /\ [][Next]_vars
ProcessSpec == Spec /\ ProcessFairness
FairSpec    == Spec /\ ProcessFairness /\ UserFairness

-----------------------------------------------------------------------------
(* Properties.                                                             *)

TypeOK ==
  /\ NetTypeOK /\ ServerTypeOK /\ ClientTypeOK
  /\ awaiting \in [Client -> Nat]
  /\ cmds \in [Client -> Nat]

\* The rooms that hold the socket of c.
RoomsOf(c) == {r \in RoomName : rooms[r][c] > 0}

\* "The program doesnt allow a single client to join multiple rooms"
\* (README.md:39): a socket has at most one place in all rooms together, so it
\* gets each line and each notice once.
OneRoom ==
  \A c \in Client :
    /\ Cardinality(RoomsOf(c)) <= 1
    /\ \A r \in RoomName : rooms[r][c] <= 1

\* Everything the client sent was handled and everything sent to it was printed.
Settled(c) ==
  /\ link[c] = "up" /\ cpc[c] = "loop"
  /\ c2s[c] = <<>> /\ s2c[c] = <<>>
  /\ pc = "select"

\* mJoinedRoom and mChatReady are the client's copy of what the server's tables
\* say; whenever nothing is under way between the two, all three agree.
ViewsAgree ==
  \A c \in Client : Settled(c) =>
    /\ joined[c] <=> RoomsOf(c) # {}
    /\ chatReady[c] <=> RoomsOf(c) # {}

\* "After typing the room name, chat is enabled for the room" (README.md:29):
\* the user is never left outside, with a client that thinks it has joined.
ChatEnabled == \A c \in Client : Settled(c) /\ joined[c] => chatReady[c]

\* Chat lines and notices about leaving reach a room only from a socket that
\* was a member of it: the room of a client that is in none is the empty name,
\* and rooms[""] is a room users can be in.
OnlyMembersSpeak ==
  [][pc = "scan" /\ pc' = "send" /\ fan' # NoOne /\ req'.kind \in {"CHAT", "EXIT"}
       => rooms[clientRooms[cur']][cur'] > 0]_vars

\* Exactly one answer is under way for each user that waits for one: its
\* request, the answer still to be sent, or the answer itself.
Asking    == {"JOIN", "EXIT"}
Answering == {"READY", "LEFT"}

\* How many packets of the channel ch are of one of the kinds K.
Count(ch, K) == Cardinality({i \in DOMAIN ch : ch[i].kind \in K})

UnderWay(c) ==
  Count(c2s[c], Asking) + Count(s2c[c], Answering)
    + (IF pc = "send" /\ ack /\ cur = c THEN 1 ELSE 0)

OneAnswerEach ==
  \A c \in Client : link[c] = "up" /\ pc # "down" => UnderWay(c) = awaiting[c]

\* With users who do not wait and packets that are dropped, still no client is
\* ever sent more answers than it has asked for.
NoStrayAnswer == \A c \in Client : UnderWay(c) <= awaiting[c]

\* A member's name is known, so no room is told that "[]" joined, left or spoke.
MembersAreNamed == \A c \in Client : RoomsOf(c) # {} => clientName[c] = c

\* A client writes a packet only at the start of its buffer, where send() takes
\* it from; a packet behind another one would repeat that one on the wire.
WritesAtStart ==
  \A c \in Client : cpc[c] \in {"room", "text", "exit"} => ~cbuf[c].wi

\* The server waits in send() for a client that reads nothing, because it is in
\* send() itself (once its user has finished the line) and waits for the server.
WaitForEachOther ==
  /\ pc = "send"
  /\ \E c \in Client :
       /\ IF ack THEN c = cur ELSE fan[c] > 0
       /\ link[c] = "up" /\ Len(s2c[c]) = DownCap
       /\ cpc[c] \in {"room", "text", "exit"} /\ Len(c2s[c]) = UpCap

\* The user who asked to join or to leave gets the answer, unless the
\* connection or the server is lost, or the server and a client stop each other.
Answered ==
  \A c \in Client :
    awaiting[c] > 0 ~>
      (awaiting[c] = 0 \/ cpc[c] = "gone" \/ pc = "down" \/ WaitForEachOther)

\* Every packet a client has sent is eventually received, though the server
\* waits in send() for clients that read nothing while their user types - unless
\* the server and a client stop each other.
RequestsReceived ==
  \A c \in Client :
    c2s[c] # <<>> ~> (c2s[c] = <<>> \/ pc = "down" \/ WaitForEachOther)

\* "The server is made to act concurrently" (README.md:9): every packet is received,
\* as long as the users finish their lines.  The server's one thread sends on blocking
\* sockets: violated, by the server and a client that stop each other.
ServesEveryone == \A c \in Client : c2s[c] # <<>> ~> (c2s[c] = <<>> \/ pc = "down")

-----------------------------------------------------------------------------
(* The whole program is one of those OpenServer speaks of.                 *)

Open == INSTANCE OpenServer WITH sent <- cmds

\* Whatever its user does, a client only does to the server what OpenServer lets
\* arbitrary clients do: it connects once, sends whole requests of its own, reads,
\* closes, or is reset.  So what holds there for the server holds in the program.
ClientsConform == Open!Spec
=============================================================================
