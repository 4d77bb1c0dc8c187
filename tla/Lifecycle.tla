----------------------------- MODULE Lifecycle -----------------------------
(***************************************************************************)
(* What both programs acquire before their loops and release on the way    *)
(* out: Winsock, the address list of getaddrinfo() and sockets.  Every     *)
(* call that can fail has a step in which it does, and the step is all the *)
(* way the error takes through the callers: CleanSocket runs in the        *)
(* function that failed, in some of its callers and in main.  What the     *)
(* programs say to each other is the subject of the other modules.         *)
(***************************************************************************)
EXTENDS Integers, FiniteSets

CONSTANT Connections    \* the sockets accept() may return to the server

Main    == "main"       \* serverSocket of either program
Socket  == Connections \cup {Main}
Program == {"server", "client"}

ASSUME LifecycleAssumption == Main \notin Connections

VARIABLES
  at,      \* how far each program has come
  holds,   \* what it holds: Winsock start-ups, the address list, open sockets;
           \* and which calls it made on something it did not hold
  connected   \* has the client's connect() succeeded?

vars == <<at, holds, connected>>

Stage == {"InitializeWSA", "InitializeAddrInfo", "CreateSocket", "Bind", "Listen",
          "ConnectSocket", "GetClientName", "loop", "selectFailed", "returned"}
Fault == {"use", "close"}

\* Where main has returned; behind the server's select() with less clean-up.
Returned == {"selectFailed", "returned"}

Init ==
  /\ at = [p \in Program |-> "InitializeWSA"]
  /\ holds = [p \in Program |-> [wsa |-> 0, info |-> "null", open |-> {}, faults |-> {}]]
  /\ connected = FALSE

-----------------------------------------------------------------------------
(* Winsock.                                                                *)

Faulty(h, f) == [h EXCEPT !.faults = @ \cup {f}]

\* Any call that works with the socket s.
Use(h, s) == IF h.wsa > 0 /\ s \in h.open THEN h ELSE Faulty(h, "use")

\* The address list is read: info->ai_family and the like.
UseInfo(h) == IF h.info = "list" THEN h ELSE Faulty(h, "use")

\* freeaddrinfo() has nothing to do for a null pointer, and walks along the list
\* it is given, one that was freed as well.
FreeAddrInfo(h) ==
  IF h.info = "null" THEN h ELSE [UseInfo(h) EXCEPT !.info = "freed"]

\* Without Winsock, or for what is no open socket, closesocket() closes nothing.
CloseSocket(h, s) ==
  IF h.wsa > 0 /\ s \in h.open THEN [h EXCEPT !.open = @ \ {s}] ELSE Faulty(h, "close")

\* The last WSACleanup() resets what is still open; one too many does nothing.
WSACleanup(h) ==
  IF h.wsa = 0 THEN h
  ELSE [h EXCEPT !.wsa = @ - 1, !.open = IF h.wsa = 1 THEN {} ELSE @]

CleanSocket(h, s) == WSACleanup(CloseSocket(FreeAddrInfo(h), s))

-----------------------------------------------------------------------------
\* Program p goes on at stage s, holding h.
Goes(p, s, h) ==
  /\ at' = [at EXCEPT ![p] = s]
  /\ holds' = [holds EXCEPT ![p] = h]
  /\ UNCHANGED connected

(* Start-up; the first three functions are the same in both programs.      *)

InitializeWSA(p) ==
  /\ at[p] = "InitializeWSA"
  /\ \/ Goes(p, "InitializeAddrInfo", [holds[p] EXCEPT !.wsa = @ + 1])
     \/ Goes(p, "returned", holds[p])

\* Mutant: Winsock is started once more before the address is looked up.
InitializeAddrInfoStartsWSA(p) ==
  /\ at[p] = "InitializeAddrInfo"
  /\ \/ Goes(p, "CreateSocket", [holds[p] EXCEPT !.wsa = @ + 1, !.info = "list"])
     \/ Goes(p, "returned", WSACleanup(FreeAddrInfo(holds[p])))

InitializeAddrInfo(p) ==
  /\ at[p] = "InitializeAddrInfo"
  /\ \/ Goes(p, "CreateSocket", [holds[p] EXCEPT !.info = "list"])
     \/ Goes(p, "returned", WSACleanup(FreeAddrInfo(holds[p])))

\* Mutant: the failure of socket() releases the address list only.
CreateSocketKeepsWSA(p) ==
  LET h == UseInfo(holds[p]) IN
  /\ at[p] = "CreateSocket"
  /\ \/ Goes(p, IF p = "server" THEN "Bind" ELSE "ConnectSocket",
             [h EXCEPT !.open = @ \cup {Main}])
     \/ Goes(p, "returned", FreeAddrInfo(h))

CreateSocket(p) ==
  LET h == UseInfo(holds[p]) IN
  /\ at[p] = "CreateSocket"
  /\ \/ Goes(p, IF p = "server" THEN "Bind" ELSE "ConnectSocket",
             [h EXCEPT !.open = @ \cup {Main}])
     \/ Goes(p, "returned", WSACleanup(FreeAddrInfo(h)))

Bind ==
  LET h == Use(UseInfo(holds["server"]), Main) IN
  /\ at["server"] = "Bind"
  /\ Goes("server", "Listen", h) \/ Goes("server", "returned", CleanSocket(h, Main))

Listen ==
  LET h == Use(holds["server"], Main) IN
  /\ at["server"] = "Listen"
  /\ Goes("server", "loop", h) \/ Goes("server", "returned", CleanSocket(h, Main))

\* The result of connect() is discarded, and the test that follows is never true.
ConnectSocket ==
  /\ at["client"] = "ConnectSocket"
  /\ at' = [at EXCEPT !["client"] = "GetClientName"]
  /\ holds' = [holds EXCEPT !["client"] = Use(UseInfo(@), Main)]
  /\ connected' \in BOOLEAN

\* send() fails on a socket without a connection, and may fail on any other:
\* then WriteResponse cleans up and so does GetClientName.
GetClientName ==
  LET h == Use(holds["client"], Main) IN
  /\ at["client"] = "GetClientName"
  /\ \/ connected /\ Goes("client", "loop", h)
     \/ Goes("client", "returned", CleanSocket(CleanSocket(h, Main), Main))

-----------------------------------------------------------------------------
(* The server's loop.                                                      *)

Connected == holds["server"].open \ {Main}

\* select(), and recv() from or send() to a connection, succeed.
Serve ==
  /\ at["server"] = "loop"
  /\ \E c \in Connected : Goes("server", "loop", Use(Use(holds["server"], Main), c))

\* select() fails: main closes its socket and returns.
SelectFails ==
  /\ at["server"] = "loop"
  /\ Goes("server", "selectFailed", CloseSocket(Use(holds["server"], Main), Main))

Accept ==
  /\ at["server"] = "loop"
  /\ \E c \in Connections \ Connected :
       Goes("server", "loop", [Use(holds["server"], Main) EXCEPT !.open = @ \cup {c}])

\* accept() fails: main leaves its loop and cleans up.
AcceptFails ==
  /\ at["server"] = "loop"
  /\ Goes("server", "returned", CleanSocket(Use(holds["server"], Main), Main))

\* Mutant: LoopThroughClientList goes on with the next socket.
ReceiveFailsGoesOn ==
  /\ at["server"] = "loop"
  /\ \E c \in Connected :
       Goes("server", "loop", CleanSocket(CleanSocket(Use(holds["server"], c), c), c))

\* recv() fails: ReceiveMessageFromClient, LoopThroughClientList and main all
\* clean up, main its own socket.
ReceiveFails ==
  /\ at["server"] = "loop"
  /\ \E c \in Connected :
       Goes("server", "returned",
            CleanSocket(CleanSocket(CleanSocket(Use(holds["server"], c), c), c), Main))

\* send() fails in the handler of a request or in a fan-out: SendMessageToClient
\* and main clean up.
SendFails ==
  /\ at["server"] = "loop"
  /\ \E c \in Connected :
       Goes("server", "returned",
            CleanSocket(CleanSocket(Use(holds["server"], c), c), Main))

-----------------------------------------------------------------------------
(* The client's loop.                                                      *)

\* select(), recv() and send() succeed.
Talk ==
  /\ at["client"] = "loop"
  /\ Goes("client", "loop", Use(holds["client"], Main))

\* send() fails: WriteResponse cleans up, CheckUserInput and main return.
WriteResponseFails ==
  /\ at["client"] = "loop"
  /\ Goes("client", "returned", CleanSocket(Use(holds["client"], Main), Main))

\* select() fails: main cleans up.
CheckForResponseFails ==
  /\ at["client"] = "loop"
  /\ Goes("client", "returned", CleanSocket(Use(holds["client"], Main), Main))

\* recv() fails: ReceiveMessageFromServer and main clean up.
ReceiveMessageFails ==
  /\ at["client"] = "loop"
  /\ Goes("client", "returned",
          CleanSocket(CleanSocket(Use(holds["client"], Main), Main), Main))

-----------------------------------------------------------------------------
Ended == (\A p \in Program : at[p] \in Returned) /\ UNCHANGED vars

ServerStep == Bind \/ Listen \/ Serve \/ SelectFails \/ Accept \/ AcceptFails
              \/ ReceiveFails \/ SendFails
ClientStep == ConnectSocket \/ GetClientName \/ Talk \/ WriteResponseFails
              \/ CheckForResponseFails \/ ReceiveMessageFails

Next ==
  \/ \E p \in Program : InitializeWSA(p) \/ InitializeAddrInfo(p) \/ CreateSocket(p)
  \/ ServerStep \/ ClientStep \/ Ended

Spec == Init /\ [][Next]_vars

-----------------------------------------------------------------------------
(* Properties.                                                             *)

\* Winsock is started once in each program.
TypeOK ==
  /\ at \in [Program -> Stage] /\ connected \in BOOLEAN
  /\ holds \in [Program -> [wsa : 0 .. 1, info : {"null", "list", "freed"},
                            open : SUBSET Socket, faults : SUBSET Fault]]

\* A call on what the program does not hold, or no longer, is made in one place only:
\* a send() or recv() on a connection has failed, the function, its callers and main
\* each clean up, on their way out, and what the first has released the others
\* release again, walking along the freed list.  No other failure leads to a second
\* clean-up, and no program goes on with what it has released.
CleansAgainOnLossOnly ==
  [][\A p \in Program :
       holds'[p].faults # holds[p].faults =>
         /\ at'[p] = "returned"
         /\ \/ p = "client" /\ at[p] \in {"GetClientName", "loop"}
            \/ p = "server" /\ at[p] = "loop" /\ Connected # {}]_vars

\* A program that returns has given up all that it acquired, the server too,
\* whichever call failed - only behind the server's select() it is the listening
\* socket alone (serverMain.cpp:76-81).
ReturnedHoldsNothing ==
  \A p \in Program :
    at[p] = "returned" =>
      holds[p].wsa = 0 /\ holds[p].open = {} /\ holds[p].info # "list"
=============================================================================
