----------------------------- MODULE ChatClient -----------------------------
(***************************************************************************)
(* The client processes: main's loop, cUserInterface and the client's      *)
(* cNetworkManager.  Each is a single thread.  One iteration of its loop   *)
(* handles at most one key and then polls the socket once, with a select() *)
(* that does not wait; reading a line from the console does block, and     *)
(* nothing is received meanwhile.                                          *)
(*                                                                         *)
(* A step is one system call that other processes can observe, with the    *)
(* computation around it; a key that matches no branch of CheckUserInput   *)
(* and an iteration that finds neither key nor packet change nothing and   *)
(* are left out.  mUserWriting and mTypeReady are TRUE only at a prompt,   *)
(* until the line was sent, so cpc holds their values.                     *)
(***************************************************************************)
EXTENDS Network, CBuffer

VARIABLES
  cpc,         \* where each client is, see ClientPc
  joined,      \* mJoinedRoom
  chatReady,   \* mChatReady
  esc,         \* mEscapeSequencePressed
  fdCleared,   \* mFDCleared
  cbuf         \* the client's one cBuffer

clientVars == <<cpc, joined, chatReady, esc, fdCleared, cbuf>>

(***************************************************************************)
(* "start": not connected yet; "name", "room", "text": in getline(), or in *)
(* send() with the line; "exit": in send() with $EXIT$; "loop": at the top *)
(* of the loop; "poll": a key was handled and the socket is polled next;   *)
(* "gone": the process has ended.                                          *)
(***************************************************************************)
ClientPc == {"start", "name", "room", "text", "exit", "loop", "poll", "gone"}

ClientInit ==
  /\ cpc = [c \in Client |-> "start"]
  /\ joined = [c \in Client |-> FALSE]
  /\ chatReady = [c \in Client |-> FALSE]
  /\ esc = [c \in Client |-> FALSE]
  /\ fdCleared = [c \in Client |-> FALSE]
  /\ cbuf = [c \in Client |-> Fresh]

ClientTypeOK ==
  /\ cpc \in [Client -> ClientPc]
  /\ joined \in [Client -> BOOLEAN]
  /\ chatReady \in [Client -> BOOLEAN]
  /\ esc \in [Client -> BOOLEAN]
  /\ fdCleared \in [Client -> BOOLEAN]
  /\ cbuf \in [Client -> BufferOf(Packet)]

Goto(c, l) == cpc' = [cpc EXCEPT ![c] = l]

-----------------------------------------------------------------------------
(* Start-up.  ConnectSocket discards connect()'s result and tests the      *)
(* socket, so it reports success whether or not there is a connection.     *)

ConnectSocket(c, listening) ==
  /\ cpc[c] = "start"
  /\ Goto(c, "name")
  /\ IF listening THEN Connected(c) ELSE UNCHANGED netVars
  /\ UNCHANGED <<joined, chatReady, esc, fdCleared, cbuf>>

-----------------------------------------------------------------------------
(* WriteResponse: the packet is written to the buffer and sent.  send()    *)
(* waits for room in the socket buffers and succeeds once more after the   *)
(* server has closed its end.                                              *)

WriteResponse(c, p) ==
  LET b == Written(cbuf[c], p) IN
  /\ cbuf' = [cbuf EXCEPT ![c] = b]
  /\ \/ /\ link[c] = "up" /\ Len(c2s[c]) < UpCap
        /\ c2s' = [c2s EXCEPT ![c] = Append(@, OnWire(b))]
        /\ UNCHANGED <<link, s2c>>
     \/ /\ link[c] = "sfin"
        /\ ResetLink(c)
  /\ UNCHANGED <<backlog, fdCleared>>

\* GetClientName: the loop starts behind it, with the indices not reset.
EnterName(c) ==
  /\ cpc[c] = "name"
  /\ WriteResponse(c, Name(c))
  /\ Goto(c, "loop")
  /\ UNCHANGED <<joined, chatReady, esc>>

-----------------------------------------------------------------------------
(* CheckUserInput, one action per branch and blocking call.                *)

\* ESC opens or closes the options.
PressEsc(c) ==
  /\ cpc[c] = "loop"
  /\ esc' = [esc EXCEPT ![c] = ~@]
  /\ Goto(c, "poll")
  /\ UNCHANGED <<joined, chatReady, fdCleared, cbuf, netVars>>

\* Mutant: mJoinedRoom is not tested.
PressJInRoom(c) ==
  /\ cpc[c] = "loop" /\ esc[c]
  /\ esc' = [esc EXCEPT ![c] = FALSE]
  /\ Goto(c, "room")
  /\ UNCHANGED <<joined, chatReady, fdCleared, cbuf, netVars>>

\* 'J' asks for the room name; with the line entered, $JOIN$ is sent.
PressJ(c) ==
  /\ cpc[c] = "loop" /\ ~joined[c] /\ esc[c]
  /\ esc' = [esc EXCEPT ![c] = FALSE]
  /\ Goto(c, "room")
  /\ UNCHANGED <<joined, chatReady, fdCleared, cbuf, netVars>>

EnterRoom(c, r) ==
  /\ cpc[c] = "room"
  /\ WriteResponse(c, Join(c, r))
  /\ joined' = [joined EXCEPT ![c] = TRUE]
  /\ Goto(c, "poll")
  /\ UNCHANGED <<chatReady, esc>>

\* Mutant: mChatReady is not tested.
PressTabOutside(c) ==
  /\ cpc[c] = "loop"
  /\ Goto(c, "text")
  /\ UNCHANGED <<joined, chatReady, esc, fdCleared, cbuf, netVars>>

\* TAB asks for a line; with the line entered, $CHAT$ is sent.
PressTab(c) ==
  /\ cpc[c] = "loop" /\ chatReady[c]
  /\ Goto(c, "text")
  /\ UNCHANGED <<joined, chatReady, esc, fdCleared, cbuf, netVars>>

EnterText(c, t) ==
  /\ cpc[c] = "text"
  /\ WriteResponse(c, Chat(c, t))
  /\ Goto(c, "poll")
  /\ UNCHANGED <<joined, chatReady, esc>>

\* 'E' sends $EXIT$; the flags change only when $LEFT$ comes back.
PressE(c) ==
  /\ cpc[c] = "loop" /\ joined[c] /\ esc[c]
  /\ esc' = [esc EXCEPT ![c] = FALSE]
  /\ Goto(c, "exit")
  /\ UNCHANGED <<joined, chatReady, fdCleared, cbuf, netVars>>

SendExit(c) ==
  /\ cpc[c] = "exit"
  /\ WriteResponse(c, Exit(c))
  /\ Goto(c, "poll")
  /\ UNCHANGED <<joined, chatReady, esc>>

\* send() fails at one of these places: the error reaches main, which returns.
WriteResponseFails(c) ==
  /\ cpc[c] \in {"name", "room", "text", "exit"}
  /\ link[c] \in {"none", "rst"}
  /\ Goto(c, "gone")
  /\ UNCHANGED <<joined, chatReady, esc, fdCleared, cbuf, netVars>>

-----------------------------------------------------------------------------
(* The second half of an iteration: ReinitializeIndex(), then one poll.    *)

Polling(c) == cpc[c] \in {"loop", "poll"}
HasInput(c) == s2c[c] # <<>> \/ link[c] \in {"sfin", "rst"}

\* Mutant: no ReinitializeIndex() before the poll.
PollNothingKeepsIndex(c) ==
  /\ Polling(c) /\ (HasInput(c) => ~fdCleared[c])
  /\ fdCleared' = [fdCleared EXCEPT ![c] = @ \/ HasInput(c)]
  /\ Goto(c, "loop")
  /\ UNCHANGED <<joined, chatReady, esc, cbuf, netVars>>

\* CheckForResponseFromServer returns 2: select() finds nothing, or it is the
\* first time it finds something, which only sets mFDCleared.
PollNothing(c) ==
  /\ Polling(c) /\ (HasInput(c) => ~fdCleared[c])
  /\ cbuf' = [cbuf EXCEPT ![c] = ReinitializeIndex(@)]
  /\ fdCleared' = [fdCleared EXCEPT ![c] = @ \/ HasInput(c)]
  /\ Goto(c, "loop")
  /\ UNCHANGED <<joined, chatReady, esc, netVars>>

\* Mutant: $LEFT$ does not reset mChatReady.
PrintReceivedMessageStaysReady(c, b) ==
  LET m == Parsed(b)
      ready == m # None /\ m.kind = "READY"
      left  == m # None /\ m.kind = "LEFT"
  IN
  /\ joined' = [joined EXCEPT ![c] = @ /\ ~left]
  /\ chatReady' = [chatReady EXCEPT ![c] = @ \/ ready]
  /\ cbuf' = [cbuf EXCEPT ![c] = ClearBuffer(b)]
  /\ Goto(c, "loop")
  /\ UNCHANGED <<esc, fdCleared>>

\* main's and PrintReceivedMessage's use of a buffer recv() did not fail on.
\* The bytes are the server's, or the client's own last packet, which no branch
\* recognises.
PrintReceivedMessage(c, b) ==
  LET m == Parsed(b)
      ready == m # None /\ m.kind = "READY"
      left  == m # None /\ m.kind = "LEFT"
  IN
  /\ joined' = [joined EXCEPT ![c] = @ /\ ~left]
  /\ chatReady' = [chatReady EXCEPT ![c] = (@ \/ ready) /\ ~left]
  /\ cbuf' = [cbuf EXCEPT ![c] = ClearBuffer(b)]
  /\ Goto(c, "loop")
  /\ UNCHANGED <<esc, fdCleared>>

\* One recv(): the packet at the front is printed, and whatever else the call
\* returned is cleared away with the buffer.
PollPacket(c) ==
  /\ Polling(c) /\ fdCleared[c]
  /\ link[c] # "rst" /\ s2c[c] # <<>>
  /\ \E n \in Batch(s2c[c]) : s2c' = [s2c EXCEPT ![c] = Rest(@, n)]
  /\ PrintReceivedMessage(c, Received(ReinitializeIndex(cbuf[c]), Head(s2c[c])))
  /\ UNCHANGED <<link, backlog, c2s>>

\* The server has closed its end: recv() returns 0, which is not SOCKET_ERROR,
\* and the buffer is parsed as it is.
PollEnd(c) ==
  /\ Polling(c) /\ fdCleared[c]
  /\ link[c] = "sfin" /\ s2c[c] = <<>>
  /\ PrintReceivedMessage(c, ReinitializeIndex(cbuf[c]))
  /\ UNCHANGED netVars

\* Mutant: the client connects anew.
PollFailsReconnects(c) ==
  /\ Polling(c) /\ fdCleared[c]
  /\ link[c] = "rst"
  /\ Connected(c)
  /\ Goto(c, "loop")
  /\ UNCHANGED <<joined, chatReady, esc, fdCleared, cbuf>>

\* recv() fails on a reset connection: the loop is left and the process ends.
PollFails(c) ==
  /\ Polling(c) /\ fdCleared[c]
  /\ link[c] = "rst"
  /\ Goto(c, "gone")
  /\ UNCHANGED <<joined, chatReady, esc, fdCleared, cbuf, netVars>>

Poll(c) == PollNothing(c) \/ PollPacket(c) \/ PollEnd(c) \/ PollFails(c)

-----------------------------------------------------------------------------
(* The user closes the terminal (or select() fails and the loop is left):  *)
(* the system closes the connection in order, or resets it when data is    *)
(* unread or the process is killed.                                        *)
Quit(c) ==
  /\ cpc[c] \notin {"start", "gone"}
  /\ \/ link[c] = "up" /\ CloseClientEnd(c)
     \/ link[c] \in {"up", "sfin"} /\ ResetLink(c)
     \/ link[c] \in {"none", "rst"} /\ UNCHANGED <<link, c2s, s2c>>
  /\ Goto(c, "gone")
  /\ UNCHANGED <<backlog, joined, chatReady, esc, fdCleared, cbuf>>
=============================================================================
