------------------------------ MODULE Network ------------------------------
(***************************************************************************)
(* The TCP connections between the clients and the server.  TCP itself is  *)
(* external; it is modelled from the way the program uses Winsock:         *)
(* blocking sockets, one connection per client, in-order loss-free byte    *)
(* streams that do not keep packet boundaries.                             *)
(***************************************************************************)
EXTENDS Packets

CONSTANTS
  UpCap,       \* packets the socket buffers towards the server can hold
  DownCap,     \* packets the socket buffers towards a client can hold
  MaxBatch     \* packets one recv() call can return at most

ASSUME NetworkAssumption ==
  /\ UpCap \in Nat \ {0}
  /\ DownCap \in Nat \ {0}
  /\ MaxBatch \in Nat \ {0}

VARIABLES
  link,        \* state of each client's connection, see LinkState
  backlog,     \* connections the listening socket has not accepted yet
  c2s,         \* packets on their way from each client to the server
  s2c          \* packets on their way from the server to each client

netVars == <<link, backlog, c2s, s2c>>

(***************************************************************************)
(* "none": not connected; "up": established; "cfin": the client's end was  *)
(* closed in order, so the server's recv() returns 0 once the data is      *)
(* read; "sfin": likewise for the server's end; "rst": reset, so that      *)
(* recv() and send() fail on the end that is still open.                   *)
(***************************************************************************)
LinkState == {"none", "up", "cfin", "sfin", "rst"}

-----------------------------------------------------------------------------
(* The connections.                                                        *)

NetInit ==
  /\ link = [c \in Client |-> "none"]
  /\ backlog = <<>>
  /\ c2s = [c \in Client |-> <<>>]
  /\ s2c = [c \in Client |-> <<>>]

NetTypeOK ==
  /\ link \in [Client -> LinkState]
  /\ backlog \in Seq(Client)
  /\ c2s \in [Client -> Seq(Packet)]
  /\ s2c \in [Client -> Seq(Packet)]

\* connect() to a listening server: established at once, queued for accept().
Connected(c) ==
  /\ link' = [link EXCEPT ![c] = "up"]
  /\ backlog' = Append(backlog, c)
  /\ UNCHANGED <<c2s, s2c>>

\* recv() returns some number of whole packets from the front of a channel and
\* leaves the rest.
Batch(ch) == {n \in 1 .. MaxBatch : n <= Len(ch)}

\* The connection of c is reset: neither direction delivers anything more.
ResetLink(c) ==
  /\ link' = [link EXCEPT ![c] = "rst"]
  /\ c2s' = [c2s EXCEPT ![c] = <<>>]
  /\ s2c' = [s2c EXCEPT ![c] = <<>>]

\* The client closes its end in order; what it sent stays readable.
CloseClientEnd(c) ==
  /\ link' = [link EXCEPT ![c] = "cfin"]
  /\ s2c' = [s2c EXCEPT ![c] = <<>>]
  /\ UNCHANGED c2s

\* The server process is gone: the system closes its end of each connection,
\* in order or by a reset.  Nobody reads what the clients sent.
CloseServerEnds ==
  /\ \E how \in [Client -> {"sfin", "rst"}] :
       /\ link' = [c \in Client |-> IF link[c] = "up" THEN how[c]
                                  ELSE IF link[c] = "cfin" THEN "rst"
                                  ELSE link[c]]
       /\ s2c' = [c \in Client |-> IF link'[c] = "rst" THEN <<>> ELSE s2c[c]]
  /\ c2s' = [c \in Client |-> <<>>]
  /\ backlog' = <<>>
============================================================================
