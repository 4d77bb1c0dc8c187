-------------------------------- MODULE Rooms --------------------------------
(***************************************************************************)
(* What the server promises, without sockets, readiness sets or buffers.   *)
(*                                                                         *)
(* Requests are served one at a time, each client's in the order it sent   *)
(* them.  Serving one is a single step: it changes the rooms and makes     *)
(* every packet that follows from it owed to its receiver at once, in the  *)
(* same order for all.  From then on a client that keeps its connection    *)
(* hears what it is owed, in order, with nothing missing, repeated or      *)
(* meant for somebody else.  What may happen besides: requests that        *)
(* arrive together with another one are dropped; a client that goes away   *)
(* loses what it has not heard; and when the server stops, each client     *)
(* still hears some beginning of what it was owed.                         *)
(***************************************************************************)
EXTENDS Packets

VARIABLES
  running,     \* does the server run?
  presence,    \* "new", "here" or "gone"
  asked,       \* the requests of each client that were not served yet
  owed,        \* the packets each client has still to hear
  members,     \* how often each client is a member of each room
  roomOf,      \* the room each client speaks to
  nameOf       \* the name each client has given

vars == <<running, presence, asked, owed, members, roomOf, nameOf>>

Init ==
  /\ running = TRUE
  /\ presence = [c \in Client |-> "new"]
  /\ asked = [c \in Client |-> <<>>]
  /\ owed = [c \in Client |-> <<>>]
  /\ members = [r \in RoomName |-> [c \in Client |-> 0]]
  /\ roomOf = [c \in Client |-> EmptyName]
  /\ nameOf = [c \in Client |-> None]

-----------------------------------------------------------------------------
(* The clients.                                                            *)

Arrive(c) ==
  /\ running /\ presence[c] = "new"
  /\ presence' = [presence EXCEPT ![c] = "here"]
  /\ UNCHANGED <<running, asked, owed, members, roomOf, nameOf>>

Ask(c, m) ==
  /\ presence[c] = "here"
  /\ asked' = [asked EXCEPT ![c] = Append(@, m)]
  /\ UNCHANGED <<running, presence, owed, members, roomOf, nameOf>>

Hear(c) ==
  /\ presence[c] = "here"
  /\ \E n \in 1 .. Len(owed[c]) : owed' = [owed EXCEPT ![c] = Rest(@, n)]
  /\ UNCHANGED <<running, presence, asked, members, roomOf, nameOf>>

\* The connection of c is closed, or (once more) lost: what was under way to c
\* is gone, and what c had asked for may be.
Depart(c) ==
  /\ presence[c] # "new"
  /\ presence' = [presence EXCEPT ![c] = "gone"]
  /\ asked' \in {asked, [asked EXCEPT ![c] = <<>>]}
  /\ \E n \in 0 .. Len(owed[c]) : owed' = [owed EXCEPT ![c] = Rest(@, n)]
  /\ UNCHANGED <<running, members, roomOf, nameOf>>

-----------------------------------------------------------------------------
(* The server.                                                             *)

Copies(n, p) == [i \in 1 .. n |-> p]

\* What serving a request m of s makes owed to d: every entry of the room is
\* told, except that who joins or leaves is answered instead.
Owed(s, m, d) ==
  IF m.kind = "JOIN"
  THEN IF d = s THEN <<[kind |-> "READY", who |-> nameOf[s], arg |-> m.arg]>>
       ELSE Copies(members[m.arg][d],
                   [kind |-> "HAS_JOINED", who |-> nameOf[s], arg |-> None])
  ELSE IF m.kind = "CHAT"
  THEN Copies(members[roomOf[s]][d],
              IF d = s THEN [kind |-> "YOU", who |-> s, arg |-> m.arg]
                       ELSE [kind |-> "REPLY", who |-> nameOf[s], arg |-> m.arg])
  ELSE IF m.kind = "EXIT"
  THEN IF d = s THEN <<[kind |-> "LEFT", who |-> s, arg |-> None]>>
       ELSE Copies(members[roomOf[s]][d],
                   [kind |-> "HAS_LEFT", who |-> nameOf[s], arg |-> None])
  ELSE <<>>

\* How it changes the rooms and the names.
Admit(s, m) ==
  /\ members' = IF m.kind = "JOIN" THEN [members EXCEPT ![m.arg][s] = @ + 1]
                ELSE IF m.kind = "EXIT" THEN [members EXCEPT ![roomOf[s]][s] = 0]
                ELSE members
  /\ roomOf' = IF m.kind = "JOIN" THEN [roomOf EXCEPT ![s] = m.arg]
               ELSE IF m.kind = "EXIT" THEN [roomOf EXCEPT ![s] = EmptyName]
               ELSE roomOf
  /\ nameOf' = IF m.kind = "NAME" THEN [nameOf EXCEPT ![s] = m.who] ELSE nameOf

Serve(s) ==
  /\ running /\ asked[s] # <<>>
  /\ \E n \in 1 .. Len(asked[s]) : asked' = [asked EXCEPT ![s] = Rest(@, n)]
  /\ LET m == Head(asked[s]) IN
       /\ Admit(s, m)
       /\ owed' = [d \in Client |-> owed[d] \o Owed(s, m, d)]
  /\ UNCHANGED <<running, presence>>

Stop ==
  /\ running /\ running' = FALSE
  /\ \E left \in SUBSET Client :
       presence' = [c \in Client |-> IF presence[c] = "here" /\ c \in left
                                    THEN "gone" ELSE presence[c]]
  /\ asked' = [c \in Client |-> <<>>]
  /\ DOMAIN owed' = Client
  /\ \A c \in Client : \E k \in 0 .. Len(owed[c]) : owed'[c] = SubSeq(owed[c], 1, k)
  /\ UNCHANGED <<members, roomOf, nameOf>>

-----------------------------------------------------------------------------
Next ==
  \/ \E c \in Client :
       \/ Arrive(c) \/ Hear(c) \/ Depart(c) \/ Serve(c)
       \/ \E m \in Request(c) : Ask(c, m)
  \/ Stop

Spec == Init /\ [][Next]_vars
==============================================================================
