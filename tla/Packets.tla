------------------------------ MODULE Packets ------------------------------
(***************************************************************************)
(* The packets of the chat protocol and the names they carry.              *)
(*                                                                         *)
(* A client process opens one socket, so Client names the process, its     *)
(* socket on the server and (as a name is only ever compared and printed)  *)
(* the user's name.                                                        *)
(***************************************************************************)
EXTENDS Integers, Sequences, FiniteSets

CONSTANTS
  None,        \* "no value": absent packet, name, room or socket
  Client,      \* the client processes
  Room,        \* the room names users type
  EmptyName,   \* the empty string: what operator[] inserts for a missing key
  Text         \* the chat lines users type

RoomName == Room \cup {EmptyName}

(* Packets.  "who" is the user name carried in the text, or (for the texts *)
(* that carry none) the client the packet concerns; "arg" is the room name *)
(* or the chat line.                                                       *)

RequestKind == {"NAME", "JOIN", "CHAT", "EXIT"}
ReplyKind   == {"READY", "LEFT", "YOU", "REPLY", "HAS_JOINED", "HAS_LEFT"}
Argument    == RoomName \cup Text \cup {None}

Packet  == [kind : RequestKind \cup ReplyKind, who : Client \cup {None},
            arg : Argument]

Name(c)    == [kind |-> "NAME", who |-> c, arg |-> None]
Join(c, r) == [kind |-> "JOIN", who |-> c, arg |-> r]
Chat(c, t) == [kind |-> "CHAT", who |-> c, arg |-> t]
Exit(c)    == [kind |-> "EXIT", who |-> c, arg |-> None]

ASSUME PacketsAssumption ==
  /\ IsFiniteSet(Client)
  /\ None \notin Client \cup RoomName \cup Text \cup Packet

\* The packets client c can build.
Request(c) == {Name(c), Exit(c)} \cup {Join(c, r) : r \in Room}
                                 \cup {Chat(c, t) : t \in Text}

-----------------------------------------------------------------------------
\* What is left of a channel when its first n packets are gone.
Rest(ch, n) == SubSeq(ch, n + 1, Len(ch))
=============================================================================
