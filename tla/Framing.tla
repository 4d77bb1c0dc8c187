------------------------------ MODULE Framing ------------------------------
(***************************************************************************)
(* Chat lines as bytes: typed at one client, written to its buffer, sent,  *)
(* received and parsed by the server, written anew for every member of the *)
(* room and parsed by their clients.  Everybody is in one room from the    *)
(* start; what connections and rooms do is the subject of the other        *)
(* modules, the bytes are the subject of this one.                         *)
(*                                                                         *)
(* TCP delivers the bytes in order, in portions of its own choice.  The    *)
(* text of a line is one byte value repeated, unlike that of every other   *)
(* line as long as there are values enough; the tag "$CHAT$" is its first  *)
(* Tag bytes.                                                              *)
(***************************************************************************)
EXTENDS ByteBuffer, FiniteSets, SequencesExt

CONSTANTS
  Members,      \* number of clients in the room
  Senders,      \* the clients that type lines
  MaxLines,     \* lines they type, all of them together
  Tag,          \* length of "$CHAT$" (and of "YOU : ")
  Extra,        \* bytes "$REPLY$" and the name take more than the tag
  Lengths,      \* lengths of the texts clients send, tag included
  Behind,       \* byte values the memory behind a vector may hold
  CutUp,        \* the clients whose stream to the server may come in portions
  CutDown,      \* those whose stream from the server may
  Portions      \* lengths of the portions tried (and all that is there)

ASSUME FramingAssumption ==
  /\ Members \in Nat \ {0} /\ Senders \subseteq 1 .. Members
  /\ MaxLines \in Nat /\ Tag \in Nat \ {0} /\ Extra \in Nat
  /\ Lengths \subseteq {n \in Nat : n >= Tag} /\ Behind \subseteq Byte
  /\ CutUp \subseteq 1 .. Members /\ CutDown \subseteq 1 .. Members
  /\ Portions \subseteq Nat \ {0}
  /\ Base > 2                  \* a byte that is neither 0 nor 1
  /\ BufSize + 4 < Base * Base \* two bytes hold what packetSize counts for a text
                               \* that fits with its eight bytes of header

\* What keeps text and header apart when a parse begins within a packet, true of 6 bytes
\* of tag, 512 of vector and 256 values of a byte: the tag repeats, and a length read
\* from the end of a packetSize and the type behind it leads out of the vector.
ASSUME SeparationAssumption == Tag >= 2 /\ BufSize <= 6 * Base

Client == 1 .. Members
Server == 0
Node   == Client \cup {Server}

VARIABLES
  buf,       \* the cBuffer of every process
  up, down,  \* the byte streams between each client and the server
  todo,      \* recipients the server's fan-out still has to send to, in order
  reply,     \* what it tells: [from, text]
  typed,     \* the texts each client has sent
  handled,   \* the texts the server has taken from each client
  told,      \* the texts the server has sent to each client
  shown,     \* the texts each client has printed
  ended,     \* the processes ended by an index outside their vector
  cutUp,     \* the clients from which the server's recv() returns portions of
             \* any length, several packets too; from the others one packet
  cutDown    \* the clients whose own recv() does

vars == <<buf, up, down, todo, reply, typed, handled, told, shown, ended, cutUp, cutDown>>

None == [from |-> Server, text |-> <<>>]

Init ==
  /\ buf = [p \in Node |-> Empty]
  /\ up = [c \in Client |-> <<>>] /\ down = [c \in Client |-> <<>>]
  /\ todo = <<>> /\ reply = None
  /\ typed = [c \in Client |-> <<>>] /\ handled = [c \in Client |-> <<>>]
  /\ told = [c \in Client |-> <<>>] /\ shown = [c \in Client |-> <<>>]
  /\ ended = {}
  /\ cutUp \in SUBSET CutUp /\ cutDown \in SUBSET CutDown

-----------------------------------------------------------------------------
\* The number of lines typed so far.
Typed == Cardinality({l \in Client \X (1 .. MaxLines) : l[2] <= Len(typed[l[1]])})

\* The byte value of the n-th line of c, which is neither 0 nor 1: one of its own when
\* all lines together are no more than Base - 2.
Letter(c, n) == 2 + (((c - 1) * MaxLines + n - 1) % (Base - 2))
Line(c, n, len) == [i \in 1 .. len |-> Letter(c, n)]

\* How many bytes one recv() on the stream s may return: any number up to what
\* is there, or the packet s begins with as far as it fits (anything again when
\* what s begins with is no packet).
AnyPortion(s) == {n \in Portions \cup {Len(s), BufSize} : n <= Len(s) /\ n <= BufSize}
OnePacket(s) ==
  LET size == Number(SubSeq(s \o <<0, 0, 0, 0>>, 1, 4)) IN
  IF size \in 12 .. Len(s) THEN {IF size <= BufSize THEN size ELSE BufSize} ELSE AnyPortion(s)

\* The process p has its buffer as b says, or is ended by the access outside it.
Access(p, b, cleared) ==
  IF Outside(b) THEN ended' = ended \cup {p} /\ buf' = [buf EXCEPT ![p] = b]
                ELSE ended' = ended /\ buf' = [buf EXCEPT ![p] = cleared]

\* CheckUserInput with TAB, up to the ReinitializeIndex in main's loop: the
\* bytes of the packet stay in the vector.
TypeLine(c, len) ==
  LET text == Line(c, Len(typed[c]) + 1, len)
      b    == WritePacket(buf[c], text)
  IN
  /\ c \in Senders \ ended /\ Typed < MaxLines
  /\ Access(c, b, Rewind(b))
  /\ typed' = [typed EXCEPT ![c] = Append(@, text)]
  /\ IF Outside(b) THEN UNCHANGED up
     ELSE \E x \in Behind : up' = [up EXCEPT ![c] = @ \o Transmitted(b, text, x)]
  /\ UNCHANGED <<down, todo, reply, handled, told, shown, cutUp, cutDown>>

\* LoopThroughClientList as far as it concerns the bytes: a text that does not
\* begin with a whole tag has no consequence.
Tagged(text) == Len(text) >= Tag /\ \A i \in 1 .. Tag : text[i] = text[1] /\ text[i] # 0

ServerReceives(c) ==
  /\ Server \notin ended /\ todo = <<>> /\ up[c] # <<>>
  /\ \E n \in IF c \in cutUp THEN AnyPortion(up[c]) ELSE OnePacket(up[c]) :
       LET p    == Parse(Store(buf[Server], SubSeq(up[c], 1, n)))
           text == IF p.texts = <<>> THEN <<>> ELSE p.texts[1]
           ok   == ~Outside(p.buf) /\ Tagged(text)
       IN
       /\ up' = [up EXCEPT ![c] = SubSeq(@, n + 1, Len(@))]
       /\ Access(Server, p.buf, IF ok THEN p.buf ELSE Clear(p.buf))
       /\ handled' = IF ok THEN [handled EXCEPT ![c] = Append(@, text)] ELSE handled
       /\ todo' = IF ok THEN [i \in Client |-> i] ELSE <<>>
       /\ reply' = IF ok THEN [from |-> c, text |-> text] ELSE reply
  /\ UNCHANGED <<down, typed, told, shown, cutUp, cutDown>>

\* What the fan-out tells d: the text, with the sender's name for the others.
Told(d) == [i \in 1 .. (IF d = reply.from THEN 0 ELSE Extra) |-> reply.text[1]] \o reply.text

\* One SendMessageToClient of the fan-out and the ClearBuffer behind it.
ServerTells ==
  LET d == Head(todo)
      b == WritePacket(buf[Server], Told(d))
  IN
  /\ Server \notin ended /\ todo # <<>>
  /\ Access(Server, b, Clear(b))
  /\ IF Outside(b) THEN UNCHANGED <<down, told>>
     ELSE /\ \E x \in Behind : down' = [down EXCEPT ![d] = @ \o Transmitted(b, Told(d), x)]
          /\ told' = [told EXCEPT ![d] = Append(@, Told(d))]
  /\ todo' = Tail(todo)
  /\ UNCHANGED <<up, reply, typed, handled, shown, cutUp, cutDown>>

\* Mutant: no ClearBuffer behind the receipt.
ClientReceivesWithoutClear(c) ==
  /\ c \notin ended /\ down[c] # <<>>
  /\ \E n \in IF c \in cutDown THEN AnyPortion(down[c]) ELSE OnePacket(down[c]) :
       LET p == Parse(Store(buf[c], SubSeq(down[c], 1, n))) IN
       /\ down' = [down EXCEPT ![c] = SubSeq(@, n + 1, Len(@))]
       /\ Access(c, p.buf, p.buf)
       /\ shown' = IF Outside(p.buf) THEN shown ELSE [shown EXCEPT ![c] = @ \o p.texts]
  /\ UNCHANGED <<up, todo, reply, typed, handled, told, cutUp, cutDown>>

\* The client's main loop: recv(), parse, print, clear.  What waits in the stream
\* while the user is at a prompt may come in one recv().
ClientReceives(c) ==
  /\ c \notin ended /\ down[c] # <<>>
  /\ \E n \in IF c \in cutDown THEN AnyPortion(down[c]) ELSE OnePacket(down[c]) :
       LET p == Parse(Store(buf[c], SubSeq(down[c], 1, n))) IN
       /\ down' = [down EXCEPT ![c] = SubSeq(@, n + 1, Len(@))]
       /\ Access(c, p.buf, Clear(p.buf))
       /\ shown' = IF Outside(p.buf) THEN shown ELSE [shown EXCEPT ![c] = @ \o p.texts]
  /\ UNCHANGED <<up, todo, reply, typed, handled, told, cutUp, cutDown>>

\* Every line has been typed and everything received.
Quiet ==
  /\ Typed = MaxLines \/ Senders \subseteq ended
  /\ Server \in ended \/ (todo = <<>> /\ \A c \in Client : up[c] = <<>>)
  /\ \A c \in Client : c \in ended \/ down[c] = <<>>
  /\ UNCHANGED vars

Next ==
  \/ \E c \in Client :
       \/ \E len \in Lengths : TypeLine(c, len)
       \/ ServerReceives(c)
       \/ ClientReceives(c)
  \/ ServerTells
  \/ Quiet

Spec == Init /\ [][Next]_vars

-----------------------------------------------------------------------------
(* Properties.                                                             *)

Texts  == Seq(Seq(Byte))

TypeOK ==
  /\ \A p \in Node : /\ buf[p].data \in Seq(Byte) /\ buf[p].wi \in Nat /\ buf[p].ri \in Nat
                     /\ Len(buf[p].data) \in {BufSize, BufSize * 2}
  /\ up \in [Client -> Seq(Byte)] /\ down \in [Client -> Seq(Byte)]
  /\ todo \in Seq(Client)
  /\ reply \in [from : Node, text : Seq(Byte)]
  /\ typed \in [Client -> Texts] /\ handled \in [Client -> Texts]
  /\ told \in [Client -> Texts] /\ shown \in [Client -> Texts]
  /\ ended \subseteq Node /\ cutUp \subseteq CutUp /\ cutDown \subseteq CutDown

\* Every line typed fits the vector together with the sender's name and the
\* twelve bytes that packetSize counts.
AllFit == \A c \in Client : \A t \in Range(typed[c]) : Len(t) + Extra + 12 <= BufSize

\* Then no process reads or writes behind the end of its vector, except one that
\* parses from within a packet, when any two bytes may be a length: the server if
\* some client's stream is cut, and a client whose own stream is.  A line too long for
\* the vector does lead outside: nothing grows it before a write.
InBounds == AllFit => ended \subseteq (IF cutUp = {} THEN {} ELSE {Server}) \cup cutDown

\* A client's stream of which recv() returns one packet, whatever it returns of the
\* others: the server takes the lines typed there as they were typed, in their order,
\* and when the stream is empty none is missing.
LinesArrive ==
  \A c \in Client \ cutUp :
    /\ IsPrefix(handled[c], typed[c])
    /\ up[c] = <<>> => handled[c] = typed[c]

\* What the server tells a client whose recv() returns one packet is printed there
\* in the same way, whatever the other clients' does.  Of several packets at once a
\* client prints the first and clears the others away.
RepliesArrive ==
  \A c \in Client \ cutDown :
    /\ IsPrefix(shown[c], told[c])
    /\ down[c] = <<>> => shown[c] = told[c]

\* Lines that fit arrive as they were sent in both directions, although send() transmits
\* more bytes than were written and the same vector serves sending and receiving.
ArriveAsSent == AllFit => LinesArrive /\ RepliesArrive

\* However TCP cuts the stream, what the server takes for a line is the beginning
\* of one line, filled up with zero bytes to its length: never bytes of two lines,
\* of a header, or of what the vector held before.  It takes each line at most
\* once, in the order in which they were typed.
Beginning(t, line) ==
  /\ Len(t) = Len(line)
  /\ \E n \in DOMAIN line : \A i \in DOMAIN line : t[i] = IF i <= n THEN line[i] ELSE 0

NeverMixed ==
  \A c \in Client :
    \E n \in [DOMAIN handled[c] -> DOMAIN typed[c]] :  \* which line each text is of
      \A i \in DOMAIN handled[c] :
        /\ Beginning(handled[c][i], typed[c][n[i]])
        /\ \A j \in DOMAIN handled[c] : i < j => n[i] < n[j]
=============================================================================
