----------------------------- MODULE ByteBuffer -----------------------------
(***************************************************************************)
(* The class cBuffer byte by byte, and the packet the two programs build   *)
(* in it: four bytes of packetSize, two of messageType, two of             *)
(* messageLength, all big-endian, then the text.                           *)
(*                                                                         *)
(* A byte is a number below Base and the vector has BufSize bytes, 256 and *)
(* 512 in the program; small instances keep BufSize = 2 * Base.  operator[]*)
(* behind the end of a std::vector is undefined; the Debug build the       *)
(* README asks for ends the process there, which callers of this module    *)
(* model by looking at Outside.                                            *)
(***************************************************************************)
EXTENDS Integers, Sequences

CONSTANTS
  Base,       \* number of values of a byte
  BufSize     \* bufSize, and the size ClearBuffer() restores

ASSUME BytesAssumption == Base \in Nat \ {0, 1} /\ BufSize \in Nat \ {0}

Byte == 0 .. Base - 1

\* cBuffer::cBuffer - the bytes, mWriteIndex and mReadIndex.
Empty == [data |-> [i \in 1 .. BufSize |-> 0], wi |-> 0, ri |-> 0]

\* mBufferData.resize(n): new bytes are zero.
Resize(d, n) == [i \in 1 .. n |-> IF i <= Len(d) THEN d[i] ELSE 0]

\* An index has been used that is not one of the vector's.
Outside(b) == b.wi > Len(b.data) \/ b.ri > Len(b.data)

-----------------------------------------------------------------------------
(* Numbers.                                                                *)

U16(v) == <<(v \div Base) % Base, v % Base>>
U32(v) == <<(v \div (Base * Base * Base)) % Base, (v \div (Base * Base)) % Base>> \o U16(v)

Number(s) == IF Len(s) = 2 THEN s[1] * Base + s[2]
             ELSE ((s[1] * Base + s[2]) * Base + s[3]) * Base + s[4]

-----------------------------------------------------------------------------
(* The Write and Read members.                                             *)

Write(b, s) ==
  [b EXCEPT !.data = [i \in DOMAIN @ |-> IF i - b.wi \in DOMAIN s THEN s[i - b.wi] ELSE @[i]],
            !.wi = @ + Len(s)]

\* The n bytes of the vector from the read index on, zero behind its end.
Peek(b, n) == [i \in 1 .. n |-> IF b.ri + i \in DOMAIN b.data THEN b.data[b.ri + i] ELSE 0]
Read(b, n) == [b EXCEPT !.ri = @ + n]

\* Mutant: one of the indices is forgotten.
RewindReadOnly(b) == [b EXCEPT !.ri = 0]

\* cBuffer::ReinitializeIndex, and with the bytes cBuffer::ClearBuffer.
Rewind(b) == [b EXCEPT !.wi = 0, !.ri = 0]

\* Mutants: resize() is missing; clear() is missing.
ClearToNothing(b) == [Rewind(b) EXCEPT !.data = <<>>]
ClearIndicesOnly(b) == [Rewind(b) EXCEPT !.data = Resize(@, BufSize)]

Clear(b) == [Rewind(b) EXCEPT !.data = Resize(<<>>, BufSize)]

-----------------------------------------------------------------------------
(* Packets.                                                                *)

\* packetSize: the text and three fields of four bytes, though the buffer gets
\* only eight bytes for them.
PacketSize(text) == Len(text) + 12

\* SendMessageToBuffer.
WritePacket(b, text) ==
  Write(b, U32(PacketSize(text)) \o U16(1) \o U16(Len(text)) \o text)

\* What send() transmits: packetSize bytes from offset 0, behind the end of the
\* vector whatever the memory there holds.
Transmitted(b, text, behind) ==
  [i \in 1 .. PacketSize(text) |-> IF i <= Len(b.data) THEN b.data[i] ELSE behind]

\* recv() stores at offset 0.
Store(b, s) ==
  [b EXCEPT !.data = [i \in DOMAIN @ |-> IF i <= Len(s) THEN s[i] ELSE @[i]]]

\* The test after packetSize and messageType were read.
Grow(b, size) ==
  IF Len(b.data) >= size
  THEN [b EXCEPT !.data = Resize(@, BufSize * 2)] ELSE b

\* The parse both programs make of what recv() stored: the buffer behind it and
\* the text, or no text when messageType is not 1.
Parse(b) ==
  LET size == Number(Peek(b, 4))
      type == Number(Peek(Read(b, 4), 2))
      g    == Grow(Read(b, 6), size)
      n    == Number(Peek(g, 2))
      body == Read(g, 2)
  IN IF type = 1
     THEN [buf |-> Read(body, n), texts |-> <<Peek(body, n)>>]
     ELSE [buf |-> g, texts |-> <<>>]
=============================================================================
