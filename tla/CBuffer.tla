------------------------------ MODULE CBuffer ------------------------------
(***************************************************************************)
(* The class cBuffer, of which the server and every client own exactly     *)
(* one: a byte vector with a write index and a read index, used for every  *)
(* packet sent and every packet received.                                  *)
(*                                                                         *)
(* Bytes are abstracted to what the protocol can tell apart: which packet  *)
(* starts at offset 0 of the vector (None when the vector holds only the   *)
(* zero bytes resize() puts there), and whether each index has left 0.     *)
(* recv() stores at offset 0 and send() transmits from offset 0 whatever   *)
(* the indices are; only the Read and Write members use the indices.  So a *)
(* missing reset is visible: a second write lands behind the first packet  *)
(* while send() still transmits the first one, and a second read starts in *)
(* the zero bytes behind the packet.                                       *)
(***************************************************************************)
EXTENDS Packets

\* cBuffer::cBuffer - a vector of zero bytes with both indices at 0.
Fresh == [data |-> None, wi |-> FALSE, ri |-> FALSE]

\* recv(sock, &mBufferData[0], bufSize, 0): the bytes go to offset 0 and the
\* indices do not move.
Received(b, p) == [data |-> p, wi |-> b.wi, ri |-> b.ri]

\* What ReadUInt32BE, ReadUInt16BE and ReadString find: the packet at offset 0
\* when the read index is 0, zero bytes (a messageType of 0) when it is not.
Parsed(b) == IF b.ri THEN None ELSE b.data

\* The read index after ReadUInt32BE / ReadUInt16BE / ReadString.
Consumed(b) == [data |-> b.data, wi |-> b.wi, ri |-> TRUE]

\* SendMessageToBuffer: WriteUInt32BE, WriteUInt16BE twice and WriteString
\* write at the write index, hence over offset 0 only when it is 0.
Written(b, p) == IF b.wi THEN b ELSE [data |-> p, wi |-> TRUE, ri |-> b.ri]

\* send(sock, &mBufferData[0], packetSize, 0) transmits from offset 0.
OnWire(b) == b.data

\* cBuffer::ReinitializeIndex - both indices back to 0, the bytes stay.
ReinitializeIndex(b) == [data |-> b.data, wi |-> FALSE, ri |-> FALSE]

\* cBuffer::ClearBuffer - ReinitializeIndex, then clear() and resize(512),
\* which value-initialises every byte.
ClearBuffer(b) == [data |-> None, wi |-> FALSE, ri |-> FALSE]

\* The buffers that can hold a packet of the set P.
BufferOf(P) == [data : P \cup {None}, wi : BOOLEAN, ri : BOOLEAN]
============================================================================
