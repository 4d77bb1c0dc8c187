--------------------------- MODULE Framing_proofs ---------------------------
(***************************************************************************)
(* Whatever TCP does to the clients' streams, the server takes for a line  *)
(* the beginning of one line of the client it came from; every text that   *)
(* fits arrives as it was sent where recv() returns one packet, in either  *)
(* direction, whatever it returns elsewhere - for any number of clients    *)
(* and lines, any lengths and any size of the vector.                      *)
(***************************************************************************)
EXTENDS Framing, FiniteSetTheorems, SequenceTheorems, TLAPS

-----------------------------------------------------------------------------
(* Numbers as bytes.                                                       *)

\* Quotient and remainder.
LEMMA Division ==
  ASSUME NEW v \in Nat, NEW b \in Nat \ {0}
  PROVE  /\ v \div b \in Nat /\ v % b \in 0 .. b - 1
         /\ v = (v \div b) * b + (v % b)
OBVIOUS

\* The quotient of a number of two digits is one digit.
LEMMA DivisionBound ==
  ASSUME NEW v \in Nat, NEW b \in Nat \ {0}, v < b * b
  PROVE  v \div b < b
OBVIOUS

\* A number below the divisor is its own remainder.
LEMMA DivisionSmall ==
  ASSUME NEW v \in Nat, NEW b \in Nat \ {0}, v < b
  PROVE  v \div b = 0 /\ v % b = v
OBVIOUS

\* WriteUShort and WriteUInt write two and four bytes.
LEMMA BytesOf ==
  ASSUME NEW v \in Nat
  PROVE  /\ U16(v) \in Seq(Byte) /\ Len(U16(v)) = 2
         /\ U32(v) \in Seq(Byte) /\ Len(U32(v)) = 4
<1>1. U16(v) \in Seq(Byte) /\ Len(U16(v)) = 2
  BY BytesAssumption, Division DEF U16, Byte
<1> DEFINE high == (v \div (Base * Base * Base)) % Base
           low  == (v \div (Base * Base)) % Base
<1>2. Base * Base \in Nat \ {0} /\ Base * Base * Base \in Nat \ {0}
  BY BytesAssumption
<1>3. high \in Byte /\ low \in Byte
  BY <1>2, BytesAssumption, Division DEF Byte
<1>4. <<high, low>> \in Seq(Byte) /\ Len(<<high, low>>) = 2
  BY <1>3
<1>5. U32(v) = <<high, low>> \o U16(v)
  BY DEF U32
<1> HIDE DEF high, low
<1>6. /\ <<high, low>> \o U16(v) \in Seq(Byte)
      /\ Len(<<high, low>> \o U16(v)) = Len(<<high, low>>) + Len(U16(v))
  BY <1>1, <1>4, ConcatProperties
<1> QED
  BY <1>1, <1>4, <1>5, <1>6

\* What WriteUShort writes is read back.
LEMMA U16RoundTrip ==
  ASSUME NEW v \in Nat, v < Base * Base
  PROVE  Number(U16(v)) = v
<1>1. (v \div Base) % Base = v \div Base
  BY BytesAssumption, Division, DivisionBound, DivisionSmall
<1> QED
  BY <1>1, BytesAssumption, Division DEF Number, U16

\* What WriteUInt writes is read back.
LEMMA U32RoundTrip ==
  ASSUME NEW v \in Nat, v < Base * Base
  PROVE  Number(U32(v)) = v
<1>1. v \div (Base * Base) = 0 /\ 0 % Base = 0
  BY BytesAssumption, DivisionSmall
<1>2. v < Base * Base * Base
  BY BytesAssumption
<1>3. v \div (Base * Base * Base) = 0
  BY <1>2, BytesAssumption, DivisionSmall
<1>4. U32(v) = <<0, 0>> \o U16(v)
  BY <1>1, <1>3 DEF U32
<1> DEFINE high == (v \div Base) % Base
           low  == v % Base
<1>5. U16(v) = <<high, low>>
  BY DEF U16
<1>6. high \in Nat /\ low \in Nat
  BY BytesAssumption, Division
<1>7. high * Base + low = v
  BY <1>5, U16RoundTrip DEF Number
<1> HIDE DEF high, low
<1> DEFINE four == <<0, 0>> \o <<high, low>>
<1>8. /\ Len(four) = 4
      /\ four[1] = 0 /\ four[2] = 0 /\ four[3] = high /\ four[4] = low
  <2>1. <<0, 0>> \in Seq(Nat) /\ <<high, low>> \in Seq(Nat)
    BY <1>6
  <2>2. Len(<<0, 0>>) = 2 /\ Len(<<high, low>>) = 2
    OBVIOUS
  <2>3. /\ Len(four) = 2 + 2
        /\ \A i \in 1 .. 2 + 2 :
             four[i] = IF i <= 2 THEN <<0, 0>>[i] ELSE <<high, low>>[i - 2]
    BY <2>1, <2>2, ConcatProperties
  <2> HIDE DEF four
  <2> QED
    BY <2>3
<1>9. Number(four) = ((0 * Base + 0) * Base + high) * Base + low
  <2> HIDE DEF four
  <2> QED
    BY <1>8 DEF Number
<1>10. 0 * Base = 0
  BY BytesAssumption
<1> QED
  BY <1>4, <1>5, <1>6, <1>7, <1>9, <1>10, BytesAssumption

\* The number that bytes stand for.
LEMMA NumberIsNat ==
  ASSUME NEW s \in Seq(Byte), Len(s) \in {2, 4}
  PROVE  Number(s) \in Nat
<1>1. Base \in Nat
  BY BytesAssumption
<1>2. \A i \in 1 .. Len(s) : s[i] \in Nat
  BY <1>1 DEF Byte
<1>3. CASE Len(s) = 2
  BY <1>1, <1>2, <1>3 DEF Number
<1>4. CASE Len(s) = 4
  <2> DEFINE first == s[1] * Base + s[2]
             most  == first * Base + s[3]
  <2>1. first \in Nat
    BY <1>1, <1>2, <1>4
  <2> HIDE DEF first
  <2>2. most \in Nat
    BY <1>1, <1>2, <1>4, <2>1
  <2>3. Number(s) = most * Base + s[4]
    BY <1>4 DEF Number, first
  <2> HIDE DEF most
  <2> QED
    BY <1>1, <1>2, <1>4, <2>2, <2>3
<1> QED
  BY <1>3, <1>4

-----------------------------------------------------------------------------
(* The buffer.                                                             *)

\* A cBuffer; its vector has as many bytes as the constructor or the parse gave it.
Buffer == [data : Seq(Byte), wi : Nat, ri : Nat]
Sized(b) == Len(b.data) \in {BufSize, BufSize * 2}

\* The byte at a place, zero where there is none.
At(d, i) == IF i \in DOMAIN d THEN d[i] ELSE 0

\* A sequence given by an expression for each place.
LEMMA BytesAt ==
  ASSUME NEW n \in Nat, NEW f, f = [i \in 1 .. n |-> f[i]], \A i \in 1 .. n : f[i] \in Byte
  PROVE  f \in Seq(Byte) /\ Len(f) = n /\ DOMAIN f = 1 .. n
<1>1. f \in [1 .. n -> Byte]
  OBVIOUS
<1>2. f \in Seq(Byte)
  BY <1>1, SeqDef
<1> QED
  BY <1>1, <1>2

\* One sequence of bytes behind another.
LEMMA ConcatIs ==
  ASSUME NEW s \in Seq(Byte), NEW t \in Seq(Byte)
  PROVE  /\ s \o t \in Seq(Byte) /\ Len(s \o t) = Len(s) + Len(t)
         /\ \A i \in 1 .. Len(s) : (s \o t)[i] = s[i]
         /\ \A i \in 1 .. Len(t) : (s \o t)[Len(s) + i] = t[i]
<1> DEFINE u == s \o t
<1>1. /\ u \in Seq(Byte) /\ Len(u) = Len(s) + Len(t)
      /\ \A i \in 1 .. Len(s) + Len(t) : u[i] = IF i <= Len(s) THEN s[i] ELSE t[i - Len(s)]
  BY ConcatProperties
<1>2. Len(s) \in Nat /\ Len(t) \in Nat
  OBVIOUS
<1> HIDE DEF u
<1>3. ASSUME NEW i \in 1 .. Len(s)
      PROVE  u[i] = s[i]
  <2>1. i \in 1 .. Len(s) + Len(t) /\ i <= Len(s)
    BY <1>2
  <2> QED
    BY <1>1, <2>1
<1>4. ASSUME NEW i \in 1 .. Len(t)
      PROVE  u[Len(s) + i] = t[i]
  <2>1. /\ Len(s) + i \in 1 .. Len(s) + Len(t)
        /\ ~(Len(s) + i <= Len(s)) /\ (Len(s) + i) - Len(s) = i
    BY <1>2
  <2> QED
    BY <1>1, <2>1
<1> QED
  BY <1>1, <1>3, <1>4 DEF u

\* A new buffer, and one that was cleared, is a vector of BufSize zero bytes.
LEMMA EmptyIs ==
  /\ Empty \in Buffer /\ Empty.wi = 0 /\ Empty.ri = 0
  /\ Len(Empty.data) = BufSize /\ \A i \in 1 .. BufSize : Empty.data[i] = 0
<1> DEFINE zeros == [i \in 1 .. BufSize |-> 0]
<1>1. 0 \in Byte /\ BufSize \in Nat
  BY BytesAssumption DEF Byte
<1>2. zeros \in Seq(Byte) /\ Len(zeros) = BufSize
  <2>1. /\ zeros = [i \in 1 .. BufSize |-> zeros[i]]
        /\ \A i \in 1 .. BufSize : zeros[i] \in Byte
    BY <1>1
  <2> HIDE DEF zeros
  <2> QED
    BY <1>1, <2>1, BytesAt
<1>3. \A i \in 1 .. BufSize : zeros[i] = 0
  OBVIOUS
<1>4. Empty = [data |-> zeros, wi |-> 0, ri |-> 0]
  BY DEF Empty
<1> HIDE DEF zeros
<1> QED
  BY <1>2, <1>3, <1>4 DEF Buffer

\* resize().
LEMMA ResizeIs ==
  ASSUME NEW d \in Seq(Byte), NEW n \in Nat
  PROVE  /\ Resize(d, n) \in Seq(Byte) /\ Len(Resize(d, n)) = n
         /\ \A i \in 1 .. n : Resize(d, n)[i] = IF i <= Len(d) THEN d[i] ELSE 0
<1> DEFINE new == [i \in 1 .. n |-> IF i <= Len(d) THEN d[i] ELSE 0]
<1>1. 0 \in Byte
  BY BytesAssumption DEF Byte
<1>2. \A i \in 1 .. n : new[i] \in Byte
  BY <1>1
<1>3. new = [i \in 1 .. n |-> new[i]]
  OBVIOUS
<1>4. \A i \in 1 .. n : new[i] = IF i <= Len(d) THEN d[i] ELSE 0
  OBVIOUS
<1>5. Resize(d, n) = new
  BY DEF Resize
<1> HIDE DEF new
<1> QED
  BY <1>2, <1>3, <1>4, <1>5, BytesAt

\* ReinitializeIndex.
LEMMA RewindIs ==
  ASSUME NEW b \in Buffer
  PROVE  /\ Rewind(b) \in Buffer /\ Rewind(b).wi = 0 /\ Rewind(b).ri = 0
         /\ Rewind(b).data = b.data
BY DEF Rewind, Buffer

\* ClearBuffer.
LEMMA ClearIs ==
  ASSUME NEW b \in Buffer
  PROVE  /\ Clear(b) \in Buffer /\ Clear(b).wi = 0 /\ Clear(b).ri = 0
         /\ Len(Clear(b).data) = BufSize
         /\ \A i \in 1 .. BufSize : Clear(b).data[i] = 0
<1> DEFINE new == Resize(<<>>, BufSize)
           r   == Rewind(b)
           c   == Clear(b)
<1>1. BufSize \in Nat /\ <<>> \in Seq(Byte) /\ Len(<<>>) = 0
  BY BytesAssumption
<1>2. /\ new \in Seq(Byte) /\ Len(new) = BufSize
      /\ \A i \in 1 .. BufSize : new[i] = IF i <= Len(<<>>) THEN <<>>[i] ELSE 0
  BY <1>1, ResizeIs
<1>3. r \in Buffer /\ r.wi = 0 /\ r.ri = 0
  BY RewindIs
<1>4. c = [r EXCEPT !.data = new]
  BY DEF Clear
<1> HIDE DEF new, r, c
<1>5. c \in Buffer /\ c.data = new /\ c.wi = 0 /\ c.ri = 0
  BY <1>2, <1>3, <1>4 DEF Buffer
<1>6. \A i \in 1 .. BufSize : new[i] = 0
  BY <1>1, <1>2
<1> QED
  BY <1>2, <1>5, <1>6 DEF c

\* A Write member writes behind the write index, as far as the vector goes.
LEMMA WriteIs ==
  ASSUME NEW b \in Buffer, NEW s \in Seq(Byte)
  PROVE  /\ Write(b, s) \in Buffer
         /\ Write(b, s).wi = b.wi + Len(s) /\ Write(b, s).ri = b.ri
         /\ Len(Write(b, s).data) = Len(b.data)
         /\ \A i \in 1 .. Len(s) :
              b.wi + i <= Len(b.data) => Write(b, s).data[b.wi + i] = s[i]
<1> DEFINE d == b.data
           n == Len(b.data)
           new == [i \in DOMAIN d |-> IF i - b.wi \in DOMAIN s THEN s[i - b.wi] ELSE d[i]]
<1>1. /\ d \in Seq(Byte) /\ n \in Nat /\ DOMAIN d = 1 .. n /\ DOMAIN s = 1 .. Len(s)
      /\ b.wi \in Nat /\ b.ri \in Nat /\ Len(s) \in Nat
  BY DEF Buffer
<1>2. new = [i \in 1 .. n |-> new[i]]
  BY <1>1
<1>3. \A i \in 1 .. n : new[i] = IF i - b.wi \in 1 .. Len(s) THEN s[i - b.wi] ELSE d[i]
  BY <1>1
<1>4. \A i \in 1 .. n : new[i] \in Byte
  BY <1>1, <1>3
<1>0. Write(b, s) = [b EXCEPT !.data = new, !.wi = b.wi + Len(s)]
  BY DEF Write
<1> HIDE DEF new
<1>5. Write(b, s) = [data |-> new, wi |-> b.wi + Len(s), ri |-> b.ri]
  BY <1>0 DEF Buffer
<1>6. new \in Seq(Byte) /\ Len(new) = n
  BY <1>1, <1>2, <1>4, BytesAt
<1>7. \A i \in 1 .. Len(s) : b.wi + i <= n => new[b.wi + i] = s[i]
  <2> TAKE i \in 1 .. Len(s)
  <2> HAVE b.wi + i <= n
  <2>1. b.wi + i \in 1 .. n /\ (b.wi + i) - b.wi = i
    BY <1>1
  <2> QED
    BY <1>3, <2>1
<1> QED
  BY <1>1, <1>5, <1>6, <1>7 DEF Buffer

\* recv() stores at the start of the vector.
LEMMA StoreIs ==
  ASSUME NEW b \in Buffer, NEW s \in Seq(Byte)
  PROVE  /\ Store(b, s) \in Buffer
         /\ Store(b, s).wi = b.wi /\ Store(b, s).ri = b.ri
         /\ Len(Store(b, s).data) = Len(b.data)
         /\ \A i \in 1 .. Len(s) : i <= Len(b.data) => Store(b, s).data[i] = s[i]
         /\ \A i \in 1 .. Len(b.data) : i > Len(s) => Store(b, s).data[i] = b.data[i]
<1> DEFINE d == b.data
           n == Len(b.data)
           new == [i \in DOMAIN d |-> IF i <= Len(s) THEN s[i] ELSE d[i]]
<1>1. /\ d \in Seq(Byte) /\ n \in Nat /\ DOMAIN d = 1 .. n /\ DOMAIN s = 1 .. Len(s)
      /\ b.wi \in Nat /\ b.ri \in Nat
  BY DEF Buffer
<1>2. new = [i \in 1 .. n |-> new[i]]
  BY <1>1
<1>3. \A i \in 1 .. n : new[i] = IF i <= Len(s) THEN s[i] ELSE d[i]
  BY <1>1
<1>4. \A i \in 1 .. n : new[i] \in Byte
  BY <1>1, <1>3
<1>0. Store(b, s) = [b EXCEPT !.data = new]
  BY DEF Store
<1> HIDE DEF new
<1>5. Store(b, s) = [data |-> new, wi |-> b.wi, ri |-> b.ri]
  BY <1>0 DEF Buffer
<1>6. new \in Seq(Byte) /\ Len(new) = n
  BY <1>1, <1>2, <1>4, BytesAt
<1>7. \A i \in 1 .. Len(s) : i <= n => new[i] = s[i]
  BY <1>1, <1>3
<1>8. \A i \in 1 .. n : i > Len(s) => new[i] = d[i]
  BY <1>1, <1>3
<1> QED
  BY <1>1, <1>5, <1>6, <1>7, <1>8 DEF Buffer

\* What is read are bytes, whatever the read index is.
LEMMA PeekIs ==
  ASSUME NEW b \in Buffer, NEW n \in Nat
  PROVE  /\ Peek(b, n) \in Seq(Byte) /\ Len(Peek(b, n)) = n
         /\ \A i \in 1 .. n : b.ri + i <= Len(b.data) => Peek(b, n)[i] = b.data[b.ri + i]
         /\ \A i \in 1 .. n : Peek(b, n)[i] = At(b.data, b.ri + i)
<1> DEFINE got == [i \in 1 .. n |->
                     IF b.ri + i \in DOMAIN b.data THEN b.data[b.ri + i] ELSE 0]
<1>1. b.data \in Seq(Byte) /\ DOMAIN b.data = 1 .. Len(b.data) /\ b.ri \in Nat
  BY DEF Buffer
<1>2. 0 \in Byte
  BY BytesAssumption DEF Byte
<1>3. \A i \in 1 .. n : got[i] \in Byte
  BY <1>1, <1>2
<1>4. got = [i \in 1 .. n |-> got[i]]
  OBVIOUS
<1>5. \A i \in 1 .. n : b.ri + i <= Len(b.data) => got[i] = b.data[b.ri + i]
  BY <1>1
<1>6. Peek(b, n) = got
  BY DEF Peek
<1>7. \A i \in 1 .. n : got[i] = At(b.data, b.ri + i)
  BY DEF At
<1> HIDE DEF got
<1> QED
  BY <1>3, <1>4, <1>5, <1>6, <1>7, BytesAt

\* A Read member moves the read index.
LEMMA ReadIs ==
  ASSUME NEW b \in Buffer, NEW n \in Nat
  PROVE  /\ Read(b, n) \in Buffer
         /\ Read(b, n).data = b.data /\ Read(b, n).wi = b.wi /\ Read(b, n).ri = b.ri + n
BY DEF Read, Buffer

\* The reversed test: a vector that is large enough grows, and keeps its bytes.
LEMMA GrowIs ==
  ASSUME NEW b \in Buffer, Sized(b), NEW size \in Nat
  PROVE  /\ Grow(b, size) \in Buffer /\ Sized(Grow(b, size))
         /\ Grow(b, size).wi = b.wi /\ Grow(b, size).ri = b.ri
         /\ Len(b.data) >= size => Len(Grow(b, size).data) = BufSize * 2
         /\ Len(Grow(b, size).data) >= Len(b.data)
         /\ \A i \in 1 .. Len(b.data) : Grow(b, size).data[i] = b.data[i]
         /\ \A i \in Nat : At(Grow(b, size).data, i) = At(b.data, i)
<1>1. BufSize \in Nat /\ BufSize * 2 \in Nat /\ b.data \in Seq(Byte) /\ Len(b.data) \in Nat
  BY BytesAssumption DEF Buffer
<1>2. CASE Len(b.data) >= size
  <2> DEFINE new == Resize(b.data, BufSize * 2)
  <2>1. /\ new \in Seq(Byte) /\ Len(new) = BufSize * 2
        /\ \A i \in 1 .. BufSize * 2 : new[i] = IF i <= Len(b.data) THEN b.data[i] ELSE 0
    BY <1>1, ResizeIs
  <2>2. Grow(b, size) = [data |-> new, wi |-> b.wi, ri |-> b.ri]
    BY <1>2 DEF Grow, Buffer
  <2>3. Len(b.data) <= BufSize * 2
    BY <1>1 DEF Sized
  <2> HIDE DEF new
  <2>4. \A i \in 1 .. Len(b.data) : new[i] = b.data[i]
    BY <1>1, <2>1, <2>3
  <2>5. \A i \in Nat : At(new, i) = At(b.data, i)
    BY <1>1, <2>1, <2>3 DEF At
  <2> QED
    BY <1>1, <2>1, <2>2, <2>3, <2>4, <2>5 DEF Buffer, Sized
<1>3. CASE ~(Len(b.data) >= size)
  BY <1>1, <1>3 DEF Grow
<1> QED
  BY <1>2, <1>3

-----------------------------------------------------------------------------
(* Packets in the buffer.                                                  *)

\* The eight bytes in front of a text.
Header(text) == U32(PacketSize(text)) \o U16(1) \o U16(Len(text))

\* The bytes of s behind the first k are the packet of text, as far as it was written.
Begins(s, k, text) ==
  /\ k + PacketSize(text) <= Len(s)
  /\ \A i \in 1 .. 8 : s[k + i] = Header(text)[i]
  /\ \A i \in 1 .. Len(text) : s[k + 8 + i] = text[i]

\* The length of a text, and what send() makes of it.
LEMMA PacketSizeIs ==
  ASSUME NEW text \in Seq(Byte)
  PROVE  Len(text) \in Nat /\ PacketSize(text) \in Nat /\ PacketSize(text) = Len(text) + 12
BY DEF PacketSize

\* The fields of the header.
LEMMA HeaderIs ==
  ASSUME NEW text \in Seq(Byte)
  PROVE  /\ Header(text) \in Seq(Byte) /\ Len(Header(text)) = 8
         /\ \A i \in 1 .. 4 : Header(text)[i] = U32(PacketSize(text))[i]
         /\ \A i \in 1 .. 2 : Header(text)[4 + i] = U16(1)[i]
         /\ \A i \in 1 .. 2 : Header(text)[6 + i] = U16(Len(text))[i]
<1> DEFINE size == U32(PacketSize(text))
           type == U16(1)
           len  == U16(Len(text))
<1>1. /\ size \in Seq(Byte) /\ Len(size) = 4
      /\ type \in Seq(Byte) /\ Len(type) = 2
      /\ len \in Seq(Byte) /\ Len(len) = 2
  BY BytesOf, PacketSizeIs
<1>2. Header(text) = (size \o type) \o len
  BY DEF Header
<1> HIDE DEF size, type, len
<1> DEFINE first == size \o type
           all   == first \o len
<1>3. /\ first \in Seq(Byte) /\ Len(first) = 6
      /\ \A i \in 1 .. 4 : first[i] = size[i]
      /\ \A i \in 1 .. 2 : first[4 + i] = type[i]
  <2>1. /\ first \in Seq(Byte) /\ Len(first) = Len(size) + Len(type)
        /\ \A i \in 1 .. Len(size) : first[i] = size[i]
        /\ \A i \in 1 .. Len(type) : first[Len(size) + i] = type[i]
    BY <1>1, ConcatIs, Zenon
  <2> HIDE DEF first
  <2> QED
    BY <1>1, <2>1
<1> HIDE DEF first
<1>4. /\ all \in Seq(Byte) /\ Len(all) = 8
      /\ \A i \in 1 .. 6 : all[i] = first[i]
      /\ \A i \in 1 .. 2 : all[6 + i] = len[i]
  <2>1. /\ all \in Seq(Byte) /\ Len(all) = Len(first) + Len(len)
        /\ \A i \in 1 .. Len(first) : all[i] = first[i]
        /\ \A i \in 1 .. Len(len) : all[Len(first) + i] = len[i]
    BY <1>1, <1>3, ConcatIs, Zenon
  <2> HIDE DEF all
  <2> QED
    BY <1>1, <1>3, <2>1
<1>5. Header(text) = all
  BY <1>2 DEF first
<1> HIDE DEF all
<1>6. \A i \in 1 .. 4 : all[i] = size[i]
  BY <1>3, <1>4
<1>7. \A i \in 1 .. 2 : all[4 + i] = type[i]
  <2> TAKE i \in 1 .. 2
  <2>1. 4 + i \in 1 .. 6
    OBVIOUS
  <2> QED
    BY <1>3, <1>4, <2>1
<1> QED
  BY <1>4, <1>5, <1>6, <1>7 DEF size, type, len

\* What SendMessageToBuffer writes: the header and the text.
LEMMA EncodedIs ==
  ASSUME NEW text \in Seq(Byte)
  PROVE  /\ Header(text) \o text \in Seq(Byte)
         /\ Len(Header(text) \o text) = 8 + Len(text)
         /\ \A i \in 1 .. 8 : (Header(text) \o text)[i] = Header(text)[i]
         /\ \A i \in 1 .. Len(text) : (Header(text) \o text)[8 + i] = text[i]
<1> DEFINE h == Header(text)
<1>1. h \in Seq(Byte) /\ Len(h) = 8 /\ Len(text) \in Nat
  BY HeaderIs
<1> HIDE DEF h
<1> DEFINE all == h \o text
<1>2. /\ all \in Seq(Byte) /\ Len(all) = Len(h) + Len(text)
      /\ \A i \in 1 .. Len(h) : all[i] = h[i]
      /\ \A i \in 1 .. Len(text) : all[Len(h) + i] = text[i]
  BY <1>1, ConcatIs, Zenon
<1> HIDE DEF all
<1>3. /\ all \in Seq(Byte) /\ Len(all) = 8 + Len(text)
      /\ \A i \in 1 .. 8 : all[i] = h[i]
      /\ \A i \in 1 .. Len(text) : all[8 + i] = text[i]
  BY <1>1, <1>2
<1> QED
  BY <1>3 DEF h, all

\* A packet is written behind the write index, and nothing else changes.
LEMMA WritePacketIs ==
  ASSUME NEW b \in Buffer, NEW text \in Seq(Byte)
  PROVE  /\ WritePacket(b, text) \in Buffer
         /\ WritePacket(b, text).wi = b.wi + 8 + Len(text)
         /\ WritePacket(b, text).ri = b.ri
         /\ Len(WritePacket(b, text).data) = Len(b.data)
<1> DEFINE s == Header(text) \o text
<1>1. s \in Seq(Byte) /\ Len(s) = 8 + Len(text)
  BY EncodedIs
<1>2. WritePacket(b, text) = Write(b, s)
  BY DEF WritePacket, Header
<1> HIDE DEF s
<1>3. b.wi \in Nat /\ Len(text) \in Nat
  BY DEF Buffer
<1>4. /\ Write(b, s) \in Buffer
      /\ Write(b, s).wi = b.wi + Len(s) /\ Write(b, s).ri = b.ri
      /\ Len(Write(b, s).data) = Len(b.data)
  BY <1>1, WriteIs
<1> QED
  BY <1>1, <1>2, <1>3, <1>4

\* send() transmits bytes, some of them from behind the vector.
LEMMA TransmittedBytes ==
  ASSUME NEW b \in Buffer, NEW text \in Seq(Byte), NEW x \in Byte
  PROVE  /\ Transmitted(b, text, x) \in Seq(Byte)
         /\ Len(Transmitted(b, text, x)) = PacketSize(text)
         /\ \A i \in 1 .. PacketSize(text) :
              i <= Len(b.data) => Transmitted(b, text, x)[i] = b.data[i]
<1> DEFINE n == PacketSize(text)
           new == [i \in 1 .. n |-> IF i <= Len(b.data) THEN b.data[i] ELSE x]
<1>1. n \in Nat /\ b.data \in Seq(Byte)
  BY PacketSizeIs DEF Buffer
<1>2. new = [i \in 1 .. n |-> new[i]]
  OBVIOUS
<1>3. \A i \in 1 .. n : new[i] \in Byte
  BY <1>1
<1>4. \A i \in 1 .. n : i <= Len(b.data) => new[i] = b.data[i]
  OBVIOUS
<1>5. Transmitted(b, text, x) = new
  BY DEF Transmitted
<1> HIDE DEF new
<1> QED
  BY <1>1, <1>2, <1>3, <1>4, <1>5, BytesAt

\* The packet in a vector that holds the text and its header is transmitted as it was
\* written, with four bytes more.
LEMMA TransmittedBegins ==
  ASSUME NEW b \in Buffer, NEW text \in Seq(Byte), NEW x \in Byte,
         b.wi = 0, 8 + Len(text) <= Len(b.data)
  PROVE  Begins(Transmitted(WritePacket(b, text), text, x), 0, text)
<1> DEFINE s == Header(text) \o text
           w == WritePacket(b, text)
           sent == Transmitted(w, text, x)
<1>1. /\ s \in Seq(Byte) /\ Len(s) = 8 + Len(text)
      /\ \A i \in 1 .. 8 : s[i] = Header(text)[i]
      /\ \A i \in 1 .. Len(text) : s[8 + i] = text[i]
  BY EncodedIs
<1>2. WritePacket(b, text) = Write(b, s)
  BY DEF WritePacket, Header
<1>3. w \in Buffer /\ Len(w.data) = Len(b.data)
  BY WritePacketIs
<1> HIDE DEF s
<1>4. \A i \in 1 .. Len(s) : b.wi + i <= Len(b.data) => w.data[b.wi + i] = s[i]
  <2>1. \A i \in 1 .. Len(s) :
          b.wi + i <= Len(b.data) => Write(b, s).data[b.wi + i] = s[i]
    BY <1>1, WriteIs
  <2>2. w.data = Write(b, s).data
    BY <1>2
  <2> HIDE DEF w
  <2> QED
    BY <2>1, <2>2
<1> HIDE DEF w
<1>5. /\ sent \in Seq(Byte) /\ Len(sent) = PacketSize(text)
      /\ \A i \in 1 .. PacketSize(text) : i <= Len(w.data) => sent[i] = w.data[i]
  BY <1>3, TransmittedBytes
<1> HIDE DEF sent
<1>6. /\ Len(text) \in Nat /\ PacketSize(text) = Len(text) + 12 /\ Len(b.data) \in Nat
      /\ PacketSize(text) \in Nat
  BY PacketSizeIs DEF Buffer
<1>7. \A i \in 1 .. 8 + Len(text) : sent[i] = s[i]
  <2> TAKE i \in 1 .. 8 + Len(text)
  <2>1. i \in 1 .. PacketSize(text) /\ b.wi + i = i /\ i <= Len(b.data)
    BY <1>6
  <2>2. w.data[i] = s[i]
    BY <1>1, <1>4, <1>6, <2>1
  <2> QED
    BY <1>3, <1>5, <1>6, <2>1, <2>2
<1>8. \A i \in 1 .. 8 : sent[0 + i] = Header(text)[i]
  BY <1>1, <1>6, <1>7
<1>9. \A i \in 1 .. Len(text) : sent[0 + 8 + i] = text[i]
  BY <1>1, <1>6, <1>7
<1> QED
  BY <1>5, <1>6, <1>8, <1>9 DEF Begins, sent, w

\* Whatever bytes a vector holds, the parse keeps the write index and leaves a buffer
\* of one of the two sizes, and yields at most one text.
LEMMA ParseIs ==
  ASSUME NEW b \in Buffer, Sized(b)
  PROVE  /\ Parse(b).buf \in Buffer /\ Sized(Parse(b).buf) /\ Parse(b).buf.wi = b.wi
         /\ Parse(b).texts = <<>> \/ \E t \in Seq(Byte) : Parse(b).texts = <<t>>
<1> DEFINE size == Number(Peek(b, 4))
           type == Number(Peek(Read(b, 4), 2))
           six  == Read(b, 6)
           g    == Grow(six, size)
           n    == Number(Peek(g, 2))
           body == Read(g, 2)
<1>1. size \in Nat
  BY PeekIs, NumberIsNat
<1>2. six \in Buffer /\ six.wi = b.wi /\ six.data = b.data
  BY ReadIs
<1>3. Sized(six)
  BY <1>2 DEF Sized
<1> HIDE DEF size, six
<1>4. g \in Buffer /\ Sized(g) /\ g.wi = b.wi
  BY <1>1, <1>2, <1>3, GrowIs
<1> HIDE DEF g
<1>5. n \in Nat
  BY <1>4, PeekIs, NumberIsNat
<1>6. body \in Buffer /\ body.wi = b.wi /\ body.data = g.data
  BY <1>4, ReadIs
<1> HIDE DEF n, body
<1>7. /\ Peek(body, n) \in Seq(Byte)
      /\ Read(body, n) \in Buffer /\ Read(body, n).wi = b.wi
      /\ Read(body, n).data = g.data
  BY <1>5, <1>6, PeekIs, ReadIs
<1>8. Parse(b) = IF type = 1
                 THEN [buf |-> Read(body, n), texts |-> <<Peek(body, n)>>]
                 ELSE [buf |-> g, texts |-> <<>>]
  BY DEF Parse, size, six, g, n, body
<1> HIDE DEF type
<1>9. CASE type = 1
  <2>1. Parse(b).buf = Read(body, n) /\ Parse(b).texts = <<Peek(body, n)>>
    BY <1>8, <1>9
  <2> QED
    BY <1>4, <1>7, <2>1 DEF Sized
<1>10. CASE type # 1
  <2>1. Parse(b).buf = g /\ Parse(b).texts = <<>>
    BY <1>8, <1>10
  <2> QED
    BY <1>4, <2>1
<1> QED
  BY <1>9, <1>10

\* A packet that fits is parsed to its text, and the read index stays within the
\* vector, which has grown.
LEMMA ParsePacket ==
  ASSUME NEW b \in Buffer, NEW text \in Seq(Byte), NEW s \in Seq(Byte),
         Sized(b), b.ri = 0, Begins(s, 0, text),
         PacketSize(text) <= BufSize, Len(s) = PacketSize(text)
  PROVE  LET p == Parse(Store(b, s)) IN
         /\ p.texts = <<text>>
         /\ p.buf \in Buffer /\ p.buf.wi = b.wi
         /\ Len(p.buf.data) = BufSize * 2 /\ p.buf.ri <= BufSize
<1> DEFINE st   == Store(b, s)
           size == Number(Peek(st, 4))
           four == Read(st, 4)
           type == Number(Peek(four, 2))
           six  == Read(st, 6)
           g    == Grow(six, size)
           n    == Number(Peek(g, 2))
           body == Read(g, 2)
           end  == Read(body, n)
<1>0. /\ Len(text) \in Nat /\ PacketSize(text) = Len(text) + 12 /\ PacketSize(text) \in Nat
      /\ BufSize \in Nat /\ BufSize < Base * Base /\ Base \in Nat /\ Base >= 2
      /\ BufSize <= Len(b.data) /\ Len(b.data) \in Nat
  BY PacketSizeIs, BytesAssumption, FramingAssumption DEF Sized, Buffer
<1>1. /\ \A i \in 1 .. 4 : s[i] = U32(PacketSize(text))[i]
      /\ \A i \in 1 .. 2 : s[4 + i] = U16(1)[i]
      /\ \A i \in 1 .. 2 : s[6 + i] = U16(Len(text))[i]
      /\ \A i \in 1 .. Len(text) : s[8 + i] = text[i]
  <2>1. \A i \in 1 .. 8 : s[i] = Header(text)[i]
    BY DEF Begins
  <2>2. \A i \in 1 .. Len(text) : s[8 + i] = text[i]
    BY DEF Begins
  <2>3. \A i \in 1 .. 4 : Header(text)[i] = U32(PacketSize(text))[i]
    BY HeaderIs
  <2>4. \A i \in 1 .. 2 : Header(text)[4 + i] = U16(1)[i]
    BY HeaderIs
  <2>5. \A i \in 1 .. 2 : Header(text)[6 + i] = U16(Len(text))[i]
    BY HeaderIs
  <2> QED
    BY <2>1, <2>2, <2>3, <2>4, <2>5
<1>2. /\ st \in Buffer /\ st.wi = b.wi /\ st.ri = 0 /\ Len(st.data) = Len(b.data)
      /\ Sized(st)
      /\ \A i \in 1 .. Len(s) : st.data[i] = s[i]
  <2>1. /\ Store(b, s) \in Buffer
        /\ Store(b, s).wi = b.wi /\ Store(b, s).ri = b.ri
        /\ Len(Store(b, s).data) = Len(b.data)
        /\ \A i \in 1 .. Len(s) : i <= Len(b.data) => Store(b, s).data[i] = s[i]
    BY StoreIs
  <2>2. \A i \in 1 .. Len(s) : i <= Len(b.data)
    BY <1>0
  <2> QED
    BY <2>1, <2>2 DEF Sized
<1> HIDE DEF st
<1>3. size = PacketSize(text)
  <2> DEFINE got == Peek(st, 4)
             u   == U32(PacketSize(text))
  <2>1. /\ got \in Seq(Byte) /\ Len(got) = 4
        /\ \A i \in 1 .. 4 : st.ri + i <= Len(st.data) => got[i] = st.data[st.ri + i]
    BY <1>2, PeekIs
  <2>2. u \in Seq(Byte) /\ Len(u) = 4
    BY <1>0, BytesOf
  <2>3. \A i \in 1 .. 4 : got[i] = u[i]
    <3> TAKE i \in 1 .. 4
    <3>1. st.ri + i <= Len(st.data) /\ st.ri + i = i /\ i \in 1 .. Len(s)
      BY <1>0, <1>2
    <3> HIDE DEF got, u
    <3>2. s[i] = u[i]
      BY <1>1 DEF u
    <3> QED
      BY <1>2, <2>1, <3>1, <3>2
  <2> HIDE DEF got, u
  <2>4. got = u
    BY <2>1, <2>2, <2>3, SeqEqual
  <2>5. Number(u) = PacketSize(text)
    BY <1>0, U32RoundTrip DEF u
  <2> QED
    BY <2>4, <2>5 DEF got
<1>4. four \in Buffer /\ four.data = st.data /\ four.ri = 4
  <2>1. four \in Buffer /\ four.wi = st.wi /\ four.data = st.data
    BY <1>2, ReadIs
  <2>2. four.ri = st.ri + 4
    BY <1>2, ReadIs
  <2> HIDE DEF four
  <2> QED
    BY <1>2, <2>1, <2>2
<1> HIDE DEF size, four
<1>5. type = 1
  <2> DEFINE got == Peek(four, 2)
             u   == U16(1)
  <2>1. /\ got \in Seq(Byte) /\ Len(got) = 2
        /\ \A i \in 1 .. 2 : four.ri + i <= Len(four.data) => got[i] = four.data[four.ri + i]
    BY <1>4, PeekIs
  <2>2. u \in Seq(Byte) /\ Len(u) = 2
    BY BytesOf
  <2>3. \A i \in 1 .. 2 : got[i] = u[i]
    <3> TAKE i \in 1 .. 2
    <3>1. four.ri + i <= Len(four.data) /\ four.ri + i = 4 + i /\ 4 + i \in 1 .. Len(s)
      BY <1>0, <1>2, <1>4
    <3> HIDE DEF got, u
    <3>2. s[4 + i] = u[i]
      BY <1>1 DEF u
    <3> QED
      BY <1>2, <1>4, <2>1, <3>1, <3>2
  <2> HIDE DEF got, u
  <2>4. got = u
    BY <2>1, <2>2, <2>3, SeqEqual
  <2>5. 1 < Base * Base
    BY <1>0
  <2>6. Number(u) = 1
    BY <2>5, U16RoundTrip DEF u
  <2> QED
    BY <2>4, <2>6 DEF got
<1>6. six \in Buffer /\ six.wi = b.wi /\ six.data = st.data /\ six.ri = 6 /\ Sized(six)
  <2>1. six \in Buffer /\ six.wi = st.wi /\ six.data = st.data
    BY <1>2, ReadIs
  <2>2. six.ri = st.ri + 6
    BY <1>2, ReadIs
  <2> HIDE DEF six
  <2> QED
    BY <1>2, <2>1, <2>2 DEF Sized
<1> HIDE DEF type, six
<1>7. /\ g \in Buffer /\ g.wi = b.wi /\ g.ri = 6
      /\ Len(g.data) = BufSize * 2
      /\ \A i \in 1 .. Len(s) : g.data[i] = s[i]
  <2>1. size \in Nat /\ Len(six.data) >= size
    BY <1>0, <1>2, <1>3, <1>6
  <2>2. /\ g \in Buffer /\ g.wi = six.wi /\ g.ri = six.ri /\ Len(g.data) = BufSize * 2
        /\ \A i \in 1 .. Len(six.data) : g.data[i] = six.data[i]
    BY <1>6, <2>1, GrowIs
  <2> HIDE DEF g
  <2>3. \A i \in 1 .. Len(s) : i \in 1 .. Len(six.data)
    BY <1>0, <1>2, <1>6
  <2> QED
    BY <1>2, <1>6, <2>2, <2>3
<1> HIDE DEF g
<1>8. n = Len(text)
  <2> DEFINE got == Peek(g, 2)
             u   == U16(Len(text))
  <2>1. /\ got \in Seq(Byte) /\ Len(got) = 2
        /\ \A i \in 1 .. 2 : g.ri + i <= Len(g.data) => got[i] = g.data[g.ri + i]
    <3>1. g \in Buffer /\ 2 \in Nat
      BY <1>7
    <3> QED
      BY <3>1, PeekIs, Zenon
  <2>2. u \in Seq(Byte) /\ Len(u) = 2
    BY <1>0, BytesOf
  <2>3. \A i \in 1 .. 2 : got[i] = u[i]
    <3> TAKE i \in 1 .. 2
    <3>1. g.ri + i <= Len(g.data) /\ g.ri + i = 6 + i /\ 6 + i \in 1 .. Len(s)
      BY <1>0, <1>7
    <3> HIDE DEF got, u
    <3>2. s[6 + i] = u[i]
      BY <1>1 DEF u
    <3> QED
      BY <1>7, <2>1, <3>1, <3>2
  <2> HIDE DEF got, u
  <2>4. got = u
    BY <2>1, <2>2, <2>3, SeqEqual
  <2>5. Len(text) < Base * Base
    BY <1>0
  <2>6. Number(u) = Len(text)
    BY <1>0, <2>5, U16RoundTrip DEF u
  <2> QED
    BY <2>4, <2>6 DEF got
<1>9. body \in Buffer /\ body.wi = b.wi /\ body.data = g.data /\ body.ri = 8
  <2>1. body \in Buffer /\ body.wi = g.wi /\ body.data = g.data
    BY <1>7, ReadIs
  <2>2. body.ri = g.ri + 2
    BY <1>7, ReadIs
  <2> HIDE DEF body
  <2> QED
    BY <1>7, <2>1, <2>2
<1> HIDE DEF n, body
<1>10. Peek(body, n) = text
  <2> DEFINE got == Peek(body, n)
  <2>1. /\ got \in Seq(Byte) /\ Len(got) = n
        /\ \A i \in 1 .. n : body.ri + i <= Len(body.data) => got[i] = body.data[body.ri + i]
    BY <1>0, <1>8, <1>9, PeekIs
  <2>2. \A i \in 1 .. Len(text) : got[i] = text[i]
    <3> TAKE i \in 1 .. Len(text)
    <3>1. body.ri + i <= Len(body.data) /\ body.ri + i = 8 + i /\ 8 + i \in 1 .. Len(s)
      BY <1>0, <1>7, <1>9
    <3> HIDE DEF got
    <3>2. s[8 + i] = text[i]
      BY <1>1
    <3> QED
      BY <1>7, <1>8, <1>9, <2>1, <3>1, <3>2
  <2> HIDE DEF got
  <2>3. got = text
    BY <1>8, <2>1, <2>2, SeqEqual
  <2> QED
    BY <2>3 DEF got
<1>11. end \in Buffer /\ end.wi = b.wi /\ end.data = g.data /\ end.ri = 8 + n
  <2>1. n \in Nat
    BY <1>0, <1>8
  <2>2. /\ end \in Buffer /\ end.data = body.data /\ end.wi = body.wi
        /\ end.ri = body.ri + n
    BY <1>9, <2>1, ReadIs, Zenon
  <2> HIDE DEF end, n
  <2> QED
    BY <1>9, <2>2
<1>12. Parse(st) = [buf |-> end, texts |-> <<Peek(body, n)>>]
  BY <1>5 DEF Parse, type, four, size, six, g, n, body, end
<1> HIDE DEF end
<1>13. Parse(st).buf = end /\ Parse(st).texts = <<text>>
  BY <1>10, <1>12
<1> QED
  BY <1>0, <1>7, <1>8, <1>11, <1>13 DEF st

\* What one process writes to its vector and sends another one parses from its own:
\* any text that fits, although send() transmits four bytes more than were written,
\* and whatever both vectors held before.
THEOREM RoundTrip ==
  ASSUME NEW here \in Buffer, NEW there \in Buffer, Sized(here), Sized(there),
         here.wi = 0, there.ri = 0,
         NEW text \in Seq(Byte), NEW x \in Byte, PacketSize(text) <= BufSize
  PROVE  Parse(Store(there, Transmitted(WritePacket(here, text), text, x))).texts = <<text>>
<1> DEFINE w == WritePacket(here, text)
           s == Transmitted(w, text, x)
<1>1. 8 + Len(text) <= Len(here.data)
  <2>1. /\ BufSize \in Nat /\ Len(text) \in Nat /\ PacketSize(text) = Len(text) + 12
        /\ BufSize <= Len(here.data)
    BY BytesAssumption, PacketSizeIs DEF Sized
  <2>2. Len(here.data) \in Nat
    BY DEF Buffer
  <2> QED
    BY <2>1, <2>2
<1>2. Begins(s, 0, text)
  BY <1>1, TransmittedBegins
<1>3. w \in Buffer
  BY WritePacketIs
<1> HIDE DEF w
<1>4. s \in Seq(Byte) /\ Len(s) = PacketSize(text)
  BY <1>3, TransmittedBytes
<1> HIDE DEF s
<1>5. Parse(Store(there, s)).texts = <<text>>
  BY <1>2, <1>4, ParsePacket
<1> QED
  BY <1>5 DEF s, w

-----------------------------------------------------------------------------
(* Types.                                                                  *)

\* TypeOK with whole buffers, and a text of at least one byte wherever the server
\* tells something: the others are sent its first byte in place of a name.
TypeInv ==
  /\ TypeOK
  /\ buf \in [Node -> Buffer]
  /\ todo # <<>> => reply.text # <<>>

\* As long as a line may be typed, each client has typed fewer than MaxLines.
LEMMA MoreLines ==
  ASSUME Typed < MaxLines, NEW c \in Client, typed[c] \in Texts
  PROVE  Len(typed[c]) < MaxLines
<1> DEFINE all  == Client \X (1 .. MaxLines)
           some == {l \in all : l[2] <= Len(typed[l[1]])}
           mine == {c} \X (1 .. MaxLines)
<1>1. MaxLines \in Nat /\ Members \in Nat
  BY FramingAssumption
<1>2. IsFiniteSet(1 .. MaxLines) /\ Cardinality(1 .. MaxLines) = MaxLines
  BY <1>1, FS_Interval
<1>3. IsFiniteSet(Client) /\ IsFiniteSet({c}) /\ Cardinality({c}) = 1
  <2>1. IsFiniteSet(Client)
    BY <1>1, FS_Interval DEF Client
  <2>2. IsFiniteSet({c}) /\ Cardinality({c}) = 1
    BY FS_Singleton
  <2> QED
    BY <2>1, <2>2
<1>4. IsFiniteSet(all) /\ Cardinality(mine) = 1 * MaxLines
  <2>1. IsFiniteSet(all)
    BY <1>2, <1>3, FS_Product, Zenon
  <2>2. Cardinality(mine) = Cardinality({c}) * Cardinality(1 .. MaxLines)
    BY <1>2, <1>3, FS_Product, Zenon
  <2> HIDE DEF all, mine
  <2> QED
    BY <1>2, <1>3, <2>1, <2>2
<1>5. IsFiniteSet(some)
  BY <1>4, FS_Subset
<1>6. Len(typed[c]) \in Nat
  BY DEF Texts
<1>7. SUFFICES ASSUME MaxLines <= Len(typed[c])
               PROVE  FALSE
  BY <1>1, <1>6
<1>8. mine \subseteq some
  <2> SUFFICES ASSUME NEW l \in mine
               PROVE  l \in some
    OBVIOUS
  <2>1. PICK n \in 1 .. MaxLines : l = <<c, n>>
    OBVIOUS
  <2>2. l \in all /\ l[1] = c /\ l[2] = n
    BY <2>1
  <2>3. n <= Len(typed[c])
    BY <1>1, <1>6, <1>7
  <2> QED
    BY <2>2, <2>3
<1> HIDE DEF some, mine
<1>9. Cardinality(mine) <= Cardinality(some)
  BY <1>5, <1>8, FS_Subset
<1>10. Typed = Cardinality(some)
  BY DEF Typed, some, all
<1>11. Cardinality(some) \in Nat
  BY <1>5, FS_CardinalityType
<1> QED
  BY <1>1, <1>4, <1>9, <1>10, <1>11

\* A text of which no byte looks like one of a header, which begins with a whole tag.
Plain(t) == Tagged(t) /\ \A i \in DOMAIN t : t[i] # 0 /\ t[i] # 1

\* A line is such a text.
LEMMA LineIs ==
  ASSUME NEW c \in Client, NEW n \in 1 .. MaxLines, NEW len \in Lengths
  PROVE  /\ Line(c, n, len) \in Seq(Byte) /\ Len(Line(c, n, len)) = len
         /\ Plain(Line(c, n, len))
<1> DEFINE x == Letter(c, n)
           line == [i \in 1 .. len |-> x]
<1>1. /\ MaxLines \in Nat /\ Members \in Nat /\ Base \in Nat /\ Tag \in Nat \ {0}
      /\ len \in Nat /\ len >= Tag
  BY FramingAssumption, BytesAssumption
<1>2. x \in Byte /\ x # 0 /\ x # 1
  <2> DEFINE at == (c - 1) * MaxLines + n - 1
  <2>1. c \in Nat /\ 1 <= c /\ n \in Nat /\ 1 <= n
    BY <1>1 DEF Client
  <2>2. (c - 1) * MaxLines \in Nat
    BY <1>1, <2>1
  <2>3. at \in Nat
    BY <2>1, <2>2
  <2>4. Base - 2 \in Nat \ {0}
    BY <1>1, FramingAssumption
  <2> HIDE DEF at
  <2>5. at % (Base - 2) \in 0 .. Base - 3
    <3>1. at % (Base - 2) \in 0 .. (Base - 2) - 1
      BY <2>3, <2>4, Division
    <3> QED
      BY <1>1, <3>1
  <2>6. x = 2 + (at % (Base - 2))
    BY DEF Letter, at
  <2> DEFINE rest == at % (Base - 2)
  <2>7. x = 2 + rest /\ rest \in 0 .. Base - 3
    BY <2>5, <2>6
  <2> HIDE DEF x, rest
  <2> QED
    BY <1>1, <2>7 DEF Byte
<1> HIDE DEF x
<1>3. line = [i \in 1 .. len |-> line[i]] /\ \A i \in 1 .. len : line[i] = x
  OBVIOUS
<1>4. Line(c, n, len) = line
  BY DEF Line, x
<1> HIDE DEF line
<1>5. line \in Seq(Byte) /\ Len(line) = len
  BY <1>1, <1>2, <1>3, BytesAt
<1>6. Tagged(line)
  <2>1. \A i \in 1 .. Tag : i \in 1 .. len
    BY <1>1
  <2>2. 1 \in 1 .. len
    BY <1>1
  <2> QED
    BY <1>1, <1>2, <1>3, <1>5, <2>1, <2>2 DEF Tagged
<1>7. Plain(line)
  <2>1. DOMAIN line = 1 .. len
    BY <1>5
  <2> QED
    BY <1>2, <1>3, <1>6, <2>1 DEF Plain
<1> QED
  BY <1>4, <1>5, <1>7

\* However much recv() returns, it was there and fits the vector.
LEMMA PortionIs ==
  ASSUME NEW s \in Seq(Byte), NEW n \in AnyPortion(s) \cup OnePacket(s)
  PROVE  n \in 0 .. Len(s) /\ n <= BufSize
<1>1. BufSize \in Nat /\ Portions \subseteq Nat /\ Len(s) \in Nat
  BY BytesAssumption, FramingAssumption
<1>2. \A k \in AnyPortion(s) : k \in 0 .. Len(s) /\ k <= BufSize
  BY <1>1 DEF AnyPortion
<1> DEFINE size == Number(SubSeq(s \o <<0, 0, 0, 0>>, 1, 4))
<1>3. OnePacket(s) = IF size \in 12 .. Len(s)
                     THEN {IF size <= BufSize THEN size ELSE BufSize} ELSE AnyPortion(s)
  BY DEF OnePacket
<1> HIDE DEF size
<1>4. CASE size \in 12 .. Len(s)
  <2>1. \A k \in OnePacket(s) : k \in 0 .. Len(s) /\ k <= BufSize
    BY <1>1, <1>3, <1>4
  <2> QED
    BY <1>2, <2>1
<1>5. CASE size \notin 12 .. Len(s)
  BY <1>2, <1>3, <1>5
<1> QED
  BY <1>4, <1>5

\* What recv() returns, and what it leaves.
LEMMA CutIs ==
  ASSUME NEW s \in Seq(Byte), NEW n \in 0 .. Len(s)
  PROVE  /\ SubSeq(s, 1, n) \in Seq(Byte) /\ Len(SubSeq(s, 1, n)) = n
         /\ \A i \in 1 .. n : SubSeq(s, 1, n)[i] = s[i]
         /\ SubSeq(s, n + 1, Len(s)) \in Seq(Byte)
         /\ Len(SubSeq(s, n + 1, Len(s))) = Len(s) - n
         /\ \A i \in 1 .. Len(s) - n : SubSeq(s, n + 1, Len(s))[i] = s[n + i]
<1>1. n \in Int /\ Len(s) \in Nat /\ n + 1 \in Int
  OBVIOUS
<1>2. \A i \in 1 .. n : s[i] \in Byte
  OBVIOUS
<1>3. \A i \in n + 1 .. Len(s) : s[i] \in Byte
  OBVIOUS
<1> DEFINE first == SubSeq(s, 1, n)
           rest  == SubSeq(s, n + 1, Len(s))
<1>4. /\ first \in Seq(Byte)
      /\ Len(first) = IF 1 <= n THEN n - 1 + 1 ELSE 0
      /\ \A i \in 1 .. n - 1 + 1 : first[i] = s[1 + i - 1]
  BY <1>1, <1>2, SubSeqProperties
<1>5. /\ rest \in Seq(Byte)
      /\ Len(rest) = IF n + 1 <= Len(s) THEN Len(s) - (n + 1) + 1 ELSE 0
      /\ \A i \in 1 .. Len(s) - (n + 1) + 1 : rest[i] = s[n + 1 + i - 1]
  BY <1>1, <1>3, SubSeqProperties
<1> HIDE DEF first, rest
<1>6. Len(first) = n /\ Len(rest) = Len(s) - n
  BY <1>1, <1>4, <1>5
<1>7. \A i \in 1 .. n : first[i] = s[i]
  <2> TAKE i \in 1 .. n
  <2>1. i \in 1 .. n - 1 + 1 /\ 1 + i - 1 = i
    BY <1>1
  <2> QED
    BY <1>4, <2>1
<1>8. \A i \in 1 .. Len(s) - n : rest[i] = s[n + i]
  <2> TAKE i \in 1 .. Len(s) - n
  <2>1. i \in 1 .. Len(s) - (n + 1) + 1 /\ n + 1 + i - 1 = n + i
    BY <1>1
  <2> QED
    BY <1>5, <2>1
<1> QED
  BY <1>4, <1>5, <1>6, <1>7, <1>8 DEF first, rest

\* What the server tells is bytes; the name takes at most Extra of them.
LEMMA ToldIs ==
  ASSUME NEW d \in Client, reply \in [from : Node, text : Seq(Byte)], reply.text # <<>>
  PROVE  /\ Told(d) \in Seq(Byte) /\ Told(d) # <<>>
         /\ Len(Told(d)) <= Len(reply.text) + Extra
<1> DEFINE n    == IF d = reply.from THEN 0 ELSE Extra
           text == reply.text
           name == [i \in 1 .. n |-> text[1]]
<1>1. /\ n \in Nat /\ n <= Extra /\ Extra \in Nat
      /\ text \in Seq(Byte) /\ Len(text) \in Nat /\ Len(text) >= 1 /\ text[1] \in Byte
  BY FramingAssumption
<1>2. name \in Seq(Byte) /\ Len(name) = n
  <2>1. name = [i \in 1 .. n |-> name[i]] /\ \A i \in 1 .. n : name[i] \in Byte
    BY <1>1
  <2> HIDE DEF name
  <2> QED
    BY <1>1, <2>1, BytesAt
<1>3. Told(d) = name \o text
  BY DEF Told
<1> HIDE DEF name, text, n
<1>4. name \o text \in Seq(Byte) /\ Len(name \o text) = n + Len(text)
  BY <1>1, <1>2, ConcatIs
<1>5. Len(name \o text) >= 1
  BY <1>1, <1>4
<1>6. Told(d) # <<>>
  BY <1>3, <1>5
<1> QED
  BY <1>1, <1>3, <1>4, <1>6 DEF text

\* Whether the process ends or goes on, its buffer stays one.
LEMMA AccessKeeps ==
  ASSUME NEW p \in Node, NEW b \in Buffer, NEW cleared \in Buffer,
         Sized(b), Sized(cleared), Access(p, b, cleared),
         buf \in [Node -> Buffer], \A q \in Node : Sized(buf[q]), ended \subseteq Node
  PROVE  /\ buf' \in [Node -> Buffer] /\ \A q \in Node : Sized(buf'[q])
         /\ ended' \subseteq Node
<1>1. \E x \in {b, cleared} : buf' = [buf EXCEPT ![p] = x]
  BY DEF Access
<1>2. PICK x \in Buffer : buf' = [buf EXCEPT ![p] = x] /\ Sized(x)
  BY <1>1
<1>3. ended' \subseteq Node
  BY DEF Access
<1>4. buf' \in [Node -> Buffer]
  BY <1>2
<1>5. \A q \in Node : buf'[q] = IF q = p THEN x ELSE buf[q]
  BY <1>2
<1> QED
  BY <1>2, <1>3, <1>4, <1>5

\* The parts of TypeInv, for the proofs of the steps.
LEMMA Types ==
  ASSUME TypeInv
  PROVE  /\ buf \in [Node -> Buffer] /\ \A p \in Node : Sized(buf[p])
         /\ ended \subseteq Node /\ cutUp \subseteq CutUp /\ cutDown \subseteq CutDown
         /\ up \in [Client -> Seq(Byte)] /\ down \in [Client -> Seq(Byte)]
         /\ todo \in Seq(Client)
         /\ reply \in [from : Node, text : Seq(Byte)] /\ (todo # <<>> => reply.text # <<>>)
         /\ typed \in [Client -> Texts] /\ handled \in [Client -> Texts]
         /\ told \in [Client -> Texts] /\ shown \in [Client -> Texts]
BY DEF TypeInv, TypeOK, Sized

\* And back.
LEMMA TypesAre ==
  ASSUME buf' \in [Node -> Buffer], \A p \in Node : Sized(buf'[p]),
         ended' \subseteq Node, cutUp' \subseteq CutUp, cutDown' \subseteq CutDown,
         up' \in [Client -> Seq(Byte)], down' \in [Client -> Seq(Byte)],
         todo' \in Seq(Client),
         reply' \in [from : Node, text : Seq(Byte)], todo' # <<>> => reply'.text # <<>>,
         typed' \in [Client -> Texts], handled' \in [Client -> Texts],
         told' \in [Client -> Texts], shown' \in [Client -> Texts]
  PROVE  TypeInv'
<1>1. \A p \in Node : /\ buf'[p].data \in Seq(Byte) /\ buf'[p].wi \in Nat /\ buf'[p].ri \in Nat
                      /\ Len(buf'[p].data) \in {BufSize, BufSize * 2}
  BY DEF Buffer, Sized
<1> QED
  BY <1>1 DEF TypeInv, TypeOK

\* One more text.
LEMMA TextsAppend ==
  ASSUME NEW f \in [Client -> Texts], NEW c \in Client, NEW t \in Seq(Byte)
  PROVE  [f EXCEPT ![c] = Append(@, t)] \in [Client -> Texts]
<1>1. f[c] \in Seq(Seq(Byte))
  BY DEF Texts
<1>2. Append(f[c], t) \in Texts
  BY <1>1 DEF Texts
<1> QED
  BY <1>2

\* A line is typed.
LEMMA TypeLineTypes ==
  ASSUME TypeInv, NEW c \in Client, NEW len \in Lengths, TypeLine(c, len)
  PROVE  TypeInv'
<1> DEFINE n    == Len(typed[c]) + 1
           text == Line(c, n, len)
           b    == WritePacket(buf[c], text)
<1>1. c \in Node /\ buf[c] \in Buffer /\ Sized(buf[c]) /\ typed[c] \in Texts
  BY Types DEF Node
<1>2. text \in Seq(Byte)
  <2>1. Typed < MaxLines
    BY DEF TypeLine
  <2>2. Len(typed[c]) < MaxLines /\ Len(typed[c]) \in Nat /\ MaxLines \in Nat
    BY <1>1, <2>1, MoreLines, FramingAssumption DEF Texts
  <2>3. n \in 1 .. MaxLines
    BY <2>2
  <2> QED
    BY <2>3, LineIs
<1>3. /\ Access(c, b, Rewind(b))
      /\ typed' = [typed EXCEPT ![c] = Append(@, text)]
      /\ \/ UNCHANGED up
         \/ \E x \in Behind : up' = [up EXCEPT ![c] = @ \o Transmitted(b, text, x)]
      /\ UNCHANGED <<down, todo, reply, handled, told, shown, cutUp, cutDown>>
  BY DEF TypeLine
<1> HIDE DEF text
<1>4. b \in Buffer /\ Sized(b)
  BY <1>1, <1>2, WritePacketIs DEF Sized
<1> HIDE DEF b
<1>5. Rewind(b) \in Buffer /\ Sized(Rewind(b))
  BY <1>4, RewindIs DEF Sized
<1>6. /\ buf' \in [Node -> Buffer] /\ \A q \in Node : Sized(buf'[q])
      /\ ended' \subseteq Node
  BY <1>1, <1>3, <1>4, <1>5, AccessKeeps, Types
<1>7. up' \in [Client -> Seq(Byte)]
  <2>1. CASE UNCHANGED up
    BY <2>1, Types
  <2>2. ASSUME NEW x \in Behind, up' = [up EXCEPT ![c] = @ \o Transmitted(b, text, x)]
        PROVE  up' \in [Client -> Seq(Byte)]
    <3>1. x \in Byte /\ up[c] \in Seq(Byte) /\ up \in [Client -> Seq(Byte)]
      BY FramingAssumption, Types
    <3>2. Transmitted(b, text, x) \in Seq(Byte)
      BY <1>2, <1>4, <3>1, TransmittedBytes
    <3>3. up[c] \o Transmitted(b, text, x) \in Seq(Byte)
      BY <3>1, <3>2, ConcatIs
    <3> QED
      BY <2>2, <3>1, <3>3
  <2> QED
    BY <1>3, <2>1, <2>2
<1>8. typed' \in [Client -> Texts]
  BY <1>2, <1>3, TextsAppend, Types
<1> QED
  BY <1>3, <1>6, <1>7, <1>8, Types, TypesAre

\* The server receives.
LEMMA ServerReceivesTypes ==
  ASSUME TypeInv, NEW c \in Client, ServerReceives(c)
  PROVE  TypeInv'
<1>0. PICK n \in IF c \in cutUp THEN AnyPortion(up[c]) ELSE OnePacket(up[c]) :
        LET p    == Parse(Store(buf[Server], SubSeq(up[c], 1, n)))
            text == IF p.texts = <<>> THEN <<>> ELSE p.texts[1]
            ok   == ~Outside(p.buf) /\ Tagged(text)
        IN
        /\ up' = [up EXCEPT ![c] = SubSeq(@, n + 1, Len(@))]
        /\ Access(Server, p.buf, IF ok THEN p.buf ELSE Clear(p.buf))
        /\ handled' = IF ok THEN [handled EXCEPT ![c] = Append(@, text)] ELSE handled
        /\ todo' = IF ok THEN [i \in Client |-> i] ELSE <<>>
        /\ reply' = IF ok THEN [from |-> c, text |-> text] ELSE reply
  BY DEF ServerReceives
<1> DEFINE s    == SubSeq(up[c], 1, n)
           st   == Store(buf[Server], s)
           p    == Parse(st)
           text == IF p.texts = <<>> THEN <<>> ELSE p.texts[1]
           ok   == ~Outside(p.buf) /\ Tagged(text)
<1>1. /\ Server \in Node /\ buf[Server] \in Buffer /\ Sized(buf[Server])
      /\ c \in Node /\ up[c] \in Seq(Byte)
  BY Types DEF Node
<1>2. n \in 0 .. Len(up[c])
  BY <1>1, PortionIs
<1>3. s \in Seq(Byte) /\ SubSeq(up[c], n + 1, Len(up[c])) \in Seq(Byte)
  BY <1>1, <1>2, CutIs
<1>4. st \in Buffer /\ Sized(st)
  BY <1>1, <1>3, StoreIs DEF Sized
<1>5. /\ up' = [up EXCEPT ![c] = SubSeq(@, n + 1, Len(@))]
      /\ Access(Server, p.buf, IF ok THEN p.buf ELSE Clear(p.buf))
      /\ handled' = IF ok THEN [handled EXCEPT ![c] = Append(@, text)] ELSE handled
      /\ todo' = IF ok THEN [i \in Client |-> i] ELSE <<>>
      /\ reply' = IF ok THEN [from |-> c, text |-> text] ELSE reply
  BY <1>0
<1>6. UNCHANGED <<down, typed, told, shown, cutUp, cutDown>>
  BY DEF ServerReceives
<1> HIDE DEF s, st
<1>7. /\ p.buf \in Buffer /\ Sized(p.buf)
      /\ p.texts = <<>> \/ \E t \in Seq(Byte) : p.texts = <<t>>
  BY <1>4, ParseIs
<1> HIDE DEF p
<1>8. text \in Seq(Byte)
  BY <1>7
<1>9. ok => text # <<>>
  BY <1>8, FramingAssumption DEF Tagged
<1> HIDE DEF text, ok
<1>10. Clear(p.buf) \in Buffer /\ Sized(Clear(p.buf))
  BY <1>7, ClearIs DEF Sized
<1>11. /\ buf' \in [Node -> Buffer] /\ \A q \in Node : Sized(buf'[q])
       /\ ended' \subseteq Node
  <2> DEFINE cleared == IF ok THEN p.buf ELSE Clear(p.buf)
  <2>1. cleared \in Buffer /\ Sized(cleared)
    BY <1>7, <1>10
  <2>2. Access(Server, p.buf, cleared)
    BY <1>5
  <2> HIDE DEF cleared
  <2> QED
    BY <1>1, <1>7, <2>1, <2>2, AccessKeeps, Types
<1>12. up' \in [Client -> Seq(Byte)]
  BY <1>3, <1>5, Types
<1>13. handled' \in [Client -> Texts]
  BY <1>5, <1>8, TextsAppend, Types
<1>14. todo' \in Seq(Client)
  <2>1. [i \in Client |-> i] \in Seq(Client)
    BY FramingAssumption DEF Client
  <2> QED
    BY <1>5, <2>1
<1>15. reply' \in [from : Node, text : Seq(Byte)]
  BY <1>1, <1>5, <1>8, Types
<1>16. todo' # <<>> => reply'.text # <<>>
  BY <1>5, <1>9
<1> QED
  BY <1>6, <1>11, <1>12, <1>13, <1>14, <1>15, <1>16, Types, TypesAre

\* The server tells one recipient.
LEMMA ServerTellsTypes ==
  ASSUME TypeInv, ServerTells
  PROVE  TypeInv'
<1> DEFINE d    == Head(todo)
           text == Told(d)
           b    == WritePacket(buf[Server], text)
<1>1. /\ Server \in Node /\ buf[Server] \in Buffer /\ Sized(buf[Server])
      /\ todo \in Seq(Client) /\ todo # <<>>
  BY Types DEF Node, ServerTells
<1>2. d \in Client /\ Tail(todo) \in Seq(Client)
  BY <1>1, HeadTailProperties
<1>3. text \in Seq(Byte)
  BY <1>1, <1>2, ToldIs, Types
<1>4. /\ Access(Server, b, Clear(b))
      /\ \/ UNCHANGED <<down, told>>
         \/ /\ \E x \in Behind : down' = [down EXCEPT ![d] = @ \o Transmitted(b, text, x)]
            /\ told' = [told EXCEPT ![d] = Append(@, text)]
      /\ todo' = Tail(todo)
      /\ UNCHANGED <<up, reply, typed, handled, shown, cutUp, cutDown>>
  BY DEF ServerTells
<1> HIDE DEF d, text
<1>5. b \in Buffer /\ Sized(b)
  BY <1>1, <1>3, WritePacketIs DEF Sized
<1> HIDE DEF b
<1>6. Clear(b) \in Buffer /\ Sized(Clear(b))
  BY <1>5, ClearIs DEF Sized
<1>7. /\ buf' \in [Node -> Buffer] /\ \A q \in Node : Sized(buf'[q])
      /\ ended' \subseteq Node
  BY <1>1, <1>4, <1>5, <1>6, AccessKeeps, Types
<1>8. down' \in [Client -> Seq(Byte)] /\ told' \in [Client -> Texts]
  <2>1. CASE UNCHANGED <<down, told>>
    BY <2>1, Types
  <2>2. ASSUME NEW x \in Behind, down' = [down EXCEPT ![d] = @ \o Transmitted(b, text, x)],
               told' = [told EXCEPT ![d] = Append(@, text)]
        PROVE  down' \in [Client -> Seq(Byte)] /\ told' \in [Client -> Texts]
    <3>1. x \in Byte /\ down[d] \in Seq(Byte) /\ down \in [Client -> Seq(Byte)]
      BY <1>2, FramingAssumption, Types
    <3>2. Transmitted(b, text, x) \in Seq(Byte)
      BY <1>3, <1>5, <3>1, TransmittedBytes
    <3>3. down[d] \o Transmitted(b, text, x) \in Seq(Byte)
      BY <3>1, <3>2, ConcatIs
    <3>4. told' \in [Client -> Texts]
      BY <1>2, <1>3, <2>2, TextsAppend, Types
    <3> QED
      BY <2>2, <3>1, <3>3, <3>4
  <2> QED
    BY <1>4, <2>1, <2>2
<1> QED
  BY <1>1, <1>2, <1>4, <1>7, <1>8, Types, TypesAre

\* A client receives.
LEMMA ClientReceivesTypes ==
  ASSUME TypeInv, NEW c \in Client, ClientReceives(c)
  PROVE  TypeInv'
<1>0. PICK n \in IF c \in cutDown THEN AnyPortion(down[c]) ELSE OnePacket(down[c]) :
        LET p == Parse(Store(buf[c], SubSeq(down[c], 1, n))) IN
        /\ down' = [down EXCEPT ![c] = SubSeq(@, n + 1, Len(@))]
        /\ Access(c, p.buf, Clear(p.buf))
        /\ shown' = IF Outside(p.buf) THEN shown ELSE [shown EXCEPT ![c] = @ \o p.texts]
  BY DEF ClientReceives
<1> DEFINE s    == SubSeq(down[c], 1, n)
           st   == Store(buf[c], s)
           p    == Parse(st)
<1>1. c \in Node /\ buf[c] \in Buffer /\ Sized(buf[c]) /\ down[c] \in Seq(Byte)
  BY Types DEF Node
<1>2. n \in 0 .. Len(down[c])
  BY <1>1, PortionIs
<1>3. s \in Seq(Byte) /\ SubSeq(down[c], n + 1, Len(down[c])) \in Seq(Byte)
  BY <1>1, <1>2, CutIs
<1>4. st \in Buffer /\ Sized(st)
  BY <1>1, <1>3, StoreIs DEF Sized
<1>5. /\ down' = [down EXCEPT ![c] = SubSeq(@, n + 1, Len(@))]
      /\ Access(c, p.buf, Clear(p.buf))
      /\ shown' = IF Outside(p.buf) THEN shown ELSE [shown EXCEPT ![c] = @ \o p.texts]
  BY <1>0
<1>6. UNCHANGED <<up, todo, reply, typed, handled, told, cutUp, cutDown>>
  BY DEF ClientReceives
<1> HIDE DEF s, st
<1>7. /\ p.buf \in Buffer /\ Sized(p.buf)
      /\ p.texts = <<>> \/ \E t \in Seq(Byte) : p.texts = <<t>>
  BY <1>4, ParseIs
<1> HIDE DEF p
<1>8. Clear(p.buf) \in Buffer /\ Sized(Clear(p.buf))
  BY <1>7, ClearIs DEF Sized
<1>9. /\ buf' \in [Node -> Buffer] /\ \A q \in Node : Sized(buf'[q])
      /\ ended' \subseteq Node
  BY <1>1, <1>5, <1>7, <1>8, AccessKeeps, Types
<1>10. down' \in [Client -> Seq(Byte)]
  BY <1>3, <1>5, Types
<1>11. shown' \in [Client -> Texts]
  <2>1. p.texts \in Seq(Seq(Byte))
    <3>1. <<>> \in Seq(Seq(Byte)) /\ \A t \in Seq(Byte) : <<t>> \in Seq(Seq(Byte))
      OBVIOUS
    <3> QED
      BY <1>7, <3>1, Zenon
  <2>2. shown[c] \in Seq(Seq(Byte))
    BY Types DEF Texts
  <2>3. shown[c] \o p.texts \in Texts
    BY <2>1, <2>2 DEF Texts
  <2> QED
    BY <1>5, <2>3, Types
<1> QED
  BY <1>6, <1>9, <1>10, <1>11, Types, TypesAre

\* Every step keeps the types.
LEMMA StepTypes == TypeInv /\ [Next]_vars => TypeInv'
<1> SUFFICES ASSUME TypeInv, [Next]_vars
             PROVE  TypeInv'
  OBVIOUS
<1>1. ASSUME NEW c \in Client, NEW len \in Lengths, TypeLine(c, len)
      PROVE  TypeInv'
  BY <1>1, TypeLineTypes
<1>2. ASSUME NEW c \in Client, ServerReceives(c)
      PROVE  TypeInv'
  BY <1>2, ServerReceivesTypes
<1>3. ASSUME NEW c \in Client, ClientReceives(c)
      PROVE  TypeInv'
  BY <1>3, ClientReceivesTypes
<1>4. CASE ServerTells
  BY <1>4, ServerTellsTypes
<1>5. CASE UNCHANGED vars
  BY <1>5, Types, TypesAre DEF vars
<1> QED
  BY <1>1, <1>2, <1>3, <1>4, <1>5 DEF Next, Quiet

\* The initial state has the types.
LEMMA InitTypes == Init => TypeInv
<1> SUFFICES ASSUME Init
             PROVE  TypeInv
  OBVIOUS
<1>1. buf \in [Node -> Buffer] /\ \A p \in Node : buf[p] = Empty
  BY EmptyIs DEF Init
<1>2. Empty.data \in Seq(Byte) /\ Empty.wi \in Nat /\ Empty.ri \in Nat
  BY EmptyIs DEF Buffer
<1>3. \A p \in Node : /\ buf[p].data \in Seq(Byte) /\ buf[p].wi \in Nat /\ buf[p].ri \in Nat
                      /\ Len(buf[p].data) \in {BufSize, BufSize * 2}
  BY <1>1, <1>2, EmptyIs
<1>4. /\ up \in [Client -> Seq(Byte)] /\ down \in [Client -> Seq(Byte)]
      /\ typed \in [Client -> Texts] /\ handled \in [Client -> Texts]
      /\ told \in [Client -> Texts] /\ shown \in [Client -> Texts]
  BY DEF Init, Texts
<1>5. /\ todo \in Seq(Client) /\ todo = <<>>
      /\ reply \in [from : Node, text : Seq(Byte)]
      /\ ended \subseteq Node /\ cutUp \subseteq CutUp /\ cutDown \subseteq CutDown
  BY DEF Init, None, Node
<1> QED
  BY <1>1, <1>3, <1>4, <1>5 DEF TypeInv, TypeOK

\* The buffers keep their two sizes and everything in them, in the streams and
\* among the texts is bytes, however recv() cuts the streams.
THEOREM FramingTypeCorrect == Spec => []TypeOK
<1>1. TypeInv => TypeOK
  BY DEF TypeInv
<1> QED
  BY <1>1, InitTypes, StepTypes, PTL DEF Spec

-----------------------------------------------------------------------------
(* Streams of packets.                                                     *)

\* The stream s carries, one packet behind the other and nothing else, the texts of
\* q from the (k + 1)-th on: at[i] is where the packet of the i-th ends.
Carries(s, q, k) ==
  \E at \in [k .. Len(q) -> 0 .. Len(s)] :
    /\ at[k] = 0 /\ at[Len(q)] = Len(s)
    /\ \A i, j \in k .. Len(q) : i <= j => at[i] <= at[j]
    /\ \A i \in k + 1 .. Len(q) :
         at[i] = at[i - 1] + PacketSize(q[i]) /\ Begins(s, at[i - 1], q[i])

\* Of the texts sent those got have arrived, and the others are on the way.
Arrived(s, sent, got) ==
  /\ Len(got) <= Len(sent)
  /\ \A i \in 1 .. Len(got) : got[i] = sent[i]
  /\ Carries(s, sent, Len(got))

\* A stream without bytes carries nothing.
LEMMA CarriesNothing ==
  ASSUME NEW q \in Texts, NEW k \in 0 .. Len(q), Carries(<<>>, q, k)
  PROVE  k = Len(q)
<1>1. PICK at \in [k .. Len(q) -> 0 .. 0] :
        \A i \in k + 1 .. Len(q) : at[i] = at[i - 1] + PacketSize(q[i])
  BY DEF Carries
<1>2. Len(q) \in Nat /\ q \in Seq(Seq(Byte))
  BY DEF Texts
<1>3. SUFFICES ASSUME k < Len(q)
               PROVE  FALSE
  BY <1>2
<1>4. k + 1 \in k + 1 .. Len(q) /\ k + 1 \in k .. Len(q) /\ k \in k .. Len(q) /\ k + 1 - 1 = k
  BY <1>2, <1>3
<1>5. at[k + 1] = at[k] + PacketSize(q[k + 1])
  BY <1>1, <1>4
<1>6. at[k + 1] = 0 /\ at[k] = 0
  BY <1>1, <1>4
<1>7. q[k + 1] \in Seq(Byte)
  BY <1>2, <1>3
<1>8. PacketSize(q[k + 1]) \in Nat /\ PacketSize(q[k + 1]) >= 12
  BY <1>7, PacketSizeIs
<1> QED
  BY <1>5, <1>6, <1>8

\* Nothing was sent, and the stream is empty.
LEMMA CarriesInit == Carries(<<>>, <<>>, 0)
<1> DEFINE at == [i \in 0 .. 0 |-> 0]
<1>1. at \in [0 .. Len(<<>>) -> 0 .. Len(<<>>)]
  OBVIOUS
<1>2. at[0] = 0 /\ at[Len(<<>>)] = Len(<<>>)
  OBVIOUS
<1>3. \A i, j \in 0 .. Len(<<>>) : i <= j => at[i] <= at[j]
  OBVIOUS
<1>4. \A i \in 0 + 1 .. Len(<<>>) : FALSE
  OBVIOUS
<1> HIDE DEF at
<1> QED
  BY <1>1, <1>2, <1>3, <1>4 DEF Carries

\* A packet within the first bytes of a stream stays there when more follows.
LEMMA BeginsConcat ==
  ASSUME NEW s \in Seq(Byte), NEW p \in Seq(Byte), NEW k \in Nat, NEW t \in Seq(Byte),
         Begins(s, k, t)
  PROVE  Begins(s \o p, k, t)
<1>1. /\ Len(t) \in Nat /\ PacketSize(t) = Len(t) + 12 /\ Len(s) \in Nat /\ Len(p) \in Nat
      /\ k + PacketSize(t) <= Len(s)
  BY PacketSizeIs DEF Begins
<1> DEFINE u == s \o p
<1>2. /\ Len(u) = Len(s) + Len(p)
      /\ \A i \in 1 .. Len(s) : u[i] = s[i]
  BY ConcatIs, Zenon
<1> HIDE DEF u
<1>3. \A i \in 1 .. 8 : u[k + i] = Header(t)[i]
  <2> TAKE i \in 1 .. 8
  <2>1. k + i \in 1 .. Len(s)
    BY <1>1
  <2>2. s[k + i] = Header(t)[i]
    BY DEF Begins
  <2> QED
    BY <1>2, <2>1, <2>2
<1>4. \A i \in 1 .. Len(t) : u[k + 8 + i] = t[i]
  <2> TAKE i \in 1 .. Len(t)
  <2>1. k + 8 + i \in 1 .. Len(s)
    BY <1>1
  <2>2. s[k + 8 + i] = t[i]
    BY DEF Begins
  <2> QED
    BY <1>2, <2>1, <2>2
<1>5. k + PacketSize(t) <= Len(u)
  BY <1>1, <1>2
<1> QED
  BY <1>3, <1>4, <1>5 DEF Begins, u

\* The packet behind the end of a stream begins there.
LEMMA BeginsBehind ==
  ASSUME NEW s \in Seq(Byte), NEW p \in Seq(Byte), NEW t \in Seq(Byte), Begins(p, 0, t)
  PROVE  Begins(s \o p, Len(s), t)
<1>1. /\ Len(t) \in Nat /\ PacketSize(t) = Len(t) + 12 /\ Len(s) \in Nat /\ Len(p) \in Nat
      /\ 0 + PacketSize(t) <= Len(p)
  BY PacketSizeIs DEF Begins
<1> DEFINE u == s \o p
<1>2. /\ Len(u) = Len(s) + Len(p)
      /\ \A i \in 1 .. Len(p) : u[Len(s) + i] = p[i]
  BY ConcatIs, Zenon
<1> HIDE DEF u
<1>3. \A i \in 1 .. 8 : u[Len(s) + i] = Header(t)[i]
  <2> TAKE i \in 1 .. 8
  <2>1. i \in 1 .. Len(p) /\ 0 + i = i
    BY <1>1
  <2>2. p[0 + i] = Header(t)[i]
    BY DEF Begins
  <2> QED
    BY <1>2, <2>1, <2>2
<1>4. \A i \in 1 .. Len(t) : u[Len(s) + 8 + i] = t[i]
  <2> TAKE i \in 1 .. Len(t)
  <2>1. 8 + i \in 1 .. Len(p) /\ 0 + 8 + i = 8 + i /\ Len(s) + 8 + i = Len(s) + (8 + i)
    BY <1>1
  <2>2. p[0 + 8 + i] = t[i]
    BY DEF Begins
  <2> QED
    BY <1>2, <2>1, <2>2
<1>5. Len(s) + PacketSize(t) <= Len(u)
  BY <1>1, <1>2
<1> QED
  BY <1>3, <1>4, <1>5 DEF Begins, u

\* A packet begins earlier when what is in front of it has been taken.
LEMMA BeginsRest ==
  ASSUME NEW s \in Seq(Byte), NEW n \in 0 .. Len(s), NEW k \in Nat, k >= n,
         NEW t \in Seq(Byte), Begins(s, k, t)
  PROVE  Begins(SubSeq(s, n + 1, Len(s)), k - n, t)
<1> DEFINE u == SubSeq(s, n + 1, Len(s))
<1>1. /\ Len(t) \in Nat /\ PacketSize(t) = Len(t) + 12 /\ Len(s) \in Nat
      /\ k + PacketSize(t) <= Len(s)
  BY PacketSizeIs DEF Begins
<1>2. Len(u) = Len(s) - n /\ \A i \in 1 .. Len(s) - n : u[i] = s[n + i]
  BY CutIs
<1> HIDE DEF u
<1>3. \A i \in 1 .. 8 : u[k - n + i] = Header(t)[i]
  <2> TAKE i \in 1 .. 8
  <2>1. k - n + i \in 1 .. Len(s) - n /\ n + (k - n + i) = k + i
    BY <1>1
  <2>2. s[k + i] = Header(t)[i]
    BY DEF Begins
  <2> QED
    BY <1>2, <2>1, <2>2
<1>4. \A i \in 1 .. Len(t) : u[k - n + 8 + i] = t[i]
  <2> TAKE i \in 1 .. Len(t)
  <2>1. k - n + 8 + i \in 1 .. Len(s) - n /\ n + (k - n + 8 + i) = k + 8 + i
    BY <1>1
  <2>2. s[k + 8 + i] = t[i]
    BY DEF Begins
  <2> QED
    BY <1>2, <2>1, <2>2
<1>5. (k - n) + PacketSize(t) <= Len(u)
  BY <1>1, <1>2
<1> QED
  BY <1>3, <1>4, <1>5 DEF Begins, u

\* A packet more is sent.
LEMMA CarriesMore ==
  ASSUME NEW s \in Seq(Byte), NEW q \in Texts, NEW k \in 0 .. Len(q), Carries(s, q, k),
         NEW t \in Seq(Byte), NEW p \in Seq(Byte), Len(p) = PacketSize(t), Begins(p, 0, t)
  PROVE  Carries(s \o p, Append(q, t), k)
<1> DEFINE u == s \o p
           r == Append(q, t)
           m == Len(q)
<1>0. /\ m \in Nat /\ q \in Seq(Seq(Byte)) /\ Len(s) \in Nat
      /\ PacketSize(t) \in Nat /\ PacketSize(t) >= 12
  BY PacketSizeIs DEF Texts
<1>1. Len(u) = Len(s) + PacketSize(t)
  <2>1. Len(u) = Len(s) + Len(p)
    BY ConcatIs, Zenon
  <2> QED
    BY <2>1
<1>2. Len(r) = m + 1 /\ (\A i \in 1 .. m : r[i] = q[i]) /\ r[m + 1] = t
  BY <1>0, AppendProperties
<1>3. PICK at \in [k .. m -> 0 .. Len(s)] :
        /\ at[k] = 0 /\ at[m] = Len(s)
        /\ \A i, j \in k .. m : i <= j => at[i] <= at[j]
        /\ \A i \in k + 1 .. m : at[i] = at[i - 1] + PacketSize(q[i])
                                 /\ Begins(s, at[i - 1], q[i])
  BY DEF Carries
<1>4. \A i \in k + 1 .. m : Begins(u, at[i - 1], q[i])
  <2> TAKE i \in k + 1 .. m
  <2>1. i - 1 \in k .. m /\ i \in 1 .. m
    BY <1>0
  <2>2. q[i] \in Seq(Byte)
    BY <1>0, <2>1
  <2>3. at[i - 1] \in 0 .. Len(s)
    BY <1>3, <2>1, Zenon
  <2>4. at[i - 1] \in Nat
    BY <1>0, <2>3
  <2> QED
    BY <1>3, <2>2, <2>4, BeginsConcat
<1>5. Begins(u, Len(s), t)
  BY BeginsBehind
<1> HIDE DEF u, r, m
<1> DEFINE to == [i \in k .. m + 1 |-> IF i <= m THEN at[i] ELSE Len(u)]
<1>6. \A i \in k .. m : i \in k .. m + 1 /\ to[i] = at[i] /\ at[i] \in 0 .. Len(s)
  BY <1>0, <1>3
<1>7. to[m + 1] = Len(u) /\ m + 1 \in k .. m + 1
  BY <1>0 DEF m
<1>8. to \in [k .. m + 1 -> 0 .. Len(u)]
  BY <1>0, <1>1, <1>3
<1>9. k \in k .. m /\ m \in k .. m
  BY <1>0 DEF m
<1> HIDE DEF to
<1>10. to[k] = 0
  BY <1>3, <1>6, <1>9
<1>11. \A i, j \in k .. m + 1 : i <= j => to[i] <= to[j]
  <2> TAKE i, j \in k .. m + 1
  <2> HAVE i <= j
  <2>1. CASE j <= m
    <3>1. i \in k .. m /\ j \in k .. m
      BY <1>0, <2>1
    <3> QED
      BY <1>3, <1>6, <3>1
  <2>2. CASE j > m
    <3>1. j = m + 1
      BY <1>0, <2>2
    <3> QED
      BY <1>0, <1>1, <1>7, <1>8, <3>1
  <2> QED
    BY <1>0, <2>1, <2>2
<1>12. \A i \in k + 1 .. m + 1 :
         to[i] = to[i - 1] + PacketSize(r[i]) /\ Begins(u, to[i - 1], r[i])
  <2> TAKE i \in k + 1 .. m + 1
  <2>1. CASE i <= m
    <3>1. i \in k + 1 .. m /\ i \in k .. m /\ i - 1 \in k .. m /\ i \in 1 .. m
      BY <1>0, <2>1
    <3>2. to[i] = at[i] /\ to[i - 1] = at[i - 1] /\ r[i] = q[i]
      BY <1>2, <1>6, <3>1
    <3> QED
      BY <1>3, <1>4, <3>1, <3>2
  <2>2. CASE i > m
    <3>1. i = m + 1 /\ i - 1 = m /\ m \in k .. m
      BY <1>0, <1>9, <2>2
    <3>2. to[m] = Len(s)
      BY <1>3, <1>6, <1>9
    <3> QED
      BY <1>1, <1>2, <1>5, <1>7, <3>1, <3>2
  <2> QED
    BY <1>0, <2>1, <2>2
<1>13. Carries(u, r, k)
  BY <1>2, <1>7, <1>8, <1>10, <1>11, <1>12 DEF Carries
<1> QED
  BY <1>13 DEF u, r

\* What the stream begins with is the packet of the next text, and behind it are the
\* packets of the others.
LEMMA CarriesFirst ==
  ASSUME NEW s \in Seq(Byte), s # <<>>, NEW q \in Texts, NEW k \in 0 .. Len(q),
         Carries(s, q, k)
  PROVE  /\ k + 1 \in 1 .. Len(q) /\ q[k + 1] \in Seq(Byte)
         /\ Begins(s, 0, q[k + 1])
         /\ Carries(SubSeq(s, PacketSize(q[k + 1]) + 1, Len(s)), q, k + 1)
<1> DEFINE m == Len(q)
           t == q[k + 1]
           n == PacketSize(t)
           u == SubSeq(s, n + 1, Len(s))
<1>0. m \in Nat /\ q \in Seq(Seq(Byte)) /\ Len(s) \in Nat /\ Len(s) > 0
  BY DEF Texts
<1>1. PICK at \in [k .. m -> 0 .. Len(s)] :
        /\ at[k] = 0 /\ at[m] = Len(s)
        /\ \A i, j \in k .. m : i <= j => at[i] <= at[j]
        /\ \A i \in k + 1 .. m : at[i] = at[i - 1] + PacketSize(q[i])
                                 /\ Begins(s, at[i - 1], q[i])
  BY DEF Carries
<1>2. k < m
  BY <1>0, <1>1
<1>3. /\ k + 1 \in 1 .. m /\ k + 1 \in k + 1 .. m /\ k + 1 - 1 = k
      /\ k \in k .. m /\ k + 1 \in k .. m /\ m \in k + 1 .. m
  BY <1>0, <1>2
<1>4. t \in Seq(Byte)
  BY <1>0, <1>3
<1>5. n \in Nat /\ n >= 12
  BY <1>4, PacketSizeIs
<1>6. at[k + 1] = n /\ Begins(s, 0, t)
  <2>1. /\ at[k + 1] = at[k + 1 - 1] + PacketSize(q[k + 1])
        /\ Begins(s, at[k + 1 - 1], q[k + 1])
    BY <1>1, <1>3
  <2> HIDE DEF n, t
  <2>2. at[k + 1] = 0 + n /\ Begins(s, 0, t)
    BY <1>1, <1>3, <2>1 DEF n, t
  <2> QED
    BY <1>5, <2>2
<1>7. n \in 0 .. Len(s)
  BY <1>1, <1>3, <1>6
<1>8. Len(u) = Len(s) - n
  BY <1>7, CutIs
<1> DEFINE to == [i \in k + 1 .. m |-> at[i] - n]
<1> HIDE DEF n, t, u
<1>9. \A i \in k + 1 .. m : at[i] \in n .. Len(s)
  <2> TAKE i \in k + 1 .. m
  <2>1. i \in k .. m /\ k + 1 <= i
    BY <1>0, <1>2
  <2>2. at[k + 1] <= at[i] /\ at[i] \in 0 .. Len(s)
    BY <1>1, <1>3, <2>1
  <2> QED
    BY <1>5, <1>6, <2>2
<1>10. to \in [k + 1 .. m -> 0 .. Len(u)]
  BY <1>0, <1>7, <1>8, <1>9
<1>11. to[k + 1] = 0 /\ to[m] = Len(u)
  BY <1>0, <1>1, <1>3, <1>5, <1>6, <1>8
<1>12. \A i, j \in k + 1 .. m : i <= j => to[i] <= to[j]
  <2> TAKE i, j \in k + 1 .. m
  <2> HAVE i <= j
  <2>1. i \in k .. m /\ j \in k .. m
    BY <1>0, <1>2
  <2>2. at[i] <= at[j]
    BY <1>1, <2>1
  <2> QED
    BY <1>5, <1>9, <2>2
<1>13. \A i \in (k + 1) + 1 .. m :
         to[i] = to[i - 1] + PacketSize(q[i]) /\ Begins(u, to[i - 1], q[i])
  <2> TAKE i \in (k + 1) + 1 .. m
  <2>1. i \in k + 1 .. m /\ i - 1 \in k + 1 .. m /\ i \in 1 .. m
    BY <1>0, <1>2
  <2>2. /\ at[i] = at[i - 1] + PacketSize(q[i]) /\ Begins(s, at[i - 1], q[i])
        /\ to[i] = at[i] - n /\ to[i - 1] = at[i - 1] - n
    BY <1>1, <2>1
  <2>3. q[i] \in Seq(Byte) /\ PacketSize(q[i]) \in Nat
    BY <1>0, <2>1, PacketSizeIs
  <2>4. at[i - 1] \in Nat /\ at[i - 1] >= n
    BY <1>5, <1>9, <2>1
  <2> HIDE DEF to
  <2>5. Begins(u, at[i - 1] - n, q[i])
    BY <1>7, <2>2, <2>3, <2>4, BeginsRest DEF u
  <2> QED
    BY <1>5, <2>2, <2>3, <2>4, <2>5
<1> HIDE DEF to
<1>14. Carries(u, q, k + 1)
  BY <1>10, <1>11, <1>12, <1>13 DEF Carries
<1> QED
  BY <1>3, <1>4, <1>6, <1>14 DEF u, t, n

\* A recv() on a stream that begins with a packet that fits returns that packet.
LEMMA OnePacketIs ==
  ASSUME NEW s \in Seq(Byte), NEW t \in Seq(Byte), Begins(s, 0, t), PacketSize(t) <= BufSize
  PROVE  OnePacket(s) = {PacketSize(t)}
<1> DEFINE n    == PacketSize(t)
           long == s \o <<0, 0, 0, 0>>
           four == SubSeq(long, 1, 4)
           u    == U32(n)
<1>1. /\ Len(t) \in Nat /\ n \in Nat /\ n = Len(t) + 12 /\ Len(s) \in Nat /\ n <= Len(s)
      /\ n <= BufSize /\ BufSize \in Nat /\ BufSize < Base * Base /\ Base \in Nat
  BY PacketSizeIs, BytesAssumption, FramingAssumption DEF Begins
<1>2. u \in Seq(Byte) /\ Len(u) = 4
  BY <1>1, BytesOf
<1>3. \A i \in 1 .. 4 : s[i] = u[i]
  <2>1. \A i \in 1 .. 8 : s[i] = Header(t)[i]
    BY DEF Begins
  <2>2. \A i \in 1 .. 4 : Header(t)[i] = u[i]
    BY HeaderIs
  <2> HIDE DEF u
  <2> QED
    BY <2>1, <2>2
<1> HIDE DEF u, n
<1>4. long \in Seq(Byte) /\ Len(long) = Len(s) + 4 /\ \A i \in 1 .. 4 : long[i] = s[i]
  <2> DEFINE z == <<0, 0, 0, 0>>
  <2>1. z \in Seq(Byte) /\ Len(z) = 4
    BY BytesAssumption DEF Byte
  <2> HIDE DEF z
  <2>2. /\ s \o z \in Seq(Byte) /\ Len(s \o z) = Len(s) + Len(z)
        /\ \A i \in 1 .. Len(s) : (s \o z)[i] = s[i]
    BY <2>1, ConcatIs, Zenon
  <2>3. \A i \in 1 .. 4 : i \in 1 .. Len(s)
    BY <1>1
  <2>4. long = s \o z
    BY DEF z
  <2> HIDE DEF long
  <2> QED
    BY <2>1, <2>2, <2>3, <2>4
<1> HIDE DEF long
<1>5. four \in Seq(Byte) /\ Len(four) = 4 /\ \A i \in 1 .. 4 : four[i] = long[i]
  <2>1. 4 \in 0 .. Len(long)
    BY <1>1, <1>4
  <2> QED
    BY <1>4, <2>1, CutIs, Zenon
<1> HIDE DEF four
<1>6. four = u
  BY <1>2, <1>3, <1>4, <1>5, SeqEqual
<1>7. Number(four) = n
  <2>1. n < Base * Base
    BY <1>1
  <2>2. Number(U32(n)) = n
    BY <1>1, <2>1, U32RoundTrip
  <2> QED
    BY <1>6, <2>2 DEF u
<1>8. OnePacket(s) = IF Number(four) \in 12 .. Len(s)
                     THEN {IF Number(four) <= BufSize THEN Number(four) ELSE BufSize}
                     ELSE AnyPortion(s)
  BY DEF OnePacket, four, long
<1> QED
  BY <1>1, <1>7, <1>8 DEF n

\* A text is sent.
LEMMA ArrivedSend ==
  ASSUME NEW s \in Seq(Byte), NEW sent \in Texts, NEW got \in Texts, Arrived(s, sent, got),
         NEW t \in Seq(Byte), NEW p \in Seq(Byte), Len(p) = PacketSize(t), Begins(p, 0, t)
  PROVE  Arrived(s \o p, Append(sent, t), got)
<1>1. /\ Len(got) \in 0 .. Len(sent) /\ Len(got) \in Nat /\ Len(sent) \in Nat
      /\ sent \in Seq(Seq(Byte))
  BY DEF Arrived, Texts
<1> DEFINE r == Append(sent, t)
<1>2. Len(r) = Len(sent) + 1 /\ \A i \in 1 .. Len(sent) : r[i] = sent[i]
  BY <1>1, AppendProperties
<1>3. Carries(s \o p, r, Len(got))
  BY <1>1, CarriesMore DEF Arrived
<1> HIDE DEF r
<1>4. \A i \in 1 .. Len(got) : got[i] = r[i]
  <2> TAKE i \in 1 .. Len(got)
  <2>1. i \in 1 .. Len(sent)
    BY <1>1
  <2> QED
    BY <1>2, <2>1 DEF Arrived
<1>5. Len(got) <= Len(r)
  BY <1>1, <1>2
<1> QED
  BY <1>3, <1>4, <1>5 DEF Arrived, r

\* A text is received: it is the next one sent.
LEMMA ArrivedReceive ==
  ASSUME NEW s \in Seq(Byte), s # <<>>, NEW sent \in Texts, NEW got \in Texts,
         Arrived(s, sent, got)
  PROVE  LET t == sent[Len(got) + 1] IN
         /\ Len(got) + 1 \in DOMAIN sent /\ t \in Seq(Byte)
         /\ Begins(s, 0, t)
         /\ Arrived(SubSeq(s, PacketSize(t) + 1, Len(s)), sent, Append(got, t))
<1> DEFINE k == Len(got)
           t == sent[k + 1]
           u == SubSeq(s, PacketSize(t) + 1, Len(s))
           r == Append(got, t)
<1>1. /\ k \in 0 .. Len(sent) /\ k \in Nat /\ Len(sent) \in Nat
      /\ got \in Seq(Seq(Byte)) /\ sent \in Seq(Seq(Byte))
  BY DEF Arrived, Texts
<1>2. /\ k + 1 \in 1 .. Len(sent) /\ t \in Seq(Byte) /\ Begins(s, 0, t)
      /\ Carries(u, sent, k + 1)
  BY <1>1, CarriesFirst DEF Arrived
<1> HIDE DEF t, u
<1>3. Len(r) = k + 1 /\ (\A i \in 1 .. k : r[i] = got[i]) /\ r[k + 1] = t
  BY <1>1, <1>2, AppendProperties
<1> HIDE DEF r
<1>4. \A i \in 1 .. Len(r) : r[i] = sent[i]
  <2> TAKE i \in 1 .. Len(r)
  <2>1. CASE i = k + 1
    BY <1>3, <2>1 DEF t
  <2>2. CASE i # k + 1
    <3>1. i \in 1 .. k
      BY <1>1, <1>3, <2>2
    <3> QED
      BY <1>3, <3>1 DEF Arrived
  <2> QED
    BY <2>1, <2>2
<1>5. Len(r) <= Len(sent)
  BY <1>1, <1>2, <1>3
<1>6. Arrived(u, sent, r)
  BY <1>2, <1>3, <1>4, <1>5 DEF Arrived
<1> QED
  BY <1>1, <1>2, <1>6 DEF u, t, r

\* What has arrived is a beginning of what was sent, and everything when nothing
\* is on the way.
LEMMA ArrivedIsPrefix ==
  ASSUME NEW s \in Seq(Byte), NEW sent \in Texts, NEW got \in Texts, Arrived(s, sent, got)
  PROVE  IsPrefix(got, sent) /\ (s = <<>> => got = sent)
<1>1. /\ Len(got) \in 0 .. Len(sent) /\ Len(got) \in Nat /\ Len(sent) \in Nat
      /\ got \in Seq(Seq(Byte)) /\ sent \in Seq(Seq(Byte))
      /\ \A i \in 1 .. Len(got) : got[i] = sent[i]
  BY DEF Arrived, Texts
<1> DEFINE a == SubSeq(got, 1, Len(got))
           b == SubSeq(sent, 1, Len(got))
<1>2. a \in Seq(Seq(Byte)) /\ Len(a) = Len(got) /\ \A i \in 1 .. Len(got) : a[i] = got[i]
  <2>1. \A i \in 1 .. Len(got) : got[i] \in Seq(Byte)
    BY <1>1
  <2>2. /\ a \in Seq(Seq(Byte))
        /\ Len(a) = IF 1 <= Len(got) THEN Len(got) - 1 + 1 ELSE 0
        /\ \A i \in 1 .. Len(got) - 1 + 1 : a[i] = got[1 + i - 1]
    BY <1>1, <2>1, SubSeqProperties
  <2> HIDE DEF a
  <2> QED
    BY <1>1, <2>2
<1>3. b \in Seq(Seq(Byte)) /\ Len(b) = Len(got) /\ \A i \in 1 .. Len(got) : b[i] = sent[i]
  <2>1. \A i \in 1 .. Len(got) : sent[i] \in Seq(Byte)
    BY <1>1
  <2>2. /\ b \in Seq(Seq(Byte))
        /\ Len(b) = IF 1 <= Len(got) THEN Len(got) - 1 + 1 ELSE 0
        /\ \A i \in 1 .. Len(got) - 1 + 1 : b[i] = sent[1 + i - 1]
    BY <1>1, <2>1, SubSeqProperties
  <2> HIDE DEF b
  <2> QED
    BY <1>1, <2>2
<1> HIDE DEF a, b
<1>4. a = b
  BY <1>1, <1>2, <1>3, SeqEqual
<1>5. IsPrefix(got, sent)
  BY <1>1, <1>4 DEF IsPrefix, a, b
<1>6. ASSUME s = <<>>
      PROVE  got = sent
  <2>1. Len(got) = Len(sent)
    BY <1>1, <1>6, CarriesNothing DEF Arrived
  <2> QED
    BY <1>1, <2>1, SeqEqual
<1> QED
  BY <1>5, <1>6

-----------------------------------------------------------------------------
(* Between two packets.                                                    *)

\* A buffer between two packets.  Its bytes may be anything.
Reset(b) == b.wi = 0 /\ b.ri = 0 /\ Len(b.data) = BufSize

\* A buffer that was cleared: every byte is zero.
Blank(b) == Reset(b) /\ \A i \in 1 .. BufSize : b.data[i] = 0

\* Whatever the streams deliver: a process that has not ended is ready for what comes
\* next.  A client is always between two packets, the server when it has nothing to tell,
\* and then its vector holds zero bytes only.
ReadyInv ==
  /\ \A c \in Client \ ended : Reset(buf[c])
  /\ Server \notin ended =>
       /\ buf[Server].wi = 0 /\ buf[Server].ri <= Len(buf[Server].data)
       /\ todo = <<>> => Blank(buf[Server])
  /\ \A c \in Client : \A i \in DOMAIN typed[c] : Plain(typed[c][i])

\* A process that stays within its vector has its buffer cleared.
LEMMA AccessInside ==
  ASSUME NEW p \in Node, NEW b, NEW cleared, Access(p, b, cleared),
         buf \in [Node -> Buffer], ended \subseteq Node
  PROVE  /\ \A q \in Node \ {p} : buf'[q] = buf[q] /\ (q \in ended' <=> q \in ended)
         /\ \/ Outside(b) /\ p \in ended'
            \/ ~Outside(b) /\ buf'[p] = cleared /\ ended' = ended
<1>1. CASE Outside(b)
  BY <1>1 DEF Access
<1>2. CASE ~Outside(b)
  BY <1>2 DEF Access
<1> QED
  BY <1>1, <1>2

\* What becomes of a line that is typed: it is sent as one packet, or ends the client
\* because the vector is too small for it.
Sent(c, text, p) ==
  /\ 8 + Len(text) <= BufSize /\ Len(p) = PacketSize(text) /\ Begins(p, 0, text)
  /\ up' = [up EXCEPT ![c] = @ \o p]
  /\ Reset(buf'[c]) /\ ended' = ended

NotSent(c, text) == 8 + Len(text) > BufSize /\ up' = up /\ c \in ended'

\* A line of which no byte looks like one of a header is typed, and one of the two happens;
\* nobody else is touched.
LEMMA TypeLineDoes ==
  ASSUME TypeInv, ReadyInv, NEW c \in Client, NEW len \in Lengths, TypeLine(c, len)
  PROVE  /\ \E text \in Seq(Byte) :
              /\ Plain(text) /\ typed' = [typed EXCEPT ![c] = Append(@, text)]
              /\ NotSent(c, text) \/ \E p \in Seq(Byte) : Sent(c, text, p)
         /\ \A q \in Node \ {c} : buf'[q] = buf[q] /\ (q \in ended' <=> q \in ended)
<1> DEFINE n    == Len(typed[c]) + 1
           text == Line(c, n, len)
           b    == WritePacket(buf[c], text)
<1>1. /\ c \in Node /\ buf[c] \in Buffer /\ Sized(buf[c]) /\ typed[c] \in Texts
      /\ buf \in [Node -> Buffer] /\ ended \subseteq Node
  BY Types DEF Node
<1>2. text \in Seq(Byte) /\ Plain(text)
  <2>1. Typed < MaxLines
    BY DEF TypeLine
  <2>2. Len(typed[c]) < MaxLines /\ Len(typed[c]) \in Nat /\ MaxLines \in Nat
    BY <1>1, <2>1, MoreLines, FramingAssumption DEF Texts
  <2>3. n \in 1 .. MaxLines
    BY <2>2
  <2> QED
    BY <2>3, LineIs
<1>3. /\ c \notin ended
      /\ Access(c, b, Rewind(b))
      /\ typed' = [typed EXCEPT ![c] = Append(@, text)]
      /\ IF Outside(b) THEN up' = up
         ELSE \E x \in Behind : up' = [up EXCEPT ![c] = @ \o Transmitted(b, text, x)]
  BY DEF TypeLine
<1> HIDE DEF text
<1>4. Reset(buf[c])
  BY <1>3 DEF ReadyInv
<1>5. /\ b \in Buffer /\ Len(b.data) = BufSize /\ b.ri = 0
      /\ b.wi = 8 + Len(text)
  <2>1. /\ b \in Buffer /\ Len(b.data) = BufSize /\ b.ri = 0
        /\ b.wi = buf[c].wi + 8 + Len(text) /\ buf[c].wi = 0
    BY <1>1, <1>2, <1>4, WritePacketIs DEF Reset
  <2>2. Len(text) \in Nat
    BY <1>2
  <2> QED
    BY <2>1, <2>2
<1>6. Outside(b) <=> 8 + Len(text) > BufSize
  <2>1. BufSize \in Nat
    BY BytesAssumption
  <2> HIDE DEF b
  <2> QED
    BY <1>5, <2>1 DEF Outside
<1>7. /\ \A q \in Node \ {c} : buf'[q] = buf[q] /\ (q \in ended' <=> q \in ended)
      /\ \/ Outside(b) /\ c \in ended'
         \/ ~Outside(b) /\ buf'[c] = Rewind(b) /\ ended' = ended
  BY <1>1, <1>3, AccessInside
<1>8. CASE Outside(b)
  <2>1. NotSent(c, text)
    BY <1>3, <1>6, <1>7, <1>8 DEF NotSent
  <2> QED
    BY <1>2, <1>3, <1>7, <2>1
<1>9. CASE ~Outside(b)
  <2>1. PICK x \in Behind : up' = [up EXCEPT ![c] = @ \o Transmitted(b, text, x)]
    BY <1>3, <1>9
  <2> DEFINE p == Transmitted(b, text, x)
  <2>2. x \in Byte /\ BufSize \in Nat /\ Len(text) \in Nat
    BY <1>2, FramingAssumption, BytesAssumption
  <2>3. 8 + Len(text) <= BufSize
    BY <1>6, <1>9, <2>2
  <2>4. Begins(p, 0, text)
    BY <1>1, <1>2, <1>4, <2>2, <2>3, TransmittedBegins DEF Reset
  <2> HIDE DEF b
  <2>5. p \in Seq(Byte) /\ Len(p) = PacketSize(text)
    BY <1>2, <1>5, <2>2, TransmittedBytes
  <2>6. Reset(buf'[c]) /\ ended' = ended
    BY <1>5, <1>7, <1>9, RewindIs DEF Reset
  <2> HIDE DEF p
  <2>7. up' = [up EXCEPT ![c] = @ \o p]
    BY <2>1 DEF p
  <2>8. Sent(c, text, p)
    BY <2>3, <2>4, <2>5, <2>6, <2>7 DEF Sent
  <2> QED
    BY <1>2, <1>3, <1>7, <2>5, <2>8
<1> QED
  BY <1>8, <1>9

\* What becomes of n bytes the server receives from c: a text to tell, or nothing, and
\* then the server has ended or its vector is cleared.
Takes(c, n, text) ==
  LET p == Parse(Store(buf[Server], SubSeq(up[c], 1, n))) IN
  /\ p.texts = <<text>> /\ Tagged(text) /\ ~Outside(p.buf)
  /\ handled' = [handled EXCEPT ![c] = Append(@, text)]
  /\ reply' = [from |-> c, text |-> text] /\ todo' # <<>>
  /\ buf'[Server] = p.buf /\ ended' = ended

TakesNothing(c, n) ==
  LET p == Parse(Store(buf[Server], SubSeq(up[c], 1, n))) IN
  /\ \A text : p.texts = <<text>> /\ Tagged(text) => Outside(p.buf)
  /\ handled' = handled /\ reply' = reply /\ todo' = <<>>
  /\ \/ Outside(p.buf) /\ Server \in ended'
     \/ Blank(buf'[Server]) /\ ended' = ended

\* The server receives some bytes of the stream, and one of the two happens; the clients
\* are not touched.
LEMMA ServerReceivesDoes ==
  ASSUME TypeInv, ReadyInv, NEW c \in Client, ServerReceives(c)
  PROVE  /\ \E n \in 0 .. Len(up[c]) :
              /\ n <= BufSize /\ (c \notin cutUp => n \in OnePacket(up[c]))
              /\ up' = [up EXCEPT ![c] = SubSeq(@, n + 1, Len(@))]
              /\ TakesNothing(c, n) \/ \E text \in Seq(Byte) : Takes(c, n, text)
         /\ \A q \in Client : buf'[q] = buf[q] /\ (q \in ended' <=> q \in ended)
<1>0. PICK n \in IF c \in cutUp THEN AnyPortion(up[c]) ELSE OnePacket(up[c]) :
        LET p    == Parse(Store(buf[Server], SubSeq(up[c], 1, n)))
            text == IF p.texts = <<>> THEN <<>> ELSE p.texts[1]
            ok   == ~Outside(p.buf) /\ Tagged(text)
        IN
        /\ up' = [up EXCEPT ![c] = SubSeq(@, n + 1, Len(@))]
        /\ Access(Server, p.buf, IF ok THEN p.buf ELSE Clear(p.buf))
        /\ handled' = IF ok THEN [handled EXCEPT ![c] = Append(@, text)] ELSE handled
        /\ todo' = IF ok THEN [i \in Client |-> i] ELSE <<>>
        /\ reply' = IF ok THEN [from |-> c, text |-> text] ELSE reply
  BY DEF ServerReceives
<1> DEFINE s    == SubSeq(up[c], 1, n)
           st   == Store(buf[Server], s)
           p    == Parse(st)
           text == IF p.texts = <<>> THEN <<>> ELSE p.texts[1]
           ok   == ~Outside(p.buf) /\ Tagged(text)
           cleared == IF ok THEN p.buf ELSE Clear(p.buf)
<1>1. /\ Server \in Node /\ buf[Server] \in Buffer /\ Sized(buf[Server])
      /\ up[c] \in Seq(Byte) /\ buf \in [Node -> Buffer] /\ ended \subseteq Node
  BY Types DEF Node
<1>2. n \in 0 .. Len(up[c]) /\ n <= BufSize /\ (c \notin cutUp => n \in OnePacket(up[c]))
  BY <1>1, PortionIs
<1>3. s \in Seq(Byte)
  BY <1>1, <1>2, CutIs
<1>4. st \in Buffer /\ Sized(st)
  BY <1>1, <1>3, StoreIs DEF Sized
<1>5. /\ up' = [up EXCEPT ![c] = SubSeq(@, n + 1, Len(@))]
      /\ Access(Server, p.buf, cleared)
      /\ handled' = IF ok THEN [handled EXCEPT ![c] = Append(@, text)] ELSE handled
      /\ todo' = IF ok THEN [i \in Client |-> i] ELSE <<>>
      /\ reply' = IF ok THEN [from |-> c, text |-> text] ELSE reply
  BY <1>0
<1>6. p = Parse(Store(buf[Server], SubSeq(up[c], 1, n)))
  OBVIOUS
<1> HIDE DEF s, st
<1>7. /\ p.buf \in Buffer
      /\ p.texts = <<>> \/ \E t \in Seq(Byte) : p.texts = <<t>>
  BY <1>4, ParseIs
<1> HIDE DEF p
<1>8. text = (IF p.texts = <<>> THEN <<>> ELSE p.texts[1])
  OBVIOUS
<1>9. ok <=> ~Outside(p.buf) /\ Tagged(text)
  OBVIOUS
<1> HIDE DEF text, ok
<1>10. /\ \A q \in Node \ {Server} : buf'[q] = buf[q] /\ (q \in ended' <=> q \in ended)
       /\ \/ Outside(p.buf) /\ Server \in ended'
          \/ ~Outside(p.buf) /\ buf'[Server] = cleared /\ ended' = ended
  BY <1>1, <1>5, AccessInside
<1>11. \A q \in Client : q \in Node \ {Server}
  BY FramingAssumption DEF Client, Node, Server
<1>12. CASE ok
  <2>1. p.texts # <<>>
    <3> SUFFICES ASSUME p.texts = <<>>
                 PROVE  FALSE
      OBVIOUS
    <3>1. text = <<>>
      BY <1>8
    <3> QED
      BY <1>9, <1>12, <3>1, FramingAssumption DEF Tagged
  <2>2. text \in Seq(Byte) /\ p.texts = <<text>>
    BY <1>7, <1>8, <2>1
  <2>3. todo' # <<>>
    <3>1. 1 \in Client
      BY FramingAssumption DEF Client
    <3>2. todo' = [i \in Client |-> i]
      BY <1>5, <1>12
    <3>3. DOMAIN todo' = Client
      BY <3>2
    <3> QED
      BY <3>1, <3>3
  <2>4. Takes(c, n, text)
    BY <1>5, <1>6, <1>9, <1>10, <1>12, <2>2, <2>3 DEF Takes
  <2> QED
    BY <1>2, <1>5, <1>10, <1>11, <2>2, <2>4
<1>13. CASE ~ok
  <2>1. \A t : p.texts = <<t>> /\ Tagged(t) => Outside(p.buf)
    <3> SUFFICES ASSUME NEW t, p.texts = <<t>>, Tagged(t)
                 PROVE  Outside(p.buf)
      OBVIOUS
    <3>1. p.texts # <<>> /\ p.texts[1] = t
      <4>1. Len(<<t>>) = 1 /\ Len(<<>>) = 0
        OBVIOUS
      <4> QED
        BY <4>1
    <3> QED
      BY <1>8, <1>9, <1>13, <3>1
  <2>2. handled' = handled /\ reply' = reply /\ todo' = <<>> /\ cleared = Clear(p.buf)
    BY <1>5, <1>13
  <2>3. Blank(Clear(p.buf))
    BY <1>7, ClearIs DEF Blank, Reset
  <2> HIDE DEF cleared
  <2>4. \/ Outside(p.buf) /\ Server \in ended'
        \/ Blank(buf'[Server]) /\ ended' = ended
    <3>1. CASE Outside(p.buf) /\ Server \in ended'
      BY <3>1
    <3>2. CASE buf'[Server] = cleared /\ ended' = ended
      <4>1. buf'[Server] = Clear(p.buf)
        BY <2>2, <3>2
      <4> QED
        BY <2>3, <3>2, <4>1
    <3> QED
      BY <1>10, <3>1, <3>2
  <2>5. TakesNothing(c, n)
    BY <1>6, <2>1, <2>2, <2>4 DEF TakesNothing
  <2> QED
    BY <1>2, <1>5, <1>10, <1>11, <2>5
<1> QED
  BY <1>12, <1>13

\* Having told one member, the server has ended or its vector is cleared.
LEMMA ServerTellsAnything ==
  ASSUME TypeInv, ServerTells
  PROVE  /\ \A q \in Client : buf'[q] = buf[q] /\ (q \in ended' <=> q \in ended)
         /\ Server \notin ended' => Blank(buf'[Server])
<1> DEFINE d    == Head(todo)
           text == Told(d)
           b    == WritePacket(buf[Server], text)
<1>1. /\ Server \in Node /\ buf[Server] \in Buffer /\ buf \in [Node -> Buffer]
      /\ ended \subseteq Node /\ todo \in Seq(Client) /\ todo # <<>>
  BY Types DEF Node, ServerTells
<1>2. d \in Client
  BY <1>1, HeadTailProperties
<1>3. text \in Seq(Byte)
  BY <1>1, <1>2, ToldIs, Types
<1>4. Access(Server, b, Clear(b))
  BY DEF ServerTells
<1> HIDE DEF d, text
<1>5. b \in Buffer
  BY <1>1, <1>3, WritePacketIs
<1> HIDE DEF b
<1>6. Blank(Clear(b))
  BY <1>5, ClearIs DEF Blank, Reset
<1>7. /\ \A q \in Node \ {Server} : buf'[q] = buf[q] /\ (q \in ended' <=> q \in ended)
      /\ Server \in ended' \/ buf'[Server] = Clear(b)
  BY <1>1, <1>4, AccessInside
<1>8. \A q \in Client : q \in Node \ {Server}
  BY FramingAssumption DEF Client, Node, Server
<1> QED
  BY <1>6, <1>7, <1>8

\* Having received, a client has ended or its vector is cleared.
LEMMA ClientReceivesAnything ==
  ASSUME TypeInv, NEW c \in Client, ClientReceives(c)
  PROVE  /\ \A q \in Node \ {c} : buf'[q] = buf[q] /\ (q \in ended' <=> q \in ended)
         /\ c \notin ended' => Reset(buf'[c])
<1>0. PICK n \in IF c \in cutDown THEN AnyPortion(down[c]) ELSE OnePacket(down[c]) :
        Access(c, Parse(Store(buf[c], SubSeq(down[c], 1, n))).buf,
               Clear(Parse(Store(buf[c], SubSeq(down[c], 1, n))).buf))
  BY DEF ClientReceives
<1> DEFINE s    == SubSeq(down[c], 1, n)
           st   == Store(buf[c], s)
           p    == Parse(st)
<1>1. /\ c \in Node /\ buf[c] \in Buffer /\ Sized(buf[c]) /\ down[c] \in Seq(Byte)
      /\ buf \in [Node -> Buffer] /\ ended \subseteq Node
  BY Types DEF Node
<1>2. n \in 0 .. Len(down[c])
  BY <1>1, PortionIs
<1>3. s \in Seq(Byte)
  BY <1>1, <1>2, CutIs
<1>4. st \in Buffer /\ Sized(st)
  BY <1>1, <1>3, StoreIs DEF Sized
<1>5. Access(c, p.buf, Clear(p.buf))
  BY <1>0
<1> HIDE DEF s, st
<1>6. p.buf \in Buffer
  BY <1>4, ParseIs
<1> HIDE DEF p
<1>7. Reset(Clear(p.buf))
  BY <1>6, ClearIs DEF Reset
<1>8. /\ \A q \in Node \ {c} : buf'[q] = buf[q] /\ (q \in ended' <=> q \in ended)
      /\ c \in ended' \/ buf'[c] = Clear(p.buf)
  BY <1>1, <1>5, AccessInside
<1> QED
  BY <1>7, <1>8

\* What ReadyInv says of the server, whose buffer a step that is not its own leaves alone.
LEMMA ServerStays ==
  ASSUME ReadyInv, NEW c \in Client,
         \A q \in Node \ {c} : buf'[q] = buf[q] /\ (q \in ended' <=> q \in ended),
         todo' = todo
  PROVE  Server \notin ended' =>
           /\ buf'[Server].wi = 0 /\ buf'[Server].ri <= Len(buf'[Server].data)
           /\ todo' = <<>> => Blank(buf'[Server])
<1>1. Server \in Node \ {c}
  BY FramingAssumption DEF Client, Node, Server
<1>2. buf'[Server] = buf[Server] /\ (Server \in ended' <=> Server \in ended)
  BY <1>1
<1> QED
  BY <1>2 DEF ReadyInv

\* And of the clients, when the step is that of one of them.
LEMMA ClientsStay ==
  ASSUME ReadyInv, NEW c \in Client,
         \A q \in Node \ {c} : buf'[q] = buf[q] /\ (q \in ended' <=> q \in ended),
         c \notin ended' => Reset(buf'[c])
  PROVE  \A q \in Client \ ended' : Reset(buf'[q])
<1> TAKE q \in Client \ ended'
<1>1. CASE q = c
  BY <1>1
<1>2. CASE q # c
  <2>1. q \in Node \ {c}
    BY <1>2 DEF Node
  <2> QED
    BY <2>1 DEF ReadyInv
<1> QED
  BY <1>1, <1>2

\* One more line of which no byte looks like one of a header.
LEMMA PlainMore ==
  ASSUME ReadyInv, typed \in [Client -> Texts], NEW c \in Client, NEW t \in Seq(Byte), Plain(t),
         typed' = [typed EXCEPT ![c] = Append(@, t)]
  PROVE  \A d \in Client : \A i \in DOMAIN typed'[d] : Plain(typed'[d][i])
<1> TAKE d \in Client
<1> TAKE i \in DOMAIN typed'[d]
<1>1. CASE d = c
  <2>1. typed'[d] = Append(typed[d], t) /\ typed[d] \in Seq(Seq(Byte))
    BY <1>1 DEF Texts
  <2>2. i \in 1 .. Len(typed[d]) + 1
    BY <2>1
  <2>3. CASE i = Len(typed[d]) + 1
    BY <2>1, <2>3
  <2>4. CASE i # Len(typed[d]) + 1
    <3>1. i \in DOMAIN typed[d] /\ typed'[d][i] = typed[d][i]
      BY <2>1, <2>2, <2>4
    <3> QED
      BY <3>1 DEF ReadyInv
  <2> QED
    BY <2>3, <2>4
<1>2. CASE d # c
  <2>1. typed'[d] = typed[d]
    BY <1>2
  <2> QED
    BY <2>1 DEF ReadyInv
<1> QED
  BY <1>1, <1>2

\* Receiving at the server keeps ReadyInv.
LEMMA ServerReceivesReady ==
  ASSUME TypeInv, ReadyInv, NEW c \in Client, ServerReceives(c)
  PROVE  ReadyInv'
<1>1. /\ \E n \in 0 .. Len(up[c]) :
              TakesNothing(c, n) \/ \E text \in Seq(Byte) : Takes(c, n, text)
      /\ \A q \in Client : buf'[q] = buf[q] /\ (q \in ended' <=> q \in ended)
  BY ServerReceivesDoes
<1>2. PICK n \in 0 .. Len(up[c]) :
        TakesNothing(c, n) \/ \E text \in Seq(Byte) : Takes(c, n, text)
  BY <1>1
<1>3. typed' = typed
  BY DEF ServerReceives
<1>4. \A q \in Client \ ended' : Reset(buf'[q])
  BY <1>1 DEF ReadyInv
<1>5. Server \notin ended' =>
        /\ buf'[Server].wi = 0 /\ buf'[Server].ri <= Len(buf'[Server].data)
        /\ todo' = <<>> => Blank(buf'[Server])
  <2>1. CASE TakesNothing(c, n)
    <3>1. Server \notin ended' => Blank(buf'[Server])
      BY <2>1 DEF TakesNothing
    <3>2. BufSize \in Nat
      BY BytesAssumption
    <3> QED
      BY <3>1, <3>2 DEF Blank, Reset
  <2>2. CASE \E text \in Seq(Byte) : Takes(c, n, text)
    <3> DEFINE st == Store(buf[Server], SubSeq(up[c], 1, n))
               b  == Parse(st).buf
    <3>1. buf'[Server] = b /\ ~Outside(b) /\ todo' # <<>>
      BY <2>2 DEF Takes
    <3>2. /\ Server \in Node /\ buf[Server] \in Buffer /\ Sized(buf[Server])
          /\ up[c] \in Seq(Byte) /\ Server \notin ended
      BY Types DEF Node, ServerReceives
    <3>3. SubSeq(up[c], 1, n) \in Seq(Byte)
      BY <3>2, CutIs
    <3>4. st \in Buffer /\ Sized(st) /\ st.wi = buf[Server].wi
      BY <3>2, <3>3, StoreIs DEF Sized
    <3>5. st.wi = 0
      BY <3>2, <3>4 DEF ReadyInv
    <3> HIDE DEF st
    <3>6. b \in Buffer /\ b.wi = 0
      BY <3>4, <3>5, ParseIs
    <3> HIDE DEF b
    <3>7. b.ri <= Len(b.data)
      <4>1. b.ri \in Nat /\ Len(b.data) \in Nat
        BY <3>6 DEF Buffer
      <4> QED
        BY <3>1, <4>1 DEF Outside
    <3> QED
      BY <3>1, <3>6, <3>7
  <2> QED
    BY <1>2, <2>1, <2>2
<1>6. \A d \in Client : \A i \in DOMAIN typed'[d] : Plain(typed'[d][i])
  BY <1>3 DEF ReadyInv
<1> QED
  BY <1>4, <1>5, <1>6 DEF ReadyInv

\* Every step keeps ReadyInv.
LEMMA StepReady ==
  ASSUME TypeInv, ReadyInv, [Next]_vars
  PROVE  ReadyInv'
<1>1. ASSUME NEW c \in Client, NEW len \in Lengths, TypeLine(c, len)
      PROVE  ReadyInv'
  <2>1. PICK text \in Seq(Byte) :
          /\ Plain(text) /\ typed' = [typed EXCEPT ![c] = Append(@, text)]
          /\ NotSent(c, text) \/ \E p \in Seq(Byte) : Sent(c, text, p)
    BY <1>1, TypeLineDoes
  <2>2. \A q \in Node \ {c} : buf'[q] = buf[q] /\ (q \in ended' <=> q \in ended)
    BY <1>1, TypeLineDoes
  <2>3. c \notin ended' => Reset(buf'[c])
    BY <2>1 DEF Sent, NotSent
  <2>4. \A q \in Client \ ended' : Reset(buf'[q])
    BY <2>2, <2>3, ClientsStay
  <2>5. todo' = todo
    BY <1>1 DEF TypeLine
  <2>6. Server \notin ended' =>
          /\ buf'[Server].wi = 0 /\ buf'[Server].ri <= Len(buf'[Server].data)
          /\ todo' = <<>> => Blank(buf'[Server])
    BY <2>2, <2>5, ServerStays
  <2>7. \A d \in Client : \A i \in DOMAIN typed'[d] : Plain(typed'[d][i])
    BY <2>1, PlainMore, Types
  <2> QED
    BY <2>4, <2>6, <2>7 DEF ReadyInv
<1>2. ASSUME NEW c \in Client, ServerReceives(c)
      PROVE  ReadyInv'
  BY <1>2, ServerReceivesReady
<1>3. ASSUME NEW c \in Client, ClientReceives(c)
      PROVE  ReadyInv'
  <2>1. /\ \A q \in Node \ {c} : buf'[q] = buf[q] /\ (q \in ended' <=> q \in ended)
        /\ c \notin ended' => Reset(buf'[c])
    BY <1>3, ClientReceivesAnything
  <2>2. todo' = todo /\ typed' = typed
    BY <1>3 DEF ClientReceives
  <2>3. \A q \in Client \ ended' : Reset(buf'[q])
    BY <2>1, ClientsStay
  <2>4. Server \notin ended' =>
          /\ buf'[Server].wi = 0 /\ buf'[Server].ri <= Len(buf'[Server].data)
          /\ todo' = <<>> => Blank(buf'[Server])
    BY <2>1, <2>2, ServerStays
  <2> QED
    BY <2>2, <2>3, <2>4 DEF ReadyInv
<1>4. CASE ServerTells
  <2>1. /\ \A q \in Client : buf'[q] = buf[q] /\ (q \in ended' <=> q \in ended)
        /\ Server \notin ended' => Blank(buf'[Server])
    BY <1>4, ServerTellsAnything
  <2>2. typed' = typed
    BY <1>4 DEF ServerTells
  <2>3. Blank(buf'[Server]) =>
          buf'[Server].wi = 0 /\ buf'[Server].ri <= Len(buf'[Server].data)
    BY BytesAssumption DEF Blank, Reset
  <2>4. \A q \in Client \ ended' : Reset(buf'[q])
    BY <2>1 DEF ReadyInv
  <2> QED
    BY <2>1, <2>2, <2>3, <2>4 DEF ReadyInv
<1>5. CASE UNCHANGED vars
  BY <1>5 DEF vars, ReadyInv
<1> QED
  BY <1>1, <1>2, <1>3, <1>4, <1>5 DEF Next, Quiet

\* At first every vector is new.
LEMMA InitReady == Init => ReadyInv
<1> SUFFICES ASSUME Init
             PROVE  ReadyInv
  OBVIOUS
<1>1. buf = [p \in Node |-> Empty] /\ typed = [c \in Client |-> <<>>]
  BY DEF Init
<1>2. \A p \in Client \cup {Server} : buf[p] = Empty
  BY <1>1 DEF Node
<1>3. Reset(Empty) /\ Blank(Empty) /\ Empty.wi = 0 /\ Empty.ri <= Len(Empty.data)
  BY EmptyIs, BytesAssumption DEF Reset, Blank
<1>4. \A c \in Client : typed[c] = <<>>
  BY <1>1
<1> QED
  BY <1>2, <1>3, <1>4 DEF ReadyInv

-----------------------------------------------------------------------------
(* Streams in pieces.                                                      *)

\* What recv() stores in a cleared vector is all that is there.
LEMMA StoredAt ==
  ASSUME NEW b \in Buffer, Blank(b), NEW s \in Seq(Byte), Len(s) <= BufSize
  PROVE  \A i \in Nat : At(Store(b, s).data, i) = At(s, i)
<1> DEFINE d == Store(b, s).data
<1>1. /\ d \in Seq(Byte) /\ Len(d) = BufSize
      /\ \A i \in 1 .. Len(s) : i <= BufSize => d[i] = s[i]
      /\ \A i \in 1 .. BufSize : i > Len(s) => d[i] = b.data[i]
  BY StoreIs DEF Blank, Reset, Buffer
<1>2. /\ BufSize \in Nat /\ Len(s) \in Nat /\ DOMAIN s = 1 .. Len(s)
      /\ \A i \in 1 .. BufSize : b.data[i] = 0
  BY BytesAssumption DEF Blank
<1>3. DOMAIN d = 1 .. BufSize
  BY <1>1
<1> HIDE DEF d
<1>4. ASSUME NEW i \in Nat
      PROVE  At(d, i) = At(s, i)
  <2>1. CASE i \in 1 .. Len(s)
    BY <1>1, <1>2, <1>3, <2>1 DEF At
  <2>2. CASE i \notin 1 .. Len(s)
    <3>1. At(s, i) = 0
      BY <1>2, <2>2 DEF At
    <3>2. CASE i \in 1 .. BufSize
      <4>1. i > Len(s)
        BY <1>2, <2>2, <3>2
      <4> QED
        BY <1>1, <1>2, <1>3, <3>1, <3>2, <4>1 DEF At
    <3>3. CASE i \notin 1 .. BufSize
      BY <1>3, <3>1, <3>3 DEF At
    <3> QED
      BY <3>2, <3>3
  <2> QED
    BY <2>1, <2>2
<1> QED
  BY <1>4 DEF d

\* Two bytes read from a buffer.
LEMMA PairIs ==
  ASSUME NEW b \in Buffer
  PROVE  Number(Peek(b, 2)) = At(b.data, b.ri + 1) * Base + At(b.data, b.ri + 2)
<1> DEFINE s == Peek(b, 2)
<1>1. Len(s) = 2 /\ \A i \in 1 .. 2 : s[i] = At(b.data, b.ri + i)
  BY PeekIs
<1> HIDE DEF s
<1>2. s[1] = At(b.data, b.ri + 1) /\ s[2] = At(b.data, b.ri + 2)
  BY <1>1
<1> QED
  BY <1>1, <1>2 DEF Number, s

\* A parse that yields a text: the type was found in the fifth and sixth byte, the
\* length of the text in the two behind them, and the text behind those.
LEMMA ParseView ==
  ASSUME NEW b \in Buffer, Sized(b), b.ri = 0, NEW t, Parse(b).texts = <<t>>
  PROVE  LET d == b.data
             n == At(d, 7) * Base + At(d, 8)
         IN
         /\ At(d, 5) * Base + At(d, 6) = 1
         /\ n \in Nat /\ t \in Seq(Byte) /\ Len(t) = n
         /\ \A i \in 1 .. n : t[i] = At(d, 8 + i)
         /\ Parse(b).buf.ri = 8 + n
<1> DEFINE size == Number(Peek(b, 4))
           four == Read(b, 4)
           type == Number(Peek(four, 2))
           six  == Read(b, 6)
           g    == Grow(six, size)
           n    == Number(Peek(g, 2))
           body == Read(g, 2)
           d    == b.data
<1>1. size \in Nat
  BY PeekIs, NumberIsNat
<1>2. /\ four \in Buffer /\ four.data = d /\ four.ri = b.ri + 4
      /\ six \in Buffer /\ six.data = d /\ six.ri = b.ri + 6
  BY ReadIs, Zenon
<1>3. Sized(six)
  BY <1>2 DEF Sized
<1>4. Parse(b) = IF type = 1
                 THEN [buf |-> Read(body, n), texts |-> <<Peek(body, n)>>]
                 ELSE [buf |-> g, texts |-> <<>>]
  BY DEF Parse, size, four, type, six, g, n, body
<1> HIDE DEF size, four, six
<1>5. four.ri = 4 /\ six.ri = 6
  BY <1>2
<1>6. type = At(d, 5) * Base + At(d, 6)
  <2>1. type = At(four.data, four.ri + 1) * Base + At(four.data, four.ri + 2)
    BY <1>2, PairIs
  <2>2. four.ri + 1 = 5 /\ four.ri + 2 = 6
    BY <1>5
  <2> QED
    BY <1>2, <2>1, <2>2
<1>7. g \in Buffer /\ g.ri = 6 /\ \A i \in Nat : At(g.data, i) = At(d, i)
  BY <1>1, <1>2, <1>3, <1>5, GrowIs
<1> HIDE DEF g
<1>8. n = At(d, 7) * Base + At(d, 8) /\ n \in Nat
  <2>1. n = At(g.data, g.ri + 1) * Base + At(g.data, g.ri + 2)
    BY <1>7, PairIs
  <2>2. g.ri + 1 = 7 /\ g.ri + 2 = 8
    BY <1>7
  <2>3. n \in Nat
    <3> DEFINE got == Peek(g, 2)
    <3>1. g \in Buffer /\ 2 \in Nat
      BY <1>7
    <3>2. got \in Seq(Byte) /\ Len(got) = 2
      BY <3>1, PeekIs, Zenon
    <3> HIDE DEF got
    <3>3. Number(got) \in Nat
      BY <3>2, NumberIsNat
    <3> QED
      BY <3>3 DEF got
  <2> HIDE DEF n
  <2> QED
    BY <1>7, <2>1, <2>2, <2>3
<1>9. body \in Buffer /\ body.data = g.data /\ body.ri = g.ri + 2
  BY <1>7, ReadIs, Zenon
<1> HIDE DEF n, body, type, d
<1>10. body.ri = 8
  BY <1>7, <1>9
<1>11. /\ Peek(body, n) \in Seq(Byte) /\ Len(Peek(body, n)) = n
       /\ \A i \in 1 .. n : Peek(body, n)[i] = At(body.data, body.ri + i)
       /\ Read(body, n).ri = body.ri + n
  BY <1>8, <1>9, PeekIs, ReadIs
<1>12. type = 1
  <2> SUFFICES ASSUME type # 1
               PROVE  FALSE
    OBVIOUS
  <2>1. Parse(b).texts = <<>>
    BY <1>4
  <2>2. Len(<<t>>) = 1 /\ Len(<<>>) = 0
    OBVIOUS
  <2> QED
    BY <2>1, <2>2
<1>13. Parse(b).buf = Read(body, n) /\ t = Peek(body, n)
  BY <1>4, <1>12
<1>14. \A i \in 1 .. n : t[i] = At(d, 8 + i)
  <2> TAKE i \in 1 .. n
  <2>1. 8 + i \in Nat
    BY <1>8
  <2> QED
    BY <1>7, <1>9, <1>10, <1>11, <1>13, <2>1
<1>15. Parse(b).buf.ri = 8 + n
  BY <1>10, <1>11, <1>13
<1>16. t \in Seq(Byte) /\ Len(t) = n
  BY <1>11, <1>13
<1> QED
  BY <1>6, <1>8, <1>12, <1>14, <1>15, <1>16 DEF d

\* One that is written into a vector without leaving it.
Sendable(t) == Plain(t) /\ 8 + Len(t) <= BufSize

\* The four bytes of a number that two bytes hold.
LEMMA U32Small ==
  ASSUME NEW v \in Nat, v < Base * Base
  PROVE  /\ U32(v)[1] = 0 /\ U32(v)[2] = 0
         /\ U32(v)[3] = U16(v)[1] /\ U32(v)[4] = U16(v)[2]
<1>1. v \div (Base * Base) = 0 /\ 0 % Base = 0
  BY BytesAssumption, DivisionSmall
<1>2. v < Base * Base * Base
  BY BytesAssumption
<1>3. v \div (Base * Base * Base) = 0
  BY <1>2, BytesAssumption, DivisionSmall
<1>4. U32(v) = <<0, 0>> \o U16(v)
  BY <1>1, <1>3 DEF U32
<1> DEFINE z == <<0, 0>>
           u == U16(v)
           four == z \o u
<1>5. z \in Seq(Byte) /\ Len(z) = 2 /\ z[1] = 0 /\ z[2] = 0
  BY BytesAssumption DEF Byte
<1>6. u \in Seq(Byte) /\ Len(u) = 2
  BY BytesOf
<1>7. U32(v) = four
  BY <1>4
<1> HIDE DEF z, u
<1>8. /\ \A i \in 1 .. Len(z) : four[i] = z[i]
      /\ \A i \in 1 .. Len(u) : four[Len(z) + i] = u[i]
  BY <1>5, <1>6, ConcatIs, Zenon
<1> HIDE DEF four
<1>9. /\ four[1] = z[1] /\ four[2] = z[2]
      /\ four[3] = u[1] /\ four[4] = u[2]
  <2>1. 1 \in 1 .. Len(z) /\ 2 \in 1 .. Len(z) /\ 1 \in 1 .. Len(u) /\ 2 \in 1 .. Len(u)
    BY <1>5, <1>6
  <2>2. four[Len(z) + 1] = u[1] /\ four[Len(z) + 2] = u[2]
    BY <1>8, <2>1
  <2>3. Len(z) + 1 = 3 /\ Len(z) + 2 = 4
    BY <1>5
  <2> QED
    BY <1>8, <2>1, <2>2, <2>3
<1> QED
  BY <1>5, <1>7, <1>9 DEF u

\* The two bytes of a number.
LEMMA U16Bytes ==
  ASSUME NEW v \in Nat, v < Base * Base
  PROVE  /\ U16(v)[1] \in Byte /\ U16(v)[2] \in Byte
         /\ U16(v)[1] * Base + U16(v)[2] = v
<1> DEFINE u == U16(v)
<1>1. u \in Seq(Byte) /\ Len(u) = 2 /\ Number(u) = v
  BY BytesOf, U16RoundTrip
<1> HIDE DEF u
<1> QED
  BY <1>1 DEF Number, u

\* The eight bytes of a header: two zeros, the size, a zero, the type and the length.
LEMMA HeaderBytes ==
  ASSUME NEW t \in Seq(Byte), 8 + Len(t) <= BufSize
  PROVE  LET h == Header(t) IN
         /\ h[1] = 0 /\ h[2] = 0
         /\ h[3] \in Byte /\ h[4] \in Byte /\ h[3] * Base + h[4] = Len(t) + 12
         /\ h[5] = 0 /\ h[6] = 1
         /\ h[7] \in Byte /\ h[8] \in Byte /\ h[7] * Base + h[8] = Len(t)
<1> DEFINE h == Header(t)
           n == Len(t)
           size == PacketSize(t)
<1>1. /\ n \in Nat /\ size \in Nat /\ size = n + 12 /\ Base \in Nat \ {0, 1}
      /\ n < Base * Base /\ size < Base * Base /\ 1 < Base * Base
  <2>1. /\ n \in Nat /\ size \in Nat /\ size = n + 12 /\ BufSize \in Nat /\ Base \in Nat \ {0, 1}
        /\ BufSize + 4 < Base * Base /\ 8 + n <= BufSize
    BY PacketSizeIs, BytesAssumption, FramingAssumption
  <2> HIDE DEF n, size
  <2> QED
    BY <2>1
<1>2. /\ \A i \in 1 .. 4 : h[i] = U32(size)[i]
      /\ \A i \in 1 .. 2 : h[4 + i] = U16(1)[i]
      /\ \A i \in 1 .. 2 : h[6 + i] = U16(n)[i]
  BY HeaderIs
<1> HIDE DEF h, n, size
<1>3. /\ h[1] = U32(size)[1] /\ h[2] = U32(size)[2]
      /\ h[3] = U32(size)[3] /\ h[4] = U32(size)[4]
  BY <1>2
<1>4. h[5] = U16(1)[1] /\ h[6] = U16(1)[2] /\ h[7] = U16(n)[1] /\ h[8] = U16(n)[2]
  <2>1. 1 \in 1 .. 2 /\ 2 \in 1 .. 2
    OBVIOUS
  <2>2. h[4 + 1] = U16(1)[1] /\ h[4 + 2] = U16(1)[2] /\ h[6 + 1] = U16(n)[1] /\ h[6 + 2] = U16(n)[2]
    BY <1>2, <2>1
  <2> QED
    BY <2>2
<1>5. U16(1)[1] = 0 /\ U16(1)[2] = 1
  <2>1. 1 \div Base = 0 /\ 1 % Base = 1 /\ 0 % Base = 0
    BY <1>1, DivisionSmall
  <2> QED
    BY <2>1 DEF U16
<1>6. h[3] = U16(size)[1] /\ h[4] = U16(size)[2] /\ h[1] = 0 /\ h[2] = 0
  BY <1>1, <1>3, U32Small
<1> QED
  BY <1>1, <1>4, <1>5, <1>6, U16Bytes DEF h, n

\* Two numbers below Base in one.
LEMMA TwoDigits ==
  ASSUME NEW a \in Byte, NEW b \in Byte, a * Base + b = 1
  PROVE  a = 0 /\ b = 1
<1>1. a \in Nat /\ b \in Nat /\ Base \in Nat /\ Base >= 2
  BY BytesAssumption DEF Byte
<1>2. CASE a = 0
  BY <1>1, <1>2
<1>3. CASE a >= 1
  <2>1. a * Base >= Base
    BY <1>1, <1>3
  <2> QED
    BY <1>1, <2>1
<1> QED
  BY <1>1, <1>2, <1>3

\* What a parse from the byte behind k on takes for a type, a length and a tag.
Deceived(all, k) ==
  LET n == all[k + 7] * Base + all[k + 8] IN
  /\ k + 10 <= Len(all)
  /\ all[k + 5] * Base + all[k + 6] = 1
  /\ Tag <= n /\ 8 + n <= BufSize * 2
  /\ all[k + 9] # 0 /\ all[k + 10] = all[k + 9]

\* Nothing is taken for a type behind the text of a packet: the next one begins with
\* two zero bytes, where the length or the tag would be.
LEMMA BehindPacket ==
  ASSUME NEW all \in Seq(Byte), NEW k \in Nat, NEW e \in k + 6 .. k + 9,
         NEW t \in Seq(Byte), Sendable(t), Begins(all, e, t), Deceived(all, k)
  PROVE  FALSE
<1>1. all[e + 1] = 0 /\ all[e + 2] = 0
  <2>1. Header(t)[1] = 0 /\ Header(t)[2] = 0
    BY HeaderBytes DEF Sendable
  <2>2. \A i \in 1 .. 8 : all[e + i] = Header(t)[i]
    BY DEF Begins
  <2>3. 1 \in 1 .. 8 /\ 2 \in 1 .. 8
    OBVIOUS
  <2>4. all[e + 1] = Header(t)[1] /\ all[e + 2] = Header(t)[2]
    BY <2>2, <2>3, Zenon
  <2> QED
    BY <2>1, <2>4
<1>2. CASE e = k + 6
  <2>1. e + 1 = k + 7 /\ e + 2 = k + 8
    BY <1>2
  <2>2. all[k + 7] = 0 /\ all[k + 8] = 0
    BY <1>1, <2>1
  <2>3. Base \in Nat /\ Tag \in Nat /\ Tag >= 2
    BY BytesAssumption, FramingAssumption, SeparationAssumption
  <2>4. 0 * Base + 0 = 0
    BY <2>3
  <2> QED
    BY <2>2, <2>3, <2>4 DEF Deceived
<1>3. CASE e = k + 7
  <2>1. e + 2 = k + 9
    BY <1>3
  <2> QED
    BY <1>1, <2>1 DEF Deceived
<1>4. CASE e = k + 8
  <2>1. e + 1 = k + 9
    BY <1>4
  <2> QED
    BY <1>1, <2>1 DEF Deceived
<1>5. CASE e = k + 9
  <2>1. e + 1 = k + 10
    BY <1>5
  <2> QED
    BY <1>1, <2>1 DEF Deceived
<1> QED
  BY <1>2, <1>3, <1>4, <1>5

\* With the same high byte, numbers differ by as much as their low bytes.
LEMMA SameLead ==
  ASSUME NEW b \in Nat, NEW m \in Nat, NEW x \in Nat, NEW y \in Nat,
         b + x = m + 12, b + y = m
  PROVE  x = y + 12
OBVIOUS

\* Nothing is taken for a type within a packet but its type.
LEMMA WithinPacket ==
  ASSUME NEW all \in Seq(Byte), NEW k \in Nat, NEW o \in Nat,
         NEW t \in Seq(Byte), Sendable(t), Begins(all, o, t), Deceived(all, k),
         o < k + 6, k + 6 <= o + 8 + Len(t)
  PROVE  o = k
<1> DEFINE h == Header(t)
           n == Len(t)
<1>1. /\ h[1] = 0 /\ h[2] = 0
      /\ h[3] \in Byte /\ h[4] \in Byte /\ h[3] * Base + h[4] = n + 12
      /\ h[5] = 0 /\ h[6] = 1
      /\ h[7] \in Byte /\ h[8] \in Byte /\ h[7] * Base + h[8] = n
  BY HeaderBytes DEF Sendable
<1>2. /\ \A i \in 1 .. 8 : all[o + i] = h[i]
      /\ \A i \in 1 .. n : all[o + 8 + i] = t[i]
  BY DEF Begins
<1>3. /\ Base \in Nat /\ Base > 2 /\ BufSize \in Nat /\ Tag \in Nat /\ Tag >= 2
      /\ BufSize <= 6 * Base /\ n \in Nat /\ n >= Tag
      /\ \A i \in 1 .. n : t[i] # 0 /\ t[i] # 1
  BY BytesAssumption, FramingAssumption, SeparationAssumption DEF Sendable, Plain, Tagged
<1>4. all[k + 5] = 0 /\ all[k + 6] = 1
  <2>1. k + 5 \in 1 .. Len(all) /\ k + 6 \in 1 .. Len(all)
    BY DEF Deceived
  <2>2. all[k + 5] \in Byte /\ all[k + 6] \in Byte
    BY <2>1
  <2> QED
    BY <2>2, TwoDigits DEF Deceived
<1> HIDE DEF h, n
<1>5. /\ all[o + 1] = h[1] /\ all[o + 2] = h[2] /\ all[o + 3] = h[3] /\ all[o + 4] = h[4]
      /\ all[o + 5] = h[5] /\ all[o + 6] = h[6] /\ all[o + 7] = h[7] /\ all[o + 8] = h[8]
  <2>1. /\ 1 \in 1 .. 8 /\ 2 \in 1 .. 8 /\ 3 \in 1 .. 8 /\ 4 \in 1 .. 8
        /\ 5 \in 1 .. 8 /\ 6 \in 1 .. 8 /\ 7 \in 1 .. 8 /\ 8 \in 1 .. 8
    OBVIOUS
  <2> QED
    BY <1>2, <2>1, Zenon
<1>6. CASE k + 6 = o + 1
  <2>1. all[k + 6] = h[1]
    BY <1>5, <1>6, Zenon
  <2>2. h[1] = 1
    BY <1>4, <2>1, Zenon
  <2>3. h[1] = 0
    BY <1>1, Zenon
  <2> QED
    BY <2>2, <2>3
<1>7. CASE k + 6 = o + 2
  <2>1. all[k + 6] = h[2]
    BY <1>5, <1>7, Zenon
  <2>2. h[2] = 1
    BY <1>4, <2>1, Zenon
  <2>3. h[2] = 0
    BY <1>1, Zenon
  <2> QED
    BY <2>2, <2>3
<1>8. CASE k + 6 = o + 3
  <2>1. k + 7 = o + 4 /\ k + 8 = o + 5
    BY <1>8
  <2>2. k + 9 = o + 6 /\ k + 10 = o + 7
    BY <1>8
  <2>3. all[k + 6] = h[3] /\ all[k + 7] = h[4] /\ all[k + 8] = h[5]
    BY <1>5, <1>8, <2>1
  <2>4. all[k + 9] = h[6] /\ all[k + 10] = h[7]
    BY <1>5, <2>2
  <2>5. h[3] = 1 /\ h[7] = 1
    BY <1>1, <1>4, <2>3, <2>4 DEF Deceived
  <2>6. 8 + (h[4] * Base + 0) <= BufSize * 2
    BY <1>1, <2>3 DEF Deceived
  <2>7. h[4] \in Nat /\ h[8] \in Nat
    BY <1>1 DEF Byte
  <2>8. h[4] = h[8] + 12
    <3>1. 1 * Base = Base /\ Base \in Nat /\ n \in Nat
      BY <1>3
    <3>2. 1 * Base + h[4] = n + 12 /\ 1 * Base + h[8] = n
      BY <1>1, <2>5, Zenon
    <3>3. Base + h[4] = n + 12 /\ Base + h[8] = n
      BY <3>1, <3>2, Zenon
    <3> DEFINE p == h[4]
               q == h[8]
    <3>4. p \in Nat /\ q \in Nat /\ Base + p = n + 12 /\ Base + q = n
      BY <2>7, <3>3, Zenon
    <3> HIDE DEF p, q
    <3>5. p = q + 12
      BY <3>1, <3>4, SameLead
    <3> QED
      BY <3>5, Zenon DEF p, q
  <2>9. h[4] * Base >= 12 * Base
    BY <1>3, <2>7, <2>8
  <2> QED
    BY <1>3, <2>6, <2>7, <2>9
<1>9. CASE k + 6 = o + 4
  <2>1. k + 5 = o + 3
    BY <1>9
  <2>2. h[3] = 0 /\ h[4] = 1
    BY <1>4, <1>5, <1>9, <2>1
  <2>3. 0 * Base = 0
    BY <1>3
  <2> QED
    BY <1>1, <1>3, <2>2, <2>3
<1>10. CASE k + 6 = o + 5
  BY <1>1, <1>4, <1>5, <1>10
<1>11. CASE k + 6 = o + 6
  BY <1>11
<1>12. CASE k + 6 = o + 7
  <2>1. k + 5 = o + 6
    BY <1>12
  <2> QED
    BY <1>1, <1>4, <1>5, <2>1
<1>13. CASE k + 6 = o + 8
  <2>1. k + 5 = o + 7
    BY <1>13
  <2>2. h[7] = 0 /\ h[8] = 1
    BY <1>4, <1>5, <1>13, <2>1
  <2>3. 0 * Base = 0
    BY <1>3
  <2> QED
    BY <1>1, <1>3, <2>2, <2>3
<1>14. CASE k + 6 > o + 8
  <2> DEFINE i == k + 6 - o - 8
  <2>1. i \in 1 .. n /\ o + 8 + i = k + 6
    BY <1>14 DEF n
  <2>2. all[k + 6] = t[i]
    BY <1>2, <2>1
  <2> QED
    BY <1>3, <1>4, <2>1, <2>2
<1> QED
  BY <1>6, <1>7, <1>8, <1>9, <1>10, <1>11, <1>12, <1>13, <1>14

\* The stream all is the packets of the first m texts of q, one behind the other:
\* at[i] is where the packet of the i-th ends.
Packed(all, q, m, at) ==
  /\ at \in [0 .. m -> 0 .. Len(all)]
  /\ at[0] = 0 /\ at[m] = Len(all)
  /\ \A i, j \in 0 .. m : i <= j => at[i] <= at[j]
  /\ \A i \in 1 .. m : q[i] \in Seq(Byte) /\ Sendable(q[i])
  /\ \A i \in 1 .. m : at[i] = at[i - 1] + PacketSize(q[i]) /\ Begins(all, at[i - 1], q[i])
  /\ \A x \in 1 .. Len(all) : \E i \in 1 .. m : at[i - 1] < x /\ x <= at[i]

\* A packet begins behind the k-th byte.
PacketAt(k, m, at) == \E i \in 1 .. m : at[i - 1] = k

\* What a parse takes for a line begins where a packet begins.
LEMMA ParsedAtPacket ==
  ASSUME NEW all \in Seq(Byte), NEW q, NEW m \in Nat, NEW at, Packed(all, q, m, at),
         NEW k \in Nat, Deceived(all, k)
  PROVE  PacketAt(k, m, at)
<1>1. k + 10 <= Len(all) /\ Len(all) \in Nat /\ k + 6 \in 1 .. Len(all)
  BY DEF Deceived
<1>2. PICK i \in 1 .. m : at[i - 1] < k + 6 /\ k + 6 <= at[i]
  BY <1>1 DEF Packed
<1> DEFINE from == at[i - 1]
           to   == at[i]
           t    == q[i]
<1>3. /\ i - 1 \in 0 .. m /\ i \in 0 .. m
      /\ at[i - 1] \in Nat /\ at[i] \in Nat
  BY DEF Packed
<1>4. /\ t \in Seq(Byte) /\ Sendable(t) /\ Begins(all, from, t)
      /\ to = from + PacketSize(t)
      /\ PacketSize(t) = Len(t) + 12 /\ Len(t) \in Nat
  BY PacketSizeIs DEF Packed
<1>5. from < k + 6 /\ k + 6 <= to /\ from \in Nat /\ to \in Nat
  BY <1>2, <1>3
<1>6. from = k => PacketAt(k, m, at)
  BY DEF PacketAt
<1> HIDE DEF from, to, t
<1>7. CASE k + 6 <= from + 8 + Len(t)
  <2>1. from = k
    BY <1>4, <1>5, <1>7, WithinPacket
  <2> QED
    BY <1>6, <2>1
<1>8. CASE k + 6 > from + 8 + Len(t)
  <2>1. to \in k + 6 .. k + 9
    BY <1>4, <1>5, <1>8
  <2>2. i # m
    <3>1. at[m] = Len(all)
      BY DEF Packed
    <3>2. at[i] < Len(all)
      BY <1>1, <2>1 DEF to
    <3> QED
      BY <1>1, <3>1, <3>2
  <2>3. i + 1 \in 1 .. m /\ (i + 1) - 1 = i
    BY <2>2
  <2>4. q[i + 1] \in Seq(Byte) /\ Sendable(q[i + 1]) /\ Begins(all, to, q[i + 1])
    <3>1. Begins(all, at[(i + 1) - 1], q[i + 1])
      BY <2>3 DEF Packed
    <3>2. q[i + 1] \in Seq(Byte) /\ Sendable(q[i + 1])
      BY <2>3 DEF Packed
    <3> QED
      BY <2>3, <3>1, <3>2 DEF to
  <2> QED
    BY <2>1, <2>4, BehindPacket
<1> QED
  BY <1>4, <1>5, <1>7, <1>8

\* The stream s is what is left of all when its first k bytes are gone.
Left(s, all, k) ==
  /\ k \in 0 .. Len(all) /\ Len(s) = Len(all) - k
  /\ \A i \in 1 .. Len(s) : s[i] = all[k + i]

\* Of the first m texts of q, sent as packets that end at the places at, the texts h were
\* taken, at most once each and in their order, from packets that begin within the first
\* k bytes.
Taken(h, q, m, at, k) ==
  \E n \in [DOMAIN h -> 1 .. m] :
    \A i \in DOMAIN h :
      /\ Beginning(h[i], q[n[i]]) /\ at[n[i] - 1] < k
      /\ \A j \in DOMAIN h : i < j => n[i] < n[j]

\* A stream s of which any number of bytes has been received: what the first m texts
\* of q were sent as, of which h was taken.
InPieces(s, q, m, h) ==
  \E all \in Seq(Byte) : \E k \in Nat : \E at :
    Packed(all, q, m, at) /\ Left(s, all, k) /\ Taken(h, q, m, at, k)

\* A stream of which nothing was sent.
LEMMA PiecesInit == InPieces(<<>>, <<>>, 0, <<>>)
<1> DEFINE at == [i \in 0 .. 0 |-> 0]
           none == <<>>
<1>1. none \in Seq(Byte) /\ Len(none) = 0 /\ DOMAIN none = {}
  OBVIOUS
<1>2. at \in [0 .. 0 -> 0 .. 0] /\ at[0] = 0
  OBVIOUS
<1>3. (\A i, j \in 0 .. 0 : i <= j => at[i] <= at[j]) /\ 1 .. 0 = {}
  OBVIOUS
<1>4. \E n \in [{} -> {}] : TRUE
  <2>1. [i \in {} |-> i] \in [{} -> {}]
    OBVIOUS
  <2> QED
    BY <2>1
<1> HIDE DEF at, none
<1>5. Packed(none, none, 0, at)
  BY <1>1, <1>2, <1>3 DEF Packed
<1>6. Left(none, none, 0)
  BY <1>1 DEF Left
<1>7. Taken(none, none, 0, at, 0)
  BY <1>1, <1>3, <1>4 DEF Taken
<1>8. InPieces(none, none, 0, none)
  <2>1. 0 \in Nat
    OBVIOUS
  <2> QED
    BY <1>1, <1>5, <1>6, <1>7, <2>1, Zenon DEF InPieces
<1> QED
  BY <1>8 DEF none

\* A packet more is sent behind those there are.
LEMMA PackedMore ==
  ASSUME NEW all \in Seq(Byte), NEW q \in Texts, NEW at, Packed(all, q, Len(q), at),
         NEW t \in Seq(Byte), Sendable(t),
         NEW p \in Seq(Byte), Len(p) = PacketSize(t), Begins(p, 0, t)
  PROVE  LET to == [i \in 0 .. Len(q) + 1 |-> IF i <= Len(q) THEN at[i] ELSE Len(all \o p)]
         IN Packed(all \o p, Append(q, t), Len(q) + 1, to)
<1> DEFINE u == all \o p
           r == Append(q, t)
           m == Len(q)
           to == [i \in 0 .. m + 1 |-> IF i <= m THEN at[i] ELSE Len(u)]
<1>0. /\ m \in Nat /\ q \in Seq(Seq(Byte)) /\ Len(all) \in Nat
      /\ PacketSize(t) \in Nat /\ PacketSize(t) >= 12
  BY PacketSizeIs DEF Texts
<1>1. u \in Seq(Byte) /\ Len(u) = Len(all) + PacketSize(t)
  <2>1. u \in Seq(Byte) /\ Len(u) = Len(all) + Len(p)
    BY ConcatIs, Zenon
  <2> QED
    BY <2>1
<1>2. (\A i \in 1 .. m : r[i] = q[i]) /\ r[m + 1] = t
  BY <1>0, AppendProperties
<1>3. /\ at \in [0 .. m -> 0 .. Len(all)]
      /\ at[0] = 0 /\ at[m] = Len(all)
      /\ \A i, j \in 0 .. m : i <= j => at[i] <= at[j]
      /\ \A i \in 1 .. m : q[i] \in Seq(Byte) /\ Sendable(q[i])
      /\ \A i \in 1 .. m : at[i] = at[i - 1] + PacketSize(q[i]) /\ Begins(all, at[i - 1], q[i])
      /\ \A x \in 1 .. Len(all) : \E i \in 1 .. m : at[i - 1] < x /\ x <= at[i]
  BY DEF Packed
<1>4. \A i \in 1 .. m : Begins(u, at[i - 1], q[i])
  <2> TAKE i \in 1 .. m
  <2>1. i - 1 \in 0 .. m /\ q[i] \in Seq(Byte)
    BY <1>0
  <2>2. at[i - 1] \in 0 .. Len(all)
    BY <1>3, <2>1, Zenon
  <2>3. at[i - 1] \in Nat
    BY <1>0, <2>2
  <2> QED
    BY <1>3, <2>1, <2>3, BeginsConcat
<1>5. Begins(u, Len(all), t)
  BY BeginsBehind
<1> HIDE DEF u, r, m
<1>6. \A i \in 0 .. m : i \in 0 .. m + 1 /\ to[i] = at[i] /\ at[i] \in 0 .. Len(all)
  BY <1>0, <1>3
<1>7. to[m + 1] = Len(u) /\ m + 1 \in 0 .. m + 1 /\ m \in 0 .. m /\ 0 \in 0 .. m
  BY <1>0
<1>8. to \in [0 .. m + 1 -> 0 .. Len(u)]
  BY <1>0, <1>1, <1>3
<1> HIDE DEF to
<1>9. to[0] = 0 /\ to[m] = Len(all)
  BY <1>3, <1>6, <1>7
<1>10. \A i, j \in 0 .. m + 1 : i <= j => to[i] <= to[j]
  <2> TAKE i, j \in 0 .. m + 1
  <2> HAVE i <= j
  <2>1. CASE j <= m
    <3>1. i \in 0 .. m /\ j \in 0 .. m
      BY <1>0, <2>1
    <3> QED
      BY <1>3, <1>6, <3>1
  <2>2. CASE j > m
    <3>1. j = m + 1
      BY <1>0, <2>2
    <3> QED
      BY <1>0, <1>1, <1>7, <1>8, <3>1
  <2> QED
    BY <1>0, <2>1, <2>2
<1>11. \A i \in 1 .. m + 1 :
         to[i] = to[i - 1] + PacketSize(r[i]) /\ Begins(u, to[i - 1], r[i])
  <2> TAKE i \in 1 .. m + 1
  <2>1. CASE i <= m
    <3>1. i \in 1 .. m /\ i \in 0 .. m /\ i - 1 \in 0 .. m
      BY <1>0, <2>1
    <3>2. to[i] = at[i] /\ to[i - 1] = at[i - 1] /\ r[i] = q[i]
      BY <1>2, <1>6, <3>1
    <3> QED
      BY <1>3, <1>4, <3>1, <3>2
  <2>2. CASE i > m
    <3>1. i = m + 1 /\ i - 1 = m
      BY <1>0, <2>2
    <3> QED
      BY <1>1, <1>2, <1>5, <1>7, <1>9, <3>1
  <2> QED
    BY <1>0, <2>1, <2>2
<1>12. \A x \in 1 .. Len(u) : \E i \in 1 .. m + 1 : to[i - 1] < x /\ x <= to[i]
  <2> TAKE x \in 1 .. Len(u)
  <2>1. CASE x <= Len(all)
    <3>1. PICK i \in 1 .. m : at[i - 1] < x /\ x <= at[i]
      BY <1>0, <1>3, <2>1
    <3>2. i - 1 \in 0 .. m /\ i \in 0 .. m /\ i \in 1 .. m + 1
      BY <1>0
    <3> QED
      BY <1>6, <3>1, <3>2
  <2>2. CASE x > Len(all)
    <3>1. (m + 1) - 1 = m /\ m + 1 \in 1 .. m + 1
      BY <1>0
    <3>2. to[(m + 1) - 1] < x /\ x <= to[m + 1]
      BY <1>0, <1>1, <1>7, <1>9, <2>2, <3>1
    <3> QED
      BY <3>1, <3>2
  <2> QED
    BY <1>0, <1>1, <2>1, <2>2
<1>13. \A i \in 1 .. m + 1 : r[i] \in Seq(Byte) /\ Sendable(r[i])
  <2> TAKE i \in 1 .. m + 1
  <2>1. i \in 1 .. m \/ i = m + 1
    BY <1>0
  <2> QED
    BY <1>2, <1>3, <2>1
<1>14. Packed(u, r, m + 1, to)
  BY <1>7, <1>8, <1>9, <1>10, <1>11, <1>12, <1>13 DEF Packed
<1> QED
  BY <1>14 DEF u, r, m, to

\* What was taken, was taken, when another line is typed or the ends of the packets are
\* known of one packet more.
LEMMA TakenMore ==
  ASSUME NEW h, NEW q \in Texts, NEW m \in 0 .. Len(q), NEW at, NEW k,
         Taken(h, q, m, at, k), NEW t \in Seq(Byte), NEW to,
         \A i \in 0 .. m : to[i] = at[i], NEW l \in {m, m + 1}
  PROVE  Taken(h, Append(q, t), l, to, k)
<1> DEFINE r == Append(q, t)
<1>1. q \in Seq(Seq(Byte)) /\ Len(q) \in Nat /\ m \in Nat /\ 1 .. m \subseteq 1 .. l
  BY DEF Texts
<1>2. \A i \in 1 .. m : r[i] = q[i]
  BY <1>1, AppendProperties
<1> HIDE DEF r
<1>3. PICK n \in [DOMAIN h -> 1 .. m] :
        \A i \in DOMAIN h :
          /\ Beginning(h[i], q[n[i]]) /\ at[n[i] - 1] < k
          /\ \A j \in DOMAIN h : i < j => n[i] < n[j]
  BY DEF Taken
<1>4. n \in [DOMAIN h -> 1 .. l]
  BY <1>1, <1>3
<1>5. \A i \in DOMAIN h : Beginning(h[i], r[n[i]]) /\ to[n[i] - 1] < k
  <2> TAKE i \in DOMAIN h
  <2>1. n[i] \in 1 .. m
    BY <1>3
  <2>2. n[i] - 1 \in 0 .. m
    BY <1>1, <2>1
  <2> QED
    BY <1>2, <1>3, <2>1, <2>2
<1>6. Taken(h, r, l, to, k)
  BY <1>3, <1>4, <1>5 DEF Taken
<1> QED
  BY <1>6 DEF r

\* A line is sent.
LEMMA PiecesSend ==
  ASSUME NEW s \in Seq(Byte), NEW q \in Texts, NEW h \in Texts, InPieces(s, q, Len(q), h),
         NEW t \in Seq(Byte), Sendable(t),
         NEW p \in Seq(Byte), Len(p) = PacketSize(t), Begins(p, 0, t)
  PROVE  InPieces(s \o p, Append(q, t), Len(q) + 1, h)
<1>0. PICK all \in Seq(Byte), k \in Nat : \E at :
        Packed(all, q, Len(q), at) /\ Left(s, all, k) /\ Taken(h, q, Len(q), at, k)
  BY DEF InPieces
<1>1. PICK at :
        Packed(all, q, Len(q), at) /\ Left(s, all, k) /\ Taken(h, q, Len(q), at, k)
  BY <1>0
<1> DEFINE u  == all \o p
           v  == s \o p
           to == [i \in 0 .. Len(q) + 1 |-> IF i <= Len(q) THEN at[i] ELSE Len(all \o p)]
<1>2. Packed(u, Append(q, t), Len(q) + 1, to)
  BY <1>1, PackedMore
<1>3. Len(q) \in Nat /\ Len(q) \in 0 .. Len(q)
  BY DEF Texts
<1>4. \A i \in 0 .. Len(q) : to[i] = at[i]
  BY <1>3
<1> HIDE DEF to
<1>5. Taken(h, Append(q, t), Len(q) + 1, to, k)
  BY <1>1, <1>3, <1>4, TakenMore
<1>6. /\ u \in Seq(Byte) /\ Len(u) = Len(all) + Len(p)
      /\ \A i \in 1 .. Len(all) : u[i] = all[i]
      /\ \A i \in 1 .. Len(p) : u[Len(all) + i] = p[i]
  BY ConcatIs, Zenon
<1>7. /\ v \in Seq(Byte) /\ Len(v) = Len(s) + Len(p)
      /\ \A i \in 1 .. Len(s) : v[i] = s[i]
      /\ \A i \in 1 .. Len(p) : v[Len(s) + i] = p[i]
  BY ConcatIs, Zenon
<1> HIDE DEF u, v
<1>8. /\ Len(all) \in Nat /\ Len(s) \in Nat /\ Len(p) \in Nat
      /\ k \in 0 .. Len(all) /\ Len(s) = Len(all) - k
      /\ \A i \in 1 .. Len(s) : s[i] = all[k + i]
  BY <1>1 DEF Left
<1>9. \A i \in 1 .. Len(v) : v[i] = u[k + i]
  <2> TAKE i \in 1 .. Len(v)
  <2>1. CASE i <= Len(s)
    <3>1. i \in 1 .. Len(s) /\ k + i \in 1 .. Len(all)
      BY <1>8, <2>1
    <3> QED
      BY <1>6, <1>7, <1>8, <3>1
  <2>2. CASE i > Len(s)
    <3> DEFINE j == i - Len(s)
    <3>1. j \in 1 .. Len(p) /\ i = Len(s) + j /\ k + i = Len(all) + j
      BY <1>7, <1>8, <2>2
    <3> HIDE DEF j
    <3> QED
      BY <1>6, <1>7, <3>1
  <2> QED
    BY <1>8, <2>1, <2>2
<1>10. Left(v, u, k)
  BY <1>6, <1>7, <1>8, <1>9 DEF Left
<1>11. InPieces(v, Append(q, t), Len(q) + 1, h)
  BY <1>2, <1>5, <1>6, <1>10 DEF InPieces
<1> QED
  BY <1>11 DEF v

\* A line is typed that is not sent.
LEMMA PiecesType ==
  ASSUME NEW s, NEW q \in Texts, NEW m \in 0 .. Len(q), NEW h, InPieces(s, q, m, h),
         NEW t \in Seq(Byte)
  PROVE  InPieces(s, Append(q, t), m, h)
<1>0. PICK all \in Seq(Byte), k \in Nat : \E at :
        Packed(all, q, m, at) /\ Left(s, all, k) /\ Taken(h, q, m, at, k)
  BY DEF InPieces
<1>1. PICK at :
        Packed(all, q, m, at) /\ Left(s, all, k) /\ Taken(h, q, m, at, k)
  BY <1>0
<1>2. Taken(h, Append(q, t), m, at, k)
  BY <1>1, TakenMore
<1>3. \A i \in 1 .. m : Append(q, t)[i] = q[i]
  <2>1. q \in Seq(Seq(Byte)) /\ 1 .. m \subseteq 1 .. Len(q)
    BY DEF Texts
  <2> QED
    BY <2>1, AppendProperties
<1> DEFINE r == Append(q, t)
<1>4. \A i \in 1 .. m : r[i] = q[i]
  BY <1>3
<1>5. Taken(h, r, m, at, k)
  BY <1>2
<1> HIDE DEF r
<1>6. Packed(all, r, m, at)
  BY <1>1, <1>4 DEF Packed
<1> QED
  BY <1>1, <1>5, <1>6 DEF InPieces, r

\* More of a stream is gone when bytes are received.
LEMMA LeftAfter ==
  ASSUME NEW s \in Seq(Byte), NEW all \in Seq(Byte), NEW k \in Nat, Left(s, all, k),
         NEW n \in 0 .. Len(s)
  PROVE  Left(SubSeq(s, n + 1, Len(s)), all, k + n) /\ k + n \in Nat
<1> DEFINE u == SubSeq(s, n + 1, Len(s))
<1>1. Len(u) = Len(s) - n /\ \A i \in 1 .. Len(s) - n : u[i] = s[n + i]
  BY CutIs
<1>2. /\ Len(all) \in Nat /\ Len(s) \in Nat /\ Len(s) = Len(all) - k
      /\ \A i \in 1 .. Len(s) : s[i] = all[k + i]
  BY DEF Left
<1> HIDE DEF u
<1>3. \A i \in 1 .. Len(u) : u[i] = all[k + n + i]
  <2> TAKE i \in 1 .. Len(u)
  <2>1. n + i \in 1 .. Len(s) /\ i \in 1 .. Len(s) - n /\ k + (n + i) = k + n + i
    BY <1>1, <1>2
  <2> QED
    BY <1>1, <1>2, <2>1
<1>4. k + n \in 0 .. Len(all) /\ Len(u) = Len(all) - (k + n)
  BY <1>1, <1>2
<1>5. Left(u, all, k + n)
  BY <1>3, <1>4 DEF Left
<1>6. k + n \in Nat
  OBVIOUS
<1> QED
  BY <1>5, <1>6 DEF u

\* Bytes are received that are no line.
LEMMA PiecesDrop ==
  ASSUME NEW s \in Seq(Byte), NEW q, NEW m \in Nat, NEW h, InPieces(s, q, m, h),
         NEW n \in 0 .. Len(s)
  PROVE  InPieces(SubSeq(s, n + 1, Len(s)), q, m, h)
<1>0. PICK all \in Seq(Byte), k \in Nat : \E at :
        Packed(all, q, m, at) /\ Left(s, all, k) /\ Taken(h, q, m, at, k)
  BY DEF InPieces
<1>1. PICK at :
        Packed(all, q, m, at) /\ Left(s, all, k) /\ Taken(h, q, m, at, k)
  BY <1>0
<1>2. Left(SubSeq(s, n + 1, Len(s)), all, k + n) /\ k + n \in Nat
  BY <1>1, LeftAfter
<1>3. PICK d \in [DOMAIN h -> 1 .. m] :
        \A i \in DOMAIN h :
          /\ Beginning(h[i], q[d[i]]) /\ at[d[i] - 1] < k
          /\ \A j \in DOMAIN h : i < j => d[i] < d[j]
  BY <1>1 DEF Taken
<1>4. ASSUME NEW i \in DOMAIN h
      PROVE  at[d[i] - 1] < k + n
  <2>1. d[i] \in 1 .. m
    BY <1>3
  <2>2. d[i] - 1 \in 0 .. m
    BY <2>1
  <2>3. at[d[i] - 1] \in Nat
    BY <1>1, <2>2 DEF Packed
  <2>4. at[d[i] - 1] < k
    BY <1>3
  <2> QED
    BY <2>3, <2>4
<1>5. Taken(h, q, m, at, k + n)
  BY <1>3, <1>4 DEF Taken
<1> QED
  BY <1>1, <1>2, <1>5 DEF InPieces

\* The text t is the beginning of one whose packet begins behind the k-th byte.
FromPacketAt(t, q, m, at, k) == \E i \in 1 .. m : at[i - 1] = k /\ Beginning(t, q[i])

\* What a parse of a portion yields as a line is the beginning of the text of a packet,
\* of which nothing had been received before.
LEMMA ParsedIsBeginning ==
  ASSUME NEW all \in Seq(Byte), NEW q, NEW m \in Nat, NEW at, Packed(all, q, m, at),
         NEW s \in Seq(Byte), NEW k \in Nat, Left(s, all, k),
         NEW n \in 0 .. Len(s), n <= BufSize, NEW b \in Buffer, Blank(b),
         NEW t, Parse(Store(b, SubSeq(s, 1, n))).texts = <<t>>, Tagged(t),
         ~Outside(Parse(Store(b, SubSeq(s, 1, n))).buf)
  PROVE  n >= 10 /\ FromPacketAt(t, q, m, at, k)
<1> DEFINE r  == SubSeq(s, 1, n)
           st == Store(b, r)
           d  == st.data
           l  == At(d, 7) * Base + At(d, 8)
<1>1. r \in Seq(Byte) /\ Len(r) = n /\ \A i \in 1 .. n : r[i] = s[i]
  BY CutIs
<1> HIDE DEF r
<1>2. st \in Buffer /\ st.ri = 0 /\ Len(d) = BufSize
  BY <1>1, StoreIs DEF Blank, Reset
<1>3. \A i \in Nat : At(d, i) = At(r, i)
  BY <1>1, StoredAt
<1>4. Sized(st)
  BY <1>2 DEF Sized
<1>5. Parse(st).texts = <<t>> /\ ~Outside(Parse(st).buf)
  BY DEF r
<1> HIDE DEF st
<1>6. /\ At(d, 5) * Base + At(d, 6) = 1
      /\ l \in Nat /\ t \in Seq(Byte) /\ Len(t) = l
      /\ \A i \in 1 .. l : t[i] = At(d, 8 + i)
      /\ Parse(st).buf.ri = 8 + l
  BY <1>2, <1>4, <1>5, ParseView
<1> HIDE DEF d
<1>7. /\ Base \in Nat /\ BufSize \in Nat /\ Tag \in Nat /\ Tag >= 2
      /\ Len(s) \in Nat /\ Len(all) \in Nat /\ n \in Nat /\ n <= Len(s)
  BY BytesAssumption, FramingAssumption, SeparationAssumption
<1>8. 8 + l <= BufSize * 2
  <2> DEFINE end  == Parse(st).buf
             size == Len(end.data)
  <2>1. end \in Buffer /\ Sized(end)
    BY <1>2, <1>4, ParseIs
  <2>2. end.ri = 8 + l /\ ~Outside(end)
    BY <1>5, <1>6
  <2> HIDE DEF end, l
  <2>3. size \in Nat /\ ~(8 + l > size)
    BY <2>1, <2>2 DEF Outside, Buffer
  <2>4. size = BufSize \/ size = BufSize * 2
    BY <2>1 DEF Sized
  <2> HIDE DEF size
  <2> QED
    BY <1>6, <1>7, <2>3, <2>4
<1>9. Tag <= l /\ t[1] # 0 /\ t[2] = t[1]
  <2>1. 1 \in 1 .. Tag /\ 2 \in 1 .. Tag
    BY <1>7
  <2> QED
    BY <1>6, <2>1 DEF Tagged
<1>10. t[1] = At(r, 9) /\ t[2] = At(r, 10)
  <2>1. 1 \in 1 .. l /\ 2 \in 1 .. l /\ 8 + 1 = 9 /\ 8 + 2 = 10
    BY <1>6, <1>7, <1>9
  <2>2. t[1] = At(d, 8 + 1) /\ t[2] = At(d, 8 + 2)
    BY <1>6, <2>1
  <2> HIDE DEF l
  <2>3. t[1] = At(d, 9) /\ t[2] = At(d, 10)
    BY <2>1, <2>2
  <2> QED
    BY <1>3, <2>3
<1>11. n >= 10
  <2>1. 10 \in DOMAIN r
    BY <1>9, <1>10 DEF At
  <2> QED
    BY <1>1, <2>1
<1> HIDE DEF l
<1>12. /\ k + Len(s) = Len(all)
       /\ \A i \in 1 .. Len(s) : s[i] = all[k + i]
  BY <1>7 DEF Left
<1>13. \A i \in 1 .. n : At(r, i) = all[k + i] /\ k + i \in 1 .. Len(all)
  <2> TAKE i \in 1 .. n
  <2>1. i \in 1 .. Len(s) /\ i \in DOMAIN r
    BY <1>1, <1>7
  <2> QED
    BY <1>1, <1>7, <1>12, <2>1 DEF At
<1>14. l = all[k + 7] * Base + all[k + 8]
  <2>1. 7 \in 1 .. n /\ 8 \in 1 .. n
    BY <1>11
  <2> QED
    BY <1>3, <1>13, <2>1 DEF l
<1>15. Deceived(all, k)
  <2>1. 5 \in 1 .. n /\ 6 \in 1 .. n /\ 9 \in 1 .. n /\ 10 \in 1 .. n
    BY <1>11
  <2>2. /\ At(d, 5) = all[k + 5] /\ At(d, 6) = all[k + 6]
        /\ At(r, 9) = all[k + 9] /\ At(r, 10) = all[k + 10]
    BY <1>3, <1>13, <2>1
  <2>3. k + 10 <= Len(all)
    BY <1>7, <1>11, <1>12
  <2> QED
    BY <1>6, <1>8, <1>9, <1>10, <1>14, <2>2, <2>3 DEF Deceived
<1>16. PICK i \in 1 .. m : at[i - 1] = k
  <2>1. PacketAt(k, m, at)
    BY <1>15, ParsedAtPacket, Zenon
  <2> QED
    BY <2>1 DEF PacketAt
<1> DEFINE w == q[i]
<1>17. w \in Seq(Byte) /\ Sendable(w) /\ Begins(all, k, w)
  BY <1>16 DEF Packed
<1> HIDE DEF w
<1>18. l = Len(w)
  <2> DEFINE h == Header(w)
  <2>1. h[7] * Base + h[8] = Len(w)
    BY <1>17, HeaderBytes DEF Sendable
  <2>2. \A j \in 1 .. 8 : all[k + j] = h[j]
    BY <1>17 DEF Begins
  <2> HIDE DEF h
  <2>3. 7 \in 1 .. 8 /\ 8 \in 1 .. 8
    OBVIOUS
  <2>4. all[k + 7] = h[7] /\ all[k + 8] = h[8]
    BY <2>2, <2>3, Zenon
  <2> QED
    BY <1>14, <2>1, <2>4
<1>19. \A j \in 1 .. l : t[j] = IF 8 + j <= n THEN w[j] ELSE 0
  <2> TAKE j \in 1 .. l
  <2>1. t[j] = At(r, 8 + j)
    BY <1>3, <1>6
  <2>2. CASE 8 + j <= n
    <3>1. At(r, 8 + j) = all[k + (8 + j)] /\ k + (8 + j) = k + 8 + j
      BY <1>13, <2>2
    <3>2. all[k + 8 + j] = w[j]
      BY <1>17, <1>18 DEF Begins
    <3> QED
      BY <2>1, <2>2, <3>1, <3>2
  <2>3. CASE ~(8 + j <= n)
    <3>1. 8 + j \notin DOMAIN r
      BY <1>1, <2>3
    <3> QED
      BY <2>1, <2>3, <3>1 DEF At
  <2> QED
    BY <2>2, <2>3
<1>20. Beginning(t, w)
  <2> DEFINE c == IF n - 8 <= l THEN n - 8 ELSE l
  <2>1. l \in Nat /\ l >= 2 /\ DOMAIN w = 1 .. l /\ Len(t) = Len(w)
    BY <1>6, <1>7, <1>9, <1>17, <1>18
  <2>2. c \in 1 .. l
    BY <1>7, <1>11, <2>1
  <2>3. \A j \in 1 .. l : 8 + j <= n <=> j <= c
    BY <1>7, <1>11, <2>1
  <2> HIDE DEF c
  <2>4. \A j \in 1 .. l : t[j] = IF j <= c THEN w[j] ELSE 0
    BY <1>19, <2>3
  <2> QED
    BY <2>1, <2>2, <2>4 DEF Beginning
<1> QED
  BY <1>11, <1>16, <1>20 DEF w, FromPacketAt

\* The text t is as long as one of the first m texts of q.
AsLong(t, q, m) == \E i \in 1 .. m : Len(t) = Len(q[i])

\* A portion is received that yields a line.
LEMMA PiecesTake ==
  ASSUME NEW s \in Seq(Byte), NEW q, NEW m \in Nat, NEW h \in Texts, InPieces(s, q, m, h),
         NEW n \in 0 .. Len(s), n <= BufSize, NEW b \in Buffer, Blank(b),
         NEW t \in Seq(Byte), Parse(Store(b, SubSeq(s, 1, n))).texts = <<t>>, Tagged(t),
         ~Outside(Parse(Store(b, SubSeq(s, 1, n))).buf)
  PROVE  /\ InPieces(SubSeq(s, n + 1, Len(s)), q, m, Append(h, t))
         /\ AsLong(t, q, m)
<1>0. PICK all \in Seq(Byte), k \in Nat : \E at :
        Packed(all, q, m, at) /\ Left(s, all, k) /\ Taken(h, q, m, at, k)
  BY DEF InPieces
<1>1. PICK at :
        Packed(all, q, m, at) /\ Left(s, all, k) /\ Taken(h, q, m, at, k)
  BY <1>0
<1>2. Left(SubSeq(s, n + 1, Len(s)), all, k + n) /\ k + n \in Nat
  BY <1>1, LeftAfter
<1>3. PICK i \in 1 .. m : n >= 10 /\ at[i - 1] = k /\ Beginning(t, q[i])
  <2>1. n >= 10 /\ FromPacketAt(t, q, m, at, k)
    BY <1>1, ParsedIsBeginning, Zenon
  <2> QED
    BY <2>1 DEF FromPacketAt
<1>4. PICK d \in [DOMAIN h -> 1 .. m] :
        \A j \in DOMAIN h :
          /\ Beginning(h[j], q[d[j]]) /\ at[d[j] - 1] < k
          /\ \A l \in DOMAIN h : j < l => d[j] < d[l]
  BY <1>1 DEF Taken
<1> DEFINE x == Len(h) + 1
           r == Append(h, t)
           e == [j \in 1 .. x |-> IF j = x THEN i ELSE d[j]]
<1>5. /\ h \in Seq(Seq(Byte)) /\ Len(h) \in Nat /\ DOMAIN h = 1 .. Len(h)
      /\ DOMAIN r = 1 .. x /\ r[x] = t /\ \A j \in 1 .. Len(h) : r[j] = h[j]
  BY AppendProperties DEF Texts
<1> HIDE DEF r
<1>6. \A j \in 1 .. x : j \in 1 .. Len(h) \/ j = x
  BY <1>5
<1>7. \A j \in 1 .. Len(h) : j \in 1 .. x /\ j # x /\ d[j] \in 1 .. m
  <2>1. \A j \in 1 .. Len(h) : j \in 1 .. x /\ j # x
    BY <1>5
  <2>2. \A j \in 1 .. Len(h) : d[j] \in 1 .. m
    BY <1>4, <1>5, Zenon
  <2> QED
    BY <2>1, <2>2
<1>8. e \in [1 .. x -> 1 .. m]
  BY <1>6, <1>7
<1>9. (\A j \in 1 .. Len(h) : e[j] = d[j]) /\ (x \in 1 .. x => e[x] = i)
  BY <1>7
<1>10. x \in 1 .. x
  BY <1>5
<1> HIDE DEF e
<1>11. \A j \in 1 .. Len(h) : d[j] < i
  <2> TAKE j \in 1 .. Len(h)
  <2>1. d[j] - 1 \in 0 .. m /\ i - 1 \in 0 .. m /\ d[j] \in 1 .. m
    BY <1>7
  <2>2. at[d[j] - 1] < at[i - 1]
    BY <1>3, <1>4, <1>5
  <2>3. at[d[j] - 1] \in Nat /\ at[i - 1] \in Nat
    <3>1. at \in [0 .. m -> 0 .. Len(all)]
      BY <1>1 DEF Packed
    <3> QED
      BY <2>1, <3>1
  <2>4. i - 1 <= d[j] - 1 => at[i - 1] <= at[d[j] - 1]
    BY <1>1, <2>1 DEF Packed
  <2> QED
    BY <2>1, <2>2, <2>3, <2>4
<1>12. \A j \in 1 .. x : Beginning(r[j], q[e[j]]) /\ at[e[j] - 1] < k + n
  <2> TAKE j \in 1 .. x
  <2>1. CASE j = x
    <3>1. k < k + n
      BY <1>3
    <3> QED
      BY <1>3, <1>5, <1>9, <1>10, <2>1, <3>1
  <2>2. CASE j # x
    <3>1. j \in 1 .. Len(h)
      BY <1>6, <2>2
    <3>2. e[j] = d[j] /\ r[j] = h[j] /\ Beginning(h[j], q[d[j]]) /\ at[d[j] - 1] < k
      BY <1>4, <1>5, <1>9, <3>1
    <3>3. d[j] - 1 \in 0 .. m
      BY <1>7, <3>1
    <3>4. at[d[j] - 1] \in Nat
      BY <1>1, <3>3 DEF Packed
    <3>5. at[d[j] - 1] < k + n
      BY <1>3, <3>2, <3>4
    <3> QED
      BY <3>2, <3>5
  <2> QED
    BY <2>1, <2>2
<1>13. \A j, l \in 1 .. x : j < l => e[j] < e[l]
  <2> TAKE j, l \in 1 .. x
  <2> HAVE j < l
  <2>1. j \in 1 .. Len(h)
    BY <1>5
  <2>2. CASE l = x
    BY <1>9, <1>10, <1>11, <2>1, <2>2
  <2>3. CASE l # x
    <3>1. l \in 1 .. Len(h)
      BY <1>6, <2>3
    <3> QED
      BY <1>4, <1>5, <1>9, <2>1, <3>1
  <2> QED
    BY <2>2, <2>3
<1>14. Taken(r, q, m, at, k + n)
  BY <1>5, <1>8, <1>12, <1>13 DEF Taken
<1>15. InPieces(SubSeq(s, n + 1, Len(s)), q, m, r)
  BY <1>1, <1>2, <1>14 DEF InPieces
<1>16. Len(t) = Len(q[i])
  BY <1>3 DEF Beginning
<1> QED
  BY <1>15, <1>16 DEF r, AsLong

\* Every client's stream: its lines were sent, but for the one that may have ended it, and
\* the server has taken some of them.
PiecesInv ==
  \A c \in Client : \E m \in 0 .. Len(typed[c]) :
    /\ c \notin ended => m = Len(typed[c])
    /\ InPieces(up[c], typed[c], m, handled[c])

\* A client with which a step has nothing to do keeps what PiecesInv says of it.
LEMMA PiecesStay ==
  ASSUME PiecesInv, NEW c \in Client, c \notin ended' => c \notin ended,
         up'[c] = up[c], typed'[c] = typed[c], handled'[c] = handled[c]
  PROVE  \E m \in 0 .. Len(typed'[c]) :
           /\ c \notin ended' => m = Len(typed'[c])
           /\ InPieces(up'[c], typed'[c], m, handled'[c])
BY DEF PiecesInv

\* Typing a line keeps PiecesInv.
LEMMA TypeLinePieces ==
  ASSUME TypeInv, ReadyInv, PiecesInv, NEW c \in Client, NEW len \in Lengths, TypeLine(c, len)
  PROVE  PiecesInv'
<1>1. PICK text \in Seq(Byte) :
        /\ Plain(text) /\ typed' = [typed EXCEPT ![c] = Append(@, text)]
        /\ NotSent(c, text) \/ \E p \in Seq(Byte) : Sent(c, text, p)
  BY TypeLineDoes
<1>2. \A q \in Node \ {c} : q \in ended' <=> q \in ended
  BY TypeLineDoes
<1>3. handled' = handled /\ c \notin ended
  BY DEF TypeLine
<1>4. /\ up \in [Client -> Seq(Byte)] /\ typed \in [Client -> Texts]
      /\ handled \in [Client -> Texts]
  BY Types
<1> DEFINE q == typed[c]
<1>5. q \in Texts /\ q \in Seq(Seq(Byte)) /\ Len(q) \in Nat /\ typed'[c] = Append(q, text)
  BY <1>1, <1>4 DEF Texts
<1>6. Len(Append(q, text)) = Len(q) + 1
  BY <1>5
<1>7. InPieces(up[c], q, Len(q), handled[c])
  BY <1>3 DEF PiecesInv
<1> HIDE DEF q
<1>8. \E m \in 0 .. Len(typed'[c]) :
        /\ c \notin ended' => m = Len(typed'[c])
        /\ InPieces(up'[c], typed'[c], m, handled'[c])
  <2>1. CASE NotSent(c, text)
    <3>1. Len(q) \in 0 .. Len(q) /\ Len(q) \in 0 .. Len(typed'[c])
      BY <1>5, <1>6
    <3>2. InPieces(up[c], Append(q, text), Len(q), handled[c])
      BY <1>5, <1>7, <3>1, PiecesType
    <3>3. c \in ended' /\ up' = up
      BY <2>1 DEF NotSent
    <3> QED
      BY <1>3, <1>5, <3>1, <3>2, <3>3
  <2>2. CASE \E p \in Seq(Byte) : Sent(c, text, p)
    <3>1. PICK p \in Seq(Byte) : Sent(c, text, p)
      BY <2>2
    <3>2. Sendable(text) /\ Len(p) = PacketSize(text) /\ Begins(p, 0, text)
      BY <1>1, <3>1 DEF Sent, Sendable
    <3>3. up[c] \in Seq(Byte) /\ handled[c] \in Texts
      BY <1>4
    <3>4. InPieces(up[c] \o p, Append(q, text), Len(q) + 1, handled[c])
      BY <1>5, <1>7, <3>2, <3>3, PiecesSend
    <3>5. up'[c] = up[c] \o p
      BY <1>4, <3>1 DEF Sent
    <3>6. Len(q) + 1 = Len(typed'[c]) /\ Len(q) + 1 \in 0 .. Len(typed'[c])
      BY <1>5, <1>6
    <3> QED
      BY <1>3, <1>5, <3>4, <3>5, <3>6
  <2> QED
    BY <1>1, <2>1, <2>2
<1>9. ASSUME NEW d \in Client, d # c
      PROVE  \E m \in 0 .. Len(typed'[d]) :
               /\ d \notin ended' => m = Len(typed'[d])
               /\ InPieces(up'[d], typed'[d], m, handled'[d])
  <2>1. typed'[d] = typed[d]
    BY <1>1, <1>4, <1>9
  <2>2. up'[d] = up[d]
    BY <1>1, <1>4, <1>9 DEF Sent, NotSent
  <2>3. d \in Node \ {c}
    BY <1>9 DEF Node
  <2> QED
    BY <1>2, <1>3, <2>1, <2>2, <2>3, PiecesStay
<1> QED
  BY <1>8, <1>9 DEF PiecesInv

\* Receiving at the server keeps it too, and what it tells is as long as a line typed.
LEMMA ServerReceivesPieces ==
  ASSUME TypeInv, ReadyInv, PiecesInv, NEW c \in Client, ServerReceives(c)
  PROVE  /\ PiecesInv'
         /\ todo' # <<>> => \E i \in DOMAIN typed[c] : Len(reply'.text) = Len(typed[c][i])
<1>1. PICK n \in 0 .. Len(up[c]) :
        /\ n <= BufSize
        /\ up' = [up EXCEPT ![c] = SubSeq(@, n + 1, Len(@))]
        /\ TakesNothing(c, n) \/ \E text \in Seq(Byte) : Takes(c, n, text)
  BY ServerReceivesDoes
<1>2. \A q \in Client : q \in ended' <=> q \in ended
  BY ServerReceivesDoes
<1>3. typed' = typed /\ Server \notin ended /\ todo = <<>>
  BY DEF ServerReceives
<1>4. /\ up \in [Client -> Seq(Byte)] /\ up[c] \in Seq(Byte)
      /\ typed[c] \in Texts /\ Len(typed[c]) \in Nat /\ DOMAIN typed[c] = 1 .. Len(typed[c])
      /\ handled \in [Client -> Texts] /\ handled[c] \in Texts
      /\ Server \in Node /\ buf[Server] \in Buffer /\ Blank(buf[Server])
  BY <1>3, Types DEF Node, Texts, ReadyInv
<1>5. PICK m \in 0 .. Len(typed[c]) :
        /\ c \notin ended => m = Len(typed[c])
        /\ InPieces(up[c], typed[c], m, handled[c])
  BY DEF PiecesInv
<1>6. m \in Nat
  BY <1>4
<1>7. /\ InPieces(up'[c], typed'[c], m, handled'[c])
      /\ todo' # <<>> => \E i \in DOMAIN typed[c] : Len(reply'.text) = Len(typed[c][i])
  <2>1. CASE TakesNothing(c, n)
    <3>1. InPieces(SubSeq(up[c], n + 1, Len(up[c])), typed[c], m, handled[c])
      BY <1>4, <1>5, <1>6, PiecesDrop
    <3>2. handled' = handled /\ todo' = <<>>
      BY <2>1 DEF TakesNothing
    <3>3. up'[c] = SubSeq(up[c], n + 1, Len(up[c]))
      BY <1>1, <1>4
    <3> QED
      BY <1>3, <3>1, <3>2, <3>3
  <2>2. CASE \E text \in Seq(Byte) : Takes(c, n, text)
    <3>1. PICK text \in Seq(Byte) : Takes(c, n, text)
      BY <2>2
    <3>2. /\ Parse(Store(buf[Server], SubSeq(up[c], 1, n))).texts = <<text>>
          /\ Tagged(text)
          /\ ~Outside(Parse(Store(buf[Server], SubSeq(up[c], 1, n))).buf)
      BY <3>1 DEF Takes
    <3>3. /\ handled' = [handled EXCEPT ![c] = Append(@, text)]
          /\ reply' = [from |-> c, text |-> text]
      BY <3>1 DEF Takes
    <3>4. /\ InPieces(SubSeq(up[c], n + 1, Len(up[c])), typed[c], m, Append(handled[c], text))
          /\ AsLong(text, typed[c], m)
      <4>1. /\ up[c] \in Seq(Byte) /\ handled[c] \in Texts
            /\ buf[Server] \in Buffer /\ Blank(buf[Server])
        BY <1>4
      <4>2. n <= BufSize /\ n \in 0 .. Len(up[c]) /\ InPieces(up[c], typed[c], m, handled[c])
        BY <1>1, <1>5
      <4> QED
        BY <1>6, <3>2, <4>1, <4>2, PiecesTake, Zenon
    <3>5. /\ up'[c] = SubSeq(up[c], n + 1, Len(up[c]))
          /\ handled'[c] = Append(handled[c], text) /\ reply'.text = text
      BY <1>1, <1>4, <3>3
    <3>6. 1 .. m \subseteq DOMAIN typed[c]
      BY <1>4
    <3> QED
      BY <1>3, <3>4, <3>5, <3>6 DEF AsLong
  <2> QED
    BY <1>1, <2>1, <2>2
<1>8. ASSUME NEW d \in Client, d # c
      PROVE  \E l \in 0 .. Len(typed'[d]) :
               /\ d \notin ended' => l = Len(typed'[d])
               /\ InPieces(up'[d], typed'[d], l, handled'[d])
  <2>1. up'[d] = up[d]
    BY <1>1, <1>4, <1>8
  <2>2. handled'[d] = handled[d]
    BY <1>1, <1>4, <1>8 DEF Takes, TakesNothing
  <2> QED
    BY <1>2, <1>3, <2>1, <2>2, PiecesStay
<1> QED
  BY <1>2, <1>3, <1>5, <1>7, <1>8 DEF PiecesInv

\* Every step keeps PiecesInv, whatever recv() returns.
LEMMA StepPieces ==
  ASSUME TypeInv, ReadyInv, PiecesInv, [Next]_vars
  PROVE  PiecesInv'
<1>1. ASSUME NEW c \in Client, NEW len \in Lengths, TypeLine(c, len)
      PROVE  PiecesInv'
  BY <1>1, TypeLinePieces
<1>2. ASSUME NEW c \in Client, ServerReceives(c)
      PROVE  PiecesInv'
  BY <1>2, ServerReceivesPieces
<1>3. CASE UNCHANGED <<up, typed, handled>> /\ \A d \in Client : d \in ended => d \in ended'
  BY <1>3, PiecesStay DEF PiecesInv
<1>4. ASSUME NEW c \in Client, ClientReceives(c)
      PROVE  PiecesInv'
  <2>1. \A d \in Client : d \in ended => d \in ended'
    <3>1. \A q \in Node \ {c} : q \in ended' <=> q \in ended
      BY <1>4, ClientReceivesAnything
    <3>2. c \notin ended
      BY <1>4 DEF ClientReceives
    <3> QED
      BY <3>1, <3>2 DEF Node
  <2> QED
    BY <1>3, <1>4, <2>1 DEF ClientReceives
<1>5. CASE ServerTells
  <2>1. \A d \in Client : d \in ended => d \in ended'
    BY <1>5, ServerTellsAnything
  <2> QED
    BY <1>3, <1>5, <2>1 DEF ServerTells
<1>6. CASE UNCHANGED vars
  BY <1>3, <1>6 DEF vars
<1> QED
  BY <1>1, <1>2, <1>4, <1>5, <1>6 DEF Next, Quiet

\* At first the streams are empty.
LEMMA InitPieces == Init => PiecesInv
<1> SUFFICES ASSUME Init, NEW c \in Client
             PROVE  \E m \in 0 .. Len(typed[c]) :
                      /\ c \notin ended => m = Len(typed[c])
                      /\ InPieces(up[c], typed[c], m, handled[c])
  BY DEF PiecesInv
<1>1. up[c] = <<>> /\ typed[c] = <<>> /\ handled[c] = <<>>
  BY DEF Init
<1>2. Len(typed[c]) = 0 /\ 0 \in 0 .. Len(typed[c])
  BY <1>1
<1>3. InPieces(up[c], typed[c], 0, handled[c])
  BY <1>1, PiecesInit
<1> QED
  BY <1>2, <1>3

\* What PiecesInv says of the texts taken.
LEMMA PiecesDo ==
  ASSUME TypeInv, PiecesInv
  PROVE  NeverMixed
<1> SUFFICES ASSUME NEW c \in Client
             PROVE  \E n \in [DOMAIN handled[c] -> DOMAIN typed[c]] :
                      \A i \in DOMAIN handled[c] :
                        /\ Beginning(handled[c][i], typed[c][n[i]])
                        /\ \A j \in DOMAIN handled[c] : i < j => n[i] < n[j]
  BY DEF NeverMixed
<1>1. typed[c] \in Seq(Seq(Byte)) /\ DOMAIN typed[c] = 1 .. Len(typed[c])
  BY Types DEF Texts
<1>2. PICK m \in 0 .. Len(typed[c]) : InPieces(up[c], typed[c], m, handled[c])
  BY DEF PiecesInv
<1>3. PICK at, k : Taken(handled[c], typed[c], m, at, k)
  BY <1>2 DEF InPieces
<1>4. PICK n \in [DOMAIN handled[c] -> 1 .. m] :
        \A i \in DOMAIN handled[c] :
          /\ Beginning(handled[c][i], typed[c][n[i]]) /\ at[n[i] - 1] < k
          /\ \A j \in DOMAIN handled[c] : i < j => n[i] < n[j]
  BY <1>3 DEF Taken
<1>5. 1 .. m \subseteq DOMAIN typed[c]
  BY <1>1
<1>6. n \in [DOMAIN handled[c] -> DOMAIN typed[c]]
  BY <1>4, <1>5
<1> QED
  BY <1>4, <1>6

-----------------------------------------------------------------------------
(* What arrives.                                                           *)

\* Up to the server, for the streams of which recv() returns one packet, though other
\* streams come in portions of any length and may end the server.
LinesInv == \A c \in Client \ cutUp : Arrived(up[c], typed[c], handled[c])

\* Those who may end: the server when a stream to it is cut, a client whose own is.
MayEnd == (IF cutUp = {} THEN {} ELSE {Server}) \cup cutDown

\* From the server to the members, for those whose recv() returns one packet.
RepliesInv ==
  /\ ended \subseteq MayEnd
  /\ todo # <<>> => Len(reply.text) + Extra + 12 <= BufSize
  /\ \A c \in Client :
       /\ c \notin cutDown => Arrived(down[c], told[c], shown[c])
       /\ \A i \in DOMAIN told[c] : PacketSize(told[c][i]) <= BufSize

\* The lines typed before are still among the lines typed.
LEMMA StillFit ==
  ASSUME TypeInv, [Next]_vars, AllFit'
  PROVE  AllFit
<1>1. \A c \in Client : \A i \in DOMAIN typed[c] :
        i \in DOMAIN typed'[c] /\ typed'[c][i] = typed[c][i]
  <2>1. CASE UNCHANGED typed
    BY <2>1
  <2>2. ASSUME NEW c \in Client, NEW t, typed' = [typed EXCEPT ![c] = Append(@, t)]
        PROVE  \A d \in Client : \A i \in DOMAIN typed[d] :
                 i \in DOMAIN typed'[d] /\ typed'[d][i] = typed[d][i]
    <3> TAKE d \in Client
    <3> TAKE i \in DOMAIN typed[d]
    <3>1. typed \in [Client -> Texts] /\ typed[d] \in Seq(Seq(Byte))
      BY Types DEF Texts
    <3>2. CASE d = c
      <4>1. typed'[d] = Append(typed[d], t)
        BY <2>2, <3>1, <3>2
      <4>2. i \in 1 .. Len(typed[d]) /\ Len(typed[d]) \in Nat
        BY <3>1
      <4>3. Append(typed[d], t)[i] = typed[d][i]
        BY <4>2
      <4>4. i \in DOMAIN Append(typed[d], t)
        BY <4>2
      <4> QED
        BY <4>1, <4>3, <4>4, Zenon
    <3>3. CASE d # c
      <4>1. typed'[d] = typed[d]
        BY <2>2, <3>1, <3>3
      <4> QED
        BY <4>1, Zenon
    <3> QED
      BY <3>2, <3>3
  <2>3. UNCHANGED typed \/ \E c \in Client : \E len \in Lengths : TypeLine(c, len)
    BY DEF Next, ServerReceives, ServerTells, ClientReceives, Quiet, vars
  <2>4. ASSUME NEW c \in Client, NEW len \in Lengths, TypeLine(c, len)
        PROVE  \E t : typed' = [typed EXCEPT ![c] = Append(@, t)]
    BY <2>4 DEF TypeLine
  <2> QED
    BY <2>1, <2>2, <2>3, <2>4
<1>2. ASSUME NEW c \in Client, NEW i \in DOMAIN typed[c]
      PROVE  Len(typed[c][i]) + Extra + 12 <= BufSize
  <2>1. typed'[c][i] \in Range(typed'[c])
    BY <1>1 DEF Range
  <2>2. Len(typed'[c][i]) + Extra + 12 <= BufSize
    BY <2>1 DEF AllFit
  <2> QED
    BY <1>1, <2>2
<1> QED
  BY <1>2 DEF AllFit, Range

\* A line among those that fit.
LEMMA LineFits ==
  ASSUME TypeInv, AllFit, NEW c \in Client, NEW i \in DOMAIN typed[c]
  PROVE  /\ typed[c][i] \in Seq(Byte)
         /\ PacketSize(typed[c][i]) <= BufSize
         /\ Len(typed[c][i]) + Extra + 12 <= BufSize
<1>1. typed[c] \in Seq(Seq(Byte))
  BY Types DEF Texts
<1>2. typed[c][i] \in Seq(Byte)
  BY <1>1
<1>3. typed[c][i] \in Range(typed[c])
  BY DEF Range
<1>4. Len(typed[c][i]) + Extra + 12 <= BufSize
  BY <1>3 DEF AllFit
<1>5. Extra \in Nat /\ BufSize \in Nat
  BY FramingAssumption, BytesAssumption
<1> QED
  BY <1>2, <1>4, <1>5, PacketSizeIs

\* The bytes of the first packet of a stream, alone.
LEMMA FirstPacket ==
  ASSUME NEW s \in Seq(Byte), NEW t \in Seq(Byte), Begins(s, 0, t)
  PROVE  LET first == SubSeq(s, 1, PacketSize(t)) IN
         first \in Seq(Byte) /\ Len(first) = PacketSize(t) /\ Begins(first, 0, t)
<1> DEFINE n     == PacketSize(t)
           first == SubSeq(s, 1, n)
<1>1. n \in Nat /\ n = Len(t) + 12 /\ Len(t) \in Nat /\ 0 + n <= Len(s) /\ Len(s) \in Nat
  BY PacketSizeIs DEF Begins
<1>2. n \in 0 .. Len(s)
  BY <1>1
<1>3. first \in Seq(Byte) /\ Len(first) = n /\ \A i \in 1 .. n : first[i] = s[i]
  BY <1>2, CutIs
<1> HIDE DEF n, first
<1>4. ASSUME NEW i \in 1 .. 8
      PROVE  first[0 + i] = Header(t)[i]
  <2>1. 0 + i \in 1 .. n
    BY <1>1
  <2>2. s[0 + i] = Header(t)[i]
    BY DEF Begins
  <2> QED
    BY <1>3, <2>1, <2>2
<1>5. ASSUME NEW i \in 1 .. Len(t)
      PROVE  first[0 + 8 + i] = t[i]
  <2>1. 0 + 8 + i \in 1 .. n
    BY <1>1
  <2>2. s[0 + 8 + i] = t[i]
    BY DEF Begins
  <2> QED
    BY <1>3, <2>1, <2>2
<1>6. 0 + n <= Len(first)
  BY <1>1, <1>3
<1> QED
  BY <1>3, <1>4, <1>5, <1>6 DEF Begins, n, first

\* A line that fits is sent.
LEMMA FittingIsSent ==
  ASSUME TypeInv, AllFit', ReadyInv, NEW c \in Client, NEW len \in Lengths, TypeLine(c, len)
  PROVE  \E text \in Seq(Byte), p \in Seq(Byte) :
           Sent(c, text, p) /\ typed' = [typed EXCEPT ![c] = Append(@, text)]
<1>1. PICK text \in Seq(Byte) :
        /\ typed' = [typed EXCEPT ![c] = Append(@, text)]
        /\ NotSent(c, text) \/ \E p \in Seq(Byte) : Sent(c, text, p)
  BY TypeLineDoes
<1>2. typed'[c] = Append(typed[c], text) /\ typed[c] \in Seq(Seq(Byte))
  BY <1>1, Types DEF Texts
<1>3. Len(typed[c]) + 1 \in DOMAIN Append(typed[c], text)
      /\ Append(typed[c], text)[Len(typed[c]) + 1] = text
  BY <1>2, AppendProperties
<1>4. text \in Range(typed'[c])
  BY <1>2, <1>3 DEF Range
<1>5. Len(text) + Extra + 12 <= BufSize
  BY <1>4 DEF AllFit
<1>6. Extra \in Nat /\ BufSize \in Nat /\ Len(text) \in Nat
  BY FramingAssumption, BytesAssumption
<1>7. ~NotSent(c, text)
  BY <1>5, <1>6 DEF NotSent
<1>8. \E p \in Seq(Byte) : Sent(c, text, p)
  BY <1>1, <1>7, Zenon
<1> QED
  BY <1>1, <1>8, Zenon

\* From a stream that is not cut the server takes the next line as it was typed, and
\* goes on to tell it.
LEMMA ServerTakes ==
  ASSUME TypeInv, AllFit, ReadyInv, LinesInv, NEW c \in Client \ cutUp, ServerReceives(c)
  PROVE  LET text == typed[c][Len(handled[c]) + 1] IN
         /\ up' = [up EXCEPT ![c] = SubSeq(@, PacketSize(text) + 1, Len(@))]
         /\ handled' = [handled EXCEPT ![c] = Append(@, text)]
         /\ ended' = ended
<1> DEFINE text == typed[c][Len(handled[c]) + 1]
<1>1. /\ Server \in Node /\ buf[Server] \in Buffer /\ Sized(buf[Server])
      /\ up[c] \in Seq(Byte) /\ typed[c] \in Texts /\ handled[c] \in Texts
  BY Types DEF Node
<1>2. up[c] # <<>> /\ Blank(buf[Server])
  BY DEF ServerReceives, ReadyInv
<1>3. /\ Len(handled[c]) + 1 \in DOMAIN typed[c] /\ text \in Seq(Byte)
      /\ Begins(up[c], 0, text)
  <2>1. Arrived(up[c], typed[c], handled[c])
    BY DEF LinesInv
  <2> QED
    BY <1>1, <1>2, <2>1, ArrivedReceive
<1>4. PacketSize(text) <= BufSize /\ Tagged(text)
  BY <1>3, LineFits DEF ReadyInv, Plain
<1> HIDE DEF text
<1>5. OnePacket(up[c]) = {PacketSize(text)}
  BY <1>1, <1>3, <1>4, OnePacketIs
<1>6. PICK n \in 0 .. Len(up[c]) :
        /\ c \notin cutUp => n \in OnePacket(up[c])
        /\ up' = [up EXCEPT ![c] = SubSeq(@, n + 1, Len(@))]
        /\ TakesNothing(c, n) \/ \E t \in Seq(Byte) : Takes(c, n, t)
  BY ServerReceivesDoes
<1>7. n = PacketSize(text)
  BY <1>5, <1>6
<1> DEFINE s == SubSeq(up[c], 1, n)
           p == Parse(Store(buf[Server], s))
<1>8. s \in Seq(Byte) /\ Len(s) = PacketSize(text) /\ Begins(s, 0, text)
  BY <1>1, <1>3, <1>7, FirstPacket
<1> HIDE DEF s
<1>9. /\ p.texts = <<text>> /\ p.buf \in Buffer
      /\ p.buf.wi = 0 /\ Len(p.buf.data) = BufSize * 2 /\ p.buf.ri <= BufSize
  BY <1>1, <1>2, <1>3, <1>4, <1>8, ParsePacket DEF Blank, Reset
<1>10. p = Parse(Store(buf[Server], SubSeq(up[c], 1, n)))
  BY DEF s
<1> HIDE DEF p
<1>11. ~Outside(p.buf)
  <2>1. BufSize \in Nat /\ p.buf.ri \in Nat
    BY <1>9, BytesAssumption DEF Buffer
  <2> QED
    BY <1>9, <2>1 DEF Outside
<1>12. ~TakesNothing(c, n)
  BY <1>4, <1>9, <1>10, <1>11 DEF TakesNothing
<1>13. PICK t \in Seq(Byte) : Takes(c, n, t)
  BY <1>6, <1>12
<1>14. t = text
  <2>1. <<t>> = <<text>>
    BY <1>9, <1>10, <1>13 DEF Takes
  <2> QED
    BY <2>1
<1>15. up' = [up EXCEPT ![c] = SubSeq(@, PacketSize(text) + 1, Len(@))]
  BY <1>6, <1>7
<1>16. handled' = [handled EXCEPT ![c] = Append(@, text)] /\ ended' = ended
  BY <1>13, <1>14 DEF Takes
<1> QED
  BY <1>15, <1>16 DEF text

\* Typing a line keeps LinesInv.
LEMMA TypeLineLines ==
  ASSUME TypeInv, AllFit', ReadyInv, LinesInv,
         NEW c \in Client, NEW len \in Lengths, TypeLine(c, len)
  PROVE  LinesInv'
<1>1. PICK text \in Seq(Byte), p \in Seq(Byte) :
        Sent(c, text, p) /\ typed' = [typed EXCEPT ![c] = Append(@, text)]
  BY FittingIsSent, Zenon
<1>2. Len(p) = PacketSize(text) /\ Begins(p, 0, text) /\ up' = [up EXCEPT ![c] = @ \o p]
  BY <1>1 DEF Sent
<1>3. handled' = handled /\ UNCHANGED <<cutUp, cutDown>>
  BY DEF TypeLine
<1>4. /\ up \in [Client -> Seq(Byte)] /\ typed \in [Client -> Texts]
      /\ handled \in [Client -> Texts]
  BY Types
<1> SUFFICES ASSUME NEW d \in Client \ cutUp'
             PROVE  Arrived(up'[d], typed'[d], handled'[d])
  BY DEF LinesInv
<1>5. Arrived(up[d], typed[d], handled[d])
  BY <1>3 DEF LinesInv
<1>6. CASE d = c
  <2>1. up'[d] = up[d] \o p /\ typed'[d] = Append(typed[d], text)
    BY <1>1, <1>2, <1>4, <1>6
  <2>2. Arrived(up[d] \o p, Append(typed[d], text), handled[d])
    BY <1>2, <1>4, <1>5, ArrivedSend
  <2> QED
    BY <1>3, <2>1, <2>2
<1>7. CASE d # c
  <2>1. up'[d] = up[d] /\ typed'[d] = typed[d]
    BY <1>1, <1>2, <1>4, <1>7
  <2> QED
    BY <1>3, <1>5, <2>1
<1> QED
  BY <1>6, <1>7

\* Receiving at the server keeps LinesInv.
LEMMA ServerReceivesLines ==
  ASSUME TypeInv, AllFit, ReadyInv, LinesInv, NEW c \in Client, ServerReceives(c)
  PROVE  LinesInv'
<1>1. PICK n \in 0 .. Len(up[c]) :
        /\ up' = [up EXCEPT ![c] = SubSeq(@, n + 1, Len(@))]
        /\ TakesNothing(c, n) \/ \E text \in Seq(Byte) : Takes(c, n, text)
  BY ServerReceivesDoes
<1>2. typed' = typed /\ UNCHANGED <<cutUp, cutDown>> /\ up[c] # <<>>
  BY DEF ServerReceives
<1>3. /\ up \in [Client -> Seq(Byte)] /\ typed[c] \in Texts
      /\ handled \in [Client -> Texts]
  BY Types
<1> SUFFICES ASSUME NEW d \in Client \ cutUp'
             PROVE  Arrived(up'[d], typed'[d], handled'[d])
  BY DEF LinesInv
<1>4. Arrived(up[d], typed[d], handled[d])
  BY <1>2 DEF LinesInv
<1>5. CASE d # c
  <2>1. up'[d] = up[d]
    BY <1>1, <1>3, <1>5
  <2>2. handled'[d] = handled[d]
    BY <1>1, <1>3, <1>5 DEF Takes, TakesNothing
  <2> QED
    BY <1>2, <1>4, <2>1, <2>2
<1>6. CASE d = c
  <2> DEFINE text == typed[c][Len(handled[c]) + 1]
  <2>1. c \in Client \ cutUp
    BY <1>2, <1>6
  <2>2. /\ up' = [up EXCEPT ![c] = SubSeq(@, PacketSize(text) + 1, Len(@))]
        /\ handled' = [handled EXCEPT ![c] = Append(@, text)]
    BY <2>1, ServerTakes
  <2>3. Arrived(SubSeq(up[c], PacketSize(text) + 1, Len(up[c])), typed[c],
                Append(handled[c], text))
    BY <1>2, <1>3, <1>4, <1>6, ArrivedReceive
  <2> HIDE DEF text
  <2>4. /\ up'[c] = SubSeq(up[c], PacketSize(text) + 1, Len(up[c]))
        /\ handled'[c] = Append(handled[c], text)
    BY <1>3, <2>2
  <2> QED
    BY <1>2, <1>6, <2>3, <2>4
<1> QED
  BY <1>5, <1>6

\* Every step keeps LinesInv as long as the lines fit, whatever recv() returns from the
\* streams that are cut.
LEMMA StepLines ==
  ASSUME TypeInv, AllFit', ReadyInv, LinesInv, [Next]_vars
  PROVE  LinesInv'
<1>1. ASSUME NEW c \in Client, NEW len \in Lengths, TypeLine(c, len)
      PROVE  LinesInv'
  BY <1>1, TypeLineLines
<1>2. ASSUME NEW c \in Client, ServerReceives(c)
      PROVE  LinesInv'
  BY <1>2, ServerReceivesLines, StillFit
<1>3. CASE UNCHANGED <<up, typed, handled, cutUp, cutDown>>
  BY <1>3 DEF LinesInv
<1> QED
  BY <1>1, <1>2, <1>3 DEF Next, ServerTells, ClientReceives, Quiet, vars

\* The two actions that send nothing down keep RepliesInv.
LEMMA NothingDown ==
  ASSUME RepliesInv, ended' \subseteq MayEnd,
         todo' # <<>> => Len(reply'.text) + Extra + 12 <= BufSize,
         UNCHANGED <<down, told, shown, cutUp, cutDown>>
  PROVE  RepliesInv'
BY DEF RepliesInv, MayEnd

\* What the server tells one recipient fits its vector and reaches the stream whole.
LEMMA ServerTellsReplies ==
  ASSUME TypeInv, ReadyInv, RepliesInv, ServerTells
  PROVE  RepliesInv'
<1> DEFINE d    == Head(todo)
           text == Told(d)
           b    == WritePacket(buf[Server], text)
<1>1. /\ Server \in Node /\ buf[Server] \in Buffer /\ Sized(buf[Server])
      /\ buf \in [Node -> Buffer] /\ ended \subseteq Node
      /\ todo \in Seq(Client) /\ todo # <<>>
      /\ reply \in [from : Node, text : Seq(Byte)] /\ reply.text # <<>>
      /\ down \in [Client -> Seq(Byte)] /\ told \in [Client -> Texts]
      /\ shown \in [Client -> Texts]
  BY Types DEF Node, ServerTells
<1>2. d \in Client
  BY <1>1, HeadTailProperties
<1>3. text \in Seq(Byte) /\ Len(text) <= Len(reply.text) + Extra
  BY <1>1, <1>2, ToldIs
<1>4. /\ Access(Server, b, Clear(b))
      /\ \/ Outside(b)
         \/ /\ \E x \in Behind : down' = [down EXCEPT ![d] = @ \o Transmitted(b, text, x)]
            /\ told' = [told EXCEPT ![d] = Append(@, text)]
      /\ UNCHANGED <<reply, shown, cutUp, cutDown>> /\ Server \notin ended
  BY DEF ServerTells
<1> HIDE DEF d, text
<1>5. PacketSize(text) <= BufSize /\ PacketSize(text) = Len(text) + 12 /\ Len(text) \in Nat
  <2>1. Len(reply.text) + Extra + 12 <= BufSize
    BY <1>1 DEF RepliesInv
  <2>2. Len(reply.text) \in Nat /\ Extra \in Nat /\ BufSize \in Nat
    BY <1>1, FramingAssumption, BytesAssumption
  <2>3. Len(text) \in Nat /\ PacketSize(text) = Len(text) + 12
    BY <1>3, PacketSizeIs
  <2> QED
    BY <1>3, <2>1, <2>2, <2>3
<1>6. /\ buf[Server].wi = 0 /\ buf[Server].ri <= Len(buf[Server].data)
      /\ BufSize <= Len(buf[Server].data)
  <2>1. BufSize \in Nat
    BY BytesAssumption
  <2> QED
    BY <1>1, <1>4, <2>1 DEF ReadyInv, Sized
<1>7. /\ b \in Buffer /\ Len(b.data) = Len(buf[Server].data) /\ b.ri = buf[Server].ri
      /\ b.wi = 8 + Len(text)
  <2>1. /\ b \in Buffer /\ Len(b.data) = Len(buf[Server].data) /\ b.ri = buf[Server].ri
        /\ b.wi = buf[Server].wi + 8 + Len(text)
    BY <1>1, <1>3, WritePacketIs
  <2> QED
    BY <1>5, <1>6, <2>1
<1>8. PacketSize(text) <= Len(buf[Server].data) /\ 8 + Len(text) <= Len(buf[Server].data)
  <2>1. BufSize \in Nat /\ Len(buf[Server].data) \in Nat /\ PacketSize(text) \in Nat
    BY <1>1, <1>3, BytesAssumption, PacketSizeIs DEF Buffer
  <2> QED
    BY <1>5, <1>6, <2>1
<1> DEFINE p(x) == Transmitted(b, text, x)
<1>9. \A x \in Behind :
        Begins(p(x), 0, text) /\ p(x) \in Seq(Byte) /\ Len(p(x)) = PacketSize(text)
  <2> TAKE x \in Behind
  <2>1. x \in Byte
    BY FramingAssumption
  <2>2. Begins(p(x), 0, text)
    BY <1>1, <1>3, <1>6, <1>8, <2>1, TransmittedBegins
  <2> HIDE DEF b
  <2>3. p(x) \in Seq(Byte) /\ Len(p(x)) = PacketSize(text)
    BY <1>3, <1>7, <2>1, TransmittedBytes
  <2> QED
    BY <2>2, <2>3
<1> HIDE DEF b
<1>10. ~Outside(b)
  <2> DEFINE m == Len(buf[Server].data)
  <2>1. m \in Nat /\ PacketSize(text) <= m /\ buf[Server].ri \in Nat
    BY <1>1, <1>8 DEF Buffer
  <2>2. b.ri <= m
    BY <1>6, <1>7
  <2>3. b.wi = 8 + Len(text) /\ Len(b.data) = m
    BY <1>7
  <2> HIDE DEF m
  <2>4. b.wi <= m
    BY <1>5, <2>1, <2>3
  <2>5. b.wi \in Nat /\ b.ri \in Nat
    BY <1>7 DEF Buffer
  <2>6. ~(b.wi > m) /\ ~(b.ri > m)
    BY <2>1, <2>2, <2>4, <2>5
  <2> QED
    BY <2>3, <2>6 DEF Outside
<1>11. PICK x \in Behind : /\ down' = [down EXCEPT ![d] = @ \o p(x)]
                           /\ told' = [told EXCEPT ![d] = Append(@, text)]
  BY <1>4, <1>10
<1> DEFINE q == p(x)
<1>12. /\ down' = [down EXCEPT ![d] = @ \o q]
       /\ Begins(q, 0, text) /\ q \in Seq(Byte) /\ Len(q) = PacketSize(text)
  BY <1>9, <1>11
<1> HIDE DEF q, p
<1>13. buf'[Server] = Clear(b) /\ ended' = ended
  BY <1>1, <1>4, <1>10, AccessInside
<1>14. ended' \subseteq MayEnd'
  BY <1>4, <1>13 DEF RepliesInv, MayEnd
<1>15. todo' # <<>> => Len(reply'.text) + Extra + 12 <= BufSize
  BY <1>1, <1>4 DEF RepliesInv
<1>16. ASSUME NEW c \in Client, c \notin cutDown'
       PROVE  Arrived(down'[c], told'[c], shown'[c])
  <2>1. Arrived(down[c], told[c], shown[c])
    BY <1>4, <1>16 DEF RepliesInv
  <2>2. CASE c = d
    <3>1. down'[c] = down[c] \o q /\ told'[c] = Append(told[c], text)
      BY <1>1, <1>11, <1>12, <2>2
    <3>2. Arrived(down[c] \o q, Append(told[c], text), shown[c])
      BY <1>1, <1>3, <1>12, <2>1, ArrivedSend
    <3> QED
      BY <1>4, <3>1, <3>2
  <2>3. CASE c # d
    <3>1. down'[c] = down[c] /\ told'[c] = told[c]
      BY <1>1, <1>11, <1>12, <2>3
    <3> QED
      BY <1>4, <2>1, <3>1
  <2> QED
    BY <2>2, <2>3
<1>17. ASSUME NEW c \in Client, NEW i \in DOMAIN told'[c]
       PROVE  PacketSize(told'[c][i]) <= BufSize
  <2>1. \A j \in DOMAIN told[c] : PacketSize(told[c][j]) <= BufSize
    BY DEF RepliesInv
  <2>2. CASE c = d
    <3>1. told'[c] = Append(told[c], text) /\ told[c] \in Seq(Seq(Byte))
      BY <1>1, <1>11, <2>2 DEF Texts
    <3>2. i \in 1 .. Len(told[c]) + 1
      BY <1>3, <1>17, <3>1
    <3>3. CASE i = Len(told[c]) + 1
      <4>1. told'[c][i] = text
        BY <1>3, <3>1, <3>3
      <4> QED
        BY <1>5, <4>1
    <3>4. CASE i # Len(told[c]) + 1
      <4>1. i \in DOMAIN told[c] /\ told'[c][i] = told[c][i]
        BY <1>3, <3>1, <3>2, <3>4
      <4> QED
        BY <2>1, <4>1
    <3> QED
      BY <3>3, <3>4
  <2>3. CASE c # d
    <3>1. told'[c] = told[c]
      BY <1>1, <1>11, <2>3
    <3> QED
      BY <1>17, <2>1, <3>1
  <2> QED
    BY <2>2, <2>3
<1> QED
  BY <1>14, <1>15, <1>16, <1>17 DEF RepliesInv

\* A client whose recv() returns anything may end itself, and nobody else notices.
LEMMA ClientReceivesCut ==
  ASSUME TypeInv, RepliesInv, NEW c \in cutDown, ClientReceives(c)
  PROVE  RepliesInv'
<1>1. /\ c \in Client /\ ended \subseteq Node
      /\ down \in [Client -> Seq(Byte)] /\ shown \in [Client -> Texts]
  BY Types, FramingAssumption DEF Client
<1>2. \E s, t : down' = [down EXCEPT ![c] = s] /\ shown' \in {shown, [shown EXCEPT ![c] = t]}
  BY DEF ClientReceives
<1>3. UNCHANGED <<todo, reply, told, cutUp, cutDown>>
  BY DEF ClientReceives
<1>4. ended' \subseteq MayEnd'
  <2>1. \A q \in Node \ {c} : q \in ended' <=> q \in ended
    BY <1>1, ClientReceivesAnything
  <2>2. ended' \subseteq Node
    BY <1>1, ClientReceivesTypes DEF TypeInv, TypeOK
  <2>3. ended' \subseteq ended \cup {c}
    BY <2>1, <2>2
  <2> QED
    BY <1>3, <2>3 DEF RepliesInv, MayEnd
<1>5. ASSUME NEW d \in Client, d \notin cutDown'
      PROVE  Arrived(down'[d], told'[d], shown'[d])
  <2>1. d # c
    BY <1>3, <1>5
  <2>2. down'[d] = down[d] /\ shown'[d] = shown[d]
    BY <1>1, <1>2, <2>1
  <2> QED
    BY <1>3, <1>5, <2>2 DEF RepliesInv
<1> QED
  BY <1>3, <1>4, <1>5 DEF RepliesInv

\* Any other client prints the next text told it as it was told.
LEMMA ClientReceivesReplies ==
  ASSUME TypeInv, ReadyInv, RepliesInv, NEW c \in Client \ cutDown, ClientReceives(c)
  PROVE  RepliesInv'
<1> DEFINE text == told[c][Len(shown[c]) + 1]
<1>1. /\ c \in Node /\ buf[c] \in Buffer /\ Sized(buf[c])
      /\ buf \in [Node -> Buffer] /\ ended \subseteq Node
      /\ down \in [Client -> Seq(Byte)] /\ told \in [Client -> Texts]
      /\ shown \in [Client -> Texts] /\ down[c] # <<>>
  BY Types DEF Node, ClientReceives
<1>2. Arrived(down[c], told[c], shown[c])
  BY DEF RepliesInv
<1>3. /\ Len(shown[c]) + 1 \in DOMAIN told[c] /\ text \in Seq(Byte)
      /\ Begins(down[c], 0, text)
      /\ Arrived(SubSeq(down[c], PacketSize(text) + 1, Len(down[c])), told[c],
                 Append(shown[c], text))
  BY <1>1, <1>2, ArrivedReceive
<1>4. PacketSize(text) <= BufSize
  BY <1>3 DEF RepliesInv
<1> HIDE DEF text
<1>5. OnePacket(down[c]) = {PacketSize(text)}
  BY <1>1, <1>3, <1>4, OnePacketIs
<1> DEFINE n == PacketSize(text)
           s == SubSeq(down[c], 1, n)
           p == Parse(Store(buf[c], s))
<1>6. /\ down' = [down EXCEPT ![c] = SubSeq(@, n + 1, Len(@))]
      /\ Access(c, p.buf, Clear(p.buf))
      /\ shown' = IF Outside(p.buf) THEN shown ELSE [shown EXCEPT ![c] = @ \o p.texts]
      /\ UNCHANGED <<todo, reply, told, cutUp, cutDown>>
  <2>1. \A k : k \in OnePacket(down[c]) => k = n
    BY <1>5
  <2>2. PICK k \in OnePacket(down[c]) :
          LET q == Parse(Store(buf[c], SubSeq(down[c], 1, k))) IN
          /\ down' = [down EXCEPT ![c] = SubSeq(@, k + 1, Len(@))]
          /\ Access(c, q.buf, Clear(q.buf))
          /\ shown' = IF Outside(q.buf) THEN shown ELSE [shown EXCEPT ![c] = @ \o q.texts]
    BY DEF ClientReceives
  <2>3. UNCHANGED <<todo, reply, told, cutUp, cutDown>>
    BY DEF ClientReceives
  <2> QED
    BY <2>1, <2>2, <2>3
<1>7. s \in Seq(Byte) /\ Len(s) = PacketSize(text) /\ Begins(s, 0, text)
  BY <1>1, <1>3, FirstPacket
<1> HIDE DEF s, n
<1>8. Reset(buf[c])
  <2>1. c \in Client \ ended
    BY DEF ClientReceives
  <2> QED
    BY <2>1 DEF ReadyInv
<1>9. /\ p.texts = <<text>> /\ p.buf \in Buffer
      /\ p.buf.wi = 0 /\ Len(p.buf.data) = BufSize * 2 /\ p.buf.ri <= BufSize
  BY <1>1, <1>3, <1>4, <1>7, <1>8, ParsePacket DEF Reset
<1> HIDE DEF p
<1>10. ~Outside(p.buf)
  <2>1. BufSize \in Nat /\ p.buf.ri \in Nat
    BY <1>9, BytesAssumption DEF Buffer
  <2>2. p.buf.ri <= Len(p.buf.data) /\ p.buf.wi <= Len(p.buf.data)
    BY <1>9, <2>1
  <2> QED
    BY <1>9, <2>1, <2>2 DEF Outside
<1>11. ended' \subseteq MayEnd'
  <2>1. ended' = ended
    BY <1>1, <1>6, <1>10, AccessInside
  <2> QED
    BY <1>6, <2>1 DEF RepliesInv, MayEnd
<1>12. shown' = [shown EXCEPT ![c] = Append(@, text)]
  <2>1. shown[c] \in Seq(Seq(Byte))
    BY <1>1 DEF Texts
  <2>2. shown[c] \o <<text>> = Append(shown[c], text)
    BY <1>3, <2>1
  <2> QED
    BY <1>1, <1>6, <1>9, <1>10, <2>2
<1>13. todo' # <<>> => Len(reply'.text) + Extra + 12 <= BufSize
  BY <1>6 DEF RepliesInv
<1>14. ASSUME NEW d \in Client, d \notin cutDown'
       PROVE  Arrived(down'[d], told'[d], shown'[d])
  <2>1. CASE d = c
    <3>1. /\ down'[d] = SubSeq(down[c], n + 1, Len(down[c]))
          /\ shown'[d] = Append(shown[c], text)
      BY <1>1, <1>6, <1>12, <2>1
    <3> QED
      BY <1>3, <1>6, <2>1, <3>1 DEF n
  <2>2. CASE d # c
    <3>1. down'[d] = down[d] /\ shown'[d] = shown[d]
      BY <1>1, <1>6, <1>12, <2>2
    <3> QED
      BY <1>6, <1>14, <3>1 DEF RepliesInv
  <2> QED
    BY <2>1, <2>2
<1>15. \A d \in Client : \A i \in DOMAIN told'[d] : PacketSize(told'[d][i]) <= BufSize
  BY <1>6 DEF RepliesInv
<1> QED
  BY <1>11, <1>13, <1>14, <1>15 DEF RepliesInv

\* Every step keeps RepliesInv when the lines fit: what the server tells fits because it
\* is as long as a line typed, even when it was taken from a stream that is cut.
LEMMA StepReplies ==
  ASSUME TypeInv, AllFit', ReadyInv, PiecesInv, LinesInv, RepliesInv, [Next]_vars
  PROVE  RepliesInv'
<1>1. ASSUME NEW c \in Client, NEW len \in Lengths, TypeLine(c, len)
      PROVE  RepliesInv'
  <2>1. \E text \in Seq(Byte), p \in Seq(Byte) : Sent(c, text, p)
    BY <1>1, FittingIsSent
  <2>2. ended' = ended
    BY <2>1 DEF Sent
  <2>3. UNCHANGED <<down, told, shown, cutUp, cutDown>> /\ UNCHANGED <<todo, reply>>
    BY <1>1 DEF TypeLine
  <2>4. ended' \subseteq MayEnd
    BY <2>2 DEF RepliesInv
  <2>5. todo' # <<>> => Len(reply'.text) + Extra + 12 <= BufSize
    BY <2>3 DEF RepliesInv
  <2> QED
    BY <2>3, <2>4, <2>5, NothingDown
<1>2. ASSUME NEW c \in Client, ServerReceives(c)
      PROVE  RepliesInv'
  <2>1. AllFit
    BY StillFit
  <2>2. UNCHANGED <<down, told, shown, cutUp, cutDown>>
    BY <1>2 DEF ServerReceives
  <2>3. todo' # <<>> => Len(reply'.text) + Extra + 12 <= BufSize
    <3> SUFFICES ASSUME todo' # <<>>
                 PROVE  Len(reply'.text) + Extra + 12 <= BufSize
      OBVIOUS
    <3>1. PICK i \in DOMAIN typed[c] : Len(reply'.text) = Len(typed[c][i])
      BY <1>2, ServerReceivesPieces
    <3>2. Len(typed[c][i]) + Extra + 12 <= BufSize
      BY <2>1, LineFits
    <3> QED
      BY <3>1, <3>2
  <2>4. ended' \subseteq MayEnd
    <3>1. CASE cutUp = {}
      <4>1. ended' = ended
        BY <1>2, <2>1, <3>1, ServerTakes
      <4> QED
        BY <4>1 DEF RepliesInv
    <3>2. CASE cutUp # {}
      <4>1. \A q \in Client : q \in ended' <=> q \in ended
        BY <1>2, ServerReceivesDoes
      <4>2. ended' \subseteq Node
        BY StepTypes DEF TypeInv, TypeOK
      <4>3. ended' \subseteq ended \cup {Server}
        BY <4>1, <4>2 DEF Node
      <4> QED
        BY <3>2, <4>3 DEF RepliesInv, MayEnd
    <3> QED
      BY <3>1, <3>2
  <2> QED
    BY <2>2, <2>3, <2>4, NothingDown
<1>3. ASSUME NEW c \in Client, ClientReceives(c)
      PROVE  RepliesInv'
  BY <1>3, ClientReceivesCut, ClientReceivesReplies
<1>4. CASE ServerTells
  BY <1>4, ServerTellsReplies
<1>5. CASE UNCHANGED vars
  BY <1>5 DEF vars, RepliesInv, MayEnd
<1> QED
  BY <1>1, <1>2, <1>3, <1>4, <1>5 DEF Next, Quiet

\* At first nothing has been sent.
LEMMA InitArrives == Init => LinesInv /\ RepliesInv
<1> SUFFICES ASSUME Init
             PROVE  LinesInv /\ RepliesInv
  OBVIOUS
<1>1. todo = <<>> /\ ended = {}
  BY DEF Init
<1>2. Arrived(<<>>, <<>>, <<>>)
  BY CarriesInit DEF Arrived
<1>3. \A c \in Client : /\ up[c] = <<>> /\ typed[c] = <<>> /\ handled[c] = <<>>
                        /\ down[c] = <<>> /\ told[c] = <<>> /\ shown[c] = <<>>
  BY DEF Init
<1>4. LinesInv
  BY <1>2, <1>3 DEF LinesInv
<1>5. RepliesInv
  BY <1>1, <1>2, <1>3 DEF RepliesInv
<1> QED
  BY <1>4, <1>5

-----------------------------------------------------------------------------
(* The theorems.                                                           *)

\* What LinesInv says of the lines.
LEMMA LinesDo ==
  ASSUME TypeInv, LinesInv
  PROVE  LinesArrive
<1> SUFFICES ASSUME NEW c \in Client \ cutUp
             PROVE  IsPrefix(handled[c], typed[c]) /\ (up[c] = <<>> => handled[c] = typed[c])
  BY DEF LinesArrive
<1>1. up[c] \in Seq(Byte) /\ typed[c] \in Texts /\ handled[c] \in Texts
  BY Types
<1>2. Arrived(up[c], typed[c], handled[c])
  BY DEF LinesInv
<1> QED
  BY <1>1, <1>2, ArrivedIsPrefix

\* What RepliesInv says of the replies.
LEMMA RepliesDo ==
  ASSUME TypeInv, RepliesInv
  PROVE  RepliesArrive
<1> SUFFICES ASSUME NEW c \in Client \ cutDown
             PROVE  IsPrefix(shown[c], told[c]) /\ (down[c] = <<>> => shown[c] = told[c])
  BY DEF RepliesArrive
<1>1. down[c] \in Seq(Byte) /\ told[c] \in Texts /\ shown[c] \in Texts
  BY Types
<1>2. Arrived(down[c], told[c], shown[c])
  BY DEF RepliesInv
<1> QED
  BY <1>1, <1>2, ArrivedIsPrefix

\* The invariants together: what arrives is a matter of lines that fit.
LEMMA ArrivesInductive ==
  Spec => [](TypeInv /\ ReadyInv /\ PiecesInv /\ (AllFit => LinesInv /\ RepliesInv))
<1> DEFINE Inv == TypeInv /\ ReadyInv /\ PiecesInv /\ (AllFit => LinesInv /\ RepliesInv)
<1>1. Init => Inv
  BY InitTypes, InitReady, InitPieces, InitArrives
<1>2. Inv /\ [Next]_vars => Inv'
  <2> SUFFICES ASSUME Inv, [Next]_vars
               PROVE  Inv'
    OBVIOUS
  <2>1. TypeInv' /\ ReadyInv' /\ PiecesInv'
    BY StepTypes, StepReady, StepPieces
  <2>2. AllFit' => LinesInv' /\ RepliesInv'
    BY StillFit, StepLines, StepReplies
  <2> QED
    BY <2>1, <2>2
<1> QED
  BY <1>1, <1>2, PTL DEF Spec

\* However TCP cuts a client's stream, and although the parse believes any two bytes to be
\* a type and a length, what the server takes for a line is the beginning of one line of
\* this client: never bytes of two lines, of a header, of somebody else, or of what the
\* vector held before; each line at most once, in the order in which they were typed.
THEOREM NeverMixedCorrect == Spec => []NeverMixed
<1>1. TypeInv /\ ReadyInv /\ PiecesInv /\ (AllFit => LinesInv /\ RepliesInv) => NeverMixed
  BY PiecesDo
<1> QED
  BY <1>1, ArrivesInductive, PTL

\* However recv() cuts the streams of some clients, the server takes from every other
\* client exactly the lines typed there, in their order and none left out: what the
\* cut streams leave behind in the one cBuffer of the server never reaches a line of
\* somebody else.
THEOREM LinesArriveCorrect == Spec => [](AllFit => LinesArrive)
<1>1. TypeInv /\ ReadyInv /\ PiecesInv /\ (AllFit => LinesInv /\ RepliesInv)
        => (AllFit => LinesArrive)
  BY LinesDo
<1> QED
  BY <1>1, ArrivesInductive, PTL

\* As long as every line fits together with the name and the twelve bytes that packetSize
\* counts, a process uses an index that its vector does not have only if it may parse from
\* within a packet: a client whose own recv() returns other than one packet, and the server
\* if its recv() does so for some client.  Nobody else is led there by what those send on.
THEOREM InBoundsCorrect == Spec => []InBounds
<1>1. TypeInv /\ ReadyInv /\ PiecesInv /\ (AllFit => LinesInv /\ RepliesInv) => InBounds
  BY DEF InBounds, RepliesInv, MayEnd
<1> QED
  BY <1>1, ArrivesInductive, PTL

\* Whatever is typed on a stream from which recv() returns one packet is handled, and
\* whatever is told to a client whose recv() does is shown, unchanged, in order and
\* completely - by any number of clients, with lines of any lengths that fit, for any size
\* of the vector and whatever lies behind it, even when what is told was pieced together
\* from a stream that comes in portions, and whatever the other clients' recv() returns.
THEOREM ArriveAsSentCorrect == Spec => []ArriveAsSent
<1>1. TypeInv /\ ReadyInv /\ PiecesInv /\ (AllFit => LinesInv /\ RepliesInv)
        => ArriveAsSent
  BY LinesDo, RepliesDo DEF ArriveAsSent
<1> QED
  BY <1>1, ArrivesInductive, PTL
=============================================================================
