---------------------------- MODULE Framing_proof ---------------------------
(***************************************************************************)
(* The receiver gets the packets that were sent, in order and whole, for   *)
(* any number of packets, any payloads of which the size fits, and however *)
(* the application shrinks its messages before it sends them.              *)
(***************************************************************************)
EXTENDS Framing, SequenceTheorems, TLAPS

\* The size of a packet, of which the type is a part, fits in the header.
SizeFits == MaxPayload + 1 < B * B

\* What is sent, and what is received.
Outgoing == [type : Types, payload : Payloads]

\* The three bytes behind the position p are the header of the packet m.
Announces(bytes, p, m) ==
  /\ bytes[p + 1] = pack(1 + Len(m.payload))[1] /\ bytes[p + 2] = pack(1 + Len(m.payload))[2]
  /\ bytes[p + 3] = m.type

\* The bytes behind the position p are those of the packet m.
Encodes(bytes, p, m) ==
  /\ Announces(bytes, p, m)
  /\ \A j \in 1..Len(m.payload) : bytes[p + 3 + j] = m.payload[j]

\* A Write_packet of m: its buffer may be larger than its size says.
PacketInv(packet, m) ==
  packet \in Seq(Bytes) /\ 3 + Len(m.payload) <= Len(packet) /\ Encodes(packet, 0, m)

\* A Message is a Write_packet of what is left of its payload.
MessageInv(packet) ==
  packet = <<>> \/ /\ Len(packet) <= 3 + MaxPayload
                   /\ \E m \in Outgoing : PacketInv(packet, m)

\* All that was ever written to the stream: the first n packets of q, the k-th
\* of which ends at at[k].
Written(all, at, n, q) ==
  /\ all \in Seq(Bytes) /\ at \in [0..n -> 0..Len(all)]
  /\ at[0] = 0 /\ at[n] = Len(all)
  /\ \A k \in 1..n : at[k] = at[k - 1] + 3 + Len(q[k].payload) /\ Encodes(all, at[k - 1], q[k])

\* What follows the position p in it has not been read.
Unread(all, p, bytes) ==
  /\ Len(bytes) = Len(all) - p
  /\ \A j \in 1..Len(bytes) : bytes[j] = all[p + j]

\* The header at the position p has been read, and a payload is to follow.
HeaderInv(all, p, head) ==
  /\ head \in Seq(Bytes) /\ Len(head) = 3 /\ p + 3 <= Len(all) /\ payload_size_of(head) # 0
  /\ \A j \in 1..3 : head[j] = all[p + j]

\* How the stream and the header lie in what was written, of which the first n
\* packets were received.
ReceiverInv(all, at, n) ==
  /\ reading = <<>> => Unread(all, at[n], stream)
  /\ reading # <<>> => HeaderInv(all, at[n], reading) /\ Unread(all, at[n] + 3, stream)

\* The inductive invariant: the bytes on their way are the packets that were
\* written and not received.
IndInv ==
  /\ sent \in Seq(Outgoing) /\ received \in Seq(Outgoing) /\ packets \in Seq(Seq(Bytes))
  /\ stream \in Seq(Bytes) /\ ~malformed
  /\ MessageInv(message)
  /\ Len(received) + Len(packets) <= Len(sent)
  /\ \A k \in 1..Len(received) : received[k] = sent[k]
  /\ \A k \in 1..Len(packets) : PacketInv(packets[k], sent[Len(sent) - Len(packets) + k])
  /\ \E all, at : /\ Written(all, at, Len(sent) - Len(packets), sent)
                  /\ ReceiverInv(all, at, Len(received))

-----------------------------------------------------------------------------
\* Integers of two bytes.

\* An integer that fits is packed without loss.
LEMMA PackFits ==
  ASSUME NEW n \in Nat, n < B * B
  PROVE  /\ uint16(n) = n
         /\ pack(n)[1] \in Bytes /\ pack(n)[2] \in Bytes
         /\ pack(n)[1] * B + pack(n)[2] = n
<1> DEFINE q == n \div B
           r == n % B
<1>0. B \in Nat \ {0, 1} /\ B * B \in Nat /\ B * B > 0
  BY FramingAssumption
<1>1. q \in Nat /\ r \in 0..(B - 1) /\ n = B * q + r
  BY <1>0
<1>2. q < B
  <2>1. SUFFICES ASSUME q >= B PROVE FALSE
    BY <1>0, <1>1
  <2> HIDE DEF q, r
  <2>2. B * q >= B * B
    BY <1>0, <1>1, <2>1
  <2> QED BY <1>0, <1>1, <2>2
<1>3. q % B = q
  BY <1>0, <1>1, <1>2
<1>4. uint16(n) = n
  BY <1>0 DEF uint16
<1>5. pack(n)[1] = q /\ pack(n)[2] = r
  BY <1>3 DEF pack
<1> HIDE DEF q, r
<1>6. q * B = B * q
  BY <1>0, <1>1
<1> QED BY <1>0, <1>1, <1>2, <1>4, <1>5, <1>6 DEF Bytes

\* A payload is a sequence of bytes that is not too long.
LEMMA PayloadType ==
  /\ \A p \in Payloads : p \in Seq(Bytes) /\ Len(p) \in 0..MaxPayload
  /\ \A p \in Seq(Bytes) : Len(p) <= MaxPayload => p \in Payloads
<1>0. MaxPayload \in Nat
  BY FramingAssumption
<1>1. ASSUME NEW p \in Payloads
      PROVE  p \in Seq(Bytes) /\ Len(p) \in 0..MaxPayload
  <2>1. PICK n \in 0..MaxPayload : p \in [1..n -> Bytes]
    BY DEF Payloads
  <2>2. n \in Nat /\ p \in Seq(Bytes) /\ Len(p) = n
    BY <1>0, <2>1
  <2> QED BY <2>2
<1>2. ASSUME NEW p \in Seq(Bytes), Len(p) <= MaxPayload
      PROVE  p \in Payloads
  <2>1. Len(p) \in 0..MaxPayload /\ p \in [1..Len(p) -> Bytes]
    BY <1>0, <1>2
  <2> QED BY <2>1 DEF Payloads
<1> QED BY <1>1, <1>2

\* What a packet says of itself is what it was made from.
LEMMA PacketSays ==
  ASSUME SizeFits, NEW packet, NEW m \in Outgoing, Announces(packet, 0, m)
  PROVE  /\ packet_size(packet) = 1 + Len(m.payload) /\ payload_size(packet) = Len(m.payload)
         /\ payload_size_of(packet) = Len(m.payload)
         /\ packet_type(packet) = m.type
<1>1. Len(m.payload) \in 0..MaxPayload /\ MaxPayload \in Nat
  BY PayloadType, FramingAssumption DEF Outgoing
<1>2. 1 + Len(m.payload) \in Nat /\ 1 + Len(m.payload) < B * B
  BY <1>1, FramingAssumption DEF SizeFits
<1>3. packet[1] * B + packet[2] = 1 + Len(m.payload)
  BY <1>2, PackFits DEF Announces
<1>4. packet_size(packet) = 1 + Len(m.payload)
  BY <1>3 DEF packet_size, unpack
<1>5. packet_type(packet) = m.type
  BY DEF Announces, packet_type
<1> QED BY <1>1, <1>4, <1>5 DEF payload_size, payload_size_of

\* What is left of a sequence behind a position.
LEMMA Suffix ==
  ASSUME NEW S, NEW s \in Seq(S), NEW p \in 1..(Len(s) + 1)
  PROVE  LET r == SubSeq(s, p, Len(s))
         IN  /\ r \in Seq(S) /\ Len(r) = Len(s) + 1 - p
             /\ \A j \in 1..Len(r) : r[j] = s[p - 1 + j]
OBVIOUS

\* A header and anything behind it.
LEMMA HeaderAnd ==
  ASSUME SizeFits, NEW type \in Types, NEW size \in 0..MaxPayload, NEW rest \in Seq(Bytes)
  PROVE  LET packet == header(type, size) \o rest
         IN  /\ packet \in Seq(Bytes) /\ Len(packet) = 3 + Len(rest)
             /\ packet[1] = pack(1 + size)[1] /\ packet[2] = pack(1 + size)[2]
             /\ packet[3] = type
             /\ \A j \in 1..Len(rest) : packet[3 + j] = rest[j]
<1> DEFINE packet == header(type, size) \o rest
           x == pack(1 + size)[1]
           y == pack(1 + size)[2]
<1>1. 1 + size \in Nat /\ 1 + size < B * B
  BY FramingAssumption DEF SizeFits
<1>2. uint16(1 + size) = 1 + size /\ x \in Bytes /\ y \in Bytes
  BY <1>1, PackFits
<1>3. type \in Bytes
  BY FramingAssumption DEF Bytes
<1>4. pack(uint16(1 + size)) = <<x, y>>
  <2>1. pack(1 + size) = <<((1 + size) \div B) % B, (1 + size) % B>>
    BY DEF pack
  <2>2. x = ((1 + size) \div B) % B /\ y = (1 + size) % B
    BY <2>1
  <2> QED BY <1>2, <2>1, <2>2
<1> DEFINE h == Append(<<x, y>>, type)
<1>5. packet = h \o rest
  BY <1>4 DEF header
<1> HIDE DEF packet, x, y
<1>6. h \in Seq(Bytes) /\ Len(h) = 3 /\ h[1] = x /\ h[2] = y /\ h[3] = type
  <2>1. <<x, y>> \in Seq(Bytes) /\ Len(<<x, y>>) = 2
    BY <1>2
  <2> QED BY <1>3, <2>1
<1> HIDE DEF h
<1>7. /\ packet \in Seq(Bytes) /\ Len(packet) = 3 + Len(rest)
      /\ \A i \in 1..(3 + Len(rest)) : packet[i] = IF i <= 3 THEN h[i] ELSE rest[i - 3]
  <2>1. /\ h \o rest \in Seq(Bytes) /\ Len(h \o rest) = Len(h) + Len(rest)
        /\ \A i \in 1..Len(h) + Len(rest) :
             (h \o rest)[i] = IF i <= Len(h) THEN h[i] ELSE rest[i - Len(h)]
    BY <1>6, ConcatProperties
  <2> QED BY <1>5, <1>6, <2>1
<1>8. Len(rest) \in Nat
  OBVIOUS
<1>9. /\ packet \in Seq(Bytes) /\ Len(packet) = 3 + Len(rest)
      /\ packet[1] = x /\ packet[2] = y /\ packet[3] = type
  BY <1>6, <1>7, <1>8
<1>10. ASSUME NEW j \in 1..Len(rest)
      PROVE  packet[3 + j] = rest[j]
  <2>1. 3 + j \in 1..(3 + Len(rest)) /\ ~(3 + j <= 3) /\ (3 + j) - 3 = j
    BY <1>8
  <2> QED BY <1>7, <2>1
<1> QED BY <1>9, <1>10 DEF packet, x, y

\* Write_packet(type, payload)
LEMMA WritePacket ==
  ASSUME SizeFits, NEW m \in Outgoing
  PROVE  PacketInv(Write_packet(m.type, m.payload), m) /\
         Len(Write_packet(m.type, m.payload)) = 3 + Len(m.payload)
<1>1. m.type \in Types /\ m.payload \in Seq(Bytes) /\ Len(m.payload) \in 0..MaxPayload
  BY PayloadType DEF Outgoing
<1>2. Len(m.payload) \in Nat /\ Len(m.payload) < B * B
  BY <1>1, FramingAssumption DEF SizeFits
<1>3. uint16(Len(m.payload)) = Len(m.payload)
  BY <1>2, PackFits
<1>4. SubSeq(m.payload, 1, Len(m.payload)) = m.payload
  BY <1>1
<1>5. Write_packet(m.type, m.payload) = header(m.type, Len(m.payload)) \o m.payload
  BY <1>3, <1>4 DEF Write_packet
<1> DEFINE p == header(m.type, Len(m.payload)) \o m.payload
<1>6. /\ p \in Seq(Bytes) /\ Len(p) = 3 + Len(m.payload)
      /\ p[1] = pack(1 + Len(m.payload))[1] /\ p[2] = pack(1 + Len(m.payload))[2]
      /\ p[3] = m.type
      /\ \A j \in 1..Len(m.payload) : p[3 + j] = m.payload[j]
  BY <1>1, HeaderAnd
<1> HIDE DEF p
<1>7. PacketInv(p, m)
  BY <1>2, <1>6 DEF PacketInv, Encodes, Announces
<1> QED BY <1>5, <1>6, <1>7 DEF p
\* Message::resize_payload(): what is left is a part of the payload.
LEMMA ResizeMessage ==
  ASSUME SizeFits, NEW packet, MessageInv(packet), packet # <<>>, NEW size \in Nat
  PROVE  MessageInv(resize_payload(packet, size))
<1>1. PICK m \in Outgoing : PacketInv(packet, m)
  BY DEF MessageInv
<1>2. /\ packet \in Seq(Bytes) /\ Len(packet) >= 3 /\ Len(packet) <= 3 + MaxPayload
      /\ m.type \in Types /\ packet_type(packet) = m.type /\ MaxPayload \in Nat
  BY <1>1, PacketSays, PayloadType, FramingAssumption DEF PacketInv, Encodes, MessageInv, Outgoing
<1>3. CASE size > payload_capacity(packet)
  BY <1>3 DEF resize_payload
<1>4. CASE ~(size > payload_capacity(packet))
  <2> DEFINE rest == SubSeq(packet, 4, Len(packet))
             p == resize_payload(packet, size)
             v == SubSeq(packet, 4, 3 + size)
             n == [type |-> m.type, payload |-> v]
  <2>1. size \in 0..MaxPayload /\ 3 + size <= Len(packet)
    BY <1>2, <1>4 DEF payload_capacity
  <2>2. /\ rest \in Seq(Bytes) /\ Len(rest) = Len(packet) - 3
        /\ \A j \in 1..Len(rest) : rest[j] = packet[3 + j]
    <3>1. packet \in Seq(Bytes) /\ 4 \in 1..(Len(packet) + 1) /\ Len(packet) \in Nat
      BY <1>2
    <3>2. /\ rest \in Seq(Bytes) /\ Len(rest) = Len(packet) + 1 - 4
          /\ \A j \in 1..Len(rest) : rest[j] = packet[4 - 1 + j]
      BY <3>1, Suffix
    <3> QED BY <3>1, <3>2
  <2>3. p = header(m.type, size) \o rest
    BY <1>2, <1>4 DEF resize_payload
  <2>4. /\ v \in Seq(Bytes) /\ Len(v) = size
        /\ \A j \in 1..size : v[j] = packet[3 + j]
    BY <1>2, <2>1

  <2> HIDE DEF rest, v, p
  <2>5. n \in Outgoing
    BY <1>2, <2>1, <2>4, PayloadType DEF Outgoing
  <2>6. /\ p \in Seq(Bytes) /\ Len(p) = Len(packet)
        /\ p[1] = pack(1 + size)[1] /\ p[2] = pack(1 + size)[2] /\ p[3] = m.type
        /\ \A j \in 1..Len(rest) : p[3 + j] = rest[j]
    <3> DEFINE o == header(m.type, size) \o rest
    <3>1. /\ o \in Seq(Bytes) /\ Len(o) = 3 + Len(rest)
          /\ o[1] = pack(1 + size)[1] /\ o[2] = pack(1 + size)[2] /\ o[3] = m.type
          /\ \A j \in 1..Len(rest) : o[3 + j] = rest[j]
      BY <1>2, <2>1, <2>2, HeaderAnd, ZenonT(30)
    <3>2. p = o
      BY <2>3
    <3> HIDE DEF o
    <3> QED BY <1>2, <2>2, <3>1, <3>2
  <2>7. ASSUME NEW j \in 1..size
        PROVE  p[3 + j] = v[j]
    <3>1. j \in 1..Len(rest)
      BY <1>2, <2>1, <2>2
    <3> QED BY <2>2, <2>4, <2>6, <3>1
  <2>8. PacketInv(p, n)
    BY <1>2, <2>1, <2>4, <2>6, <2>7, SMTT(30) DEF PacketInv, Encodes, Announces
  <2>9. MessageInv(p)
    BY <1>2, <2>5, <2>6, <2>8 DEF MessageInv
  <2> QED BY <2>9 DEF p
<1> QED BY <1>3, <1>4

\* data() and size(): what is written is the packet without the rest of its
\* buffer.
LEMMA DataOfPacket ==
  ASSUME SizeFits, NEW packet, NEW m \in Outgoing, PacketInv(packet, m)
  PROVE  /\ data(packet) \in Seq(Bytes) /\ Len(data(packet)) = 3 + Len(m.payload)
         /\ Encodes(data(packet), 0, m)
<1> DEFINE n == 3 + Len(m.payload)
           d == SubSeq(packet, 1, n)
<1>1. m.payload \in Seq(Bytes) /\ n \in Nat
  BY PayloadType DEF Outgoing
<1>2. packet \in Seq(Bytes) /\ n <= Len(packet) /\ Encodes(packet, 0, m)
  BY DEF PacketInv
<1>3. data(packet) = d
  BY <1>1, <1>2, PacketSays DEF data, Encodes
<1>4. d \in Seq(Bytes) /\ Len(d) = n /\ \A j \in 1..n : d[j] = packet[j]
  BY <1>1, <1>2
<1> HIDE DEF d
<1>5. Announces(d, 0, m)
  <2>1. d[1] = packet[1] /\ d[2] = packet[2] /\ d[3] = packet[3]
    BY <1>1, <1>4
  <2> QED BY <1>2, <2>1 DEF Encodes, Announces
<1>6. ASSUME NEW j \in 1..Len(m.payload)
      PROVE  d[3 + j] = m.payload[j]
  <2>1. 3 + j \in 1..n
    BY <1>1
  <2>2. packet[3 + j] = m.payload[j]
    BY <1>2 DEF Encodes
  <2> QED BY <1>4, <2>1, <2>2
<1>7. Encodes(d, 0, m)
  BY <1>5, <1>6 DEF Encodes
<1> QED BY <1>3, <1>4, <1>7

-----------------------------------------------------------------------------
\* What was written.

\* The same bytes elsewhere are the same packet.
LEMMA EncodesMoved ==
  ASSUME NEW m \in Outgoing, NEW b, NEW p \in Nat, NEW c, NEW r \in Nat, Encodes(b, p, m),
         \A j \in 1..(3 + Len(m.payload)) : c[r + j] = b[p + j]
  PROVE  Encodes(c, r, m)
<1>1. Len(m.payload) \in Nat
  BY PayloadType DEF Outgoing
<1>2. c[r + 1] = b[p + 1] /\ c[r + 2] = b[p + 2] /\ c[r + 3] = b[p + 3]
  <2>1. {1, 2, 3} \subseteq 1..(3 + Len(m.payload))
    BY <1>1
  <2> QED BY <2>1
<1>3. ASSUME NEW j \in 1..Len(m.payload)
      PROVE  c[r + 3 + j] = b[p + 3 + j]
  <2>1. 3 + j \in 1..(3 + Len(m.payload)) /\ r + (3 + j) = r + 3 + j /\ p + (3 + j) = p + 3 + j
    BY <1>1
  <2> QED BY <2>1
<1> QED BY <1>2, <1>3 DEF Encodes, Announces

\* A packet of which the buffer is cut to its size is written.
LEMMA WriteOne ==
  ASSUME NEW q \in Seq(Outgoing), NEW n \in Nat, n < Len(q), NEW all, NEW at,
         Written(all, at, n, q), NEW d \in Seq(Bytes),
         Len(d) = 3 + Len(q[n + 1].payload), Encodes(d, 0, q[n + 1])
  PROVE  Written(all \o d,
                 [k \in 0..(n + 1) |-> IF k <= n THEN at[k] ELSE Len(all) + Len(d)], n + 1, q)
<1> DEFINE b == all \o d
           e == [k \in 0..(n + 1) |-> IF k <= n THEN at[k] ELSE Len(all) + Len(d)]
<1>1. /\ all \in Seq(Bytes) /\ at \in [0..n -> 0..Len(all)] /\ at[0] = 0 /\ at[n] = Len(all)
      /\ \A k \in 1..n : at[k] = at[k - 1] + 3 + Len(q[k].payload) /\ Encodes(all, at[k - 1], q[k])
  BY DEF Written
<1>2. Len(all) \in Nat /\ Len(d) \in Nat
  BY <1>1
<1>3. /\ b \in Seq(Bytes) /\ Len(b) = Len(all) + Len(d)
      /\ \A i \in 1..Len(all) + Len(d) : b[i] = IF i <= Len(all) THEN all[i] ELSE d[i - Len(all)]
  <2>1. all \in Seq(Bytes)
    BY <1>1
  <2> QED BY <2>1, ConcatProperties, ZenonT(30)
<1>4. /\ \A k \in 0..n : e[k] = at[k]
      /\ e[n + 1] = Len(b)
  BY <1>2, <1>3
<1>5. e \in [0..(n + 1) -> 0..Len(b)]
  BY <1>1, <1>2, <1>3
<1> HIDE DEF b, e
<1>6. ASSUME NEW k \in 1..(n + 1)
      PROVE  e[k] = e[k - 1] + 3 + Len(q[k].payload) /\ Encodes(b, e[k - 1], q[k])
  <2> DEFINE m == q[k]
             l == Len(m.payload)
             p == at[k - 1]
  <2>1. m \in Outgoing /\ l \in Nat
    <3>1. k \in 1..Len(q)
      OBVIOUS
    <3>2. m \in Outgoing
      BY <3>1
    <3> QED BY <3>2, PayloadType DEF Outgoing
  <2>2. k - 1 \in 0..n /\ e[k - 1] = p /\ p \in Nat
    <3>1. k - 1 \in 0..n
      OBVIOUS
    <3> QED BY <1>1, <1>2, <1>4, <3>1
  <2>0. m = q[k] /\ l = Len(q[k].payload) /\ p = at[k - 1]
    OBVIOUS
  <2> HIDE DEF m, l, p
  <2>3. CASE k = n + 1
    <3>1. p = Len(all) /\ e[k] = Len(b) /\ Len(d) = 3 + l
      <4>1. k - 1 = n /\ k = n + 1
        BY <2>3
      <4> QED BY <1>1, <1>4, <2>0, <4>1
    <3>2. ASSUME NEW j \in 1..(3 + l)
          PROVE  b[p + j] = d[0 + j]
      <4>1. p + j \in 1..Len(all) + Len(d) /\ ~(p + j <= Len(all))
            /\ (p + j) - Len(all) = 0 + j
        BY <1>2, <2>1, <3>1
      <4> QED BY <1>3, <4>1
    <3>3. Encodes(d, 0, m)
      BY <2>0, <2>3
    <3>4. Encodes(b, p, m)
      BY <2>1, <2>2, <3>2, <3>3, EncodesMoved DEF l
    <3>5. e[k] = p + 3 + l
      <4>1. e[k] = Len(all) + Len(d)
        BY <1>3, <3>1
      <4> QED BY <2>1, <2>2, <3>1, <4>1
    <3> QED BY <2>0, <2>2, <3>4, <3>5
  <2>4. CASE k # n + 1
    <3>1. k \in 1..n /\ e[k] = at[k] /\ at[k] \in 0..Len(all)
      BY <1>1, <1>4, <2>4, SMTT(30)
    <3>2. at[k] = p + 3 + l
      BY <1>1, <2>0, <3>1
    <3>3. Encodes(all, p, m)
      BY <1>1, <2>0, <3>1
    <3>4. ASSUME NEW j \in 1..(3 + l)
          PROVE  b[p + j] = all[p + j]
      <4>1. p + j \in 1..Len(all) + Len(d) /\ p + j <= Len(all)
        BY <1>2, <2>1, <2>2, <3>1, <3>2
      <4> QED BY <1>3, <4>1
    <3>5. Encodes(b, p, m)
      BY <2>1, <2>2, <3>3, <3>4, EncodesMoved DEF l
    <3> QED BY <2>0, <2>2, <3>1, <3>2, <3>5
  <2> QED BY <2>3, <2>4
<1>7. e[0] = 0
  BY <1>1, <1>4
<1>8. Written(b, e, n + 1, q)
  BY <1>3, <1>4, <1>5, <1>6, <1>7 DEF Written
<1> QED BY <1>8 DEF b, e

\* More bytes behind those that were not read.
LEMMA UnreadGrows ==
  ASSUME NEW all \in Seq(Bytes), NEW d \in Seq(Bytes), NEW p \in 0..Len(all),
         NEW bytes \in Seq(Bytes), Unread(all, p, bytes)
  PROVE  bytes \o d \in Seq(Bytes) /\ Unread(all \o d, p, bytes \o d)
<1> DEFINE b == all \o d
           c == bytes \o d
<1>1. Len(all) \in Nat /\ Len(d) \in Nat /\ Len(bytes) \in Nat /\ Len(bytes) = Len(all) - p
  BY DEF Unread
<1>2. /\ Len(b) = Len(all) + Len(d)
      /\ \A i \in 1..Len(all) + Len(d) : b[i] = IF i <= Len(all) THEN all[i] ELSE d[i - Len(all)]
  BY ConcatProperties
<1>3. /\ c \in Seq(Bytes) /\ Len(c) = Len(bytes) + Len(d)
      /\ \A i \in 1..Len(bytes) + Len(d) :
           c[i] = IF i <= Len(bytes) THEN bytes[i] ELSE d[i - Len(bytes)]
  BY ConcatProperties
<1> HIDE DEF b, c
<1>4. ASSUME NEW j \in 1..Len(c)
      PROVE  c[j] = b[p + j]
  <2>1. p + j \in 1..Len(all) + Len(d) /\ j \in 1..Len(bytes) + Len(d)
        /\ (p + j <= Len(all) <=> j <= Len(bytes))
        /\ (p + j) - Len(all) = j - Len(bytes)
    BY <1>1, <1>3
  <2>2. j <= Len(bytes) => bytes[j] = all[p + j]
    BY <1>1, <2>1 DEF Unread
  <2> QED BY <1>2, <1>3, <2>1, <2>2
<1>5. Unread(b, p, c)
  BY <1>1, <1>2, <1>3, <1>4 DEF Unread
<1> QED BY <1>3, <1>5 DEF b, c

\* Some of them are read.
LEMMA UnreadShrinks ==
  ASSUME NEW all \in Seq(Bytes), NEW p \in Nat, NEW bytes \in Seq(Bytes),
         Unread(all, p, bytes), NEW n \in 0..Len(bytes)
  PROVE  /\ SubSeq(bytes, n + 1, Len(bytes)) \in Seq(Bytes)
         /\ Unread(all, p + n, SubSeq(bytes, n + 1, Len(bytes)))
<1> DEFINE c == SubSeq(bytes, n + 1, Len(bytes))
<1>1. Len(bytes) \in Nat /\ n + 1 \in 1..(Len(bytes) + 1) /\ Len(all) \in Nat
      /\ Len(bytes) = Len(all) - p
  BY DEF Unread
<1>2. /\ c \in Seq(Bytes) /\ Len(c) = Len(bytes) + 1 - (n + 1)
      /\ \A j \in 1..Len(c) : c[j] = bytes[(n + 1) - 1 + j]
  BY <1>1, Suffix
<1> HIDE DEF c
<1>3. ASSUME NEW j \in 1..Len(c)
      PROVE  c[j] = all[(p + n) + j]
  <2>1. n + j \in 1..Len(bytes) /\ (n + 1) - 1 + j = n + j /\ p + (n + j) = (p + n) + j
    BY <1>1, <1>2
  <2> QED BY <1>2, <2>1 DEF Unread
<1>4. Len(c) = Len(all) - (p + n)
  <2>1. Len(c) = Len(bytes) + 1 - (n + 1)
    BY <1>2
  <2> QED BY <1>1, <2>1
<1>5. Unread(all, p + n, c)
  BY <1>3, <1>4 DEF Unread
<1> QED BY <1>2, <1>5 DEF c

-----------------------------------------------------------------------------
\* The sender's actions.

\* A message that is sent leaves what is on its way as it is.
LEMMA QueueInv ==
  ASSUME IndInv, NEW packet, NEW m \in Outgoing, PacketInv(packet, m),
         Queue(packet, m.type, m.payload), UNCHANGED <<stream, reading, received, malformed>>,
         MessageInv(message')
  PROVE  IndInv'
<1> DEFINE w == Len(sent) - Len(packets)
<1>1. sent' = Append(sent, m) /\ packets' = Append(packets, packet)
  BY DEF Queue, Outgoing
<1>2. /\ sent \in Seq(Outgoing) /\ packets \in Seq(Seq(Bytes)) /\ packet \in Seq(Bytes)
      /\ received \in Seq(Outgoing) /\ Len(received) + Len(packets) <= Len(sent)
  BY DEF IndInv, PacketInv
<1>3. /\ sent' \in Seq(Outgoing) /\ Len(sent') = Len(sent) + 1 /\ sent'[Len(sent) + 1] = m
      /\ \A k \in 1..Len(sent) : sent'[k] = sent[k]
  BY <1>1, <1>2, AppendProperties
<1>4. /\ packets' \in Seq(Seq(Bytes)) /\ Len(packets') = Len(packets) + 1
      /\ packets'[Len(packets) + 1] = packet
      /\ \A k \in 1..Len(packets) : packets'[k] = packets[k]
  BY <1>1, <1>2, AppendProperties
<1>5. Len(sent) \in Nat /\ Len(packets) \in Nat /\ Len(received) \in Nat
  BY <1>2
<1>6. Len(sent') - Len(packets') = w /\ w \in 0..Len(sent)
  BY <1>2, <1>3, <1>4, <1>5
<1> HIDE DEF w
<1>7. ASSUME NEW k \in 1..Len(packets')
      PROVE  PacketInv(packets'[k], sent'[w + k])
  <2>1. CASE k = Len(packets) + 1
    <3>1. w + k = Len(sent) + 1
      BY <1>5, <2>1 DEF w
    <3> QED BY <1>3, <1>4, <2>1, <3>1
  <2>2. CASE k # Len(packets) + 1
    <3>1. k \in 1..Len(packets) /\ w + k \in 1..Len(sent)
      BY <1>4, <1>5, <1>6, <2>2 DEF w
    <3>2. PacketInv(packets[k], sent[w + k])
      BY <3>1 DEF IndInv, w
    <3> QED BY <1>3, <1>4, <3>1, <3>2
  <2> QED BY <2>1, <2>2
<1>8. \A k \in 1..Len(received') : received'[k] = sent'[k]
  BY <1>2, <1>3, <1>5, SMTT(30) DEF IndInv
<1>9. PICK all, at : Written(all, at, w, sent) /\ ReceiverInv(all, at, Len(received))
  BY DEF IndInv, w
<1>10. Written(all, at, w, sent')
  <2>1. \A k \in 1..w : sent'[k] = sent[k]
    BY <1>3, <1>5, <1>6
  <2>2. ASSUME NEW k \in 1..w
        PROVE  at[k] = at[k - 1] + 3 + Len(sent'[k].payload) /\ Encodes(all, at[k - 1], sent'[k])
    BY <1>9, <2>1 DEF Written
  <2> QED BY <1>9, <2>2 DEF Written
<1>11. ReceiverInv(all, at, Len(received))'
  BY <1>9 DEF ReceiverInv
<1>12. stream' \in Seq(Bytes) /\ ~malformed' /\ received' \in Seq(Outgoing)
  BY DEF IndInv
<1>13. Len(received') + Len(packets') <= Len(sent')
  BY <1>2, <1>3, <1>4, <1>5
<1> QED
  BY <1>3, <1>4, <1>6, <1>7, <1>8, <1>10, <1>11, <1>12, <1>13 DEF IndInv

\* The application fills or shrinks a message.
LEMMA MessageStep ==
  ASSUME IndInv, MessageInv(message'),
         UNCHANGED <<packets, stream, reading, sent, received, malformed>>
  PROVE  IndInv'
BY DEF IndInv, ReceiverInv, HeaderInv, payload_size_of, packet_size, unpack

\* send_message() of bytes.
LEMMA SendInv ==
  ASSUME IndInv, SizeFits, NEW type \in Types, NEW payload \in Payloads, Send(type, payload)
  PROVE  IndInv'
<1> DEFINE m == [type |-> type, payload |-> payload]
<1>1. m \in Outgoing /\ m.type = type /\ m.payload = payload
  BY DEF Outgoing
<1> HIDE DEF m
<1>2. PacketInv(Write_packet(type, payload), m)
  BY <1>1, WritePacket
<1>3. MessageInv(message')
  BY DEF Send, IndInv
<1>4. Queue(Write_packet(type, payload), m.type, m.payload)
  BY <1>1 DEF Send
<1> QED
  BY <1>1, <1>2, <1>3, <1>4, QueueInv DEF Send

\* Message(payload_data, payload_size)
LEMMA AllocateInv ==
  ASSUME IndInv, SizeFits, NEW type \in Types, NEW payload \in Payloads, Allocate(type, payload)
  PROVE  IndInv'
<1> DEFINE m == [type |-> type, payload |-> payload]
<1>1. m \in Outgoing /\ m.type = type /\ m.payload = payload
  BY DEF Outgoing
<1> HIDE DEF m
<1>2. /\ PacketInv(Write_packet(type, payload), m)
      /\ Len(Write_packet(type, payload)) = 3 + Len(payload)
  BY <1>1, WritePacket
<1>3. Len(payload) \in 0..MaxPayload /\ MaxPayload \in Nat
  BY PayloadType, FramingAssumption
<1>4. Len(message') <= 3 + MaxPayload
  BY <1>2, <1>3 DEF Allocate
<1>5. MessageInv(message')
  BY <1>1, <1>2, <1>4 DEF Allocate, MessageInv
<1> QED
  BY <1>5, MessageStep DEF Allocate

\* Message::resize_payload()
LEMMA ResizeInv ==
  ASSUME IndInv, SizeFits, NEW n \in 0..(MaxPayload + 1), Resize(n)
  PROVE  IndInv'
<1>1. n \in Nat /\ MessageInv(message) /\ message # <<>>
  BY FramingAssumption DEF IndInv, Resize
<1>2. MessageInv(message')
  BY <1>1, ResizeMessage DEF Resize
<1> QED
  BY <1>2, MessageStep DEF Resize

\* send_message(Message&&)
LEMMA ReleaseInv ==
  ASSUME IndInv, SizeFits, Release
  PROVE  IndInv'
<1>1. MessageInv(message) /\ message # <<>>
  BY DEF IndInv, Release
<1>2. PICK m \in Outgoing : PacketInv(message, m)
  BY <1>1 DEF MessageInv
<1>3. /\ m.type \in Types /\ m.payload \in Seq(Bytes)
      /\ packet_type(message) = m.type /\ payload_size(message) = Len(m.payload)
  BY <1>2, PacketSays, PayloadType DEF PacketInv, Encodes, Outgoing
<1> DEFINE v == SubSeq(message, 4, 3 + Len(m.payload))
<1>4. v = m.payload
  <2>1. message \in Seq(Bytes) /\ 3 + Len(m.payload) <= Len(message)
        /\ \A j \in 1..Len(m.payload) : message[3 + j] = m.payload[j]
    BY <1>2 DEF PacketInv, Encodes, Announces
  <2>2. v \in Seq(Bytes) /\ Len(v) = Len(m.payload)
        /\ \A j \in 1..Len(v) : v[j] = message[3 + j]
    BY <1>3, <2>1
  <2> HIDE DEF v
  <2>3. \A j \in 1..Len(v) : v[j] = m.payload[j]
    BY <2>1, <2>2
  <2> QED BY <1>3, <2>2, <2>3, SeqEqual
<1>5. Queue(message, m.type, m.payload)
  BY <1>3, <1>4 DEF Release
<1>6. MessageInv(message')
  BY DEF Release, MessageInv
<1> QED
  BY <1>2, <1>5, <1>6, QueueInv DEF Release

\* A header that was read stays where it is when more is written.
LEMMA HeaderStays ==
  ASSUME NEW all \in Seq(Bytes), NEW d \in Seq(Bytes), NEW p \in Nat, NEW head,
         HeaderInv(all, p, head)
  PROVE  HeaderInv(all \o d, p, head)
<1> DEFINE b == all \o d
<1>1. Len(all) \in Nat /\ Len(d) \in Nat /\ p + 3 <= Len(all)
  BY DEF HeaderInv
<1>2. /\ Len(b) = Len(all) + Len(d)
      /\ \A i \in 1..Len(all) + Len(d) : b[i] = IF i <= Len(all) THEN all[i] ELSE d[i - Len(all)]
  BY ConcatProperties
<1> HIDE DEF b
<1>3. ASSUME NEW j \in 1..3
      PROVE  head[j] = b[p + j]
  <2>1. p + j \in 1..Len(all) + Len(d) /\ p + j <= Len(all)
    BY <1>1
  <2> QED BY <1>2, <2>1 DEF HeaderInv
<1>4. p + 3 <= Len(b)
  BY <1>1, <1>2
<1>5. HeaderInv(b, p, head)
  BY <1>3, <1>4 DEF HeaderInv
<1> QED BY <1>5 DEF b

\* Socket::write_packet() and packet_sent()
LEMMA PacketSentInv ==
  ASSUME IndInv, SizeFits, PacketSent
  PROVE  IndInv'
<1> DEFINE w == Len(sent) - Len(packets)
           n == Len(received)
           m == sent[w + 1]
           d == data(Head(packets))
<1>1. /\ sent \in Seq(Outgoing) /\ packets \in Seq(Seq(Bytes)) /\ packets # <<>>
      /\ stream \in Seq(Bytes) /\ n + Len(packets) <= Len(sent)
      /\ received \in Seq(Outgoing)
  BY DEF IndInv, PacketSent
<1>2. Len(sent) \in Nat /\ Len(packets) \in Nat \ {0} /\ n \in Nat
  BY <1>1
<1>3. w \in Nat /\ w < Len(sent) /\ n <= w /\ w + 1 \in 1..Len(sent)
  BY <1>1, <1>2
<1>4. m \in Outgoing
  BY <1>1, <1>3
<1>5. PacketInv(Head(packets), m)
  <2>1. Head(packets) = packets[1] /\ 1 \in 1..Len(packets)
    BY <1>1, <1>2
  <2>2. PacketInv(packets[1], sent[w + 1])
    BY <2>1 DEF IndInv
  <2> QED BY <2>1, <2>2
<1>6. d \in Seq(Bytes) /\ Len(d) = 3 + Len(m.payload) /\ Encodes(d, 0, m)
  BY <1>4, <1>5, DataOfPacket
<1>7. /\ packets' = Tail(packets) /\ stream' = stream \o d
      /\ UNCHANGED <<message, reading, sent, received, malformed>>
  BY DEF PacketSent
<1>8. /\ packets' \in Seq(Seq(Bytes)) /\ Len(packets') = Len(packets) - 1
      /\ \A k \in 1..Len(packets') : packets'[k] = packets[k + 1]
  BY <1>1, <1>7, HeadTailProperties
<1>9. Len(sent') - Len(packets') = w + 1
  BY <1>2, <1>7, <1>8
<1>10. PICK all, at : Written(all, at, w, sent) /\ ReceiverInv(all, at, n)
  BY DEF IndInv
<1>11. ASSUME NEW k \in 1..Len(packets')
       PROVE  PacketInv(packets'[k], sent'[(w + 1) + k])
  <2>1. k + 1 \in 1..Len(packets) /\ (w + 1) + k = w + (k + 1)
    BY <1>2, <1>3, <1>8
  <2>2. PacketInv(packets[k + 1], sent[w + (k + 1)])
    BY <2>1 DEF IndInv
  <2> QED BY <1>7, <1>8, <2>1, <2>2
<1> HIDE DEF w, n, m, d
<1> DEFINE b == all \o d
           e == [k \in 0..(w + 1) |-> IF k <= w THEN at[k] ELSE Len(all) + Len(d)]
<1>12. Written(b, e, w + 1, sent)
  BY <1>1, <1>3, <1>6, <1>10, WriteOne DEF m
<1>13. all \in Seq(Bytes) /\ at[n] \in 0..Len(all) /\ Len(all) \in Nat
  <2>1. n \in 0..w
    BY <1>2, <1>3
  <2> QED BY <1>10, <2>1 DEF Written
<1>14. e[n] = at[n]
  BY <1>2, <1>3
<1> HIDE DEF e
<1> HIDE DEF b
<1>15. /\ reading = <<>> => Unread(b, e[n], stream')
       /\ reading # <<>> => HeaderInv(b, e[n], reading) /\ Unread(b, e[n] + 3, stream')
  <2>1. CASE reading = <<>>
    <3>1. Unread(all, at[n], stream)
      BY <1>10, <2>1 DEF ReceiverInv
    <3>2. Unread(b, at[n], stream')
      BY <1>1, <1>6, <1>7, <1>13, <3>1, UnreadGrows DEF b
    <3> QED BY <1>14, <2>1, <3>2
  <2>2. CASE reading # <<>>
    <3>1. HeaderInv(all, at[n], reading) /\ Unread(all, at[n] + 3, stream)
      BY <1>10, <2>2 DEF ReceiverInv
    <3>2. at[n] + 3 \in 0..Len(all) /\ at[n] \in Nat
      BY <1>13, <3>1 DEF HeaderInv
    <3>3. HeaderInv(b, at[n], reading)
      BY <1>6, <1>13, <3>1, <3>2, HeaderStays DEF b
    <3>4. Unread(b, at[n] + 3, stream')
      BY <1>1, <1>6, <1>7, <1>13, <3>1, <3>2, UnreadGrows DEF b
    <3> QED BY <1>14, <2>2, <3>3, <3>4
  <2> QED BY <2>1, <2>2
<1>16. stream' \in Seq(Bytes)
  BY <1>1, <1>6, <1>7, ConcatProperties
<1>17. n + Len(packets') <= Len(sent)
  BY <1>1, <1>2, <1>8
<1>18. /\ ~malformed' /\ MessageInv(message')
       /\ \A k \in 1..Len(received') : received'[k] = sent'[k]
  BY <1>7 DEF IndInv
<1>19. \E al, a : Written(al, a, w + 1, sent') /\ ReceiverInv(al, a, Len(received))'
  <2>1. PICK al, a : al = b /\ a = e
    OBVIOUS
  <2>2. Written(al, a, w + 1, sent')
    BY <1>7, <1>12, <2>1 DEF b, e
  <2>3. ReceiverInv(al, a, Len(received))'
    BY <1>7, <1>15, <2>1 DEF ReceiverInv, n
  <2> QED BY <2>2, <2>3
<1> QED
  BY <1>1, <1>7, <1>8, <1>9, <1>11, <1>16, <1>17, <1>18, <1>19 DEF IndInv, n

-----------------------------------------------------------------------------
\* The receiver's actions.

\* What was written and not received begins with the next packet that was sent,
\* if there is one, and there is one if there are bytes.
LEMMA NextPacket ==
  ASSUME NEW q \in Seq(Outgoing), NEW w \in 0..Len(q), NEW n \in 0..w, NEW all, NEW at,
         Written(all, at, w, q), n # w \/ at[n] < Len(all)
  PROVE  /\ n + 1 \in 1..w /\ q[n + 1] \in Outgoing /\ Len(q[n + 1].payload) \in Nat
         /\ at[n] \in Nat /\ Len(all) \in Nat
         /\ at[n + 1] = at[n] + 3 + Len(q[n + 1].payload)
         /\ at[n + 1] <= Len(all)
         /\ Encodes(all, at[n], q[n + 1])
<1>1. /\ all \in Seq(Bytes) /\ at \in [0..w -> 0..Len(all)] /\ at[w] = Len(all)
  BY DEF Written
<1>2. Len(all) \in Nat /\ at[n] \in Nat
  BY <1>1
<1>3. n # w /\ n + 1 \in 1..w /\ n + 1 \in 1..Len(q)
  BY <1>1, <1>2
<1>4. q[n + 1] \in Outgoing /\ Len(q[n + 1].payload) \in Nat
  <2>1. q[n + 1] \in Outgoing
    BY <1>3
  <2> QED BY <2>1, PayloadType DEF Outgoing
<1>5. (n + 1) - 1 = n
  OBVIOUS
<1>6. /\ at[n + 1] = at[(n + 1) - 1] + 3 + Len(q[n + 1].payload)
      /\ Encodes(all, at[(n + 1) - 1], q[n + 1])
  BY <1>3 DEF Written
<1>7. at[n + 1] <= Len(all)
  BY <1>1, <1>2, <1>3
<1> QED BY <1>2, <1>3, <1>4, <1>5, <1>6, <1>7

\* What the receiver does to the invariant, when it gets the next packet.
LEMMA ReceiveStep ==
  ASSUME IndInv, NEW all, NEW at, Written(all, at, Len(sent) - Len(packets), sent),
         Len(received) + 1 <= Len(sent) - Len(packets),
         received' = Append(received, sent[Len(received) + 1]),
         UNCHANGED <<message, packets, sent>>, ~malformed', stream' \in Seq(Bytes),
         reading' = <<>>, Unread(all, at[Len(received) + 1], stream')
  PROVE  IndInv'
<1> DEFINE n == Len(received)
<1>1. /\ sent \in Seq(Outgoing) /\ packets \in Seq(Seq(Bytes)) /\ received \in Seq(Outgoing)
      /\ Len(sent) \in Nat /\ Len(packets) \in Nat /\ n \in Nat
  BY DEF IndInv
<1>2. n + 1 \in 1..Len(sent) /\ sent[n + 1] \in Outgoing
  BY <1>1
<1>3. /\ received' \in Seq(Outgoing) /\ Len(received') = n + 1
      /\ \A k \in 1..n : received'[k] = received[k]
      /\ received'[n + 1] = sent[n + 1]
  BY <1>1, <1>2, AppendProperties
<1>4. ASSUME NEW k \in 1..Len(received')
      PROVE  received'[k] = sent'[k]
  <2>1. k \in 1..n \/ k = n + 1
    BY <1>1, <1>3
  <2>2. \A j \in 1..n : received[j] = sent[j]
    BY DEF IndInv
  <2> QED BY <1>3, <2>1, <2>2
<1>5. ReceiverInv(all, at, Len(received))'
  BY <1>3 DEF ReceiverInv
<1>6. Len(received') + Len(packets') <= Len(sent')
  BY <1>1, <1>3
<1>7. Written(all, at, Len(sent') - Len(packets'), sent')
  OBVIOUS
<1>8. /\ MessageInv(message')
      /\ \A k \in 1..Len(packets') : PacketInv(packets'[k], sent'[Len(sent') - Len(packets') + k])
  BY DEF IndInv
<1>9. sent' \in Seq(Outgoing) /\ packets' \in Seq(Seq(Bytes))
  BY <1>1
<1> QED
  BY <1>3, <1>4, <1>5, <1>6, <1>7, <1>8, <1>9 DEF IndInv

\* Socket::header_received()
LEMMA HeaderReceivedInv ==
  ASSUME IndInv, SizeFits, HeaderReceived
  PROVE  IndInv'
<1> DEFINE w == Len(sent) - Len(packets)
           n == Len(received)
           m == sent[n + 1]
           head == SubSeq(stream, 1, 3)
<1>1. /\ sent \in Seq(Outgoing) /\ packets \in Seq(Seq(Bytes)) /\ stream \in Seq(Bytes)
      /\ received \in Seq(Outgoing) /\ n + Len(packets) <= Len(sent)
      /\ reading = <<>> /\ Len(stream) >= 3
  BY DEF IndInv, HeaderReceived
<1>2. w \in 0..Len(sent) /\ n \in 0..w
  BY <1>1
<1>3. PICK all, at : Written(all, at, w, sent) /\ ReceiverInv(all, at, n)
  BY DEF IndInv
<1>4. Unread(all, at[n], stream)
  BY <1>1, <1>3 DEF ReceiverInv
<1> DEFINE p == at[n]
<1>5. all \in Seq(Bytes) /\ p \in Nat
  <2>1. all \in Seq(Bytes) /\ at \in [0..w -> 0..Len(all)]
    BY <1>3 DEF Written
  <2> HIDE DEF w, n
  <2> QED BY <1>2, <2>1
<1>6. p + 3 <= Len(all) /\ p < Len(all)
  BY <1>1, <1>4, <1>5 DEF Unread
<1>7. /\ n + 1 \in 1..w /\ m \in Outgoing /\ Len(m.payload) \in Nat
      /\ at[n + 1] = p + 3 + Len(m.payload) /\ at[n + 1] <= Len(all)
      /\ Encodes(all, p, m)
  BY <1>1, <1>2, <1>3, <1>6, NextPacket
<1>8. head \in Seq(Bytes) /\ Len(head) = 3 /\ \A j \in 1..3 : head[j] = stream[j]
  BY <1>1
<1>9. \A j \in 1..3 : head[j] = all[p + j]
  BY <1>1, <1>4, <1>8 DEF Unread
<1>10. /\ UNCHANGED <<message, packets, sent>>
       /\ malformed' = (packet_size(head) < 1)
       /\ IF packet_size(head) > 1
          THEN reading' = head /\ UNCHANGED received
          ELSE /\ UNCHANGED reading
               /\ IF packet_size(head) = 1
                  THEN received' = Append(received, [type |-> packet_type(head), payload |-> <<>>])
                  ELSE UNCHANGED received
  BY DEF HeaderReceived, ReadSuccess
<1>11. stream' = SubSeq(stream, 3 + 1, Len(stream))
  BY DEF HeaderReceived
<1>12. 3 \in 0..Len(stream)
  BY <1>1
<1>13. stream' \in Seq(Bytes) /\ Unread(all, p + 3, stream')
  BY <1>1, <1>4, <1>5, <1>11, <1>12, UnreadShrinks
<1> HIDE DEF w, n, m, head, p
<1>14. Announces(head, 0, m)
  BY <1>7, <1>9 DEF Encodes, Announces
<1>15. /\ packet_size(head) = 1 + Len(m.payload) /\ payload_size_of(head) = Len(m.payload)
       /\ packet_type(head) = m.type
  BY <1>7, <1>14, PacketSays
<1>16. ~malformed'
  <2>1. ~(packet_size(head) < 1)
    BY <1>7, <1>15
  <2> QED BY <1>10, <2>1
<1>17. CASE Len(m.payload) = 0
  <2>1. m.payload = <<>>
    BY <1>7, <1>17, PayloadType DEF Outgoing
  <2>2. m = [type |-> packet_type(head), payload |-> <<>>]
    BY <1>7, <1>15, <2>1 DEF Outgoing
  <2>3. received' = Append(received, m) /\ reading' = <<>>
    BY <1>1, <1>10, <1>15, <1>17, <2>2
  <2>4. at[n + 1] = p + 3
    BY <1>5, <1>7, <1>17
  <2>5. Unread(all, at[n + 1], stream')
    BY <1>13, <2>4
  <2>6. n + 1 <= w
    BY <1>2, <1>7
  <2> QED
    BY <1>3, <1>10, <1>13, <1>16, <2>3, <2>5, <2>6, ReceiveStep DEF w, n, m
<1>18. CASE Len(m.payload) # 0
  <2>1. reading' = head /\ UNCHANGED received
    <3>1. packet_size(head) > 1
      BY <1>7, <1>15, <1>18
    <3> QED BY <1>10, <3>1
  <2>2. head # <<>>
    <3>1. Len(<<>>) = 0
      OBVIOUS
    <3>2. Len(head) = 3
      BY <1>8
    <3> QED BY <3>1, <3>2
  <2>3. HeaderInv(all, p, head)
    BY <1>6, <1>8, <1>9, <1>15, <1>18 DEF HeaderInv
  <2>4. ReceiverInv(all, at, Len(received))'
    BY <1>13, <2>1, <2>2, <2>3 DEF ReceiverInv, p, n, HeaderInv, payload_size_of,
                                  packet_size, unpack
  <2>5. Written(all, at, Len(sent') - Len(packets'), sent')
    BY <1>3, <1>10 DEF w
  <2>6. /\ MessageInv(message') /\ sent' \in Seq(Outgoing) /\ packets' \in Seq(Seq(Bytes))
        /\ received' \in Seq(Outgoing) /\ Len(received') + Len(packets') <= Len(sent')
        /\ \A k \in 1..Len(received') : received'[k] = sent'[k]
        /\ \A k \in 1..Len(packets') :
             PacketInv(packets'[k], sent'[Len(sent') - Len(packets') + k])
    BY <1>10, <2>1 DEF IndInv
  <2> QED
    BY <1>13, <1>16, <2>4, <2>5, <2>6 DEF IndInv
<1> QED BY <1>17, <1>18

\* Socket::payload_received()
LEMMA PayloadReceivedInv ==
  ASSUME IndInv, SizeFits, PayloadReceived
  PROVE  IndInv'
<1> DEFINE w == Len(sent) - Len(packets)
           n == Len(received)
           m == sent[n + 1]
           l == Len(m.payload)
           v == SubSeq(stream, 1, l)
<1>1. /\ sent \in Seq(Outgoing) /\ packets \in Seq(Seq(Bytes)) /\ stream \in Seq(Bytes)
      /\ received \in Seq(Outgoing) /\ n + Len(packets) <= Len(sent)
      /\ reading # <<>>
  BY DEF IndInv, PayloadReceived
<1>2. w \in 0..Len(sent) /\ n \in 0..w
  BY <1>1
<1>3. PICK all, at : Written(all, at, w, sent) /\ ReceiverInv(all, at, n)
  BY DEF IndInv
<1> DEFINE p == at[n]
<1>4. HeaderInv(all, p, reading) /\ Unread(all, p + 3, stream)
  BY <1>1, <1>3 DEF ReceiverInv
<1>5. all \in Seq(Bytes) /\ p \in Nat
  <2>1. all \in Seq(Bytes) /\ at \in [0..w -> 0..Len(all)]
    BY <1>3 DEF Written
  <2> HIDE DEF w, n
  <2> QED BY <1>2, <2>1
<1>6. p + 3 <= Len(all) /\ p < Len(all) /\ \A j \in 1..3 : reading[j] = all[p + j]
  BY <1>4, <1>5 DEF HeaderInv
<1>7. /\ n + 1 \in 1..w /\ m \in Outgoing /\ l \in Nat
      /\ at[n + 1] = p + 3 + l /\ at[n + 1] <= Len(all)
      /\ Encodes(all, p, m)
  <2> HIDE DEF w, n
  <2> QED BY <1>1, <1>2, <1>3, <1>6, NextPacket
<1>8. Announces(reading, 0, m)
  BY <1>6, <1>7 DEF Encodes, Announces
<1>9. payload_size_of(reading) = l /\ packet_type(reading) = m.type
  BY <1>7, <1>8, PacketSays
<1>10. /\ l <= Len(stream) /\ reading' = <<>> /\ UNCHANGED <<message, packets, sent, malformed>>
       /\ received' = Append(received, [type |-> m.type, payload |-> v])
       /\ stream' = SubSeq(stream, l + 1, Len(stream))
  BY <1>9 DEF PayloadReceived, ReadSuccess
<1>11. v = m.payload
  <2>1. v \in Seq(Bytes) /\ Len(v) = l /\ \A j \in 1..l : v[j] = stream[j]
    BY <1>1, <1>7, <1>10
  <2>2. m.payload \in Seq(Bytes)
    BY <1>7, PayloadType DEF Outgoing
  <2>3. \A j \in 1..l : stream[j] = all[p + 3 + j]
    BY <1>1, <1>4, <1>7, <1>10 DEF Unread
  <2>4. \A j \in 1..l : all[p + 3 + j] = m.payload[j]
    BY <1>7 DEF Encodes
  <2> HIDE DEF v, m, p
  <2> QED BY <2>1, <2>2, <2>3, <2>4, SeqEqual
<1>12. received' = Append(received, m)
  <2>1. m = [type |-> m.type, payload |-> m.payload]
    BY <1>7 DEF Outgoing
  <2> HIDE DEF m, v
  <2> QED BY <1>10, <1>11, <2>1
<1>13. l \in 0..Len(stream) /\ p + 3 \in Nat
  <2>1. l \in Nat /\ l <= Len(stream) /\ Len(stream) \in Nat
    BY <1>1, <1>7, <1>10
  <2> HIDE DEF l
  <2> QED BY <1>5, <2>1
<1>14. stream' \in Seq(Bytes) /\ Unread(all, (p + 3) + l, stream')
  <2> DEFINE r == p + 3
  <2>1. r \in Nat /\ Unread(all, r, stream)
    BY <1>4, <1>13
  <2> HIDE DEF r, l
  <2>2. /\ SubSeq(stream, l + 1, Len(stream)) \in Seq(Bytes)
        /\ Unread(all, r + l, SubSeq(stream, l + 1, Len(stream)))
    BY <1>1, <1>5, <1>13, <2>1, UnreadShrinks
  <2> QED BY <1>10, <2>2 DEF r
<1>15. ~malformed'
  BY <1>10 DEF IndInv
<1>16. n + 1 <= w
  BY <1>2, <1>7
<1> QED
  BY <1>3, <1>7, <1>10, <1>12, <1>14, <1>15, <1>16, ReceiveStep

-----------------------------------------------------------------------------
\* The result.

\* Nothing is on its way initially.
LEMMA InitInv == Init => IndInv
<1> SUFFICES ASSUME Init PROVE IndInv
  OBVIOUS
<1>1. /\ message = <<>> /\ packets = <<>> /\ stream = <<>> /\ reading = <<>>
      /\ sent = <<>> /\ received = <<>> /\ malformed = FALSE
  BY DEF Init
<1>2. /\ sent \in Seq(Outgoing) /\ received \in Seq(Outgoing) /\ packets \in Seq(Seq(Bytes))
      /\ stream \in Seq(Bytes) /\ ~malformed
  BY <1>1
<1>3. Len(sent) = 0 /\ Len(received) = 0 /\ Len(packets) = 0 /\ Len(stream) = 0
  BY <1>1
<1>4. MessageInv(message)
  BY <1>1 DEF MessageInv
<1> DEFINE all == <<>>
           at == [k \in 0..0 |-> 0]
<1>5. all \in Seq(Bytes) /\ Len(all) = 0 /\ at \in [0..0 -> 0..0] /\ at[0] = 0
  OBVIOUS
<1> HIDE DEF all, at
<1>6. Written(all, at, 0, sent)
  BY <1>5 DEF Written
<1>7. ReceiverInv(all, at, 0)
  BY <1>1, <1>3, <1>5 DEF ReceiverInv, Unread
<1>8. \E a, t : Written(a, t, Len(sent) - Len(packets), sent) /\ ReceiverInv(a, t, Len(received))
  BY <1>3, <1>6, <1>7
<1> QED BY <1>2, <1>3, <1>4, <1>8 DEF IndInv

\* Every step preserves the invariant.
LEMMA NextInv ==
  ASSUME IndInv, SizeFits, [Next]_vars
  PROVE  IndInv'
<1>1. CASE UNCHANGED vars
  BY <1>1 DEF vars, IndInv, ReceiverInv, HeaderInv, payload_size_of, packet_size, unpack
<1>2. CASE \E type \in Types, payload \in Payloads : Send(type, payload) \/ Allocate(type, payload)
  BY <1>2, SendInv, AllocateInv
<1>3. CASE \E n \in 0..(MaxPayload + 1) : Resize(n)
  BY <1>3, ResizeInv
<1>4. CASE Release
  BY <1>4, ReleaseInv
<1>5. CASE PacketSent
  BY <1>5, PacketSentInv
<1>6. CASE HeaderReceived
  BY <1>6, HeaderReceivedInv
<1>7. CASE PayloadReceived
  BY <1>7, PayloadReceivedInv
<1> QED
  BY <1>1, <1>2, <1>3, <1>4, <1>5, <1>6, <1>7 DEF Next

\* Where nothing is left to write and no header is left to read, all was
\* received.
LEMMA InvImpliesFramed ==
  ASSUME IndInv
  PROVE  Framed
<1> DEFINE n == Len(received)
           w == Len(sent) - Len(packets)
<1>1. /\ sent \in Seq(Outgoing) /\ packets \in Seq(Seq(Bytes)) /\ stream \in Seq(Bytes)
      /\ received \in Seq(Outgoing) /\ n + Len(packets) <= Len(sent) /\ ~malformed
      /\ \A k \in 1..n : received[k] = sent[k]
  BY DEF IndInv
<1>2. n \in Nat /\ Len(sent) \in Nat /\ Len(packets) \in Nat /\ Len(stream) \in Nat
  BY <1>1
<1>3. IsPrefix(received, sent)
  <2>1. n <= Len(sent)
    BY <1>1, <1>2
  <2>2. SubSeq(received, 1, n) = received
    BY <1>1
  <2>3. /\ SubSeq(sent, 1, n) \in Seq(Outgoing) /\ Len(SubSeq(sent, 1, n)) = n
        /\ \A k \in 1..n : SubSeq(sent, 1, n)[k] = sent[k]
    BY <1>1, <1>2, <2>1
  <2>4. SubSeq(sent, 1, n) = received
    BY <1>1, <2>3, SeqEqual
  <2> QED BY <2>1, <2>2, <2>4 DEF IsPrefix
<1>4. ASSUME packets = <<>>, Len(stream) < 3, reading = <<>>
      PROVE  received = sent
  <2>1. w = Len(sent) /\ w \in 0..Len(sent) /\ n \in 0..w
    BY <1>1, <1>2, <1>4
  <2>2. PICK all, at : Written(all, at, w, sent) /\ ReceiverInv(all, at, n)
    BY DEF IndInv
  <2>3. Len(stream) = Len(all) - at[n]
    BY <1>4, <2>2 DEF ReceiverInv, Unread
  <2>4. all \in Seq(Bytes) /\ at \in [0..w -> 0..Len(all)] /\ at[w] = Len(all)
    BY <2>2 DEF Written
  <2> HIDE DEF n, w
  <2>5. at[n] \in Nat /\ Len(all) \in Nat
    BY <2>1, <2>4
  <2>6. CASE n # w
    <3>1. /\ Len(sent[n + 1].payload) \in Nat /\ at[n + 1] <= Len(all)
          /\ at[n + 1] = at[n] + 3 + Len(sent[n + 1].payload)
      BY <1>1, <2>1, <2>2, <2>6, NextPacket, ZenonT(30)
    <3> QED BY <1>2, <1>4, <2>3, <2>5, <3>1, SMTT(30)
  <2>7. CASE n = w
    <3>1. Len(received) = Len(sent)
      BY <2>1, <2>7 DEF n
    <3> QED BY <1>1, <3>1, SeqEqual DEF n
  <2> QED BY <2>6, <2>7
<1> QED BY <1>1, <1>3, <1>4 DEF Framed

\* A receiver gets exactly the packets that were sent, in order and whole.
THEOREM PacketsFramed ==
  ASSUME SizeFits
  PROVE  Spec => []Framed
<1>1. IndInv => Framed
  BY InvImpliesFramed
<1> QED BY <1>1, InitInv, NextInv, PTL DEF Spec

=============================================================================
