------------------------------ MODULE Framing -------------------------------
(***************************************************************************)
(* Packets as bytes: Write_packet, the Message that an application fills   *)
(* and shrinks before it sends it, the stream between two Sockets, and     *)
(* Read_packet with the header and the payload that Socket reads in turn.  *)
(* A packet is two bytes of size, most significant first, one of type, and *)
(* the payload; the size counts the type and the payload.                  *)
(***************************************************************************)
EXTENDS Naturals, Sequences, SequencesExt

CONSTANTS
  B,          \* the values of a byte: 256 in the code
  Types,      \* packet types: bytes
  MaxPayload, \* bound: bytes in the payload an application sends
  MaxPackets  \* bound: packets sent

ASSUME FramingAssumption ==
  /\ B \in Nat \ {0, 1} /\ Types \subseteq 0..(B - 1)
  /\ MaxPayload \in Nat /\ MaxPackets \in Nat

Bytes    == 0..(B - 1)
Payloads == UNION {[1..n -> Bytes] : n \in 0..MaxPayload}

VARIABLES
  message,  \* the Message the application is filling, or <<>>
  packets,  \* write_packets_ of the sender
  stream,   \* the bytes on their way
  reading,  \* read_packet_ of the receiver: its header, until the payload is there
  \* History:
  sent,     \* what was handed to send_message(): type and payload
  received, \* what read_success() got
  malformed \* a header was found malformed

vars == <<message, packets, stream, reading, sent, received, malformed>>

Init ==
  /\ message = <<>> /\ packets = <<>> /\ stream = <<>> /\ reading = <<>>
  /\ sent = <<>> /\ received = <<>> /\ malformed = FALSE

-----------------------------------------------------------------------------
\* Integers of two bytes.

\* std::uint16_t
uint16(n) == n % (B * B)

pack(n) == <<(n \div B) % B, n % B>>

unpack(bytes) == bytes[1] * B + bytes[2]

-----------------------------------------------------------------------------
\* Write_packet: the bytes of packet_.  The size in the header wraps.

header(type, size) == Append(pack(uint16(1 + size)), type)

\* The size of the payload is an integer of two bytes: a longer one is cut.
Write_packet(type, payload) ==
  LET size == uint16(Len(payload))
  IN  header(type, size) \o SubSeq(payload, 1, size)

packet_size(packet) == unpack(packet)

packet_type(packet) == packet[3]

payload_size(packet) == packet_size(packet) - 1

payload_capacity(packet) == Len(packet) - 3

\* Faulty: the whole buffer, whatever it was resized to.
data_whole(packet) == packet

\* data() and size(): what is written to the socket.
data(packet) == SubSeq(packet, 1, 2 + packet_size(packet))

\* resize_payload(): no_capacity changes nothing.
resize_payload(packet, size) ==
  IF size > payload_capacity(packet) THEN packet
  ELSE header(packet_type(packet), size) \o SubSeq(packet, 4, Len(packet))

-----------------------------------------------------------------------------
\* The sender.

Queue(packet, type, payload) ==
  /\ Len(sent) < MaxPackets
  /\ packets' = Append(packets, packet)
  /\ sent' = Append(sent, [type |-> type, payload |-> payload])

\* send_message() of bytes; an empty payload is refused, but heartbeats and the
\* like have none.
Send(type, payload) ==
  /\ Queue(Write_packet(type, payload), type, payload)
  /\ UNCHANGED <<message, stream, reading, received, malformed>>

\* Message(payload_data, payload_size)
Allocate(type, payload) ==
  /\ message = <<>> /\ Len(sent) < MaxPackets
  /\ message' = Write_packet(type, payload)
  /\ UNCHANGED <<packets, stream, reading, sent, received, malformed>>

\* Message::resize_payload()
Resize(size) ==
  /\ message # <<>>
  /\ message' = resize_payload(message, size)
  /\ UNCHANGED <<packets, stream, reading, sent, received, malformed>>

\* send_message(Message&&), release_packet(): the message is moved from.
Release ==
  /\ message # <<>> /\ payload_size(message) # 0
  /\ Queue(message, packet_type(message), SubSeq(message, 4, 3 + payload_size(message)))
  /\ message' = <<>>
  /\ UNCHANGED <<stream, reading, received, malformed>>

\* Socket::write_packet() and packet_sent()
PacketSent ==
  /\ packets # <<>>
  /\ stream' = stream \o data(Head(packets))
  /\ packets' = Tail(packets)
  /\ UNCHANGED <<message, reading, sent, received, malformed>>

-----------------------------------------------------------------------------
\* The receiver: Socket::header_received() and payload_received().

ReadSuccess(head, payload) ==
  received' = Append(received, [type |-> packet_type(head), payload |-> payload])

\* Read_packet::resize_payload(), when the header is not malformed.
payload_size_of(head) == packet_size(head) - 1

HeaderReceived ==
  /\ reading = <<>> /\ ~malformed /\ Len(stream) >= 3
  /\ LET head == SubSeq(stream, 1, 3)
     IN  /\ malformed' = (packet_size(head) < 1)
         /\ IF packet_size(head) > 1
            THEN reading' = head /\ UNCHANGED received
            ELSE /\ UNCHANGED reading
                 /\ IF packet_size(head) = 1 THEN ReadSuccess(head, <<>>)
                                             ELSE UNCHANGED received
  /\ stream' = SubSeq(stream, 4, Len(stream))
  /\ UNCHANGED <<message, packets, sent>>

PayloadReceived ==
  /\ reading # <<>> /\ Len(stream) >= payload_size_of(reading)
  /\ ReadSuccess(reading, SubSeq(stream, 1, payload_size_of(reading)))
  /\ stream' = SubSeq(stream, payload_size_of(reading) + 1, Len(stream))
  /\ reading' = <<>>
  /\ UNCHANGED <<message, packets, sent, malformed>>

Next ==
  \/ \E type \in Types, payload \in Payloads : Send(type, payload) \/ Allocate(type, payload)
  \/ \E n \in 0..(MaxPayload + 1) : Resize(n)
  \/ Release \/ PacketSent \/ HeaderReceived \/ PayloadReceived

Spec == Init /\ [][Next]_vars

-----------------------------------------------------------------------------
\* What the receiver gets is what was sent, in order, cut where it was cut, no
\* header is ever malformed, for payloads of which the size fits, and once all
\* is written and read, all was received.
Framed ==
  /\ ~malformed /\ IsPrefix(received, sent)
  /\ packets = <<>> /\ Len(stream) < 3 /\ reading = <<>> => received = sent

=============================================================================
