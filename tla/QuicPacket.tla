----------------------------- MODULE QuicPacket -----------------------------
(***************************************************************************)
(* The wire format of a packet (src/server/quic.c): a byte of flags, the   *)
(* connection_id in eight bytes and four numbers in four bytes each, the   *)
(* most significant byte first, then the payload.                          *)
(*                                                                         *)
(* A datagram is a function from positions to bytes, and so is a payload.  *)
(* A packet whose payload is a null pointer has length 0: every caller     *)
(* that leaves the pointer out sends nothing.                              *)
(***************************************************************************)
EXTENDS Integers

CONSTANTS
    ByteBase,     \* the values of a byte: 256
    MaxPayload    \* QUIC_MAX_PAYLOAD

Byte == 0..(ByteBase - 1)
WordBase == ByteBase * (ByteBase * (ByteBase * ByteBase))
Word == 0..(WordBase - 1)
LongWord == 0..(WordBase * WordBase - 1)

\* The length field can name the longest payload.
ASSUME PacketAssumption ==
    /\ ByteBase \in Nat /\ ByteBase > 1
    /\ MaxPayload \in Nat /\ MaxPayload < WordBase

HEADER_SIZE == 25

\* quic_packet_t of length n, with the payload its pointer refers to.
WirePacket(n) ==
    [flags : Byte, connection_id : LongWord, packet_number : Word, stream_id : Word,
     offset : Word, length : {n}, payload : [0..(n - 1) -> Byte]]

-----------------------------------------------------------------------------
(* Bytes of numbers, most significant first.                               *)

\* htonl: byte i of a word.
htonl(x, i) ==
    LET tops == (x \div ByteBase) \div ByteBase
    IN IF i = 0 THEN tops \div ByteBase
       ELSE IF i = 1 THEN tops % ByteBase
       ELSE IF i = 2 THEN (x \div ByteBase) % ByteBase
       ELSE x % ByteBase

\* ntohl: the word whose bytes are at positions k to k + 3.
ntohl(b, k) == ((b[k] * ByteBase + b[k + 1]) * ByteBase + b[k + 2]) * ByteBase + b[k + 3]

\* host_to_be64: the upper word first.
host_to_be64(x, i) == IF i < 4 THEN htonl(x \div WordBase, i) ELSE htonl(x % WordBase, i - 4)

be64_to_host(b, k) == ntohl(b, k) * WordBase + ntohl(b, k + 4)

-----------------------------------------------------------------------------
(* Packets.                                                                *)

Required(p) == HEADER_SIZE + p.length

\* Whether quic_packet_serialize into a buffer of buffer_len bytes succeeds, and the
\* bytes it has then written.
Serializable(p, buffer_len) == p.length <= MaxPayload /\ buffer_len >= Required(p)

quic_packet_serialize(p) ==
    [i \in 0..(Required(p) - 1) |->
       IF i = 0 THEN p.flags
       ELSE IF i < 9 THEN host_to_be64(p.connection_id, i - 1)
       ELSE IF i < 13 THEN htonl(p.packet_number, i - 9)
       ELSE IF i < 17 THEN htonl(p.stream_id, i - 13)
       ELSE IF i < 21 THEN htonl(p.offset, i - 17)
       ELSE IF i < 25 THEN htonl(p.length, i - 21)
       ELSE p.payload[i - HEADER_SIZE]]

\* Whether quic_packet_deserialize accepts the len bytes that were received, and the
\* packet it then finds there.
Deserializable(b, len) ==
    /\ len >= HEADER_SIZE
    /\ ntohl(b, 21) <= MaxPayload /\ len >= HEADER_SIZE + ntohl(b, 21)

quic_packet_deserialize(b) ==
    [flags |-> b[0], connection_id |-> be64_to_host(b, 1), packet_number |-> ntohl(b, 9),
     stream_id |-> ntohl(b, 13), offset |-> ntohl(b, 17), length |-> ntohl(b, 21),
     payload |-> [i \in 0..(ntohl(b, 21) - 1) |-> b[HEADER_SIZE + i]]]

-----------------------------------------------------------------------------
(* What the format promises.                                               *)

\* What one end serializes the other accepts and reads as the same packet, even from
\* a datagram that is longer.
RoundTrip(p, b, len) ==
    (/\ len >= Required(p)
     /\ \A i \in 0..(Required(p) - 1) : b[i] = quic_packet_serialize(p)[i])
    => Deserializable(b, len) /\ quic_packet_deserialize(b) = p

\* Of whatever arrives, what is accepted is a packet, and it lies inside of what
\* arrived.
StaysInside(b, len) ==
    Deserializable(b, len)
    => /\ \E n \in 0..MaxPayload : quic_packet_deserialize(b) \in WirePacket(n)
       /\ Required(quic_packet_deserialize(b)) <= len
=============================================================================
