-------------------------- MODULE QuicPacketProofs --------------------------
(***************************************************************************)
(* Proofs about the wire format, for bytes of any base and payloads of any *)
(* length. Numbers are taken apart by division with remainder and put      *)
(* together again; the rest is bookkeeping of positions.                   *)
(***************************************************************************)
EXTENDS QuicPacket, TLAPS

\* Division with remainder.
LEMMA DivMod ==
  ASSUME NEW x \in Nat, NEW m \in Nat, m > 0
  PROVE  /\ x \div m \in Nat /\ x % m \in 0..(m - 1)
         /\ x = (x \div m) * m + (x % m)
OBVIOUS

\* The quotient of a number below m * n by m is below n.
LEMMA DivLess ==
  ASSUME NEW m \in Nat, NEW n \in Nat, m > 0, NEW x \in 0..(m * n - 1)
  PROVE  x \div m \in 0..(n - 1)
<1> DEFINE q == x \div m
<1>1. q \in Nat /\ q * m <= x /\ x < m * n
  BY DivMod
<1>2. ~(q >= n)
  <2> HIDE DEF q
  <2> QED BY <1>1
<1> QED BY <1>1, <1>2

\* ntohl puts together what htonl took apart.
LEMMA WordTrip ==
  ASSUME NEW x \in Word, NEW b, NEW k \in Nat,
         \A i \in 0..3 : b[k + i] = htonl(x, i)
  PROVE  ntohl(b, k) = x
<1> DEFINE B == ByteBase
           x1 == x \div B
           x2 == x1 \div B
           x3 == x2 \div B
<1>1. B \in Nat /\ B > 0 /\ x \in Nat
  BY PacketAssumption DEF Word, WordBase
<1>2. x1 \in Nat /\ x % B \in Nat /\ x = x1 * B + (x % B)
  BY <1>1, DivMod
<1>3. x2 \in Nat /\ x1 % B \in Nat /\ x1 = x2 * B + (x1 % B)
  BY <1>1, <1>2, DivMod
<1>4. x3 \in Nat /\ x2 % B \in Nat /\ x2 = x3 * B + (x2 % B)
  BY <1>1, <1>3, DivMod
<1>5. /\ b[k] = x3 /\ b[k + 1] = x2 % B /\ b[k + 2] = x1 % B /\ b[k + 3] = x % B
  <2>1. b[k + 0] = htonl(x, 0) /\ b[k + 1] = htonl(x, 1) /\ b[k + 2] = htonl(x, 2)
        /\ b[k + 3] = htonl(x, 3)
    OBVIOUS
  <2> QED BY <2>1 DEF htonl
<1> HIDE DEF x1, x2, x3, B
<1>6. ntohl(b, k) = ((x3 * B + (x2 % B)) * B + (x1 % B)) * B + (x % B)
  BY <1>5 DEF ntohl, B
<1> QED BY <1>2, <1>3, <1>4, <1>6

\* A word has values.
LEMMA WordBaseType == WordBase \in Nat /\ WordBase > 0
BY PacketAssumption DEF WordBase

\* be64_to_host puts together what host_to_be64 took apart.
LEMMA LongWordTrip ==
  ASSUME NEW x \in LongWord, NEW b, NEW k \in Nat,
         \A i \in 0..7 : b[k + i] = host_to_be64(x, i)
  PROVE  be64_to_host(b, k) = x
<1> DEFINE hi == x \div WordBase
           lo == x % WordBase
<1>1. x \in Nat /\ x \in 0..(WordBase * WordBase - 1)
  BY WordBaseType DEF LongWord
<1>2. hi \in Word
  BY <1>1, WordBaseType, DivLess DEF Word
<1>3. lo \in Word /\ x = hi * WordBase + lo
  BY <1>1, WordBaseType, DivMod DEF Word
<1>4. \A i \in 0..3 : b[k + i] = htonl(hi, i)
  BY DEF host_to_be64
<1>5. \A i \in 0..3 : b[(k + 4) + i] = htonl(lo, i)
  <2> SUFFICES ASSUME NEW i \in 0..3 PROVE b[(k + 4) + i] = htonl(lo, i)
    OBVIOUS
  <2>1. b[k + (4 + i)] = host_to_be64(x, 4 + i)
    OBVIOUS
  <2>2. host_to_be64(x, 4 + i) = htonl(lo, i)
    BY DEF host_to_be64
  <2>3. k + (4 + i) = (k + 4) + i
    OBVIOUS
  <2> QED BY <2>1, <2>2, <2>3
<1>6. ntohl(b, k) = hi /\ ntohl(b, k + 4) = lo
  BY <1>2, <1>3, <1>4, <1>5, WordTrip
<1> QED BY <1>3, <1>6 DEF be64_to_host

\* WordTrip for the field at position k of a datagram.
LEMMA FieldTrip ==
  ASSUME NEW x \in Word, NEW b, NEW k \in Nat,
         \A i \in k..(k + 3) : b[i] = htonl(x, i - k)
  PROVE  ntohl(b, k) = x
<1> SUFFICES ASSUME NEW i \in 0..3 PROVE b[k + i] = htonl(x, i)
  BY WordTrip
<1>1. k + i \in k..(k + 3) /\ (k + i) - k = i
  OBVIOUS
<1> QED BY <1>1

\* What quic_packet_serialize writes, quic_packet_deserialize accepts and reads as the
\* same packet, whatever follows it in the datagram.
THEOREM RoundTripTheorem ==
  ASSUME NEW n \in 0..MaxPayload, NEW p \in WirePacket(n), NEW b, NEW len \in Nat
  PROVE  RoundTrip(p, b, len)
<1> SUFFICES ASSUME len >= Required(p),
                    \A i \in 0..(Required(p) - 1) : b[i] = quic_packet_serialize(p)[i]
             PROVE  Deserializable(b, len) /\ quic_packet_deserialize(b) = p
  BY DEF RoundTrip
<1>1. p \in [flags : Byte, connection_id : LongWord, packet_number : Word, stream_id : Word,
             offset : Word, length : {n}, payload : [0..(n - 1) -> Byte]]
  BY DEF WirePacket
<1>2. n \in Nat /\ n \in Word /\ p.length = n /\ Required(p) = 25 + n
  BY <1>1, PacketAssumption, WordBaseType DEF Required, HEADER_SIZE, Word
<1>3. \A i \in 0..(24 + n) :
        b[i] = IF i = 0 THEN p.flags
               ELSE IF i < 9 THEN host_to_be64(p.connection_id, i - 1)
               ELSE IF i < 13 THEN htonl(p.packet_number, i - 9)
               ELSE IF i < 17 THEN htonl(p.stream_id, i - 13)
               ELSE IF i < 21 THEN htonl(p.offset, i - 17)
               ELSE IF i < 25 THEN htonl(p.length, i - 21)
               ELSE p.payload[i - 25]
  BY <1>2 DEF quic_packet_serialize, HEADER_SIZE
<1>4. b[0] = p.flags
  BY <1>2, <1>3
<1>5. be64_to_host(b, 1) = p.connection_id
  <2>1. \A i \in 0..7 : b[1 + i] = host_to_be64(p.connection_id, i)
    <3> SUFFICES ASSUME NEW i \in 0..7 PROVE b[1 + i] = host_to_be64(p.connection_id, i)
      OBVIOUS
    <3>1. b[1 + i] = host_to_be64(p.connection_id, (1 + i) - 1)
      BY <1>2, <1>3
    <3> QED BY <3>1
  <2> QED BY <1>1, <2>1, LongWordTrip
<1>6. ntohl(b, 9) = p.packet_number
  <2>1. \A i \in 9..(9 + 3) : b[i] = htonl(p.packet_number, i - 9)
    BY <1>2, <1>3
  <2> QED BY <1>1, <2>1, FieldTrip, SMTT(30)
<1>7. ntohl(b, 13) = p.stream_id
  <2>1. \A i \in 13..(13 + 3) : b[i] = htonl(p.stream_id, i - 13)
    BY <1>2, <1>3
  <2> QED BY <1>1, <2>1, FieldTrip, SMTT(30)
<1>8. ntohl(b, 17) = p.offset
  <2>1. \A i \in 17..(17 + 3) : b[i] = htonl(p.offset, i - 17)
    BY <1>2, <1>3
  <2> QED BY <1>1, <2>1, FieldTrip, SMTT(30)
<1>9. ntohl(b, 21) = n
  <2>1. \A i \in 21..(21 + 3) : b[i] = htonl(n, i - 21)
    BY <1>2, <1>3
  <2> QED BY <1>2, <2>1, FieldTrip
<1>10. [i \in 0..(n - 1) |-> b[HEADER_SIZE + i]] = p.payload
  <2>1. p.payload \in [0..(n - 1) -> Byte]
    BY <1>1
  <2>2. \A i \in 0..(n - 1) : b[25 + i] = p.payload[i]
    <3> SUFFICES ASSUME NEW i \in 0..(n - 1) PROVE b[25 + i] = p.payload[i]
      OBVIOUS
    <3>1. 25 + i \in 0..(24 + n) /\ (25 + i) - 25 = i
      BY <1>2
    <3>2. b[25 + i] = p.payload[(25 + i) - 25]
      BY <1>2, <1>3, <3>1
    <3> QED BY <3>1, <3>2
  <2> QED BY <2>1, <2>2 DEF HEADER_SIZE
<1>11. Deserializable(b, len)
  BY <1>2, <1>9 DEF Deserializable, HEADER_SIZE
<1>12. quic_packet_deserialize(b) =
         [flags |-> p.flags, connection_id |-> p.connection_id,
          packet_number |-> p.packet_number, stream_id |-> p.stream_id,
          offset |-> p.offset, length |-> n, payload |-> p.payload]
  BY <1>4, <1>5, <1>6, <1>7, <1>8, <1>9, <1>10 DEF quic_packet_deserialize
<1>13. p = [flags |-> p.flags, connection_id |-> p.connection_id,
            packet_number |-> p.packet_number, stream_id |-> p.stream_id,
            offset |-> p.offset, length |-> n, payload |-> p.payload]
  BY <1>1
<1> QED BY <1>11, <1>12, <1>13

\* A quotient below n and a remainder below m make a number below m * n.
LEMMA Join ==
  ASSUME NEW m \in Nat, NEW n \in Nat, m > 0,
         NEW q \in 0..(n - 1), NEW r \in 0..(m - 1)
  PROVE  q * m + r \in 0..(m * n - 1)
<1>1. q * m + r \in Nat /\ q + 1 <= n /\ r + 1 <= m /\ m * n \in Nat
  OBVIOUS
<1>2. (q + 1) * m <= n * m
  BY <1>1
<1>3. (q + 1) * m = q * m + m /\ n * m = m * n
  OBVIOUS
<1> QED BY <1>1, <1>2, <1>3

\* Any four bytes are a word.
LEMMA WordType ==
  ASSUME NEW b, NEW k \in Nat, \A i \in k..(k + 3) : b[i] \in Byte
  PROVE  ntohl(b, k) \in Word
<1> DEFINE B == ByteBase
           w1 == b[k] * B + b[k + 1]
           w2 == w1 * B + b[k + 2]
           w3 == w2 * B + b[k + 3]
<1>1. B \in Nat /\ B > 0 /\ B * B \in Nat /\ B * (B * B) \in Nat
  BY PacketAssumption
<1>2. b[k] \in 0..(B - 1) /\ b[k + 1] \in 0..(B - 1) /\ b[k + 2] \in 0..(B - 1)
      /\ b[k + 3] \in 0..(B - 1)
  <2>1. k \in k..(k + 3) /\ k + 1 \in k..(k + 3) /\ k + 2 \in k..(k + 3) /\ k + 3 \in k..(k + 3)
    OBVIOUS
  <2> QED BY <2>1 DEF Byte
<1> HIDE DEF B
<1>3. w1 \in 0..(B * B - 1)
  BY <1>1, <1>2, Join
<1>4. w2 \in 0..(B * (B * B) - 1)
  <2> HIDE DEF w1
  <2> QED BY <1>1, <1>2, <1>3, Join
<1>5. w3 \in 0..(B * (B * (B * B)) - 1)
  <2> HIDE DEF w2
  <2> QED BY <1>1, <1>2, <1>4, Join
<1> QED BY <1>5 DEF ntohl, Word, WordBase, B

\* Whatever bytes arrive, what quic_packet_deserialize accepts is a packet with fields
\* in range and with a payload inside of the bytes that were received.
THEOREM StaysInsideTheorem ==
  ASSUME NEW len \in Nat, NEW b \in [0..(len - 1) -> Byte]
  PROVE  StaysInside(b, len)
<1> SUFFICES ASSUME Deserializable(b, len)
             PROVE  /\ \E k \in 0..MaxPayload : quic_packet_deserialize(b) \in WirePacket(k)
                    /\ Required(quic_packet_deserialize(b)) <= len
  BY DEF StaysInside
<1> DEFINE n == ntohl(b, 21)
<1>1. len >= 25 /\ n <= MaxPayload /\ len >= 25 + n
  BY DEF Deserializable, HEADER_SIZE
<1>2. \A k \in 0..21 : ntohl(b, k) \in Word
  <2> SUFFICES ASSUME NEW k \in 0..21 PROVE ntohl(b, k) \in Word
    OBVIOUS
  <2>1. \A i \in k..(k + 3) : b[i] \in Byte
    BY <1>1
  <2> QED BY <2>1, WordType
<1>3. n \in 0..MaxPayload
  BY <1>1, <1>2, PacketAssumption, WordBaseType DEF Word
<1>4. be64_to_host(b, 1) \in LongWord
  <2>1. ntohl(b, 1) \in 0..(WordBase - 1) /\ ntohl(b, 1 + 4) \in 0..(WordBase - 1)
    BY <1>2 DEF Word
  <2> QED BY <2>1, WordBaseType, Join DEF be64_to_host, LongWord
<1>5. b[0] \in Byte
  BY <1>1
<1>6. [i \in 0..(n - 1) |-> b[HEADER_SIZE + i]] \in [0..(n - 1) -> Byte]
  <2> SUFFICES ASSUME NEW i \in 0..(n - 1) PROVE b[HEADER_SIZE + i] \in Byte
    OBVIOUS
  <2>1. 25 + i \in 0..(len - 1)
    BY <1>1, <1>3, PacketAssumption
  <2> QED BY <2>1 DEF HEADER_SIZE
<1>7. quic_packet_deserialize(b) \in
        [flags : Byte, connection_id : LongWord, packet_number : Word, stream_id : Word,
         offset : Word, length : {n}, payload : [0..(n - 1) -> Byte]]
  <2>1. ntohl(b, 9) \in Word /\ ntohl(b, 13) \in Word /\ ntohl(b, 17) \in Word
    BY <1>2
  <2> HIDE DEF n
  <2> QED BY <1>4, <1>5, <1>6, <2>1 DEF quic_packet_deserialize, n
<1>8. quic_packet_deserialize(b) \in WirePacket(n)
  BY <1>7 DEF WirePacket
<1>9. Required(quic_packet_deserialize(b)) <= len
  BY <1>1 DEF Required, quic_packet_deserialize, HEADER_SIZE
<1> QED BY <1>3, <1>8, <1>9
=============================================================================
