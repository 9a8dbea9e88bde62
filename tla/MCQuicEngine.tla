---------------------------- MODULE MCQuicEngine ----------------------------
(* Small instances of QuicEngine for TLC: the kinds of datagrams; and of   *)
(* the wire format of the packets, which the engine model takes as given.  *)
EXTENDS QuicEngine, QuicPacket

\* One kind for each way the connection table can change.
TableKinds == {{"INITIAL"}, {"HANDSHAKE", "DATA"}, {"CLOSE"}, {"INITIAL", "CLOSE"}}

\* What a peer sends to connect, to acknowledge and to leave.
ConnectAckAndClose == {{"INITIAL"}, {"HANDSHAKE"}, {"ACK"}, {"CLOSE"}}

\* What a peer sends to connect and to acknowledge.
ConnectAndAck == {{"INITIAL"}, {"HANDSHAKE"}, {"ACK"}}

\* What a peer sends that connects and writes.
ConnectAndData == {{"INITIAL"}, {"HANDSHAKE"}, {"DATA"}}

\* Packets that differ in one field, with the longest and the shortest payload.
SamplePackets ==
    LET none == [flags |-> 1, connection_id |-> 0, packet_number |-> 0, stream_id |-> 0,
                 offset |-> 0, length |-> 0, payload |-> [i \in {} |-> 0]]
        long == [none EXCEPT !.length = MaxPayload, !.payload = [i \in 0..(MaxPayload - 1) |-> 1]]
    IN UNION {{[p EXCEPT !.connection_id = x] : x \in LongWord}
                \cup {[p EXCEPT !.packet_number = x] : x \in Word}
                \cup {[p EXCEPT !.stream_id = x] : x \in Word}
                \cup {[p EXCEPT !.offset = x] : x \in Word} : p \in {none, long}}

\* RoundTrip on these, alone in the datagram and with a byte after them.
ASSUME SamplesRoundTrip ==
    \A p \in SamplePackets, more \in 0..1 :
      LET len == Required(p) + more
      IN RoundTrip(p, [i \in 0..(len - 1) |-> IF i < Required(p) THEN quic_packet_serialize(p)[i]
                                              ELSE 1], len)

\* StaysInside for all values of the length field and datagrams up to a byte too long.
ASSUME SamplesStayInside ==
    \A x \in Word, extra \in 0..(MaxPayload + 1) :
      LET len == HEADER_SIZE + extra
      IN StaysInside([i \in 0..(len - 1) |-> IF i \in 21..24 THEN htonl(x, i - 21) ELSE 1], len)
=============================================================================
