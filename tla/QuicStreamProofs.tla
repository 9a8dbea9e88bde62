-------------------------- MODULE QuicStreamProofs --------------------------
(* Proofs about QuicStream.                                                *)
EXTENDS QuicStream, SequenceTheorems, TLAPS

\* What insert_segment leaves: the segments before the insertion point, the new
\* one, and the others moved up by one.
LEMMA InsertAtPointProps ==
    ASSUME NEW S, NEW segs \in Seq(S), NEW seg \in S,
           NEW k \in 1..(Len(segs) + 1)
    PROVE  LET r == InsertAtPoint(segs, k, seg)
           IN /\ r \in Seq(S)
              /\ Len(r) = Len(segs) + 1
              /\ \A i \in 1..Len(r) :
                   r[i] = IF i < k THEN segs[i]
                          ELSE IF i = k THEN seg ELSE segs[i - 1]
  BY DEF InsertAtPoint

\* Freeing the first segment leaves the others, moved down by one.
LEMMA TailProps ==
    ASSUME NEW S, NEW segs \in Seq(S), segs # <<>>
    PROVE  /\ Tail(segs) \in Seq(S)
           /\ Len(Tail(segs)) = Len(segs) - 1
           /\ \A i \in 1..(Len(segs) - 1) : Tail(segs)[i] = segs[i + 1]
           /\ segs[1] \in S
           /\ Len(segs) \in Nat \ {0}
  OBVIOUS

\* The empty list.
LEMMA EmptyProps ==
    ASSUME NEW S
    PROVE  <<>> \in Seq(S) /\ Len(<<>>) = 0
  OBVIOUS

\* Offset arithmetic stays within uint32_t.
LEMMA OffsetRange ==
    ASSUME NEW a \in Nat
    PROVE  a % OffsetMod \in 0..OffsetMod-1
  BY StreamAssumption

\* An offset that fits is not changed by the reduction to uint32_t.
LEMMA OffsetFits ==
    ASSUME NEW a \in Nat, a < OffsetMod
    PROVE  a % OffsetMod = a
  BY StreamAssumption

\* Appending one sequence to another.
LEMMA AppendProps ==
    ASSUME NEW s \in Seq(Nat), NEW t \in Seq(Nat)
    PROVE  /\ s \o t \in Seq(Nat)
           /\ Len(s \o t) = Len(s) + Len(t)
           /\ \A i \in 1..(Len(s) + Len(t)) :
                (s \o t)[i] = IF i <= Len(s) THEN s[i] ELSE t[i - Len(s)]
  BY ConcatProperties

\* Facts about one iteration of consume_segments on a first segment that is not
\* stale: what is skipped, what is copied and what it is made of.
LEMMA IterationProps ==
    ASSUME TypeOK, LoopCondition(cur), start < head.length
    PROVE  /\ cur \in Stream
           /\ head \in Segment
           /\ start \in Nat
           /\ start = cur.next_offset - head.offset
           /\ to_copy \in Nat
           /\ to_copy <= head.length - start
           /\ to_copy <= OutBufSize - Len(call.out)
           /\ Copied \in Seq(Nat)
           /\ Len(Copied) = to_copy
           /\ \A k \in 1..to_copy : Copied[k] = head.data + start + k - 1
           /\ Advanced \in 0..OffsetMod-1
<1>1. cur \in Stream /\ call.slot \in Slots /\ Len(call.out) \in Nat
  BY DEF TypeOK, cur, Call
<1>2. head \in Segment
  BY <1>1, TailProps DEF LoopCondition, head, Stream
<1>3. start \in Nat /\ start = cur.next_offset - head.offset
  BY <1>1, <1>2 DEF start, LoopCondition, Stream, Segment, head
<1>4. remaining \in Nat /\ remaining = head.length - start
  BY <1>1, <1>2, <1>3 DEF remaining, Segment
<1>5. /\ to_copy \in Nat /\ to_copy <= remaining
      /\ to_copy <= OutBufSize - Len(call.out)
  BY <1>1, <1>4, StreamAssumption DEF to_copy, TypeOK
<1>6. /\ Copied \in Seq(Nat) /\ Len(Copied) = to_copy
      /\ \A k \in 1..to_copy : Copied[k] = head.data + start + k - 1
  <2>1. \A k \in 1..to_copy : head.data + start + k - 1 \in Nat
    BY <1>2, <1>3, <1>5 DEF Segment
  <2> QED
    BY <2>1, <1>5 DEF Copied
<1>7. Advanced \in 0..OffsetMod-1
  BY <1>1, <1>5, StreamAssumption DEF Advanced, Stream
<1> QED
  BY <1>1, <1>2, <1>3, <1>4, <1>5, <1>6, <1>7

\* The stream found or created is a slot, and opening it keeps its type.
LEMMA LookupProps ==
    ASSUME TypeOK, NEW id \in StreamIds, NEW s \in FoundOrCreated(id)
    PROVE  /\ s \in Slots
           /\ Opened(s, id) \in Stream
           /\ Opened(s, id).in_use
           /\ DeliveredTo(s) \in Seq(Nat)
<1>1. s \in Matches(id) \/ s \in Unused
  BY DEF FoundOrCreated, Lowest
<1>2. s \in Slots
  BY <1>1 DEF Matches, Unused
<1>3. Opened(s, id) \in Stream /\ Opened(s, id).in_use
  BY <1>1, <1>2, StreamAssumption DEF Opened, TypeOK, Stream, Matches, Unused
<1>4. DeliveredTo(s) \in Seq(Nat)
  BY <1>2 DEF DeliveredTo, TypeOK
<1> QED
  BY <1>2, <1>3, <1>4

\* What OnData does once the slot s and the insertion point k are known.
Inserted(id, s, k, seg) ==
    /\ IsInsertPoint(Opened(s, id).segments, k, seg.offset)
    /\ streams' = [streams EXCEPT ![s] =
          [Opened(s, id) EXCEPT !.segments =
              InsertAtPoint(Opened(s, id).segments, k, seg)]]
    /\ call' = [pc |-> "loop", slot |-> s,
                out_offset |-> Opened(s, id).next_offset, out |-> <<>>]
    /\ delivered' = [delivered EXCEPT ![s] = DeliveredTo(s)]

\* Every step keeps the types; the segment list stays a list of segments and the
\* caller's buffer is never overrun.
LEMMA TypeStep == TypeOK /\ [Next]_vars => TypeOK'
<1> SUFFICES ASSUME TypeOK, [Next]_vars PROVE TypeOK'
  OBVIOUS
<1> USE StreamAssumption
<1>1. ASSUME NEW id \in StreamIds, NEW pos \in 0..StreamLen-1,
             NEW len \in 1..MaxPayload, OnData(id, pos, len)
      PROVE  TypeOK'
  <2> DEFINE seg == [offset |-> pos % OffsetMod, length |-> len, data |-> pos]
  <2>0. PICK s \in FoundOrCreated(id) :
          \E k \in 1..(Len(Opened(s, id).segments) + 1) : Inserted(id, s, k, seg)
    BY <1>1 DEF OnData, Inserted
  <2>1. PICK k \in 1..(Len(Opened(s, id).segments) + 1) : Inserted(id, s, k, seg)
    BY <2>0
  <2>2. /\ s \in Slots /\ Opened(s, id) \in Stream
        /\ DeliveredTo(s) \in Seq(Nat)
    BY LookupProps
  <2>3. seg \in Segment
    <3>1. pos + len <= StreamLen
      BY <1>1 DEF OnData
    <3>2. pos \in Nat /\ len \in 1..StreamLen
      BY <3>1
    <3>3. pos % OffsetMod \in 0..OffsetMod-1
      BY <3>2, OffsetRange
    <3> QED
      BY <3>2, <3>3 DEF Segment
  <2>4. InsertAtPoint(Opened(s, id).segments, k, seg) \in Seq(Segment)
    BY <2>2, <2>3, InsertAtPointProps DEF Stream
  <2>5. streams' \in [Slots -> Stream]
    BY <2>1, <2>2, <2>4 DEF Inserted, TypeOK, Stream
  <2>6. call' \in Call /\ Len(call'.out) <= OutBufSize
    BY <2>1, <2>2 DEF Inserted, Call, Stream
  <2>7. delivered' \in [Slots -> Seq(Nat)]
    BY <2>1, <2>2 DEF Inserted, TypeOK
  <2> QED
    BY <2>5, <2>6, <2>7 DEF TypeOK
<1>2. ASSUME NEW id \in StreamIds, OnDataNoMemory(id)
      PROVE  TypeOK'
  BY <1>2, LookupProps DEF OnDataNoMemory, TypeOK
<1>3. ASSUME NEW id \in StreamIds, OnDataNoSlot(id)
      PROVE  TypeOK'
  BY <1>3 DEF OnDataNoSlot, TypeOK, vars
<1>4. CASE ConsumeStale
  <2>1. cur \in Stream /\ call.slot \in Slots /\ cur.segments # <<>>
    BY <1>4 DEF ConsumeStale, LoopCondition, TypeOK, cur, Call
  <2>2. Tail(cur.segments) \in Seq(Segment)
    BY <2>1, TailProps DEF Stream
  <2> QED
    BY <1>4, <2>1, <2>2 DEF ConsumeStale, TypeOK, Stream, cur
<1>5. CASE ConsumeWhole
  <2>1. cur \in Stream /\ call.slot \in Slots /\ cur.segments # <<>>
    BY <1>5 DEF ConsumeWhole, LoopCondition, TypeOK, cur, Call
  <2>2. Tail(cur.segments) \in Seq(Segment)
    BY <2>1, TailProps DEF Stream
  <2>3. /\ Advanced \in 0..OffsetMod-1
        /\ call.out \o Copied \in Seq(Nat)
        /\ Len(call.out \o Copied) <= OutBufSize
    BY <1>5, IterationProps, AppendProps, SMTT(30) DEF ConsumeWhole, TypeOK, Call
  <2>4. streams' \in [Slots -> Stream]
    BY <1>5, <2>1, <2>2, <2>3 DEF ConsumeWhole, TypeOK, Stream, cur
  <2>5. call' \in Call /\ Len(call'.out) <= OutBufSize
    BY <1>5, <2>3 DEF ConsumeWhole, TypeOK, Call
  <2> QED
    BY <1>5, <2>4, <2>5 DEF ConsumeWhole, TypeOK
<1>6. CASE ConsumePart
  <2>1. cur \in Stream /\ call.slot \in Slots /\ cur.segments # <<>>
    BY <1>6 DEF ConsumePart, LoopCondition, TypeOK, cur, Call
  <2>2. /\ Advanced \in 0..OffsetMod-1
        /\ call.out \o Copied \in Seq(Nat)
        /\ Len(call.out \o Copied) <= OutBufSize
        /\ head \in Segment /\ start \in Nat /\ to_copy \in Nat
    BY <1>6, IterationProps, AppendProps, SMTT(30) DEF ConsumePart, TypeOK, Call
  <2>3. Trimmed(head, start + to_copy) \in Segment
    <3> DEFINE c == start + to_copy
    <3>1. /\ c \in Nat /\ c < head.length
          /\ head.offset \in Nat /\ head.length \in 1..StreamLen /\ head.data \in Nat
      BY <1>6, <2>2, SMTT(30) DEF ConsumePart, Segment
    <3>2. (head.offset + c) % OffsetMod \in 0..OffsetMod-1
      BY <3>1, OffsetRange
    <3> HIDE DEF c
    <3>3. head.length - c \in 1..StreamLen /\ head.data + c \in Nat
      BY <3>1
    <3>4. Trimmed(head, c) \in Segment
      BY <3>2, <3>3 DEF Trimmed, Segment
    <3> QED
      BY <3>4 DEF c
  <2>4. [cur.segments EXCEPT ![1] = Trimmed(head, start + to_copy)] \in Seq(Segment)
    BY <2>1, <2>3, ExceptSeq, TailProps DEF Stream
  <2>5. streams' \in [Slots -> Stream]
    <3>1. streams'[call.slot] =
            [cur EXCEPT !.segments = [cur.segments EXCEPT
                                        ![1] = Trimmed(head, start + to_copy)],
                        !.next_offset = Advanced]
      BY <1>6, <2>1 DEF ConsumePart, TypeOK, cur, head
    <3>2. streams'[call.slot] \in Stream
      BY <3>1, <2>1, <2>2, <2>4 DEF Stream
    <3> QED
      BY <1>6, <2>1, <3>2 DEF ConsumePart, TypeOK
  <2>6. call' \in Call /\ Len(call'.out) <= OutBufSize
    BY <1>6, <2>2 DEF ConsumePart, TypeOK, Call
  <2> QED
    BY <1>6, <2>5, <2>6 DEF ConsumePart, TypeOK
<1>7. CASE Return
  <2>1. call.slot \in Slots /\ delivered[call.slot] \o call.out \in Seq(Nat)
    BY AppendProps DEF TypeOK, Call
  <2>2. NoCall \in Call /\ Len(NoCall.out) = 0
    BY DEF NoCall, Call, Slots
  <2> QED
    BY <1>7, <2>1, <2>2 DEF Return, TypeOK
<1>8. ASSUME NEW id \in StreamIds, Reset(id)
      PROVE  TypeOK'
  <2>1. PICK s \in Slots :
          /\ streams' = [streams EXCEPT ![s].segments = <<>>, ![s].next_offset = 0]
          /\ delivered' = [delivered EXCEPT ![s] = <<>>]
    BY <1>8 DEF Reset, Lowest, Matches
  <2>2. <<>> \in Seq(Segment) /\ <<>> \in Seq(Nat)
    BY EmptyProps
  <2>3. streams' \in [Slots -> Stream]
    <3>1. streams'[s] = [streams[s] EXCEPT !.segments = <<>>, !.next_offset = 0]
      BY <2>1 DEF TypeOK
    <3>2. streams'[s] \in Stream
      <4>1. streams[s] \in Stream /\ 0 \in 0..OffsetMod-1
        BY DEF TypeOK
      <4> QED
        BY <3>1, <4>1, <2>2 DEF Stream
    <3> QED
      BY <2>1, <3>2 DEF TypeOK
  <2> QED
    BY <1>8, <2>1, <2>2, <2>3 DEF Reset, TypeOK
<1>9. CASE Destroy
  <2>1. <<>> \in Seq(Segment)
    BY EmptyProps
  <2>2. ASSUME NEW s \in Slots PROVE streams'[s] \in Stream
    BY <1>9, <2>1 DEF Destroy, TypeOK, Stream
  <2> QED
    BY <1>9, <2>2 DEF Destroy, TypeOK
<1>10. CASE UNCHANGED vars
  BY <1>10 DEF vars, TypeOK
<1> QED
  BY <1>1, <1>2, <1>3, <1>4, <1>5, <1>6, <1>7, <1>8, <1>9, <1>10 DEF Next

\* Types at the start.
LEMMA TypeInit == Init => TypeOK
<1> SUFFICES ASSUME Init PROVE TypeOK
  OBVIOUS
<1> USE StreamAssumption
<1>1. /\ <<>> \in Seq(Segment) /\ <<>> \in Seq(Nat) /\ Len(<<>>) = 0
  BY EmptyProps
<1>2. FreshStream \in Stream
  BY <1>1 DEF FreshStream, Stream, AnyId
<1>3. NoCall \in Call /\ Len(NoCall.out) = 0
  BY <1>1 DEF NoCall, Call, Slots
<1> QED
  BY <1>1, <1>2, <1>3 DEF Init, TypeOK

\* The stream table, the segments and the caller's buffer keep their types in
\* every execution, wrapping offsets included.
THEOREM TypeCorrect == Spec => []TypeOK
<1> QED
  BY TypeInit, TypeStep, PTL DEF Spec

-----------------------------------------------------------------------------
(* In-order delivery.                                                      *)

\* Appending is associative.
LEMMA AppendAssociative ==
    ASSUME NEW q \in Seq(Nat), NEW o \in Seq(Nat), NEW c \in Seq(Nat)
    PROVE  q \o (o \o c) = (q \o o) \o c
  BY ConcatAssociative, SMTT(30)

\* Appending the bytes n, n+1, ... to the buffer of a call extends a delivered
\* prefix 0 .. n-1 of the stream to a longer prefix.
LEMMA ExtendPrefix ==
    ASSUME NEW q \in Seq(Nat), NEW o \in Seq(Nat), NEW c \in Seq(Nat),
           \A i \in 1..Len(q \o o) : (q \o o)[i] = i - 1,
           \A k \in 1..Len(c) : c[k] = Len(q \o o) + k - 1
    PROVE  /\ Len(q \o (o \o c)) = Len(q \o o) + Len(c)
           /\ \A i \in 1..Len(q \o (o \o c)) : (q \o (o \o c))[i] = i - 1
<1>1. /\ q \o o \in Seq(Nat) /\ o \o c \in Seq(Nat)
      /\ (q \o o) \o c \in Seq(Nat)
      /\ Len((q \o o) \o c) = Len(q \o o) + Len(c)
      /\ \A i \in 1..(Len(q \o o) + Len(c)) :
           ((q \o o) \o c)[i] = IF i <= Len(q \o o) THEN (q \o o)[i]
                                ELSE c[i - Len(q \o o)]
  BY AppendProps
<1>2. q \o (o \o c) = (q \o o) \o c
  BY AppendAssociative
<1>3. Len(q \o o) \in Nat /\ Len(c) \in Nat
  BY <1>1
<1> QED
  BY <1>1, <1>2, <1>3

\* One iteration on a genuine segment copies exactly the next bytes.
LEMMA IterationExact ==
    ASSUME StreamInv, StreamLen < OffsetMod, call.pc # "idle",
           LoopCondition(cur), start < head.length
    PROVE  /\ Advanced = cur.next_offset + to_copy
           /\ cur.next_offset + to_copy <= StreamLen
           /\ \A k \in 1..to_copy : Copied[k] = cur.next_offset + k - 1
           /\ head.data = head.offset
           /\ head.offset + head.length <= StreamLen
<1>1. TypeOK /\ call.slot \in Slots
  BY DEF StreamInv, TypeOK, Call
<1>2. Len(cur.segments) \in Nat \ {0}
  BY <1>1, TailProps DEF LoopCondition, TypeOK, Stream, cur
<1>3. head.data = head.offset /\ head.offset + head.length <= StreamLen
  BY <1>1, <1>2 DEF StreamInv, SegmentsGenuine, head, cur
<1>4. /\ head.offset \in Nat /\ head.length \in Nat /\ start \in Nat
      /\ cur.next_offset \in Nat
      /\ start = cur.next_offset - head.offset
      /\ to_copy \in Nat /\ to_copy <= head.length - start
      /\ \A k \in 1..to_copy : Copied[k] = head.data + start + k - 1
  BY <1>1, IterationProps DEF Segment, Stream
<1>5. cur.next_offset + to_copy <= StreamLen
  BY <1>3, <1>4, StreamAssumption
<1>6. Advanced = cur.next_offset + to_copy
  <2>1. cur.next_offset + to_copy \in Nat /\ cur.next_offset + to_copy < OffsetMod
    BY <1>4, <1>5, StreamAssumption
  <2> QED
    BY <2>1, OffsetFits DEF Advanced
<1> QED
  BY <1>3, <1>4, <1>5, <1>6

\* The invariant holds of a manager that was just initialised.
LEMMA InvInit == Init => StreamInv
<1> SUFFICES ASSUME Init PROVE StreamInv
  OBVIOUS
<1>1. TypeOK
  BY TypeInit
<1>2. \A s \in Slots : streams[s] = FreshStream
  BY DEF Init
<1>3. SegmentsGenuine
  BY <1>2, EmptyProps DEF SegmentsGenuine, FreshStream
<1>4. DeliveredInOrder
  BY <1>2 DEF DeliveredInOrder, FreshStream
<1>5. CallOnOpenStream /\ ReportedOffsetIsFirstByte
  BY DEF Init, NoCall, CallOnOpenStream, ReportedOffsetIsFirstByte
<1> QED
  BY <1>1, <1>3, <1>4, <1>5 DEF StreamInv

\* OnData stores a genuine segment and starts the call where delivery stands.
LEMMA InvOnData ==
    ASSUME StreamInv, StreamLen < OffsetMod, TypeOK',
           NEW id \in StreamIds, NEW pos \in 0..StreamLen-1,
           NEW len \in 1..MaxPayload, OnData(id, pos, len)
    PROVE  StreamInv'
<1> USE StreamAssumption
<1> DEFINE seg == [offset |-> pos % OffsetMod, length |-> len, data |-> pos]
<1>0. TypeOK /\ call.pc = "idle" /\ pos + len <= StreamLen
  BY DEF OnData, StreamInv
<1>1. PICK s \in FoundOrCreated(id) :
        \E k \in 1..(Len(Opened(s, id).segments) + 1) : Inserted(id, s, k, seg)
  BY DEF OnData, Inserted
<1>2. PICK k \in 1..(Len(Opened(s, id).segments) + 1) : Inserted(id, s, k, seg)
  BY <1>1
<1>3. /\ s \in Slots /\ Opened(s, id) \in Stream /\ Opened(s, id).in_use
      /\ DeliveredTo(s) \in Seq(Nat)
  BY <1>0, LookupProps
<1>4. seg.offset = pos /\ seg.length = len /\ seg.data = pos
  BY OffsetFits
<1>5. seg \in Segment
  BY <1>0, <1>4 DEF Segment
<1> DEFINE old == Opened(s, id).segments
           r   == InsertAtPoint(old, k, seg)
<1>6. old \in Seq(Segment) /\ k \in 1..(Len(old) + 1) /\ Len(old) \in Nat
  BY <1>3 DEF Stream
<1>7. /\ streams'[s].segments = r /\ streams'[s].in_use
      /\ streams'[s].next_offset = Opened(s, id).next_offset
      /\ \A t \in Slots \ {s} : streams'[t] = streams[t]
      /\ delivered'[s] = DeliveredTo(s)
      /\ \A t \in Slots \ {s} : delivered'[t] = delivered[t]
      /\ call' = [pc |-> "loop", slot |-> s,
                  out_offset |-> Opened(s, id).next_offset, out |-> <<>>]
  BY <1>0, <1>2, <1>3 DEF Inserted, TypeOK, Stream
<1>8. \A i \in 1..Len(old) :
        old[i].data = old[i].offset /\ old[i].offset + old[i].length <= StreamLen
  BY <1>3, EmptyProps DEF Opened, StreamInv, SegmentsGenuine
<1> HIDE DEF old, seg
<1>9. SegmentsGenuine'
  <2>1. /\ Len(r) = Len(old) + 1
        /\ \A i \in 1..Len(r) :
             r[i] = IF i < k THEN old[i] ELSE IF i = k THEN seg ELSE old[i - 1]
    BY <1>5, <1>6, InsertAtPointProps
  <2> HIDE DEF r
  <2>2. ASSUME NEW i \in 1..Len(r)
        PROVE  r[i].data = r[i].offset /\ r[i].offset + r[i].length <= StreamLen
    <3>1. CASE i < k
      <4>1. i \in 1..Len(old) /\ r[i] = old[i]
        BY <3>1, <2>1, <1>6
      <4> QED
        BY <4>1, <1>8
    <3>2. CASE i = k
      BY <3>2, <1>0, <1>4, <2>1
    <3>3. CASE i > k
      <4>1. (i - 1) \in 1..Len(old) /\ r[i] = old[i - 1]
        BY <3>3, <2>1, <1>6
      <4> QED
        BY <4>1, <1>8
    <3> QED
      BY <1>6, <3>1, <3>2, <3>3
  <2>3. ASSUME NEW t \in Slots, NEW i \in 1..Len(streams'[t].segments)
        PROVE  /\ streams'[t].segments[i].data = streams'[t].segments[i].offset
               /\ streams'[t].segments[i].offset + streams'[t].segments[i].length
                    <= StreamLen
    <3>1. CASE t = s
      BY <3>1, <2>2, <1>7
    <3>2. CASE t # s
      BY <3>2, <1>7 DEF StreamInv, SegmentsGenuine
    <3> QED
      BY <3>1, <3>2
  <2> QED
    BY <2>3 DEF SegmentsGenuine
<1>10. /\ \A i \in 1..Len(DeliveredTo(s)) : DeliveredTo(s)[i] = i - 1
       /\ Opened(s, id).next_offset = Len(DeliveredTo(s))
  BY <1>0, <1>3, EmptyProps DEF DeliveredTo, Opened, StreamInv, DeliveredInOrder, Handed
<1>11. DeliveredTo(s) \o <<>> = DeliveredTo(s)
  BY <1>3, ConcatEmptySeq
<1>12. DeliveredInOrder'
  <2>1. Handed(s)' = DeliveredTo(s)
    BY <1>7, <1>11 DEF Handed
  <2>2. \A t \in Slots \ {s} : Handed(t)' = Handed(t)
    BY <1>0, <1>7 DEF Handed
  <2>3. ASSUME NEW t \in Slots, streams'[t].in_use
        PROVE  /\ \A i \in 1..Len(Handed(t)') : Handed(t)'[i] = i - 1
               /\ streams'[t].next_offset = Len(Handed(t)')
    BY <2>1, <2>2, <2>3, <1>7, <1>10 DEF StreamInv, DeliveredInOrder
  <2> QED
    BY <2>3 DEF DeliveredInOrder
<1>13. CallOnOpenStream' /\ ReportedOffsetIsFirstByte'
  BY <1>7, <1>10 DEF CallOnOpenStream, ReportedOffsetIsFirstByte
<1> QED
  BY <1>9, <1>12, <1>13 DEF StreamInv

\* An iteration that copies: the prefix grows by the bytes copied, and what
\* remains of the list is still genuine.
LEMMA InvConsume ==
    ASSUME StreamInv, StreamLen < OffsetMod, TypeOK', ConsumeWhole \/ ConsumePart
    PROVE  StreamInv'
<1> USE StreamAssumption
<1>0. /\ TypeOK /\ call.slot \in Slots /\ call.pc = "loop" /\ cur \in Stream
      /\ LoopCondition(cur) /\ start < head.length
      /\ call.out \in Seq(Nat) /\ delivered[call.slot] \in Seq(Nat)
  BY DEF StreamInv, TypeOK, Call, ConsumeWhole, ConsumePart, cur
<1>1. /\ Copied \in Seq(Nat) /\ Len(Copied) = to_copy /\ to_copy \in Nat
      /\ start \in Nat /\ head \in Segment
  BY <1>0, IterationProps
<1>2. /\ Advanced = cur.next_offset + to_copy
      /\ \A k \in 1..to_copy : Copied[k] = cur.next_offset + k - 1
      /\ head.data = head.offset
      /\ head.offset + head.length <= StreamLen
  BY <1>0, IterationExact
<1>3. /\ call'.pc # "idle" /\ call'.slot = call.slot
      /\ call'.out = call.out \o Copied
      /\ call'.out_offset = call.out_offset
      /\ delivered' = delivered
      /\ streams'[call.slot].next_offset = Advanced
      /\ streams'[call.slot].in_use = streams[call.slot].in_use
      /\ \A t \in Slots \ {call.slot} : streams'[t] = streams[t]
  <2>1. CASE ConsumeWhole
    BY <1>0, <2>1 DEF ConsumeWhole, TypeOK, Stream, Call
  <2>2. CASE ConsumePart
    BY <1>0, <2>2 DEF ConsumePart, TypeOK, Stream, Call
  <2> QED
    BY <2>1, <2>2
<1>4. DeliveredInOrder'
  <2>1. Handed(call.slot) = delivered[call.slot] \o call.out
    BY <1>0 DEF Handed
  <2>2. /\ streams[call.slot].in_use
        /\ \A i \in 1..Len(delivered[call.slot] \o call.out) :
             (delivered[call.slot] \o call.out)[i] = i - 1
        /\ cur.next_offset = Len(delivered[call.slot] \o call.out)
    BY <1>0, <2>1 DEF StreamInv, CallOnOpenStream, DeliveredInOrder, cur
  <2>3. /\ Len(delivered[call.slot] \o (call.out \o Copied)) = Advanced
        /\ \A i \in 1..Len(delivered[call.slot] \o (call.out \o Copied)) :
             (delivered[call.slot] \o (call.out \o Copied))[i] = i - 1
    <3> DEFINE q == delivered[call.slot]
               o == call.out
    <3>1. \A k \in 1..Len(Copied) : Copied[k] = Len(q \o o) + k - 1
      BY <1>1, <1>2, <2>2
    <3>2. q \in Seq(Nat) /\ o \in Seq(Nat)
      BY <1>0
    <3>3. \A i \in 1..Len(q \o o) : (q \o o)[i] = i - 1
      BY <2>2
    <3> HIDE DEF q, o
    <3>4. /\ Len(q \o (o \o Copied)) = Len(q \o o) + Len(Copied)
          /\ \A i \in 1..Len(q \o (o \o Copied)) : (q \o (o \o Copied))[i] = i - 1
      BY <3>1, <3>2, <3>3, <1>1, ExtendPrefix
    <3> QED
      BY <3>4, <1>1, <1>2, <2>2 DEF q, o
  <2>4. Handed(call.slot)' = delivered[call.slot] \o (call.out \o Copied)
    BY <1>3 DEF Handed
  <2>5. \A t \in Slots \ {call.slot} : Handed(t)' = Handed(t)
    BY <1>0, <1>3 DEF Handed
  <2>6. ASSUME NEW t \in Slots, streams'[t].in_use
        PROVE  /\ \A i \in 1..Len(Handed(t)') : Handed(t)'[i] = i - 1
               /\ streams'[t].next_offset = Len(Handed(t)')
    BY <2>3, <2>4, <2>5, <2>6, <1>3, ZenonT(60) DEF StreamInv, DeliveredInOrder
  <2> QED
    BY <2>6 DEF DeliveredInOrder
<1>5. SegmentsGenuine'
  <2>1. ASSUME NEW i \in 1..Len(streams'[call.slot].segments)
        PROVE  LET g == streams'[call.slot].segments[i]
               IN g.data = g.offset /\ g.offset + g.length <= StreamLen
    <3>0. /\ cur.segments \in Seq(Segment) /\ cur.segments # <<>>
          /\ \A j \in 1..Len(cur.segments) :
               /\ cur.segments[j].data = cur.segments[j].offset
               /\ cur.segments[j].offset + cur.segments[j].length <= StreamLen
      BY <1>0 DEF Stream, LoopCondition, StreamInv, SegmentsGenuine, cur
    <3>1. CASE ConsumeWhole
      <4>1. streams'[call.slot].segments = Tail(cur.segments)
        BY <1>0, <3>1 DEF ConsumeWhole, TypeOK, Stream, cur
      <4> QED
        BY <3>0, <4>1, TailProps
    <3>2. CASE ConsumePart
      <4> DEFINE c == start + to_copy
      <4>1. streams'[call.slot].segments
              = [cur.segments EXCEPT ![1] = Trimmed(head, c)]
        BY <1>0, <3>2 DEF ConsumePart, TypeOK, Stream, cur
      <4>2. c \in Nat /\ c < head.length /\ head.offset \in Nat /\ head.length \in Nat
        <5>1. start + to_copy < head.length
          BY <3>2 DEF ConsumePart
        <5>2. head.offset \in Nat /\ head.length \in Nat
          BY <1>1 DEF Segment
        <5> QED
          BY <1>1, <5>1, <5>2
      <4>3. (head.offset + c) % OffsetMod = head.offset + c
        <5>1. head.offset + c \in Nat /\ head.offset + c < OffsetMod
          BY <4>2, <1>2
        <5> QED
          BY <5>1, OffsetFits
      <4> HIDE DEF c
      <4>4. /\ Trimmed(head, c).data = Trimmed(head, c).offset
            /\ Trimmed(head, c).offset + Trimmed(head, c).length <= StreamLen
        <5>1. /\ Trimmed(head, c).offset = head.offset + c
              /\ Trimmed(head, c).length = head.length - c
              /\ Trimmed(head, c).data = head.data + c
          BY <4>3 DEF Trimmed
        <5> QED
          BY <5>1, <4>2, <1>2
      <4>5. Len([cur.segments EXCEPT ![1] = Trimmed(head, c)]) = Len(cur.segments)
        BY <3>0
      <4>6. [cur.segments EXCEPT ![1] = Trimmed(head, c)][i]
              = IF i = 1 THEN Trimmed(head, c) ELSE cur.segments[i]
        BY <3>0, <4>1, <4>5
      <4> QED
        BY <3>0, <4>1, <4>4, <4>5, <4>6
    <3> QED
      BY <3>1, <3>2
  <2> QED
    BY <2>1, <1>3, SMTT(30) DEF StreamInv, SegmentsGenuine
<1>6. CallOnOpenStream' /\ ReportedOffsetIsFirstByte'
  BY <1>0, <1>3 DEF StreamInv, CallOnOpenStream, ReportedOffsetIsFirstByte
<1> QED
  BY <1>4, <1>5, <1>6 DEF StreamInv

\* Steps that hand nothing new to the caller.
LEMMA InvOther ==
    ASSUME StreamInv, TypeOK',
           \/ \E id \in StreamIds : OnDataNoMemory(id) \/ OnDataNoSlot(id) \/ Reset(id)
           \/ ConsumeStale \/ Return \/ Destroy \/ UNCHANGED vars
    PROVE  StreamInv'
<1> USE StreamAssumption
<1>0. TypeOK /\ call.slot \in Slots
  BY DEF StreamInv, TypeOK, Call
<1>1. ASSUME NEW id \in StreamIds, OnDataNoMemory(id)
      PROVE  StreamInv'
  <2>1. PICK s \in FoundOrCreated(id) :
          /\ streams' = [streams EXCEPT ![s] = Opened(s, id)]
          /\ delivered' = [delivered EXCEPT ![s] = DeliveredTo(s)]
    BY <1>1 DEF OnDataNoMemory
  <2>2. s \in Slots /\ call.pc = "idle" /\ call' = call
    BY <1>0, <1>1, LookupProps DEF OnDataNoMemory
  <2>3. \/ streams' = streams /\ delivered' = delivered
        \/ /\ streams'[s].segments = <<>> /\ streams'[s].next_offset = 0
           /\ delivered'[s] = <<>>
           /\ \A t \in Slots \ {s} : streams'[t] = streams[t]
                                     /\ delivered'[t] = delivered[t]
    <3>1. CASE streams[s].in_use
      BY <1>0, <2>1, <2>2, <3>1 DEF Opened, DeliveredTo, TypeOK
    <3>2. CASE ~streams[s].in_use
      BY <1>0, <2>1, <2>2, <3>2 DEF Opened, DeliveredTo, TypeOK
    <3> QED
      BY <3>1, <3>2
  <2>4. SegmentsGenuine'
    BY <2>2, <2>3, EmptyProps DEF StreamInv, SegmentsGenuine
  <2>5. DeliveredInOrder'
    <3>1. /\ \A t \in Slots : Handed(t)' = delivered'[t]
          /\ \A t \in Slots : Handed(t) = delivered[t]
      BY <2>2 DEF Handed
    <3>2. ASSUME NEW t \in Slots, streams'[t].in_use
          PROVE  /\ \A i \in 1..Len(delivered'[t]) : delivered'[t][i] = i - 1
                 /\ streams'[t].next_offset = Len(delivered'[t])
      <4>1. CASE streams'[t] = streams[t] /\ delivered'[t] = delivered[t]
        BY <3>1, <3>2, <4>1 DEF StreamInv, DeliveredInOrder
      <4>2. CASE streams'[t].next_offset = 0 /\ delivered'[t] = <<>>
        BY <4>2, EmptyProps
      <4> QED
        BY <2>3, <4>1, <4>2
    <3> QED
      BY <3>1, <3>2 DEF DeliveredInOrder
  <2>6. CallOnOpenStream' /\ ReportedOffsetIsFirstByte'
    BY <2>2 DEF CallOnOpenStream, ReportedOffsetIsFirstByte
  <2> QED
    BY <2>4, <2>5, <2>6 DEF StreamInv
<1>2. ASSUME NEW id \in StreamIds, Reset(id)
      PROVE  StreamInv'
  <2>1. PICK s \in Slots :
          /\ streams' = [streams EXCEPT ![s].segments = <<>>, ![s].next_offset = 0]
          /\ delivered' = [delivered EXCEPT ![s] = <<>>]
    BY <1>2 DEF Reset, Lowest, Matches
  <2>2. call.pc = "idle" /\ call' = call
    BY <1>2 DEF Reset
  <2>3. /\ streams'[s].segments = <<>> /\ streams'[s].next_offset = 0
        /\ delivered'[s] = <<>>
        /\ \A t \in Slots \ {s} : streams'[t] = streams[t]
                                  /\ delivered'[t] = delivered[t]
    BY <1>0, <2>1 DEF TypeOK, Stream
  <2>4. SegmentsGenuine'
    BY <2>3, EmptyProps DEF StreamInv, SegmentsGenuine
  <2>5. DeliveredInOrder'
    <3>1. /\ \A t \in Slots : Handed(t)' = delivered'[t]
          /\ \A t \in Slots : Handed(t) = delivered[t]
      BY <2>2 DEF Handed
    <3>2. ASSUME NEW t \in Slots, streams'[t].in_use
          PROVE  /\ \A i \in 1..Len(delivered'[t]) : delivered'[t][i] = i - 1
                 /\ streams'[t].next_offset = Len(delivered'[t])
      <4>1. CASE streams'[t] = streams[t] /\ delivered'[t] = delivered[t]
        BY <3>1, <3>2, <4>1 DEF StreamInv, DeliveredInOrder
      <4>2. CASE streams'[t].next_offset = 0 /\ delivered'[t] = <<>>
        BY <4>2, EmptyProps
      <4> QED
        BY <2>3, <4>1, <4>2
    <3> QED
      BY <3>1, <3>2 DEF DeliveredInOrder
  <2>6. CallOnOpenStream' /\ ReportedOffsetIsFirstByte'
    BY <2>2 DEF CallOnOpenStream, ReportedOffsetIsFirstByte
  <2> QED
    BY <2>4, <2>5, <2>6 DEF StreamInv
<1>3. CASE ConsumeStale
  <2>1. /\ cur.segments \in Seq(Segment) /\ cur.segments # <<>>
        /\ call' = call /\ delivered' = delivered
    BY <1>0, <1>3 DEF ConsumeStale, LoopCondition, TypeOK, Stream, cur
  <2>2. /\ streams'[call.slot].segments = Tail(cur.segments)
        /\ \A t \in Slots : /\ streams'[t].in_use = streams[t].in_use
                            /\ streams'[t].next_offset = streams[t].next_offset
        /\ \A t \in Slots \ {call.slot} : streams'[t] = streams[t]
    BY <1>0, <1>3 DEF ConsumeStale, TypeOK, Stream, cur
  <2>3. SegmentsGenuine'
    <3>1. \A j \in 1..Len(cur.segments) :
            /\ cur.segments[j].data = cur.segments[j].offset
            /\ cur.segments[j].offset + cur.segments[j].length <= StreamLen
      BY <1>0 DEF StreamInv, SegmentsGenuine, cur
    <3>2. \A j \in 1..Len(Tail(cur.segments)) :
            /\ Tail(cur.segments)[j].data = Tail(cur.segments)[j].offset
            /\ Tail(cur.segments)[j].offset + Tail(cur.segments)[j].length <= StreamLen
      BY <2>1, <3>1, TailProps
    <3>3. ASSUME NEW t \in Slots, NEW i \in 1..Len(streams'[t].segments)
          PROVE  /\ streams'[t].segments[i].data = streams'[t].segments[i].offset
                 /\ streams'[t].segments[i].offset + streams'[t].segments[i].length
                      <= StreamLen
      <4>1. CASE t = call.slot
        BY <4>1, <2>2, <3>2
      <4>2. CASE t # call.slot
        BY <4>2, <2>2 DEF StreamInv, SegmentsGenuine
      <4> QED
        BY <4>1, <4>2
    <3> QED
      BY <3>3 DEF SegmentsGenuine
  <2>4. DeliveredInOrder'
    <3>1. \A t \in Slots : Handed(t)' = Handed(t)
      BY <2>1 DEF Handed
    <3> QED
      BY <2>2, <3>1 DEF StreamInv, DeliveredInOrder
  <2>5. CallOnOpenStream' /\ ReportedOffsetIsFirstByte'
    BY <1>0, <2>1, <2>2 DEF StreamInv, CallOnOpenStream, ReportedOffsetIsFirstByte
  <2> QED
    BY <2>3, <2>4, <2>5 DEF StreamInv
<1>4. CASE Return
  <2>1. /\ streams' = streams /\ call'.pc = "idle" /\ call.pc # "idle"
        /\ delivered'[call.slot] = delivered[call.slot] \o call.out
        /\ \A t \in Slots \ {call.slot} : delivered'[t] = delivered[t]
    BY <1>0, <1>4 DEF Return, NoCall, TypeOK
  <2>2. \A t \in Slots : Handed(t)' = Handed(t)
    BY <1>0, <2>1 DEF Handed
  <2> QED
    BY <2>1, <2>2 DEF StreamInv, SegmentsGenuine, DeliveredInOrder, CallOnOpenStream,
                      ReportedOffsetIsFirstByte
<1>5. CASE Destroy
  <2>1. /\ call.pc = "idle" /\ call' = call
        /\ \A t \in Slots : ~streams'[t].in_use
                            /\ (streams'[t].segments = <<>> \/ streams'[t] = streams[t])
    BY <1>0, <1>5 DEF Destroy, TypeOK, Stream
  <2>2. SegmentsGenuine'
    BY <2>1, EmptyProps DEF StreamInv, SegmentsGenuine
  <2> QED
    BY <2>1, <2>2 DEF StreamInv, DeliveredInOrder, CallOnOpenStream,
                      ReportedOffsetIsFirstByte
<1>6. ASSUME UNCHANGED vars
      PROVE  StreamInv'
  <2>1. streams' = streams /\ call' = call /\ delivered' = delivered
    BY <1>6 DEF vars
  <2>2. SegmentsGenuine'
    BY <2>1 DEF StreamInv, SegmentsGenuine
  <2>3. DeliveredInOrder'
    <3>1. \A t \in Slots : Handed(t)' = Handed(t)
      BY <2>1 DEF Handed
    <3> QED
      BY <2>1, <3>1 DEF StreamInv, DeliveredInOrder
  <2>4. CallOnOpenStream' /\ ReportedOffsetIsFirstByte'
    BY <2>1 DEF StreamInv, CallOnOpenStream, ReportedOffsetIsFirstByte
  <2> QED
    BY <2>2, <2>3, <2>4 DEF StreamInv
<1>7. ASSUME NEW id \in StreamIds, OnDataNoSlot(id)
      PROVE  StreamInv'
  BY <1>6, <1>7 DEF OnDataNoSlot
<1> QED
  BY <1>1, <1>2, <1>3, <1>4, <1>5, <1>6, <1>7

\* Every step keeps the invariant.
LEMMA InvStep ==
    ASSUME StreamLen < OffsetMod
    PROVE  StreamInv /\ [Next]_vars => StreamInv'
<1> SUFFICES ASSUME StreamInv, [Next]_vars PROVE StreamInv'
  OBVIOUS
<1>1. TypeOK'
  BY TypeStep DEF StreamInv
<1>2. CASE \E id \in StreamIds, pos \in 0..StreamLen-1, len \in 1..MaxPayload :
             OnData(id, pos, len)
  BY <1>1, <1>2, InvOnData
<1>3. CASE ConsumeWhole \/ ConsumePart
  BY <1>1, <1>3, InvConsume
<1> QED
  BY <1>1, <1>2, <1>3, InvOther DEF Next

\* For streams shorter than 2^32 bytes, any number of stream slots and any buffer
\* size: what quic_stream_on_data hands out is, byte for byte, the prefix of the
\* stream that next_offset counts.
THEOREM InOrder ==
    ASSUME StreamLen < OffsetMod
    PROVE  Spec => []DeliveredInOrder
<1>1. StreamInv => DeliveredInOrder
  BY DEF StreamInv
<1> QED
  BY <1>1, InvInit, InvStep, PTL DEF Spec

\* Under the same condition the out_offset of a call is the position of its first
\* byte, whatever earlier calls left half consumed.
THEOREM OffsetReported ==
    ASSUME StreamLen < OffsetMod
    PROVE  Spec => []ReportedOffsetIsFirstByte
<1>1. StreamInv => ReportedOffsetIsFirstByte
  BY DEF StreamInv
<1> QED
  BY <1>1, InvInit, InvStep, PTL DEF Spec

-----------------------------------------------------------------------------
(* The table: one slot per stream.                                         *)

\* Opening the slot that was looked up repeats no identifier: a free slot is
\* taken only when no slot in use matches.
LEMMA OpenedDistinct ==
    ASSUME TypeOK, SlotsAreDistinct, NEW id \in StreamIds,
           NEW s \in FoundOrCreated(id),
           streams'[s].in_use, streams'[s].stream_id = Opened(s, id).stream_id,
           \A t \in Slots \ {s} : streams'[t] = streams[t]
    PROVE  SlotsAreDistinct'
<1>1. s \in Slots
  BY LookupProps
<1>2. CASE Matches(id) # {}
  <2>1. s \in Matches(id)
    BY <1>2 DEF FoundOrCreated, Lowest
  <2>2. streams[s].in_use /\ streams'[s].stream_id = streams[s].stream_id
    BY <2>1 DEF Matches, Opened
  <2> QED
    BY <1>1, <2>2 DEF SlotsAreDistinct
<1>3. CASE Matches(id) = {}
  <2>1. s \in Unused
    BY <1>3 DEF FoundOrCreated, Lowest
  <2>2. streams'[s].stream_id = id
    BY <2>1 DEF Unused, Opened
  <2>3. \A t \in Slots : streams[t].in_use => streams[t].stream_id # id
    BY <1>3 DEF Matches
  <2> QED
    BY <1>1, <2>2, <2>3 DEF SlotsAreDistinct
<1> QED
  BY <1>2, <1>3

\* A step that opens no slot and renames none keeps the identifiers distinct.
LEMMA UnopenedDistinct ==
    ASSUME SlotsAreDistinct,
           \A t \in Slots : /\ streams'[t].in_use => streams[t].in_use
                            /\ streams'[t].stream_id = streams[t].stream_id
    PROVE  SlotsAreDistinct'
  BY DEF SlotsAreDistinct

\* Every step keeps the identifiers of the slots in use distinct.
LEMMA DistinctStep == TypeOK /\ SlotsAreDistinct /\ [Next]_vars => SlotsAreDistinct'
<1> SUFFICES ASSUME TypeOK, SlotsAreDistinct, [Next]_vars PROVE SlotsAreDistinct'
  OBVIOUS
<1>0. call.slot \in Slots
  BY DEF TypeOK, Call
<1>1. ASSUME NEW id \in StreamIds, NEW pos \in 0..StreamLen-1,
             NEW len \in 1..MaxPayload, OnData(id, pos, len)
      PROVE  SlotsAreDistinct'
  <2> DEFINE seg == [offset |-> pos % OffsetMod, length |-> len, data |-> pos]
  <2>0. PICK s \in FoundOrCreated(id) :
          \E k \in 1..(Len(Opened(s, id).segments) + 1) : Inserted(id, s, k, seg)
    BY <1>1 DEF OnData, Inserted
  <2>1. PICK k \in 1..(Len(Opened(s, id).segments) + 1) : Inserted(id, s, k, seg)
    BY <2>0
  <2>2. s \in Slots /\ Opened(s, id) \in Stream /\ Opened(s, id).in_use
    BY LookupProps
  <2>3. /\ streams'[s].in_use /\ streams'[s].stream_id = Opened(s, id).stream_id
        /\ \A t \in Slots \ {s} : streams'[t] = streams[t]
    BY <2>1, <2>2 DEF Inserted, TypeOK, Stream
  <2> QED
    BY <2>3, OpenedDistinct
<1>2. ASSUME NEW id \in StreamIds, OnDataNoMemory(id)
      PROVE  SlotsAreDistinct'
  <2>1. PICK s \in FoundOrCreated(id) : streams' = [streams EXCEPT ![s] = Opened(s, id)]
    BY <1>2 DEF OnDataNoMemory
  <2>2. s \in Slots /\ Opened(s, id).in_use
    BY LookupProps
  <2>3. /\ streams'[s].in_use /\ streams'[s].stream_id = Opened(s, id).stream_id
        /\ \A t \in Slots \ {s} : streams'[t] = streams[t]
    BY <2>1, <2>2 DEF TypeOK
  <2> QED
    BY <2>3, OpenedDistinct
<1>3. CASE ConsumeStale \/ ConsumeWhole \/ ConsumePart
  <2>1. \A t \in Slots : /\ streams'[t].in_use = streams[t].in_use
                         /\ streams'[t].stream_id = streams[t].stream_id
    <3>1. CASE ConsumeStale
      BY <1>0, <3>1 DEF ConsumeStale, TypeOK, Stream
    <3>2. CASE ConsumeWhole
      BY <1>0, <3>2 DEF ConsumeWhole, TypeOK, Stream
    <3>3. CASE ConsumePart
      BY <1>0, <3>3 DEF ConsumePart, TypeOK, Stream
    <3> QED
      BY <1>3, <3>1, <3>2, <3>3
  <2> QED
    BY <2>1, UnopenedDistinct
<1>4. ASSUME NEW id \in StreamIds, Reset(id)
      PROVE  SlotsAreDistinct'
  <2>1. PICK s \in Slots :
          streams' = [streams EXCEPT ![s].segments = <<>>, ![s].next_offset = 0]
    BY <1>4 DEF Reset, Lowest, Matches
  <2>2. \A t \in Slots : /\ streams'[t].in_use = streams[t].in_use
                         /\ streams'[t].stream_id = streams[t].stream_id
    BY <2>1 DEF TypeOK, Stream
  <2> QED
    BY <2>2, UnopenedDistinct
<1>5. CASE Destroy
  <2>1. \A t \in Slots : ~streams'[t].in_use
    BY <1>5 DEF Destroy, TypeOK, Stream
  <2> QED
    BY <2>1 DEF SlotsAreDistinct
<1>6. CASE Return \/ UNCHANGED vars \/ \E id \in StreamIds : OnDataNoSlot(id)
  <2>1. streams' = streams
    BY <1>6 DEF Return, vars, OnDataNoSlot
  <2> QED
    BY <2>1, UnopenedDistinct
<1> QED
  BY <1>1, <1>2, <1>3, <1>4, <1>5, <1>6 DEF Next

\* Whatever streams were opened, failed half way, reset and closed, and whatever
\* the offsets do, find_or_create_stream never opens one identifier twice.
THEOREM OneSlotPerStream == Spec => []SlotsAreDistinct
<1>1. Init => SlotsAreDistinct
  BY DEF Init, SlotsAreDistinct, FreshStream
<1> QED
  BY <1>1, DistinctStep, TypeCorrect, PTL DEF Spec

-----------------------------------------------------------------------------
(* The order of the segment list, and what a call leaves behind.           *)

\* A list ordered as far as a consumer at offset next needs it.
OrderedFor(segs, next) ==
    \A i, j \in 1..Len(segs) :
        i < j => segs[i].offset <= next \/ segs[i].offset <= segs[j].offset

\* insert_segment keeps the order, although a partly consumed first segment may
\* lie before segments of a smaller offset.
LEMMA OrderInsert ==
    ASSUME NEW segs \in Seq(Segment), NEW seg \in Segment, NEW next \in Nat,
           NEW k \in 1..(Len(segs) + 1),
           OrderedFor(segs, next), IsInsertPoint(segs, k, seg.offset)
    PROVE  OrderedFor(InsertAtPoint(segs, k, seg), next)
<1> DEFINE r == InsertAtPoint(segs, k, seg)
<1>1. /\ Len(r) = Len(segs) + 1
      /\ \A i \in 1..Len(r) :
           r[i] = IF i < k THEN segs[i] ELSE IF i = k THEN seg ELSE segs[i - 1]
  BY InsertAtPointProps
<1>2. Len(segs) \in Nat /\ seg.offset \in Nat
  BY StreamAssumption DEF Segment
<1>3. \A i \in 1..Len(segs) : segs[i].offset \in Nat
  <2>1. \A i \in 1..Len(segs) : segs[i] \in Segment
    OBVIOUS
  <2> QED
    BY <2>1, SMTT(30) DEF Segment
<1> HIDE DEF r
<1>4. ASSUME NEW i \in 1..Len(r), NEW j \in 1..Len(r), i < j
      PROVE  r[i].offset <= next \/ r[i].offset <= r[j].offset
  <2>1. CASE j < k
    <3>1. i \in 1..Len(segs) /\ j \in 1..Len(segs) /\ r[i] = segs[i] /\ r[j] = segs[j]
      BY <1>1, <1>2, <1>4, <2>1
    <3> QED
      BY <1>4, <3>1 DEF OrderedFor
  <2>2. CASE j = k
    <3>1. i \in 1..(k - 1) /\ i \in 1..Len(segs) /\ r[i] = segs[i] /\ r[j] = seg
      BY <1>1, <1>2, <1>4, <2>2
    <3> QED
      BY <1>2, <1>3, <3>1, SMTT(30) DEF IsInsertPoint
  <2>3. CASE j > k /\ i < k
    <3>1. /\ i \in 1..Len(segs) /\ j - 1 \in 1..Len(segs)
          /\ r[i] = segs[i] /\ r[j] = segs[j - 1]
      BY <1>1, <1>2, <1>4, <2>3
    <3>2. CASE i < j - 1
      BY <3>1, <3>2 DEF OrderedFor
    <3>3. CASE i = j - 1
      BY <1>3, <3>1, <3>3
    <3> QED
      BY <1>4, <3>2, <3>3
  <2>4. CASE j > k /\ i = k
    <3>1. /\ k \in 1..Len(segs) /\ j - 1 \in 1..Len(segs) /\ k <= j - 1
          /\ r[i] = seg /\ r[j] = segs[j - 1]
      BY <1>1, <1>2, <1>4, <2>4
    <3>2. seg.offset <= segs[k].offset
      BY <1>2, <1>3, <3>1 DEF IsInsertPoint
    <3>3. segs[k].offset <= next \/ segs[k].offset <= segs[j - 1].offset
      BY <1>3, <3>1 DEF OrderedFor
    <3> QED
      BY <1>2, <1>3, <3>1, <3>2, <3>3, SMTT(30)
  <2>5. CASE j > k /\ i > k
    <3>1. /\ i - 1 \in 1..Len(segs) /\ j - 1 \in 1..Len(segs) /\ i - 1 < j - 1
          /\ r[i] = segs[i - 1] /\ r[j] = segs[j - 1]
      BY <1>1, <1>2, <1>4, <2>5
    <3> QED
      BY <3>1 DEF OrderedFor
  <2> QED
    BY <1>1, <1>2, <2>1, <2>2, <2>3, <2>4, <2>5
<1> QED
  BY <1>4 DEF OrderedFor, r

\* Freeing the first segment and moving next_offset forward keep the order.
LEMMA OrderTail ==
    ASSUME NEW segs \in Seq(Segment), segs # <<>>, NEW next \in Nat,
           NEW after \in Nat, next <= after, OrderedFor(segs, next)
    PROVE  OrderedFor(Tail(segs), after)
<1>1. /\ Len(Tail(segs)) = Len(segs) - 1 /\ Len(segs) \in Nat \ {0}
      /\ \A i \in 1..(Len(segs) - 1) : Tail(segs)[i] = segs[i + 1]
  BY TailProps
<1>2. \A i \in 1..Len(segs) : segs[i].offset \in Nat
  <2>1. \A i \in 1..Len(segs) : segs[i] \in Segment
    OBVIOUS
  <2> QED
    BY <2>1, StreamAssumption, SMTT(30) DEF Segment
<1>3. ASSUME NEW i \in 1..Len(Tail(segs)), NEW j \in 1..Len(Tail(segs)), i < j
      PROVE  Tail(segs)[i].offset <= after \/ Tail(segs)[i].offset <= Tail(segs)[j].offset
  <2>1. /\ i + 1 \in 1..Len(segs) /\ j + 1 \in 1..Len(segs) /\ i + 1 < j + 1
        /\ Tail(segs)[i] = segs[i + 1] /\ Tail(segs)[j] = segs[j + 1]
    BY <1>1, <1>3
  <2>2. segs[i + 1].offset <= next \/ segs[i + 1].offset <= segs[j + 1].offset
    BY <2>1 DEF OrderedFor
  <2> QED
    BY <1>2, <2>1, <2>2
<1> QED
  BY <1>3 DEF OrderedFor

\* Trimming the first segment to start at the new next_offset keeps the order.
LEMMA OrderTrim ==
    ASSUME NEW segs \in Seq(Segment), segs # <<>>, NEW next \in Nat,
           NEW after \in Nat, next <= after, OrderedFor(segs, next),
           NEW seg \in Segment, seg.offset <= after
    PROVE  OrderedFor([segs EXCEPT ![1] = seg], after)
<1> DEFINE r == [segs EXCEPT ![1] = seg]
<1>1. /\ Len(r) = Len(segs)
      /\ \A i \in 1..Len(segs) : r[i] = IF i = 1 THEN seg ELSE segs[i]
  OBVIOUS
<1>2. \A i \in 1..Len(segs) : segs[i].offset \in Nat
  <2>1. \A i \in 1..Len(segs) : segs[i] \in Segment
    OBVIOUS
  <2> QED
    BY <2>1, StreamAssumption, SMTT(30) DEF Segment
<1> HIDE DEF r
<1>3. ASSUME NEW i \in 1..Len(r), NEW j \in 1..Len(r), i < j
      PROVE  r[i].offset <= after \/ r[i].offset <= r[j].offset
  <2>1. CASE i = 1
    BY <1>1, <2>1
  <2>2. CASE i # 1
    <3>1. r[i] = segs[i] /\ r[j] = segs[j] /\ i \in 1..Len(segs) /\ j \in 1..Len(segs)
      BY <1>1, <1>3, <2>2
    <3>2. segs[i].offset <= next \/ segs[i].offset <= segs[j].offset
      BY <1>3, <3>1 DEF OrderedFor
    <3> QED
      BY <1>2, <3>1, <3>2
  <2> QED
    BY <2>1, <2>2
<1> QED
  BY <1>3 DEF OrderedFor, r

\* A loop left by break has filled the caller's buffer.
FullWhenCut == call.pc = "break" => Len(call.out) = OutBufSize

\* What the theorems on the segment list and on returning calls rest on.
OrderInv == StreamInv /\ SegmentOrder /\ FullWhenCut

\* The segment list is ordered slot by slot.
LEMMA OrderBySlot ==
    SegmentOrder <=> \A s \in Slots : OrderedFor(streams[s].segments, streams[s].next_offset)
  BY DEF SegmentOrder, OrderedFor

\* The same in the next state.
LEMMA OrderBySlotNext ==
    SegmentOrder' <=> \A s \in Slots : OrderedFor(streams'[s].segments, streams'[s].next_offset)
  BY DEF SegmentOrder, OrderedFor

\* The empty list is ordered.
LEMMA OrderEmpty == ASSUME NEW next PROVE OrderedFor(<<>>, next)
  BY EmptyProps DEF OrderedFor

\* Every step keeps the segment lists ordered.
LEMMA OrderStep ==
    ASSUME StreamInv, SegmentOrder, StreamLen < OffsetMod, [Next]_vars
    PROVE  SegmentOrder'
<1> USE StreamAssumption
<1>0. /\ TypeOK /\ call.slot \in Slots /\ cur \in Stream
      /\ cur.segments \in Seq(Segment) /\ cur.next_offset \in Nat
      /\ \A s \in Slots : OrderedFor(streams[s].segments, streams[s].next_offset)
      /\ OrderedFor(cur.segments, cur.next_offset)
  BY OrderBySlot DEF StreamInv, TypeOK, Call, cur, Stream
<1>1. ASSUME NEW id \in StreamIds, NEW pos \in 0..StreamLen-1,
             NEW len \in 1..MaxPayload, OnData(id, pos, len)
      PROVE  SegmentOrder'
  <2> DEFINE seg == [offset |-> pos % OffsetMod, length |-> len, data |-> pos]
  <2>0. PICK s \in FoundOrCreated(id) :
          \E k \in 1..(Len(Opened(s, id).segments) + 1) : Inserted(id, s, k, seg)
    BY <1>1 DEF OnData, Inserted
  <2>1. PICK k \in 1..(Len(Opened(s, id).segments) + 1) : Inserted(id, s, k, seg)
    BY <2>0
  <2>2. s \in Slots /\ Opened(s, id) \in Stream
    BY <1>0, LookupProps
  <2>3. seg \in Segment
    <3>1. pos + len <= StreamLen
      BY <1>1 DEF OnData
    <3>2. pos \in Nat /\ len \in 1..StreamLen
      BY <3>1
    <3>3. pos % OffsetMod \in 0..OffsetMod-1
      BY <3>2, OffsetRange
    <3> QED
      BY <3>2, <3>3 DEF Segment
  <2> DEFINE old == Opened(s, id).segments
             next == Opened(s, id).next_offset
  <2>4. /\ streams'[s].segments = InsertAtPoint(old, k, seg)
        /\ streams'[s].next_offset = next
        /\ \A t \in Slots \ {s} : streams'[t] = streams[t]
        /\ IsInsertPoint(old, k, seg.offset)
    BY <1>0, <2>1, <2>2 DEF Inserted, TypeOK, Stream
  <2>5. OrderedFor(old, next)
    BY <1>0, <2>2, OrderEmpty DEF Opened
  <2>6. old \in Seq(Segment) /\ next \in Nat /\ k \in 1..(Len(old) + 1)
    BY <2>2 DEF Stream
  <2> HIDE DEF old, next, seg
  <2>7. OrderedFor(InsertAtPoint(old, k, seg), next)
    BY <2>3, <2>4, <2>5, <2>6, OrderInsert
  <2> QED
    BY <1>0, <2>4, <2>7, OrderBySlotNext
<1>2. ASSUME NEW id \in StreamIds, OnDataNoMemory(id)
      PROVE  SegmentOrder'
  <2>1. PICK s \in FoundOrCreated(id) : streams' = [streams EXCEPT ![s] = Opened(s, id)]
    BY <1>2 DEF OnDataNoMemory
  <2>2. s \in Slots
    BY <1>0, LookupProps
  <2>3. OrderedFor(Opened(s, id).segments, Opened(s, id).next_offset)
    BY <1>0, <2>2, OrderEmpty DEF Opened
  <2> QED
    BY <1>0, <2>1, <2>2, <2>3, OrderBySlotNext DEF TypeOK
<1>3. CASE ConsumeStale
  <2>1. /\ cur.segments # <<>> /\ streams'[call.slot].segments = Tail(cur.segments)
        /\ streams'[call.slot].next_offset = cur.next_offset
        /\ \A t \in Slots \ {call.slot} : streams'[t] = streams[t]
    BY <1>0, <1>3 DEF ConsumeStale, LoopCondition, TypeOK, Stream, cur
  <2>2. OrderedFor(Tail(cur.segments), cur.next_offset)
    BY <1>0, <2>1, OrderTail
  <2> QED
    BY <1>0, <2>1, <2>2, OrderBySlotNext
<1>4. CASE ConsumeWhole \/ ConsumePart
  <2>1. /\ call.pc # "idle" /\ LoopCondition(cur) /\ start < head.length
        /\ cur.segments # <<>>
    BY <1>4 DEF ConsumeWhole, ConsumePart, LoopCondition
  <2>2. /\ head \in Segment /\ start \in Nat /\ to_copy \in Nat
        /\ start = cur.next_offset - head.offset
        /\ Advanced = cur.next_offset + to_copy
        /\ cur.next_offset + to_copy <= StreamLen
    BY <1>0, <2>1, IterationProps, IterationExact
  <2>3. Advanced \in Nat /\ cur.next_offset <= Advanced /\ Advanced < OffsetMod
    BY <1>0, <2>2
  <2>4. CASE ConsumeWhole
    <3>1. /\ streams'[call.slot].segments = Tail(cur.segments)
          /\ streams'[call.slot].next_offset = Advanced
          /\ \A t \in Slots \ {call.slot} : streams'[t] = streams[t]
      BY <1>0, <2>4 DEF ConsumeWhole, TypeOK, Stream, cur
    <3>2. OrderedFor(Tail(cur.segments), Advanced)
      BY <1>0, <2>1, <2>3, OrderTail
    <3> QED
      BY <1>0, <3>1, <3>2, OrderBySlotNext
  <2>5. CASE ConsumePart
    <3> DEFINE rest == Trimmed(head, start + to_copy)
    <3>1. /\ streams'[call.slot].segments = [cur.segments EXCEPT ![1] = rest]
          /\ streams'[call.slot].next_offset = Advanced
          /\ \A t \in Slots \ {call.slot} : streams'[t] = streams[t]
      BY <1>0, <2>5 DEF ConsumePart, TypeOK, Stream, cur
    <3>2. /\ head.offset \in Nat /\ head.length \in 1..StreamLen /\ head.data \in Nat
          /\ start + to_copy < head.length
      BY <2>2, <2>5 DEF Segment, ConsumePart
    <3>3. head.offset + (start + to_copy) = Advanced
      BY <1>0, <2>2, <3>2, SMTT(30)
    <3>4. rest.offset = Advanced
      <4>1. Advanced % OffsetMod = Advanced
        BY <2>3, OffsetFits
      <4> QED
        BY <3>3, <4>1 DEF Trimmed
    <3>5. rest \in Segment
      <4>1. start + to_copy \in Nat
        BY <2>2
      <4>2. /\ head.length - (start + to_copy) \in 1..StreamLen
            /\ head.data + (start + to_copy) \in Nat
        BY <3>2, <4>1
      <4>3. (head.offset + (start + to_copy)) % OffsetMod \in 0..OffsetMod-1
        BY <3>3, <2>3, OffsetRange
      <4> QED
        BY <4>2, <4>3 DEF Trimmed, Segment
    <3> HIDE DEF rest
    <3>6. OrderedFor([cur.segments EXCEPT ![1] = rest], Advanced)
      BY <1>0, <2>1, <2>3, <3>4, <3>5, OrderTrim
    <3> QED
      BY <1>0, <3>1, <3>6, OrderBySlotNext
  <2> QED
    BY <1>4, <2>4, <2>5
<1>5. ASSUME NEW id \in StreamIds, Reset(id)
      PROVE  SegmentOrder'
  <2>1. PICK s \in Slots :
          streams' = [streams EXCEPT ![s].segments = <<>>, ![s].next_offset = 0]
    BY <1>5 DEF Reset, Lowest, Matches
  <2>2. /\ streams'[s].segments = <<>>
        /\ \A t \in Slots \ {s} : streams'[t] = streams[t]
    BY <1>0, <2>1 DEF TypeOK, Stream
  <2> QED
    BY <1>0, <2>2, OrderEmpty, OrderBySlotNext
<1>6. CASE Destroy
  <2>1. \A t \in Slots : streams'[t].segments = <<>> \/ streams'[t] = streams[t]
    BY <1>0, <1>6 DEF Destroy, TypeOK, Stream
  <2> QED
    BY <1>0, <2>1, OrderEmpty, OrderBySlotNext
<1>7. CASE Return \/ UNCHANGED vars \/ \E id \in StreamIds : OnDataNoSlot(id)
  <2>1. streams' = streams
    BY <1>7 DEF Return, vars, OnDataNoSlot
  <2> QED
    BY <1>0, <2>1, OrderBySlotNext
<1> QED
  BY <1>1, <1>2, <1>3, <1>4, <1>5, <1>6, <1>7 DEF Next

\* A call is cut short only by its buffer.
LEMMA FullStep == ASSUME TypeOK, FullWhenCut, [Next]_vars PROVE FullWhenCut'
<1> USE StreamAssumption
<1>1. CASE ConsumePart
  <2>1. /\ LoopCondition(cur) /\ start < head.length /\ start + to_copy < head.length
        /\ call'.out = call.out \o Copied
    BY <1>1 DEF ConsumePart, TypeOK, Call
  <2>2. /\ start \in Nat /\ head.length \in Nat /\ to_copy \in Nat
        /\ Copied \in Seq(Nat) /\ Len(Copied) = to_copy
        /\ call.out \in Seq(Nat) /\ Len(call.out) \in Nat
    BY <2>1, IterationProps, SMTT(30) DEF Segment, TypeOK, Call
  <2>3. to_copy = OutBufSize - Len(call.out)
    BY <2>1, <2>2 DEF to_copy, remaining
  <2>4. Len(call.out \o Copied) = Len(call.out) + Len(Copied)
    BY <2>2, AppendProps
  <2> QED
    BY <2>1, <2>2, <2>3, <2>4 DEF FullWhenCut
<1>2. CASE ConsumeWhole
  <2>1. call.pc = "loop" /\ call'.pc = call.pc
    BY <1>2 DEF ConsumeWhole, TypeOK, Call
  <2> QED
    BY <2>1 DEF FullWhenCut
<1>3. CASE Return
  BY <1>3 DEF Return, NoCall, FullWhenCut
<1>4. ASSUME NEW id \in StreamIds, NEW pos \in 0..StreamLen-1,
             NEW len \in 1..MaxPayload, OnData(id, pos, len)
      PROVE  FullWhenCut'
  BY <1>4 DEF OnData, FullWhenCut
<1>5. CASE \/ \E id \in StreamIds : OnDataNoMemory(id) \/ OnDataNoSlot(id) \/ Reset(id)
           \/ ConsumeStale \/ Destroy \/ UNCHANGED vars
  <2>1. call' = call
    BY <1>5 DEF OnDataNoMemory, OnDataNoSlot, Reset, ConsumeStale, Destroy, vars
  <2> QED
    BY <2>1 DEF FullWhenCut
<1> QED
  BY <1>1, <1>2, <1>3, <1>4, <1>5 DEF Next

\* The invariant with the order of the list and the reason for a cut holds in
\* every execution.
LEMMA OrderInvariant ==
    ASSUME StreamLen < OffsetMod
    PROVE  Spec => []OrderInv
<1>1. Init => OrderInv
  <2> SUFFICES ASSUME Init PROVE OrderInv
    OBVIOUS
  <2>1. SegmentOrder
    BY EmptyProps DEF Init, FreshStream, SegmentOrder
  <2>2. FullWhenCut
    BY DEF Init, NoCall, FullWhenCut
  <2> QED
    BY <2>1, <2>2, InvInit DEF OrderInv
<1>2. OrderInv /\ [Next]_vars => OrderInv'
  <2> SUFFICES ASSUME OrderInv, [Next]_vars PROVE OrderInv'
    OBVIOUS
  <2>1. StreamInv /\ TypeOK /\ SegmentOrder /\ FullWhenCut
    BY DEF OrderInv, StreamInv
  <2> QED
    BY <2>1, InvStep, OrderStep, FullStep DEF OrderInv
<1> QED
  BY <1>1, <1>2, PTL DEF Spec

\* insert_segment and the trimming of a partly consumed segment keep the list in
\* the order the loop of consume_segments relies on.
THEOREM ListOrdered ==
    ASSUME StreamLen < OffsetMod
    PROVE  Spec => []SegmentOrder
<1>1. OrderInv => SegmentOrder
  BY DEF OrderInv
<1> QED
  BY <1>1, OrderInvariant, PTL

\* A call of quic_stream_on_data that returns with room left in the caller's
\* buffer has handed out everything that was deliverable.
THEOREM Drained ==
    ASSUME StreamLen < OffsetMod
    PROVE  Spec => DrainedUnlessFull
<1> DEFINE Leaves ==
        (call.pc # "idle" /\ call'.pc = "idle" /\ Len(call.out) < OutBufSize) =>
            \A i \in 1..Len(cur.segments) : cur.segments[i].offset > cur.next_offset
<1>1. OrderInv /\ [Next]_vars => [Leaves]_vars
  <2> SUFFICES ASSUME OrderInv, [Next]_vars, call.pc # "idle", call'.pc = "idle",
                      Len(call.out) < OutBufSize,
                      NEW i \in 1..Len(cur.segments)
               PROVE  cur.segments[i].offset > cur.next_offset
    BY DEF OrderInv
  <2>0. /\ TypeOK /\ call.slot \in Slots /\ cur \in Stream
        /\ cur.segments \in Seq(Segment) /\ cur.next_offset \in Nat
        /\ call.out \in Seq(Nat)
    BY StreamAssumption DEF OrderInv, StreamInv, TypeOK, Call, cur, Stream
  <2>1. Return
    <3>1. CASE ConsumeWhole \/ ConsumePart
      BY <2>0, <3>1 DEF ConsumeWhole, ConsumePart, TypeOK, Call
    <3>2. CASE ConsumeStale \/ UNCHANGED vars
      BY <3>2 DEF ConsumeStale, vars
    <3>3. call.pc # "idle" => /\ \A id \in StreamIds : /\ ~OnDataNoMemory(id)
                                                       /\ ~OnDataNoSlot(id)
                                                       /\ ~Reset(id)
                              /\ ~Destroy
                              /\ \A id \in StreamIds, pos \in 0..StreamLen-1,
                                    len \in 1..MaxPayload : ~OnData(id, pos, len)
      BY DEF OnDataNoMemory, OnDataNoSlot, Reset, Destroy, OnData
    <3> QED
      BY <3>1, <3>2, <3>3 DEF Next
  <2>2. call.pc # "break"
    BY <2>0, StreamAssumption DEF OrderInv, FullWhenCut
  <2>3. cur.segments # <<>> /\ ~(cur.segments[1].offset <= cur.next_offset)
    BY <2>1, <2>2 DEF Return, LoopCondition
  <2>4. cur.segments[1].offset \in Nat /\ cur.segments[i].offset \in Nat
    <3>1. cur.segments[1] \in Segment /\ cur.segments[i] \in Segment
      BY <2>0, <2>3
    <3> QED
      BY <3>1, StreamAssumption DEF Segment
  <2>5. i = 1 \/ cur.segments[1].offset <= cur.segments[i].offset
    BY <2>0, <2>3, SMTT(30) DEF OrderInv, SegmentOrder, cur
  <2> QED
    BY <2>0, <2>3, <2>4, <2>5
<1> QED
  BY <1>1, OrderInvariant, PTL DEF Spec, DrainedUnlessFull

-----------------------------------------------------------------------------
(* Refinement of InOrderDelivery.                                          *)

\* The bytes of a segment list.
Stored(segs) == UNION {SegmentBytes(segs[i]) : i \in 1..Len(segs)}

\* A segment's bytes are an interval.
LEMMA BytesInterval ==
    ASSUME NEW seg, seg.data \in Nat, seg.length \in Nat
    PROVE  SegmentBytes(seg) = seg.data..(seg.data + seg.length - 1)
<1>1. ASSUME NEW x \in SegmentBytes(seg)
      PROVE  x \in seg.data..(seg.data + seg.length - 1)
  BY <1>1 DEF SegmentBytes
<1>2. ASSUME NEW x \in seg.data..(seg.data + seg.length - 1)
      PROVE  x \in SegmentBytes(seg)
  <2>1. x - seg.data \in 0..(seg.length - 1) /\ x = seg.data + (x - seg.data)
    OBVIOUS
  <2> QED
    BY <2>1 DEF SegmentBytes
<1> QED
  BY <1>1, <1>2

\* Inserting a segment adds its bytes.
LEMMA StoredInsert ==
    ASSUME NEW segs \in Seq(Segment), NEW seg \in Segment,
           NEW k \in 1..(Len(segs) + 1)
    PROVE  Stored(InsertAtPoint(segs, k, seg)) = Stored(segs) \cup SegmentBytes(seg)
<1> DEFINE r == InsertAtPoint(segs, k, seg)
<1>1. /\ Len(r) = Len(segs) + 1 /\ Len(segs) \in Nat
      /\ \A i \in 1..Len(r) :
           r[i] = IF i < k THEN segs[i] ELSE IF i = k THEN seg ELSE segs[i - 1]
  BY InsertAtPointProps
<1> HIDE DEF r
<1>2. \A i \in 1..Len(r) : (i = k /\ r[i] = seg) \/ \E j \in 1..Len(segs) : r[i] = segs[j]
  BY <1>1
<1>3. k \in 1..Len(r) /\ r[k] = seg
  BY <1>1
<1>4. ASSUME NEW j \in 1..Len(segs) PROVE \E i \in 1..Len(r) : r[i] = segs[j]
  <2>1. CASE j < k
    BY <1>1, <2>1
  <2>2. CASE j >= k
    <3>1. j + 1 \in 1..Len(r) /\ r[j + 1] = segs[j]
      BY <1>1, <2>2
    <3> QED
      BY <3>1
  <2> QED
    BY <2>1, <2>2
<1>5. Stored(r) \subseteq Stored(segs) \cup SegmentBytes(seg)
  BY <1>2, Zenon DEF Stored
<1>6. Stored(segs) \subseteq Stored(r)
  BY <1>4, Zenon DEF Stored
<1>7. SegmentBytes(seg) \subseteq Stored(r)
  BY <1>3, Zenon DEF Stored
<1> QED
  BY <1>5, <1>6, <1>7 DEF r

\* The bytes of a list are those of its first segment and of the others.
LEMMA StoredSplit ==
    ASSUME NEW segs \in Seq(Segment), segs # <<>>
    PROVE  Stored(segs) = SegmentBytes(segs[1]) \cup Stored(Tail(segs))
<1>1. /\ Len(Tail(segs)) = Len(segs) - 1 /\ Len(segs) \in Nat \ {0}
      /\ \A i \in 1..(Len(segs) - 1) : Tail(segs)[i] = segs[i + 1]
  BY TailProps
<1>2. 1 \in 1..Len(segs)
  BY <1>1
<1>3. \A i \in 1..Len(segs) : i = 1 \/ \E j \in 1..Len(Tail(segs)) : Tail(segs)[j] = segs[i]
  <2>1. ASSUME NEW i \in 1..Len(segs), i # 1
        PROVE  i - 1 \in 1..Len(Tail(segs)) /\ Tail(segs)[i - 1] = segs[i]
    BY <1>1, <2>1
  <2> QED
    BY <2>1
<1>4. \A j \in 1..Len(Tail(segs)) : \E i \in 1..Len(segs) : Tail(segs)[j] = segs[i]
  <2>1. ASSUME NEW j \in 1..Len(Tail(segs))
        PROVE  j + 1 \in 1..Len(segs) /\ Tail(segs)[j] = segs[j + 1]
    BY <1>1
  <2> QED
    BY <2>1
<1>5. Stored(segs) \subseteq SegmentBytes(segs[1]) \cup Stored(Tail(segs))
  BY <1>3, Zenon DEF Stored
<1>6. Stored(Tail(segs)) \subseteq Stored(segs)
  BY <1>4, Zenon DEF Stored
<1>7. SegmentBytes(segs[1]) \subseteq Stored(segs)
  BY <1>2, Zenon DEF Stored
<1> QED
  BY <1>5, <1>6, <1>7

\* Replacing the first segment replaces its bytes and no others.
LEMMA StoredReplace ==
    ASSUME NEW segs \in Seq(Segment), segs # <<>>, NEW seg \in Segment
    PROVE  Stored([segs EXCEPT ![1] = seg]) = SegmentBytes(seg) \cup Stored(Tail(segs))
<1> DEFINE r == [segs EXCEPT ![1] = seg]
<1>1. r \in Seq(Segment) /\ r # <<>> /\ r[1] = seg /\ Len(r) = Len(segs)
  BY TailProps, ExceptSeq
<1>2. Tail(r) = Tail(segs)
  BY <1>1
<1> HIDE DEF r
<1>3. Stored(r) = SegmentBytes(r[1]) \cup Stored(Tail(r))
  BY <1>1, StoredSplit
<1> QED
  BY <1>1, <1>2, <1>3 DEF r

\* The bytes 0 .. n-1 handed out, as a set.
LEMMA PrefixSet ==
    ASSUME NEW h \in Seq(Nat), \A i \in 1..Len(h) : h[i] = i - 1
    PROVE  {h[i] : i \in 1..Len(h)} = 0..(Len(h) - 1)
<1>1. ASSUME NEW x \in 0..(Len(h) - 1) PROVE x \in {h[i] : i \in 1..Len(h)}
  <2>1. x + 1 \in 1..Len(h) /\ h[x + 1] = x
    OBVIOUS
  <2> QED
    BY <2>1
<1>2. ASSUME NEW x \in {h[i] : i \in 1..Len(h)} PROVE x \in 0..(Len(h) - 1)
  BY <1>2
<1> QED
  BY <1>1, <1>2

\* What a slot holds: the bytes of its list and the prefix that next_offset counts.
HeldMeans ==
    \A s \in Slots :
        HeldBytes(s) = IF streams[s].in_use
                       THEN Stored(streams[s].segments) \cup 0..(streams[s].next_offset - 1)
                       ELSE {}

\* In every state of the manager the bytes a slot holds are known from its list
\* and next_offset alone.
LEMMA HeldCharacterised == StreamInv => HeldMeans
<1> SUFFICES ASSUME StreamInv, NEW s \in Slots, streams[s].in_use
             PROVE  HeldBytes(s) = Stored(streams[s].segments)
                                     \cup 0..(streams[s].next_offset - 1)
  BY DEF HeldMeans, HeldBytes
<1>1. Handed(s) \in Seq(Nat)
  BY AppendProps DEF StreamInv, TypeOK, Call, Handed
<1>2. /\ \A i \in 1..Len(Handed(s)) : Handed(s)[i] = i - 1
      /\ streams[s].next_offset = Len(Handed(s))
  BY DEF StreamInv, DeliveredInOrder
<1>3. {Handed(s)[i] : i \in 1..Len(Handed(s))} = 0..(streams[s].next_offset - 1)
  BY <1>1, <1>2, PrefixSet
<1>4. HeldBytes(s) = Stored(streams[s].segments)
                       \cup {Handed(s)[i] : i \in 1..Len(Handed(s))}
  BY Zenon DEF HeldBytes, Stored
<1> QED
  BY <1>3, <1>4

\* OnData accepts the bytes of its payload, on a stream that is open or opened by
\* the call.
LEMMA RefineOnData ==
    ASSUME StreamInv, HeldMeans, HeldMeans', StreamLen < OffsetMod,
           NEW id \in StreamIds, NEW pos \in 0..StreamLen-1,
           NEW len \in 1..MaxPayload, OnData(id, pos, len)
    PROVE  Promise!Next
<1> USE StreamAssumption
<1> DEFINE seg == [offset |-> pos % OffsetMod, length |-> len, data |-> pos]
<1>0. TypeOK /\ call.pc = "idle" /\ pos + len <= StreamLen
  BY DEF OnData, StreamInv
<1>1. PICK s \in FoundOrCreated(id) :
        \E k \in 1..(Len(Opened(s, id).segments) + 1) : Inserted(id, s, k, seg)
  BY DEF OnData, Inserted
<1>2. PICK k \in 1..(Len(Opened(s, id).segments) + 1) : Inserted(id, s, k, seg)
  BY <1>1
<1>3. /\ s \in Slots /\ Opened(s, id) \in Stream /\ Opened(s, id).in_use
      /\ DeliveredTo(s) \in Seq(Nat)
  BY <1>0, LookupProps
<1>4. seg.offset = pos /\ seg.length = len /\ seg.data = pos
  BY OffsetFits
<1>5. seg \in Segment
  BY <1>0, <1>4 DEF Segment
<1> DEFINE old == Opened(s, id).segments
           next == Opened(s, id).next_offset
           P == SegmentBytes(seg)
<1>6. old \in Seq(Segment) /\ k \in 1..(Len(old) + 1) /\ next \in Nat
  BY <1>3 DEF Stream
<1>7. /\ streams'[s].segments = InsertAtPoint(old, k, seg)
      /\ streams'[s].in_use = TRUE
      /\ streams'[s].next_offset = next
      /\ \A t \in Slots \ {s} : streams'[t] = streams[t] /\ delivered'[t] = delivered[t]
      /\ delivered'[s] = DeliveredTo(s)
  BY <1>0, <1>2, <1>3 DEF Inserted, TypeOK, Stream
<1> HIDE DEF seg
<1>8. P \in SUBSET (0..(StreamLen - 1))
  <2>1. P = pos..(pos + len - 1)
    BY <1>4, BytesInterval
  <2> QED
    BY <1>0, <2>1
<1>9. /\ HeldBytes(s)' = Stored(old) \cup P \cup 0..(next - 1)
      /\ \A t \in Slots \ {s} : HeldBytes(t)' = HeldBytes(t)
  <2> HIDE DEF old, next
  <2>1. Stored(streams'[s].segments) = Stored(old) \cup P
    BY <1>5, <1>6, <1>7, StoredInsert
  <2>2. HeldBytes(s)' = Stored(streams'[s].segments) \cup 0..(streams'[s].next_offset - 1)
    BY <1>3, <1>7 DEF HeldMeans
  <2>3. ASSUME NEW t \in Slots \ {s} PROVE HeldBytes(t)' = HeldBytes(t)
    BY <1>7 DEF HeldMeans
  <2> QED
    BY <1>7, <2>1, <2>2, <2>3
<1> HIDE DEF P
<1>10. CASE streams[s].in_use
  <2>1. /\ HeldBytes(s)' = HeldBytes(s) \cup P /\ delivered'[s] = delivered[s]
    BY <1>3, <1>7, <1>9, <1>10 DEF HeldMeans, Opened, DeliveredTo
  <2>2. Promise!Accept(s)
    <3>1. \A t \in Slots : streams'[t].in_use = streams[t].in_use
      BY <1>0, <1>3, <1>7, <1>10 DEF TypeOK, Stream
    <3>2. \A t \in Slots : delivered'[t] = delivered[t]
      BY <1>7, <2>1
    <3> QED
      BY <1>3, <1>8, <1>9, <1>10, <2>1, <3>1, <3>2 DEF Promise!Accept
  <2> QED
    BY <1>3, <2>2 DEF Promise!Next
<1>11. CASE ~streams[s].in_use
  <2>1. HeldBytes(s)' = P /\ delivered'[s] = <<>> /\ Len(delivered'[s]) = 0
    <3>1. Stored(<<>>) = {}
      BY EmptyProps DEF Stored
    <3> QED
      BY <1>7, <1>9, <1>11, <3>1, EmptyProps DEF Opened, DeliveredTo
  <2>2. /\ \A t \in Slots \ {s} : streams'[t].in_use = streams[t].in_use
        /\ \A t \in Slots \ {s} : Len(delivered'[t]) = Len(delivered[t])
    BY <1>7
  <2>3. Promise!Open(s)
    <3>1. [t \in Slots |-> streams'[t].in_use]
            = [[t \in Slots |-> streams[t].in_use] EXCEPT ![s] = TRUE]
      BY <1>3, <1>7, <2>2
    <3>2. [t \in Slots |-> HeldBytes(t)']
            = [[t \in Slots |-> HeldBytes(t)] EXCEPT ![s] = P]
      BY <1>3, <1>9, <2>1
    <3>3. [t \in Slots |-> IF streams'[t].in_use THEN Len(delivered'[t]) ELSE 0]
            = [[t \in Slots |-> IF streams[t].in_use THEN Len(delivered[t]) ELSE 0]
                 EXCEPT ![s] = 0]
      <4> DEFINE before(t) == IF streams[t].in_use THEN Len(delivered[t]) ELSE 0
                 after(t) == IF streams'[t].in_use THEN Len(delivered'[t]) ELSE 0
      <4>1. after(s) = 0 /\ \A t \in Slots \ {s} : after(t) = before(t)
        BY <1>7, <2>1, <2>2
      <4> HIDE DEF before, after
      <4>2. [t \in Slots |-> after(t)] = [[t \in Slots |-> before(t)] EXCEPT ![s] = 0]
        BY <1>3, <4>1
      <4> QED
        BY <4>2 DEF before, after
    <3> QED
      BY <1>3, <1>8, <1>11, <3>1, <3>2, <3>3 DEF Promise!Open
  <2> QED
    BY <1>3, <2>3 DEF Promise!Next
<1> QED
  BY <1>10, <1>11

\* A step that opens or closes no stream, holds the same bytes and returns nothing
\* is no step of the promise.
LEMMA RefineStutter ==
    ASSUME \A t \in Slots : /\ streams'[t].in_use = streams[t].in_use
                            /\ HeldBytes(t)' = HeldBytes(t)
                            /\ delivered'[t] = delivered[t]
    PROVE  UNCHANGED Promise!chanVars
  BY DEF Promise!chanVars

\* The bytes of a segment that ends within what was handed out.
LEMMA StaleBytes ==
    ASSUME NEW off \in Nat, NEW len \in Nat, NEW next \in Nat, off + len <= next
    PROVE  off..(off + len - 1) \subseteq 0..(next - 1)
  OBVIOUS

\* Handing out the rest of a segment: the prefix ends where the segment ends.
LEMMA WholeBytes ==
    ASSUME NEW off \in Nat, NEW len \in Nat, NEW next \in Nat, NEW skip \in Nat,
           NEW n \in Nat, skip = next - off, skip < len, n <= len - skip,
           skip + n >= len
    PROVE  /\ next + n = off + len
           /\ 0..(next + n - 1) = (off..(off + len - 1)) \cup 0..(next - 1)
  OBVIOUS

\* Handing out a part: what is left starts where the prefix ends.
LEMMA PartBytes ==
    ASSUME NEW off \in Nat, NEW next \in Nat, NEW adv \in Nat, NEW end \in Nat,
           off <= next, next <= adv, adv < end
    PROVE  (adv..(end - 1)) \cup 0..(adv - 1) = (off..(end - 1)) \cup 0..(next - 1)
  OBVIOUS

\* No iteration of consume_segments loses a byte: a stale segment and the part of
\* a segment that is skipped were handed out before, what is copied is handed out
\* now, and what does not fit stays stored.
LEMMA RefineConsume ==
    ASSUME StreamInv, HeldMeans, HeldMeans', StreamLen < OffsetMod,
           ConsumeStale \/ ConsumeWhole \/ ConsumePart
    PROVE  UNCHANGED Promise!chanVars
<1>0. PICK c \in Slots : c = call.slot
  BY DEF StreamInv, TypeOK, Call
<1>1. /\ TypeOK /\ cur \in Stream /\ call.pc # "idle" /\ cur = streams[c]
      /\ LoopCondition(cur) /\ cur.segments # <<>> /\ streams[c].in_use
  BY <1>0 DEF StreamInv, TypeOK, cur, ConsumeStale, ConsumeWhole, ConsumePart,
              LoopCondition, CallOnOpenStream
<1>2. cur.segments \in Seq(Segment) /\ cur.next_offset \in Nat
  BY <1>1, StreamAssumption DEF Stream
<1>3. head \in Segment /\ Len(cur.segments) \in Nat \ {0}
  BY <1>1, <1>2, TailProps DEF head
<1>4. head.offset \in Nat /\ head.length \in 1..StreamLen /\ head.data \in Nat
  BY <1>3, StreamAssumption DEF Segment
<1>5. head.data = head.offset /\ head.offset + head.length <= StreamLen
  BY <1>0, <1>3 DEF StreamInv, SegmentsGenuine, head, cur
<1>6. Stored(cur.segments) = SegmentBytes(head) \cup Stored(Tail(cur.segments))
  BY <1>1, <1>2, StoredSplit DEF head
<1>7. SegmentBytes(head) = head.offset..(head.offset + head.length - 1)
  BY <1>4, <1>5, BytesInterval
<1> DEFINE others == Stored(Tail(cur.segments))
           next == cur.next_offset
<1>8. HeldBytes(c) = SegmentBytes(head) \cup others \cup 0..(next - 1)
  BY <1>1, <1>6 DEF HeldMeans
<1>9. /\ \A t \in Slots : streams'[t].in_use = streams[t].in_use
      /\ \A t \in Slots \ {c} : streams'[t] = streams[t]
      /\ delivered' = delivered
  <2>1. CASE ConsumeStale
    BY <1>0, <1>1, <2>1 DEF ConsumeStale, TypeOK, Stream
  <2>2. CASE ConsumeWhole
    BY <1>0, <1>1, <2>2 DEF ConsumeWhole, TypeOK, Stream
  <2>3. CASE ConsumePart
    BY <1>0, <1>1, <2>3 DEF ConsumePart, TypeOK, Stream
  <2> QED
    BY <2>1, <2>2, <2>3
<1>10. HeldBytes(c)' = Stored(streams'[c].segments) \cup 0..(streams'[c].next_offset - 1)
  BY <1>1, <1>9 DEF HeldMeans
<1>11. start < head.length =>
         /\ start \in Nat /\ to_copy \in Nat /\ to_copy <= head.length - start
         /\ start = next - head.offset /\ Advanced = next + to_copy
  BY <1>1, IterationProps, IterationExact
<1> HIDE DEF others, next
<1>12. HeldBytes(c)' = HeldBytes(c)
  <2>1. CASE ConsumeStale
    <3>1. streams'[c].segments = Tail(cur.segments) /\ streams'[c].next_offset = next
      BY <1>0, <1>1, <2>1 DEF ConsumeStale, TypeOK, Stream, next
    <3>2. head.offset + head.length <= next
      BY <1>2, <1>4, <2>1 DEF ConsumeStale, start, next
    <3>3. SegmentBytes(head) \subseteq 0..(next - 1)
      BY <1>2, <1>4, <1>7, <3>2, StaleBytes DEF next
    <3> QED
      BY <1>8, <1>10, <3>1, <3>3 DEF others
  <2>2. CASE ConsumeWhole
    <3>1. streams'[c].segments = Tail(cur.segments) /\ streams'[c].next_offset = Advanced
      BY <1>0, <1>1, <2>2 DEF ConsumeWhole, TypeOK, Stream
    <3>2. start < head.length /\ start + to_copy >= head.length
      BY <2>2 DEF ConsumeWhole
    <3>3. 0..(Advanced - 1) = SegmentBytes(head) \cup 0..(next - 1)
      <4>1. /\ head.offset \in Nat /\ head.length \in Nat /\ next \in Nat
            /\ start \in Nat /\ to_copy \in Nat /\ start = next - head.offset
            /\ to_copy <= head.length - start /\ Advanced = next + to_copy
        BY <1>2, <1>4, <1>11, <3>2, StreamAssumption DEF next
      <4>2. 0..(next + to_copy - 1)
              = (head.offset..(head.offset + head.length - 1)) \cup 0..(next - 1)
        BY <4>1, <3>2, WholeBytes
      <4> QED
        BY <1>7, <4>1, <4>2
    <3> QED
      BY <1>8, <1>10, <3>1, <3>3 DEF others
  <2>3. CASE ConsumePart
    <3> DEFINE rest == Trimmed(head, start + to_copy)
    <3>1. /\ streams'[c].segments = [cur.segments EXCEPT ![1] = rest]
          /\ streams'[c].next_offset = Advanced
      BY <1>0, <1>1, <2>3 DEF ConsumePart, TypeOK, Stream
    <3>2. start < head.length /\ start + to_copy < head.length
      BY <2>3 DEF ConsumePart
    <3>3. /\ head.offset \in Nat /\ head.length \in Nat /\ next \in Nat
          /\ start \in Nat /\ to_copy \in Nat /\ start = next - head.offset
          /\ Advanced = next + to_copy
      BY <1>2, <1>4, <1>11, <3>2, StreamAssumption DEF next
    <3>4. /\ Advanced \in Nat /\ head.offset + (start + to_copy) = Advanced
          /\ head.length - (start + to_copy) \in 1..head.length
          /\ Advanced < head.offset + head.length
      BY <3>2, <3>3
    <3>5. (Advanced..(Advanced + (head.length - (start + to_copy)) - 1))
                  \cup 0..(Advanced - 1) = SegmentBytes(head) \cup 0..(next - 1)
      <4>1. (Advanced..(head.offset + head.length - 1)) \cup 0..(Advanced - 1)
              = (head.offset..(head.offset + head.length - 1)) \cup 0..(next - 1)
        <5>1. /\ head.offset <= next /\ next <= Advanced
              /\ Advanced < head.offset + head.length /\ head.offset + head.length \in Nat
          BY <3>3, <3>4
        <5> QED
          BY <3>3, <3>4, <5>1, PartBytes
      <4> DEFINE R == Advanced..(Advanced + (head.length - (start + to_copy)) - 1)
                 L == Advanced..(head.offset + head.length - 1)
                 H == head.offset..(head.offset + head.length - 1)
                 A == 0..(Advanced - 1)
                 B == 0..(next - 1)
      <4>2. R = L
        <5>1. Advanced + (head.length - (start + to_copy)) - 1 = head.offset + head.length - 1
          BY <3>3, <3>4
        <5> QED
          BY <5>1, Zenon
      <4>3. SegmentBytes(head) = H
        BY <1>7
      <4>4. L \cup A = H \cup B
        BY <4>1
      <4> HIDE DEF R, L, H, A, B
      <4>5. R \cup A = SegmentBytes(head) \cup B
        BY <4>2, <4>3, <4>4
      <4> QED
        BY <4>5 DEF R, A, B
    <3>6. Advanced \in Nat /\ Advanced < OffsetMod /\ Advanced % OffsetMod = Advanced
      <4>1. Advanced \in Nat /\ Advanced < OffsetMod
        BY <1>4, <1>5, <3>4, StreamAssumption
      <4> QED
        BY <4>1, OffsetFits
    <3>7. /\ rest.offset = Advanced /\ rest.data = Advanced
          /\ rest.length = head.length - (start + to_copy)
          /\ rest.length \in 1..StreamLen
      BY <1>4, <1>5, <3>4, <3>6, StreamAssumption DEF Trimmed
    <3>8. rest \in Segment
      <4>1. Advanced \in 0..OffsetMod-1
        BY <3>6, StreamAssumption
      <4> QED
        BY <3>6, <3>7, <4>1 DEF Trimmed, Segment
    <3> HIDE DEF rest
    <3>9. Stored([cur.segments EXCEPT ![1] = rest]) = SegmentBytes(rest) \cup others
      BY <1>1, <1>2, <3>8, StoredReplace DEF others
    <3>10. SegmentBytes(rest) = Advanced..(Advanced + rest.length - 1)
      <4>1. rest.data \in Nat /\ rest.length \in Nat
        BY <3>6, <3>7
      <4> QED
        BY <3>7, <4>1, BytesInterval
    <3>11. SegmentBytes(rest) \cup 0..(Advanced - 1) = SegmentBytes(head) \cup 0..(next - 1)
      BY <3>5, <3>7, <3>10
    <3> QED
      BY <1>8, <1>10, <3>1, <3>9, <3>11
  <2> QED
    BY <2>1, <2>2, <2>3
<1>13. ASSUME NEW t \in Slots \ {c} PROVE HeldBytes(t)' = HeldBytes(t)
  BY <1>9 DEF HeldMeans
<1> QED
  BY <1>9, <1>12, <1>13, RefineStutter

\* Return delivers the gap-free bytes of the call, or nothing.
LEMMA RefineReturn ==
    ASSUME StreamInv, HeldMeans, HeldMeans', Return
    PROVE  Promise!Next \/ UNCHANGED Promise!chanVars
<1>0. PICK c \in Slots : c = call.slot
  BY DEF StreamInv, TypeOK, Call
<1>1. /\ TypeOK /\ call.pc # "idle" /\ streams' = streams
      /\ delivered'[c] = delivered[c] \o call.out
      /\ \A t \in Slots \ {c} : delivered'[t] = delivered[t]
      /\ delivered[c] \in Seq(Nat) /\ call.out \in Seq(Nat)
      /\ streams[c].in_use
  BY <1>0 DEF StreamInv, TypeOK, Call, Return, CallOnOpenStream
<1>2. \A t \in Slots : HeldBytes(t)' = HeldBytes(t)
  BY <1>1 DEF HeldMeans
<1> DEFINE n == Len(delivered[c]) + Len(call.out)
<1>3. /\ Len(delivered[c]) \in Nat /\ Len(call.out) \in Nat
      /\ Len(delivered'[c]) = n /\ streams[c].next_offset = n
  <2>1. Handed(c) = delivered[c] \o call.out
    BY <1>0, <1>1 DEF Handed
  <2>2. /\ Len(delivered[c]) \in Nat /\ Len(call.out) \in Nat
        /\ Len(delivered[c] \o call.out) = n
    BY <1>1, AppendProps
  <2>3. streams[c].next_offset = Len(Handed(c))
    BY <1>1 DEF StreamInv, DeliveredInOrder
  <2> QED
    BY <1>1, <2>1, <2>2, <2>3
<1>4. CASE Len(call.out) = 0
  <2>1. call.out = <<>>
    BY <1>1, <1>4
  <2>2. delivered'[c] = delivered[c]
    BY <1>1, <2>1, ConcatEmptySeq
  <2> QED
    BY <1>1, <1>2, <2>2, RefineStutter
<1>5. CASE Len(call.out) # 0
  <2>1. 0..(n - 1) \subseteq HeldBytes(c)
    BY <1>1, <1>3 DEF HeldMeans
  <2>2. n \in Nat /\ n > Len(delivered[c]) /\ n - 1 \in HeldBytes(c)
    <3>1. n \in Nat /\ n > Len(delivered[c]) /\ n - 1 \in 0..(n - 1)
      <4> DEFINE a == Len(delivered[c])
                 b == Len(call.out)
      <4>1. a \in Nat /\ b \in Nat /\ b # 0
        BY <1>3, <1>5
      <4> HIDE DEF a, b
      <4>2. a + b \in Nat /\ a + b > a /\ (a + b) - 1 \in 0..((a + b) - 1)
        BY <4>1
      <4> QED
        BY <4>2 DEF a, b
    <3> QED
      BY <2>1, <3>1
  <2> HIDE DEF n
  <2>3. n \in {p + 1 : p \in HeldBytes(c)}
    <3>1. n = (n - 1) + 1
      BY <2>2
    <3> QED
      BY <2>2, <3>1
  <2>4. [t \in Slots |-> IF streams'[t].in_use THEN Len(delivered'[t]) ELSE 0]
          = [[t \in Slots |-> IF streams[t].in_use THEN Len(delivered[t]) ELSE 0]
               EXCEPT ![c] = n]
    <3> DEFINE before(t) == IF streams[t].in_use THEN Len(delivered[t]) ELSE 0
               after(t) == IF streams'[t].in_use THEN Len(delivered'[t]) ELSE 0
    <3>1. after(c) = n /\ \A t \in Slots \ {c} : after(t) = before(t)
      BY <1>1, <1>3
    <3> HIDE DEF before, after
    <3>2. [t \in Slots |-> after(t)] = [[t \in Slots |-> before(t)] EXCEPT ![c] = n]
      BY <3>1
    <3> QED
      BY <3>2 DEF before, after
  <2>5. Promise!Deliver(c)
    BY <1>1, <1>2, <2>1, <2>2, <2>3, <2>4 DEF Promise!Deliver
  <2> QED
    BY <2>5 DEF Promise!Next
<1> QED
  BY <1>3, <1>4, <1>5

\* A call that fails for want of memory has opened the stream or done nothing.
LEMMA RefineNoMemory ==
    ASSUME StreamInv, HeldMeans, HeldMeans', NEW id \in StreamIds, OnDataNoMemory(id)
    PROVE  Promise!Next \/ UNCHANGED Promise!chanVars
<1>0. TypeOK
  BY DEF StreamInv
<1>1. PICK s \in FoundOrCreated(id) :
        /\ streams' = [streams EXCEPT ![s] = Opened(s, id)]
        /\ delivered' = [delivered EXCEPT ![s] = DeliveredTo(s)]
  BY DEF OnDataNoMemory
<1>2. s \in Slots
  BY <1>0, LookupProps
<1>3. CASE streams[s].in_use
  <2>1. streams' = streams /\ delivered' = delivered
    BY <1>0, <1>1, <1>2, <1>3 DEF Opened, DeliveredTo, TypeOK
  <2>2. \A t \in Slots : HeldBytes(t)' = HeldBytes(t)
    BY <2>1 DEF HeldMeans
  <2> QED
    BY <2>1, <2>2, RefineStutter
<1>4. CASE ~streams[s].in_use
  <2>1. /\ streams'[s].in_use = TRUE /\ streams'[s].next_offset = 0
        /\ streams'[s].segments = <<>> /\ delivered'[s] = <<>>
        /\ \A t \in Slots \ {s} : /\ streams'[t] = streams[t]
                                  /\ streams'[t].in_use = streams[t].in_use
                                  /\ delivered'[t] = delivered[t]
    BY <1>0, <1>1, <1>2, <1>4 DEF Opened, DeliveredTo, TypeOK
  <2>2. HeldBytes(s)' = {} /\ \A t \in Slots \ {s} : HeldBytes(t)' = HeldBytes(t)
    <3>1. Stored(<<>>) = {} /\ 0..(0 - 1) = {}
      BY EmptyProps DEF Stored
    <3>2. HeldBytes(s)' = Stored(<<>>) \cup 0..(0 - 1)
      BY <1>2, <2>1 DEF HeldMeans
    <3> QED
      BY <2>1, <3>1, <3>2, ZenonT(30) DEF HeldMeans
  <2>3. [t \in Slots |-> streams'[t].in_use]
          = [[t \in Slots |-> streams[t].in_use] EXCEPT ![s] = TRUE]
    BY <1>2, <2>1
  <2>4. [t \in Slots |-> HeldBytes(t)']
          = [[t \in Slots |-> HeldBytes(t)] EXCEPT ![s] = {}]
    BY <1>2, <2>2
  <2>5. [t \in Slots |-> IF streams'[t].in_use THEN Len(delivered'[t]) ELSE 0]
          = [[t \in Slots |-> IF streams[t].in_use THEN Len(delivered[t]) ELSE 0]
               EXCEPT ![s] = 0]
    <3> DEFINE before(t) == IF streams[t].in_use THEN Len(delivered[t]) ELSE 0
               after(t) == IF streams'[t].in_use THEN Len(delivered'[t]) ELSE 0
    <3>1. after(s) = 0 /\ \A t \in Slots \ {s} : after(t) = before(t)
      BY <2>1, EmptyProps
    <3> HIDE DEF before, after
    <3>2. [t \in Slots |-> after(t)] = [[t \in Slots |-> before(t)] EXCEPT ![s] = 0]
      BY <1>2, <3>1
    <3> QED
      BY <3>2 DEF before, after
  <2>6. {} \in SUBSET (0..(StreamLen - 1))
    OBVIOUS
  <2>7. Promise!Open(s)
    BY <1>2, <1>4, <2>3, <2>4, <2>5, <2>6 DEF Promise!Open
  <2> QED
    BY <1>2, <2>7 DEF Promise!Next
<1> QED
  BY <1>3, <1>4

\* quic_stream_reset starts the stream again.
LEMMA RefineReset ==
    ASSUME StreamInv, HeldMeans, HeldMeans', NEW id \in StreamIds, Reset(id)
    PROVE  Promise!Next
<1>0. TypeOK
  BY DEF StreamInv
<1>1. PICK s \in Slots :
        /\ streams[s].in_use
        /\ streams' = [streams EXCEPT ![s].segments = <<>>, ![s].next_offset = 0]
        /\ delivered' = [delivered EXCEPT ![s] = <<>>]
  BY DEF Reset, Lowest, Matches
<1>2. /\ \A t \in Slots : streams'[t].in_use = streams[t].in_use
      /\ streams'[s].segments = <<>> /\ streams'[s].next_offset = 0
      /\ delivered'[s] = <<>> /\ Len(delivered'[s]) = 0
      /\ \A t \in Slots \ {s} : streams'[t] = streams[t] /\ delivered'[t] = delivered[t]
  BY <1>0, <1>1, EmptyProps DEF TypeOK, Stream
<1>3. HeldBytes(s)' = {} /\ \A t \in Slots \ {s} : HeldBytes(t)' = HeldBytes(t)
  <2>1. Stored(<<>>) = {} /\ 0..(0 - 1) = {}
    BY EmptyProps DEF Stored
  <2>2. HeldBytes(s)' = Stored(<<>>) \cup 0..(0 - 1)
    BY <1>1, <1>2 DEF HeldMeans
  <2> QED
    BY <1>2, <2>1, <2>2 DEF HeldMeans
<1>4. [t \in Slots |-> HeldBytes(t)'] = [[t \in Slots |-> HeldBytes(t)] EXCEPT ![s] = {}]
  BY <1>1, <1>3
<1>5. [t \in Slots |-> IF streams'[t].in_use THEN Len(delivered'[t]) ELSE 0]
        = [[t \in Slots |-> IF streams[t].in_use THEN Len(delivered[t]) ELSE 0]
             EXCEPT ![s] = 0]
  <2> DEFINE before(t) == IF streams[t].in_use THEN Len(delivered[t]) ELSE 0
             after(t) == IF streams'[t].in_use THEN Len(delivered'[t]) ELSE 0
  <2>1. after(s) = 0 /\ \A t \in Slots \ {s} : after(t) = before(t)
    BY <1>2
  <2> HIDE DEF before, after
  <2>2. [t \in Slots |-> after(t)] = [[t \in Slots |-> before(t)] EXCEPT ![s] = 0]
    BY <1>1, <2>1
  <2> QED
    BY <2>2 DEF before, after
<1>6. Promise!Restart(s)
  <2>1. [t \in Slots |-> streams'[t].in_use] = [t \in Slots |-> streams[t].in_use]
    BY <1>2
  <2>2. [t \in Slots |-> streams[t].in_use][s]
    BY <1>1
  <2> QED
    BY <1>4, <1>5, <2>1, <2>2 DEF Promise!Restart
<1> QED
  BY <1>1, <1>6 DEF Promise!Next

\* quic_stream_manager_destroy frees every channel.
LEMMA RefineDestroy ==
    ASSUME StreamInv, HeldMeans, HeldMeans', Destroy
    PROVE  Promise!Next
<1>1. \A t \in Slots : streams'[t].in_use = FALSE
  BY DEF Destroy, StreamInv, TypeOK, Stream
<1>2. \A t \in Slots : HeldBytes(t)' = {}
  BY <1>1 DEF HeldMeans
<1>3. Promise!CloseAll
  BY <1>1, <1>2 DEF Promise!CloseAll
<1> QED
  BY <1>3 DEF Promise!Next

\* For streams shorter than 2^32 bytes the stream manager, with its lists, trimmed
\* segments and bounded output buffers, implements in-order delivery: every step
\* of a call is a step of the promise or invisible to it.
THEOREM Refinement ==
    ASSUME StreamLen < OffsetMod
    PROVE  Spec => ImplementsInOrderDelivery
<1>1. Spec => []StreamInv
  BY InvInit, InvStep, PTL DEF Spec
<1>2. Init => Promise!Init
  <2> SUFFICES ASSUME Init PROVE Promise!Init
    OBVIOUS
  <2>1. \A s \in Slots : streams[s].in_use = FALSE /\ HeldBytes(s) = {}
    BY DEF Init, FreshStream, HeldBytes
  <2> QED
    BY <2>1 DEF Promise!Init
<1>3. StreamInv /\ HeldMeans /\ HeldMeans' /\ [Next]_vars => [Promise!Next]_(Promise!chanVars)
  <2> SUFFICES ASSUME StreamInv, HeldMeans, HeldMeans', [Next]_vars
               PROVE  Promise!Next \/ UNCHANGED Promise!chanVars
    OBVIOUS
  <2>1. ASSUME UNCHANGED vars PROVE UNCHANGED Promise!chanVars
    <3>1. streams' = streams /\ delivered' = delivered
      BY <2>1 DEF vars
    <3>2. \A t \in Slots : HeldBytes(t)' = HeldBytes(t)
      BY <3>1 DEF HeldMeans
    <3> QED
      BY <3>1, <3>2, RefineStutter
  <2>2. ASSUME NEW id \in StreamIds, OnDataNoSlot(id) PROVE UNCHANGED Promise!chanVars
    BY <2>1, <2>2 DEF OnDataNoSlot
  <2> QED
    BY <2>1, <2>2, RefineOnData, RefineConsume, RefineReturn, RefineNoMemory,
       RefineReset, RefineDestroy DEF Next
<1> QED
  BY <1>1, <1>2, <1>3, HeldCharacterised, PTL
     DEF Spec, ImplementsInOrderDelivery, Promise!Spec

=============================================================================
