----------------------------- MODULE QuicStream -----------------------------
(***************************************************************************)
(* The stream manager of one QUIC connection (src/server/quic_stream.c):   *)
(* a fixed table of streams, each a linked list of the segments received   *)
(* out of order and the offset of the next byte to hand to the caller.     *)
(*                                                                         *)
(* A call of quic_stream_on_data is modelled one loop iteration at a time: *)
(* OnData looks the stream up and inserts the segment, the Consume actions *)
(* are the iterations of consume_segments, and Return is the return to the *)
(* caller with the bytes written into its buffer.                          *)
(*                                                                         *)
(* The bytes of a stream are named by their position in what the peer      *)
(* wrote: a segment's buffer holds the bytes data, data+1, ...,            *)
(* data+length-1, whatever offset the list believes it has.                *)
(***************************************************************************)
EXTENDS Integers, Sequences

CONSTANTS
    StreamIds,   \* stream identifiers a peer may use
    MaxStreams,  \* QUIC_STREAM_MAX_STREAMS
    StreamLen,   \* bytes the peer writes on one stream
    MaxPayload,  \* QUIC_MAX_PAYLOAD: bytes one packet carries at most
    OutBufSize,  \* out_buf_size: the caller's buffer
    OffsetMod,   \* 2^32: offsets are uint32_t
    MaxStored    \* bound of the model: segments stored on one stream

ASSUME StreamAssumption ==
    /\ MaxStreams \in Nat \ {0}
    /\ StreamLen \in Nat
    /\ MaxPayload \in Nat
    /\ OutBufSize \in Nat \ {0}
    /\ OffsetMod \in Nat \ {0}
    /\ StreamLen <= OffsetMod
    /\ MaxStored \in Nat
    /\ StreamIds # {}

VARIABLES
    streams,     \* quic_stream_manager_t.streams
    call,        \* the quic_stream_on_data call in progress
    delivered    \* history: bytes returned for a slot since it was (re)started

vars == <<streams, call, delivered>>

Slots == 1..MaxStreams

\* quic_stream_segment_t; data is the stream position of the buffer's first byte.
Segment == [offset : 0..OffsetMod-1, length : 1..StreamLen, data : Nat]

\* quic_stream_state_t.
Stream == [in_use : BOOLEAN, stream_id : StreamIds, next_offset : 0..OffsetMod-1,
           segments : Seq(Segment)]

\* Locals of quic_stream_on_data: "loop" while consume_segments runs, "break"
\* once it left its loop by break, "idle" between calls.
Call == [pc : {"idle", "loop", "break"}, slot : Slots,
         out_offset : 0..OffsetMod-1, out : Seq(Nat)]

TypeOK ==
    /\ streams \in [Slots -> Stream]
    /\ call \in Call
    /\ Len(call.out) <= OutBufSize
    /\ delivered \in [Slots -> Seq(Nat)]

NoCall == [pc |-> "idle", slot |-> 1, out_offset |-> 0, out |-> <<>>]

AnyId == CHOOSE id \in StreamIds : TRUE

\* quic_stream_manager_init: memset to zero (the zeroed stream_id is not read
\* while in_use is 0).
FreshStream == [in_use |-> FALSE, stream_id |-> AnyId, next_offset |-> 0,
                segments |-> <<>>]

Init ==
    /\ streams = [s \in Slots |-> FreshStream]
    /\ call = NoCall
    /\ delivered = [s \in Slots |-> <<>>]

-----------------------------------------------------------------------------
(* Looking a stream up and inserting a segment.                            *)

Matches(id) == {s \in Slots : streams[s].in_use /\ streams[s].stream_id = id}

Unused == {s \in Slots : ~streams[s].in_use}

\* The slot a scan in index order stops at, as a set: {} when there is none.
Lowest(S) == {s \in S : \A t \in S : s <= t}

\* Mutant: a free slot is preferred to the stream's own.
FoundOrCreated_FreeFirst(id) ==
    IF Unused # {} THEN Lowest(Unused) ELSE Lowest(Matches(id))

\* The slot find_or_create_stream returns; {} when the table is full.
FoundOrCreated(id) ==
    IF Matches(id) # {} THEN Lowest(Matches(id)) ELSE Lowest(Unused)

\* Mutant: a reused slot keeps the next_offset of the stream before.
Opened_KeepsOffset(s, id) ==
    IF streams[s].in_use THEN streams[s]
    ELSE [streams[s] EXCEPT !.in_use = TRUE, !.stream_id = id, !.segments = <<>>]

\* What find_or_create_stream leaves in that slot.
Opened(s, id) ==
    IF streams[s].in_use THEN streams[s]
    ELSE [in_use |-> TRUE, stream_id |-> id, next_offset |-> 0, segments |-> <<>>]

\* The bytes returned so far for the slot, started afresh by a new stream.
DeliveredTo(s) == IF streams[s].in_use THEN delivered[s] ELSE <<>>

\* Mutant: a new segment always goes to the end of the list.
IsInsertPoint_Append(segs, k, offset) == k = Len(segs) + 1

\* insert_segment: before the first segment whose offset is not smaller.
IsInsertPoint(segs, k, offset) ==
    /\ \A j \in 1..(k - 1) : segs[j].offset < offset
    /\ k <= Len(segs) => segs[k].offset >= offset

InsertAtPoint(segs, k, seg) ==
    [i \in 1..(Len(segs) + 1) |->
        IF i < k THEN segs[i] ELSE IF i = k THEN seg ELSE segs[i - 1]]

\* quic_stream_on_data up to and including insert_segment. The payload is the
\* bytes pos .. pos+len-1 of the stream, carried at wire offset pos mod 2^32.
OnData(id, pos, len) ==
    /\ call.pc = "idle"
    /\ pos + len <= StreamLen
    /\ \E s \in FoundOrCreated(id) :
         LET st  == Opened(s, id)
             seg == [offset |-> pos % OffsetMod, length |-> len, data |-> pos]
         IN /\ Len(st.segments) < MaxStored
            /\ \E k \in 1..(Len(st.segments) + 1) :
                 /\ IsInsertPoint(st.segments, k, seg.offset)
                 /\ streams' = [streams EXCEPT ![s] =
                        [st EXCEPT !.segments = InsertAtPoint(st.segments, k, seg)]]
            /\ call' = [pc |-> "loop", slot |-> s,
                        out_offset |-> st.next_offset, out |-> <<>>]
            /\ delivered' = [delivered EXCEPT ![s] = DeliveredTo(s)]

\* insert_segment runs out of memory: the call fails after the stream was opened.
OnDataNoMemory(id) ==
    /\ call.pc = "idle"
    /\ \E s \in FoundOrCreated(id) :
         /\ streams' = [streams EXCEPT ![s] = Opened(s, id)]
         /\ delivered' = [delivered EXCEPT ![s] = DeliveredTo(s)]
    /\ UNCHANGED call

\* find_or_create_stream returns NULL: the call fails and changes nothing.
OnDataNoSlot(id) ==
    /\ call.pc = "idle"
    /\ FoundOrCreated(id) = {}
    /\ UNCHANGED vars

-----------------------------------------------------------------------------
(* The iterations of consume_segments on the stream of the current call.   *)

cur  == streams[call.slot]
head == cur.segments[1]

\* Mutant: only segments that overlap what was returned are looked at.
LoopCondition_Strict(st) ==
    st.segments # <<>> /\ st.segments[1].offset < st.next_offset

\* The loop condition: a first segment that starts at or before next_offset.
LoopCondition(st) == st.segments # <<>> /\ st.segments[1].offset <= st.next_offset

\* Mutant: the overlap with the bytes already returned is not skipped.
start_Ignored == 0

\* Bytes of the first segment that were returned before.
start == IF cur.next_offset > head.offset THEN cur.next_offset - head.offset ELSE 0

remaining == head.length - start

to_copy == IF remaining > OutBufSize - Len(call.out)
           THEN OutBufSize - Len(call.out) ELSE remaining

\* memcpy(out_buf + written, seg->data + start, to_copy).
Copied == [k \in 1..to_copy |-> head.data + start + k - 1]

Advanced == (cur.next_offset + to_copy) % OffsetMod

\* Mutant: a segment that overlaps the returned bytes at all is freed.
ConsumeStale_AnyOverlap ==
    /\ call.pc = "loop" /\ LoopCondition(cur)
    /\ start > 0
    /\ streams' = [streams EXCEPT ![call.slot].segments = Tail(@)]
    /\ UNCHANGED <<call, delivered>>

\* Every byte of the first segment was already returned: it is freed.
ConsumeStale ==
    /\ call.pc = "loop" /\ LoopCondition(cur)
    /\ start >= head.length
    /\ streams' = [streams EXCEPT ![call.slot].segments = Tail(@)]
    /\ UNCHANGED <<call, delivered>>

\* The rest of the first segment fits in the buffer: copied and freed.
ConsumeWhole ==
    /\ call.pc = "loop" /\ LoopCondition(cur)
    /\ start < head.length
    /\ start + to_copy >= head.length
    /\ streams' = [streams EXCEPT ![call.slot].segments = Tail(@),
                                  ![call.slot].next_offset = Advanced]
    /\ call' = [call EXCEPT !.out = @ \o Copied]
    /\ UNCHANGED delivered

\* Mutant: one byte too many is cut off a partly consumed segment.
Trimmed_OneTooMany(seg, consumed) ==
    [offset |-> (seg.offset + consumed) % OffsetMod,
     length |-> seg.length - consumed - 1,
     data   |-> seg.data + consumed]

\* The segment once its first consumed bytes are moved out of its buffer.
Trimmed(seg, consumed) ==
    [offset |-> (seg.offset + consumed) % OffsetMod,
     length |-> seg.length - consumed,
     data   |-> seg.data + consumed]

\* The buffer fills up inside the first segment: what is left stays stored.
ConsumePart ==
    /\ call.pc = "loop" /\ LoopCondition(cur)
    /\ start < head.length
    /\ start + to_copy < head.length
    /\ streams' = [streams EXCEPT
            ![call.slot].segments = [@ EXCEPT ![1] = Trimmed(head, start + to_copy)],
            ![call.slot].next_offset = Advanced]
    /\ call' = [call EXCEPT !.out = @ \o Copied, !.pc = "break"]
    /\ UNCHANGED delivered

\* The call returns 0 with out_offset and the bytes written.
Return ==
    /\ \/ call.pc = "loop" /\ ~LoopCondition(cur)
       \/ call.pc = "break"
    /\ delivered' = [delivered EXCEPT ![call.slot] = @ \o call.out]
    /\ call' = NoCall
    /\ UNCHANGED streams

-----------------------------------------------------------------------------
(* The rest of the interface. The manager is not used while a call runs.   *)

\* quic_stream_reset; it fails when no stream in use has this identifier.
Reset(id) ==
    /\ call.pc = "idle"
    /\ \E s \in Lowest(Matches(id)) :
         /\ streams' = [streams EXCEPT ![s].segments = <<>>, ![s].next_offset = 0]
         /\ delivered' = [delivered EXCEPT ![s] = <<>>]
    /\ UNCHANGED call

\* quic_stream_manager_destroy: the connection is closed.
Destroy ==
    /\ call.pc = "idle"
    /\ \E s \in Slots : streams[s].in_use
    /\ streams' = [s \in Slots |->
            IF streams[s].in_use
            THEN [streams[s] EXCEPT !.segments = <<>>, !.in_use = FALSE]
            ELSE streams[s]]
    /\ UNCHANGED <<call, delivered>>

Consume == ConsumeStale \/ ConsumeWhole \/ ConsumePart \/ Return

Next ==
    \/ \E id \in StreamIds, pos \in 0..StreamLen-1, len \in 1..MaxPayload :
         OnData(id, pos, len)
    \/ \E id \in StreamIds : OnDataNoMemory(id)
    \/ \E id \in StreamIds : OnDataNoSlot(id)
    \/ ConsumeStale
    \/ ConsumeWhole
    \/ ConsumePart
    \/ Return
    \/ \E id \in StreamIds : Reset(id)
    \/ Destroy

Spec == Init /\ [][Next]_vars

\* The thread that called quic_stream_on_data keeps running.
FairSpec == Spec /\ WF_vars(Consume)

-----------------------------------------------------------------------------
(* Properties.                                                             *)

\* Everything handed to the caller for slot s, the current call included.
Handed(s) ==
    IF call.pc # "idle" /\ call.slot = s THEN delivered[s] \o call.out
    ELSE delivered[s]

\* In whatever order, overlap and number of copies segments arrive, and wherever
\* the caller's buffer cuts them, consume_segments hands out the stream's bytes
\* in order, each exactly once, and next_offset counts them.
DeliveredInOrder ==
    \A s \in Slots : streams[s].in_use =>
        /\ \A i \in 1..Len(Handed(s)) : Handed(s)[i] = i - 1
        /\ streams[s].next_offset = Len(Handed(s))

\* The out_offset quic_stream_on_data reports is the position of the first byte
\* it returns, even when the call only trims what an earlier call left behind.
ReportedOffsetIsFirstByte ==
    call.pc # "idle" => call.out_offset = Len(delivered[call.slot])

\* The segment list: those that start at or before next_offset come first, the
\* others follow in ascending order. A partly consumed first segment breaks the
\* plain ascending order, and the loop of consume_segments, which stops at the
\* first segment beyond next_offset, needs exactly this much.
SegmentOrder ==
    \A s \in Slots : \A i, j \in 1..Len(streams[s].segments) :
        i < j => \/ streams[s].segments[i].offset <= streams[s].next_offset
                 \/ streams[s].segments[i].offset <= streams[s].segments[j].offset

\* No two slots carry the same stream: the scan for a match and the scan for a
\* free slot of find_or_create_stream never open one identifier twice, whatever
\* streams were opened, failed half way and closed before.
SlotsAreDistinct ==
    \A s, t \in Slots :
        (streams[s].in_use /\ streams[t].in_use
            /\ streams[s].stream_id = streams[t].stream_id) => s = t

\* Stored segments are genuine: the offset the list works with is the position
\* of the first byte in the buffer, also after memmove trimmed it.
SegmentsGenuine ==
    \A s \in Slots : \A i \in 1..Len(streams[s].segments) :
        LET seg == streams[s].segments[i]
        IN seg.data = seg.offset /\ seg.offset + seg.length <= StreamLen

\* A call in progress works on a stream that is in use.
CallOnOpenStream == call.pc # "idle" => streams[call.slot].in_use

\* The inductive invariant behind DeliveredInOrder.
StreamInv ==
    /\ TypeOK
    /\ SegmentsGenuine
    /\ CallOnOpenStream
    /\ DeliveredInOrder
    /\ ReportedOffsetIsFirstByte

\* A call that returns without filling the caller's buffer leaves nothing
\* deliverable behind: every stored segment starts beyond next_offset.
DrainedUnlessFull ==
    [][(call.pc # "idle" /\ call'.pc = "idle" /\ Len(call.out) < OutBufSize) =>
          \A i \in 1..Len(cur.segments) :
              cur.segments[i].offset > cur.next_offset]_vars

\* A duplicate segment emits no byte a second time (tests/quic_stream_test.c).
NoByteTwice ==
    \A s \in Slots : streams[s].in_use =>
        \A i, j \in 1..Len(Handed(s)) : i # j => Handed(s)[i] # Handed(s)[j]

SegmentBytes(seg) == {seg.data + k : k \in 0..(seg.length - 1)}

\* Every byte of slot s that is stored or was handed out.
HeldBytes(s) ==
    IF ~streams[s].in_use THEN {}
    ELSE (UNION {SegmentBytes(streams[s].segments[i]) :
                    i \in 1..Len(streams[s].segments)})
         \cup {Handed(s)[i] : i \in 1..Len(Handed(s))}

Promise == INSTANCE InOrderDelivery WITH
    Channels  <- Slots,
    Positions <- 0..(StreamLen - 1),
    live      <- [s \in Slots |-> streams[s].in_use],
    accepted  <- [s \in Slots |-> HeldBytes(s)],
    count     <- [s \in Slots |-> IF streams[s].in_use THEN Len(delivered[s]) ELSE 0]

\* The manager implements in-order delivery: no accepted byte is ever dropped,
\* not by freeing a stale segment, not by trimming one, and only gap-free
\* prefixes are returned.
ImplementsInOrderDelivery == Promise!Spec

\* Once every byte of a stream was accepted they are all returned to the caller
\* ("reliable data transfer", docs/DEVELOPMENT_PLANv1.md).
AcceptedIsDelivered ==
    \A s \in Slots :
        (streams[s].in_use /\ HeldBytes(s) = 0..(StreamLen - 1))
            ~> (~streams[s].in_use \/ Len(delivered[s]) = StreamLen
                  \/ HeldBytes(s) = {})
=============================================================================
