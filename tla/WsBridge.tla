------------------------------ MODULE WsBridge ------------------------------
(***************************************************************************)
(* The WebSocket connections (src/server/websocket.c): one client_worker   *)
(* per connection runs websocket_handle_client, which shakes hands, reads  *)
(* frames and answers the commands in them. All workers share              *)
(* websocket_context_t: the number of the next QUIC packet and the counts  *)
(* of segments sent, under ctx->lock, which no command holds for long.     *)
(*                                                                         *)
(* A frame is written in two pieces to a socket with a send timeout of five*)
(* seconds, so a write ends in one of three ways: the whole frame is in    *)
(* the stream, nothing of it, or a part. Whatever the way, the loop goes   *)
(* on until a read fails. What a client sends is the record of the JSON    *)
(* fields of its text. Commands that query the database and answer are one *)
(* kind here; what they do to it is in VideoStore and Session.             *)
(***************************************************************************)
EXTENDS Integers, Sequences, FiniteSets

CONSTANTS
    Workers,      \* the workers, one WebSocket connection each
    Texts,        \* the text messages the client of each worker sends
    MaxCommands,  \* bound: the frames a client sends, per connection
    MaxPayload,   \* QUIC_MAX_PAYLOAD
    Modulus,      \* 2^32, the modulus of offsets and lengths
    FilePath,     \* the rows of videos: identifier -> file_path, as path components
    Disk,         \* the video files: path -> bytes
    Segments,     \* identifier -> segments in data/segments/<id>
    InfoMax,      \* segments whose segment_info.json stays below 1 MB
    CountMax      \* 1000, where the counting of segment files ends

ASSUME BridgeAssumption ==
    /\ IsFiniteSet(Workers)
    /\ MaxCommands \in [Workers -> Nat]
    /\ \A w \in Workers : \A text \in Texts[w] :
         \A f \in {"offset", "length"} \cap DOMAIN text : text[f] \in Nat
    /\ MaxPayload \in Nat \ {0} /\ Modulus \in Nat \ {0}
    /\ DOMAIN Disk \subseteq Seq(STRING) /\ \A p \in DOMAIN Disk : Disk[p] \in Nat
    /\ \A v \in DOMAIN Segments : Segments[v] \in Nat
    /\ InfoMax \in Nat /\ CountMax \in Nat

VARIABLES
    con,                 \* per worker: where it is, and the locals of its command
    wire,                \* per worker: the frames written since it last read one
    next_packet_number,  \* ctx->next_packet_number
    segment_sent_ok,     \* ctx->segment_sent_ok
    segment_sent_fail,   \* ctx->segment_sent_fail
    stored,              \* the videos that have not been deleted
    sent,                \* history: the packets the engine sent for the workers
    asked,               \* history: the segments asked for
    written,             \* history: the segments written whole
    disturbed            \* history: numbers were taken beside a chunk, or a chunk failed

ctx == <<next_packet_number, segment_sent_ok, segment_sent_fail>>
vars == <<con, wire, next_packet_number, segment_sent_ok, segment_sent_fail,
          stored, sent, asked, written, disturbed>>
hist == <<sent, asked, written, disturbed>>

Places == {"connect", "read", "init", "info", "segment", "count", "number", "send",
           "chunk", "writeback", "reply", "echo", "closed"}

\* A frame in the stream to a client: its kind (texts are not told apart) and
\* whether all of it was written.
Frame(kind, whole) == [kind |-> kind, whole |-> whole]

\* How write_all ends: everything is written, a part, or nothing.
Outcomes == {"whole", "part", "none"}

\* ws_send_frame on w's socket.
ws_send_frame(w, kind, outcome) ==
    wire' = IF outcome = "none" THEN wire
            ELSE [wire EXCEPT ![w] = Append(@, Frame(kind, outcome = "whole"))]

NoText == [type |-> "none"]

\* A connection before its request is read. n counts the commands read; reply is
\* the text that answers the command; cut records that a read of the file returned
\* nothing; the rest are locals of handle_text_frame and send_video_chunk.
Fresh == [pc |-> "connect", n |-> 0, cmd |-> NoText, reply |-> "none", retries |-> 0,
          sent_whole |-> FALSE, next_pn |-> 0, sent_bytes |-> 0, remaining |-> 0,
          cut |-> FALSE]

\* Mutant: the context is only zeroed.
Init_Zeroed ==
    /\ con = [w \in Workers |-> Fresh]
    /\ wire = [w \in Workers |-> <<>>]
    /\ next_packet_number = 0
    /\ segment_sent_ok = 0 /\ segment_sent_fail = 0
    /\ stored = DOMAIN Segments \cup DOMAIN FilePath
    /\ sent = {} /\ asked = 0 /\ written = 0 /\ disturbed = FALSE

\* websocket_context_init; every worker has been given a client.
Init ==
    /\ con = [w \in Workers |-> Fresh]
    /\ wire = [w \in Workers |-> <<>>]
    /\ next_packet_number = 1
    /\ segment_sent_ok = 0 /\ segment_sent_fail = 0
    /\ stored = DOMAIN Segments \cup DOMAIN FilePath
    /\ sent = {} /\ asked = 0 /\ written = 0 /\ disturbed = FALSE

Close(w) == con' = [con EXCEPT ![w] = [Fresh EXCEPT !.pc = "closed", !.n = con[w].n]]
Goto(w, pc) == con' = [con EXCEPT ![w].pc = pc]
Answer(w, msg) == con' = [con EXCEPT ![w].pc = "reply", ![w].reply = msg]

-----------------------------------------------------------------------------
(* The frame loop, websocket_handle_client.                                *)

\* The request is malformed, is answered as HTTP, or the answer cannot be sent.
HandshakeFails(w) ==
    /\ con[w].pc = "connect"
    /\ Close(w)
    /\ UNCHANGED <<wire, ctx, stored, hist>>

\* 101 Switching Protocols and the message "ready" are sent.
Handshake(w) ==
    /\ con[w].pc = "connect"
    /\ ws_send_frame(w, "text", "whole")
    /\ Goto(w, "read")
    /\ UNCHANGED <<ctx, stored, hist>>

\* The peer closes, five seconds pass in silence, or the frame is too large.
ReadFails(w) ==
    /\ con[w].pc = "read"
    /\ Close(w)
    /\ UNCHANGED <<wire, ctx, stored, hist>>

\* What a frame that is no text is answered by: binary frames come back, and
\* continuation frames as text; close and unknown opcodes end the loop.
ControlAnswer == [continuation |-> "text", binary |-> "binary", ping |-> "pong",
                  close |-> "close", unknown |-> "close"]

ReadControl(w) ==
    \E opcode \in DOMAIN ControlAnswer, outcome \in Outcomes :
      /\ con[w].pc = "read"
      /\ con[w].n < MaxCommands[w]
      /\ wire' = [wire EXCEPT ![w] = IF outcome = "none" THEN <<>>
                     ELSE << Frame(ControlAnswer[opcode], outcome = "whole") >>]
      /\ con' = [con EXCEPT ![w] = [Fresh EXCEPT !.n = con[w].n + 1,
                    !.pc = IF opcode \in {"close", "unknown"} THEN "closed" ELSE "read"]]
      /\ UNCHANGED <<ctx, stored, hist>>

\* Commands that query the database, and are answered by what they find or by an
\* error: which, no property tells apart.
Listing == {"list_videos", "list_continue", "video_detail"}
Opening == {"stream_start"}
Watching == {"watch_get", "watch_update"}

\* The fields parse_command insists on; the others have defaults.
Required == [ping |-> {}, list_videos |-> {}, list_continue |-> {},
             quic_send |-> {"connection_id"},
             video_detail |-> {"video_id"}, stream_start |-> {"video_id"},
             watch_get |-> {"video_id"}, watch_update |-> {"video_id", "position"},
             stream_chunk |-> {"video_id", "offset", "length", "connection_id"},
             ws_init |-> {"video_id"}, ws_segment |-> {"video_id", "segment"}]

\* The field is there; a 32-bit field out of range counts as missing.
HasField(text, f) == f \in DOMAIN text /\ (f \in {"offset", "length"} => text[f] < Modulus)

parse_command(text) ==
    /\ text.type \in DOMAIN Required
    /\ \A f \in Required[text.type] : HasField(text, f)

\* Where handle_text_frame takes a text.
PlaceOf(text) ==
    IF ~parse_command(text) \/ text.type \in {"ping"} \cup Listing \cup Opening \cup Watching
    THEN "reply"
    ELSE [ws_init |-> "init", ws_segment |-> "segment",
          quic_send |-> "number", stream_chunk |-> "number"][text.type]

\* A text frame arrives.
ReadCommand(w, text) ==
    LET place == PlaceOf(text)
    IN /\ con[w].pc = "read"
       /\ con[w].n < MaxCommands[w]
       /\ con' = [con EXCEPT ![w] = [Fresh EXCEPT !.pc = place, !.n = con[w].n + 1,
                    !.cmd = text, !.reply = IF place = "reply" THEN "answer" ELSE "none"]]
       /\ asked' = IF place = "segment" THEN asked + 1 ELSE asked
       /\ wire' = [wire EXCEPT ![w] = <<>>]
       /\ UNCHANGED <<ctx, stored, sent, written, disturbed>>

\* Mutant: the answer is sent twice.
Reply_SentTwice(w) ==
    \E outcome \in Outcomes :
      /\ con[w].pc = "reply"
      /\ wire' = [wire EXCEPT ![w] = @ \o
                    << Frame("text", outcome = "whole"),
                       Frame("text", TRUE) >>]
      /\ Goto(w, IF outcome = "whole" THEN "read" ELSE "echo")
      /\ UNCHANGED <<ctx, stored, hist>>

\* The command is answered by one text; its result is handle_text_frame's.
Reply(w) ==
    \E outcome \in Outcomes :
      /\ con[w].pc = "reply"
      /\ ws_send_frame(w, "text", outcome)
      /\ Goto(w, IF outcome = "whole" THEN "read" ELSE "echo")
      /\ UNCHANGED <<ctx, stored, hist>>

\* handle_text_frame failed: the client's own text is sent back.
Echo(w) ==
    \E outcome \in Outcomes :
      /\ con[w].pc = "echo"
      /\ ws_send_frame(w, "text", outcome)
      /\ Goto(w, "read")
      /\ UNCHANGED <<ctx, stored, hist>>

-----------------------------------------------------------------------------
(* WS_INIT and WS_SEGMENT: files of data/segments/<id> as binary frames.   *)

\* send_ws_file: a file that is missing or empty is not sent. The last argument
\* tells whether the call succeeds.
send_ws_file(w, present, magic, outcome, rc) ==
    /\ present \/ outcome = "none"
    /\ ws_send_frame(w, magic, outcome)
    /\ rc = (outcome = "whole")

\* INIT, or the text "init-missing" when that fails.
SendInit(w) ==
    \E outcome \in Outcomes, rc \in BOOLEAN :
      LET v == con[w].cmd.video_id
      IN /\ con[w].pc = "init"
         /\ send_ws_file(w, v \in stored \cap DOMAIN Segments, "INIT", outcome, rc)
         /\ IF rc THEN Goto(w, "info") ELSE Answer(w, "init-missing")
         /\ UNCHANGED <<ctx, stored, hist>>

\* The first segment file that is missing; with none missing below CountMax, 0.
CountedSegments(v) == IF Segments[v] < CountMax THEN Segments[v] ELSE 0

\* total_segments in the answer to ws_init: from segment_info.json if that is not
\* too large, or else counted. None are left when the video was deleted since.
TotalSegments(v) ==
    IF v \notin stored THEN 0
    ELSE IF Segments[v] <= InfoMax THEN Segments[v] ELSE CountedSegments(v)

\* The text "ws_init" with total_segments, here in remaining.
ReadInfo(w) ==
    /\ con[w].pc = "info"
    /\ con' = [con EXCEPT ![w].pc = "reply", ![w].reply = "ws_init",
                 ![w].remaining = TotalSegments(con[w].cmd.video_id)]
    /\ UNCHANGED <<wire, ctx, stored, hist>>

\* Mutant: a failed attempt is not counted.
SendSegment_ForEver(w) ==
    \E outcome \in Outcomes, rc \in BOOLEAN :
      LET c == con[w].cmd
          present == /\ c.video_id \in stored \cap DOMAIN Segments
                     /\ c.segment \in 0..(Segments[c.video_id] - 1)
      IN /\ con[w].pc = "segment"
         /\ send_ws_file(w, present, "SEGM", outcome, rc)
         /\ con' = [con EXCEPT ![w].sent_whole = rc, ![w].pc = IF rc THEN "count" ELSE @]
         /\ written' = IF rc THEN written + 1 ELSE written
         /\ UNCHANGED <<ctx, stored, sent, asked, disturbed>>

\* One round of the loop around send_ws_file: it is tried twice.
SendSegment(w) ==
    \E outcome \in Outcomes, rc \in BOOLEAN :
      LET c == con[w].cmd
          present == /\ c.video_id \in stored \cap DOMAIN Segments
                     /\ c.segment \in 0..(Segments[c.video_id] - 1)
          retries == IF rc THEN con[w].retries ELSE con[w].retries + 1
      IN /\ con[w].pc = "segment"
         /\ send_ws_file(w, present, "SEGM", outcome, rc)
         /\ con' = [con EXCEPT ![w].sent_whole = rc, ![w].retries = retries,
                      ![w].pc = IF rc \/ retries = 2 THEN "count" ELSE "segment"]
         /\ written' = IF rc THEN written + 1 ELSE written
         /\ UNCHANGED <<ctx, stored, sent, asked, disturbed>>

\* Mutant: one that failed at first is counted as failed, though it was sent then.
CountSegment_FirstAttempt(w) ==
    /\ con[w].pc = "count"
    /\ IF con[w].retries = 0
       THEN segment_sent_ok' = segment_sent_ok + 1 /\ UNCHANGED segment_sent_fail
       ELSE segment_sent_fail' = segment_sent_fail + 1 /\ UNCHANGED segment_sent_ok
    /\ Answer(w, IF con[w].sent_whole THEN "segment-sent" ELSE "segment-missing")
    /\ UNCHANGED <<wire, next_packet_number, stored, hist>>

\* The segment is counted, as sent or as failed.
CountSegment(w) ==
    /\ con[w].pc = "count"
    /\ IF con[w].sent_whole
       THEN segment_sent_ok' = segment_sent_ok + 1 /\ UNCHANGED segment_sent_fail
       ELSE segment_sent_fail' = segment_sent_fail + 1 /\ UNCHANGED segment_sent_ok
    /\ Answer(w, IF con[w].sent_whole THEN "segment-sent" ELSE "segment-missing")
    /\ UNCHANGED <<wire, next_packet_number, stored, hist>>

\* An administrator deletes the video, its row, file and segments, while it is
\* watched. Each command looks at the row and file or at the segments, so one step
\* stands for the three. A file that was opened before stays readable.
handle_admin_delete(v) ==
    /\ v \in stored \cap DOMAIN FilePath
    /\ stored' = stored \ {v}
    /\ UNCHANGED <<con, wire, ctx, hist>>

-----------------------------------------------------------------------------
(* QUIC_SEND and STREAM_CHUNK: packets through the QUIC engine.            *)

VideoBase == <<"data", "videos">>

\* The path of the file: relative ones are below VIDEO_BASE_PATH.
FullPath(path) == IF Head(path) = "/" THEN path ELSE VideoBase \o path

\* The file a stream_chunk command is about exists and is longer than its offset.
\* The length stat reports is cut down to 32 bits.
HasChunk(c) ==
    /\ c.video_id \in stored \cap DOMAIN FilePath
    /\ FullPath(FilePath[c.video_id]) \in DOMAIN Disk
    /\ c.offset < Disk[FullPath(FilePath[c.video_id])] % Modulus

Size(c) == Disk[FullPath(FilePath[c.video_id])]

\* The condition of the loop in send_video_chunk.
MoreToSend(c, sent_bytes, remaining) ==
    remaining > 0 /\ (sent_bytes + c.offset) % Modulus < Size(c) % Modulus

\* Workers that hold a copy of next_packet_number.
Copies == {w \in Workers : con[w].pc \in {"chunk", "writeback"}}

\* QUIC_SEND: the connection is in state CONNECTED, and the packet gets a number.
TakeNumber(w) ==
    /\ con[w].pc = "number" /\ con[w].cmd.type = "quic_send"
    /\ con' = [con EXCEPT ![w].pc = "send", ![w].next_pn = next_packet_number]
    /\ next_packet_number' = next_packet_number + 1
    /\ disturbed' = (disturbed \/ Copies # {})
    /\ UNCHANGED <<wire, segment_sent_ok, segment_sent_fail, stored, sent, asked, written>>

\* There is no such connection, or it is not ready.
NotConnected(w) ==
    /\ con[w].pc = "number" /\ con[w].cmd.type = "quic_send"
    /\ Answer(w, "answer")
    /\ UNCHANGED <<wire, ctx, stored, hist>>

Packet(w, num, off, len) == [by |-> w, of |-> con[w].n, num |-> num, off |-> off, len |-> len]

\* quic_engine_send_to_connection; it fails when the connection is gone by now.
SendPacket(w) ==
    /\ con[w].pc = "send"
    /\ \/ sent' = sent \cup {Packet(w, con[w].next_pn, 0, 0)}
       \/ sent' = sent
    /\ Answer(w, "answer")
    /\ UNCHANGED <<wire, ctx, stored, asked, written, disturbed>>

\* STREAM_CHUNK: the row is read, the number copied, the file opened.
StartChunk(w) ==
    /\ con[w].pc = "number" /\ con[w].cmd.type = "stream_chunk"
    /\ HasChunk(con[w].cmd)
    /\ con' = [con EXCEPT ![w].next_pn = next_packet_number,
                 ![w].remaining = con[w].cmd.length,
                 ![w].pc = IF MoreToSend(con[w].cmd, 0, con[w].cmd.length)
                           THEN "chunk" ELSE "writeback"]
    /\ disturbed' = (disturbed \/ Copies # {})
    /\ UNCHANGED <<wire, ctx, stored, sent, asked, written>>

\* There is no such row or file, or the offset is not in it.
NoChunk(w) ==
    /\ con[w].pc = "number" /\ con[w].cmd.type = "stream_chunk"
    /\ ~HasChunk(con[w].cmd)
    /\ Answer(w, "chunk-failed")
    /\ UNCHANGED <<wire, ctx, stored, hist>>

Smallest(S) == CHOOSE x \in S : \A y \in S : x <= y

\* What fread returns: at most a packet's payload, and not beyond the end. A read
\* that fails half way returns less, and one that fails at once nothing: ChunkCut.
BytesRead(c, sent_bytes, remaining) ==
    1..Smallest({remaining, MaxPayload, Size(c) - (c.offset + sent_bytes)})

\* Mutant: the packet carries the offset of the chunk, not its own.
ChunkPacket_SameOffset(w) ==
    /\ con[w].pc = "chunk"
    /\ \E n \in BytesRead(con[w].cmd, con[w].sent_bytes, con[w].remaining) :
         LET c == con[w].cmd
             total == (con[w].sent_bytes + n) % Modulus
         IN /\ sent' = sent \cup {Packet(w, con[w].next_pn, c.offset, n)}
            /\ con' = [con EXCEPT ![w].next_pn = @ + 1, ![w].sent_bytes = total,
                         ![w].remaining = @ - n,
                         ![w].pc = IF MoreToSend(c, total, con[w].remaining - n)
                                   THEN "chunk" ELSE "writeback"]
    /\ UNCHANGED <<wire, ctx, stored, asked, written, disturbed>>

\* One round of the loop: a piece of the file goes out under the next number.
ChunkPacket(w) ==
    /\ con[w].pc = "chunk"
    /\ \E n \in BytesRead(con[w].cmd, con[w].sent_bytes, con[w].remaining) :
         LET c == con[w].cmd
             total == (con[w].sent_bytes + n) % Modulus
         IN /\ sent' = sent \cup
                  {Packet(w, con[w].next_pn, (c.offset + con[w].sent_bytes) % Modulus, n)}
            /\ con' = [con EXCEPT ![w].next_pn = @ + 1, ![w].sent_bytes = total,
                         ![w].remaining = @ - n,
                         ![w].pc = IF MoreToSend(c, total, con[w].remaining - n)
                                   THEN "chunk" ELSE "writeback"]
    /\ UNCHANGED <<wire, ctx, stored, asked, written, disturbed>>

\* The read returns nothing: the loop ends as if all had been sent.
ChunkCut(w) ==
    /\ con[w].pc = "chunk"
    /\ con' = [con EXCEPT ![w].pc = "writeback", ![w].cut = TRUE]
    /\ UNCHANGED <<wire, ctx, stored, hist>>

\* The engine refuses a packet: the chunk is given up, its numbers are not
\* written back.
ChunkFails(w) ==
    /\ con[w].pc = "chunk"
    /\ Answer(w, "chunk-failed")
    /\ disturbed' = (disturbed \/ con[w].sent_bytes > 0)
    /\ UNCHANGED <<wire, ctx, stored, sent, asked, written>>

\* Mutant: the number is written back one too low.
WriteBack_OneLow(w) ==
    /\ con[w].pc = "writeback"
    /\ next_packet_number' = con[w].next_pn - 1
    /\ Answer(w, "chunk-sent")
    /\ UNCHANGED <<wire, segment_sent_ok, segment_sent_fail, stored, hist>>

\* The loop has ended: the worker's copy becomes the next number.
WriteBack(w) ==
    /\ con[w].pc = "writeback"
    /\ next_packet_number' = con[w].next_pn
    /\ Answer(w, "chunk-sent")
    /\ UNCHANGED <<wire, segment_sent_ok, segment_sent_fail, stored, hist>>

-----------------------------------------------------------------------------
\* Every step of a worker in a command.
Command(w) ==
    \/ Reply(w) \/ Echo(w)
    \/ SendInit(w) \/ ReadInfo(w) \/ SendSegment(w) \/ CountSegment(w)
    \/ TakeNumber(w) \/ NotConnected(w) \/ SendPacket(w)
    \/ StartChunk(w) \/ NoChunk(w) \/ ChunkPacket(w) \/ ChunkCut(w) \/ ChunkFails(w)
    \/ WriteBack(w)

\* All connections are closed.
Finished == (\A w \in Workers : con[w].pc = "closed") /\ UNCHANGED vars

Next ==
    \/ \E w \in Workers :
         \/ HandshakeFails(w) \/ Handshake(w) \/ ReadFails(w) \/ ReadControl(w)
         \/ \E text \in Texts[w] : ReadCommand(w, text)
         \/ Command(w)
    \/ \E v \in DOMAIN FilePath : handle_admin_delete(v)
    \/ Finished

Spec == Init /\ [][Next]_vars

\* A worker in a command goes on: every write and every file operation ends.
FairSpec == Spec /\ \A w \in Workers : WF_vars(Command(w))

-----------------------------------------------------------------------------
(* Properties.                                                             *)

TypeOK ==
    /\ \A w \in Workers :
         /\ con[w].pc \in Places
         /\ con[w].n \in 0..MaxCommands[w]
         /\ con[w].retries \in 0..2
         /\ con[w].remaining \in Nat /\ con[w].sent_bytes \in 0..(Modulus - 1)
    /\ next_packet_number \in Nat \ {0}
    /\ stored \subseteq DOMAIN Segments \cup DOMAIN FilePath

\* As long as every packet number is taken while no chunk is in progress, and no
\* chunk fails half way, no two packets have the same number: the copy that
\* STREAM_CHUNK works on and writes back takes no number away from others.
NumbersDistinct == ~disturbed => \A p, q \in sent : p.num = q.num => p = q

\* The same, whatever the workers do. Two chunks at a time, a QUIC_SEND beside a
\* chunk, or a chunk that failed break it: an ACK of one packet then settles another.
NumbersAlwaysDistinct == \A p, q \in sent : p.num = q.num => p = q

\* The packets of the command that w is in.
PacketsOf(w) == {p \in sent : p.by = w /\ p.of = con[w].n}

\* Where the chunk that w was asked for ends: at its length, or with the file.
ChunkEnd(w) == Smallest({con[w].cmd.offset + con[w].cmd.length, Size(con[w].cmd)})

\* The packets of a chunk reported as sent carry the bytes from its offset on, however
\* much each read of the file returned: each byte once, none left out between two
\* packets, the numbers in the order of the offsets. They reach the end of the chunk,
\* or of the file, unless a read returned nothing, which send_video_chunk takes for
\* success (ChunkIsComplete).
ChunkIsExact ==
    \A w \in Workers :
      LET c == con[w].cmd
          end == c.offset + con[w].sent_bytes
      IN con[w].pc = "reply" /\ con[w].reply = "chunk-sent" =>
           /\ con[w].cut => end < ChunkEnd(w)
           /\ ~con[w].cut => end = ChunkEnd(w)
           /\ \A b \in c.offset..(end - 1) :
                Cardinality({p \in PacketsOf(w) : b \in p.off..(p.off + p.len - 1)}) = 1
           /\ \A p \in PacketsOf(w) : p.len > 0 /\ p.off >= c.offset /\ p.off + p.len <= end
           /\ \A p, q \in PacketsOf(w) : p.num < q.num => p.off < q.off

\* A chunk reported as sent was sent whole. Not so when the file cannot be read: the
\* loop is left and the client told the same.
ChunkIsComplete ==
    \A w \in Workers : con[w].pc = "reply" /\ con[w].reply = "chunk-sent" =>
      con[w].cmd.offset + con[w].sent_bytes = ChunkEnd(w)

\* The counters are those of the connections together: segment_sent_ok is the
\* number of segments written whole, those about to be counted aside, and every
\* segment command is counted once, as sent or as failed.
SegmentsCounted ==
    LET InProgress == {w \in Workers : con[w].pc \in {"segment", "count"}}
        Uncounted == {w \in InProgress : con[w].sent_whole}
    IN /\ segment_sent_ok = written - Cardinality(Uncounted)
       /\ segment_sent_ok + segment_sent_fail = asked - Cardinality(InProgress)

\* Whatever writes fail, and whatever is tried again, a client gets at most one
\* whole text and at most one whole binary frame for each frame it sends, the text
\* last.
AnsweredOnce ==
    \A w \in Workers : \A i, j \in 1..Len(wire[w]) :
      i < j /\ wire[w][i].whole /\ wire[w][j].whole
        => wire[w][i].kind \in {"INIT", "SEGM"} /\ wire[w][j].kind = "text"

\* The client learns how many segments there are. Not so for a long video: when
\* segment_info.json is too large to be sent the files are counted, and with more
\* than the server counts it reports none.
InitAlwaysReportsSegments ==
    \A w \in Workers :
      con[w].pc = "reply" /\ con[w].reply = "ws_init" /\ con[w].cmd.video_id \in stored
      => con[w].remaining = Segments[con[w].cmd.video_id]

\* A segment is sent again only after a failed read, when nothing of it has been
\* written; otherwise the second frame lies inside the first.
RetryOnlyAfterReadFailure ==
    \A w \in Workers : con[w].pc = "segment" =>
      \A i \in 1..Len(wire[w]) : wire[w][i].kind = "SEGM" => wire[w][i].whole

\* A video with a row and a file can be streamed in chunks. Uploads store
\* data/videos/<name>, to which VIDEO_BASE_PATH is prepended once more.
StoredVideoIsStreamed ==
    \A w \in Workers : con[w].pc = "number" /\ con[w].cmd.type = "stream_chunk"
                       /\ con[w].cmd.video_id \in stored
      => FullPath(FilePath[con[w].cmd.video_id]) \in DOMAIN Disk

\* A command that was read is answered, or given up: the worker comes back to the
\* frame loop.
CommandEnds == \A w \in Workers : con[w].n > 0 ~> con[w].pc \in {"read", "closed"}
=============================================================================
