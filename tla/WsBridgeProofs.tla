--------------------------- MODULE WsBridgeProofs ---------------------------
(***************************************************************************)
(* Proofs about WsBridge. The first part is about what each worker keeps   *)
(* by itself, whatever the others do: the locals of a chunk. The others    *)
(* put the workers together: the counters, the frames on a stream, the     *)
(* packet numbers and the bytes of a chunk.                                *)
(***************************************************************************)
EXTENDS WsBridge, FiniteSetTheorems, TLAPS

Commands == {NoText} \cup UNION {Texts[w] : w \in Workers}

Replies == {"none", "answer", "init-missing", "ws_init", "segment-sent",
            "segment-missing", "chunk-failed", "chunk-sent"}

Conn == [pc : Places, n : Nat, cmd : Commands, reply : Replies, retries : 0..2,
         sent_whole : BOOLEAN, next_pn : Nat, sent_bytes : 0..(Modulus - 1),
         remaining : Nat, cut : BOOLEAN]

\* The worker sends a chunk or has just sent one.
InChunk(c) == c.pc \in {"chunk", "writeback"} \/ (c.pc = "reply" /\ c.reply = "chunk-sent")

\* parse_command accepted the numbers of the chunk.
Parsed(c) == c.cmd.offset \in 0..(Modulus - 1) /\ c.cmd.length \in 0..(Modulus - 1)

\* The command is about a file.
HasFile(cmd) == FullPath(FilePath[cmd.video_id]) \in DOMAIN Disk

\* What is sent and what remains is the chunk, and the file is not left behind.
ChunkLocals(c) ==
    /\ Parsed(c)
    /\ HasFile(c.cmd) /\ Size(c.cmd) \in Nat
    /\ c.sent_bytes + c.remaining = c.cmd.length
    /\ c.cmd.offset + c.sent_bytes <= Size(c.cmd)
    /\ c.pc = "chunk" \/ c.cut <=> MoreToSend(c.cmd, c.sent_bytes, c.remaining)
    /\ c.pc = "chunk" => ~c.cut

\* What a worker's locals satisfy at the place where it is.
LocalOK(c) ==
    /\ c \in Conn
    /\ c.pc = "info" => c.cmd.video_id \in DOMAIN Segments
    /\ c.pc \in {"send", "chunk", "writeback"} => c.next_pn > 0
    /\ c.pc = "number" => /\ c.sent_bytes = 0 /\ ~c.cut
                          /\ c.cmd.type = "stream_chunk" => Parsed(c)
    /\ c.pc = "segment" => ~c.sent_whole /\ c.retries < 2
    /\ InChunk(c) => ChunkLocals(c)

Locals ==
    /\ con \in [Workers -> Conn]
    /\ \A w \in Workers : LocalOK(con[w]) /\ con[w].n <= MaxCommands[w]
    /\ next_packet_number \in Nat \ {0}

-----------------------------------------------------------------------------
(* Helpers.                                                                *)

\* Smallest of three numbers is one of them and no larger than any.
LEMMA SmallestOfThree ==
    ASSUME NEW a \in Int, NEW b \in Int, NEW d \in Int
    PROVE  LET m == Smallest({a, b, d})
           IN m \in {a, b, d} /\ m <= a /\ m <= b /\ m <= d
<1>1. \E x \in {a, b, d} : \A y \in {a, b, d} : x <= y
  OBVIOUS
<1> QED
  BY <1>1 DEF Smallest

\* The same of two.
LEMMA SmallestOfTwo ==
    ASSUME NEW a \in Int, NEW b \in Int
    PROVE  LET m == Smallest({a, b}) IN m \in {a, b} /\ m <= a /\ m <= b
<1>1. \E x \in {a, b} : \A y \in {a, b} : x <= y
  OBVIOUS
<1> QED
  BY <1>1 DEF Smallest

\* A number below 2^32 is not changed by the reduction to uint32_t.
LEMMA ModulusFits == ASSUME NEW a \in Nat, a < Modulus PROVE a % Modulus = a
  BY BridgeAssumption

\* The reduction yields a number.
LEMMA ModulusNat == ASSUME NEW a \in Nat PROVE a % Modulus \in Nat
  BY BridgeAssumption

\* A text that handle_text_frame takes to a number is a packet or chunk command
\* whose fields are in range; texts lead to four places and the answer.
LEMMA PlaceProps ==
    ASSUME NEW w \in Workers, NEW text \in Texts[w]
    PROVE  /\ PlaceOf(text) \in {"reply", "init", "segment", "number"}
           /\ PlaceOf(text) = "number" /\ text.type = "stream_chunk" =>
                text.offset \in 0..(Modulus - 1) /\ text.length \in 0..(Modulus - 1)
<1>1. CASE ~parse_command(text)
             \/ text.type \in {"ping"} \cup Listing \cup Opening \cup Watching
  <2>1. PlaceOf(text) = "reply"
    BY <1>1 DEF PlaceOf
  <2> QED
    BY <2>1
<1>2. CASE /\ parse_command(text)
           /\ text.type \notin {"ping"} \cup Listing \cup Opening \cup Watching
  <2>1. text.type \in {"quic_send", "stream_chunk", "ws_init", "ws_segment"}
    BY <1>2 DEF parse_command, Required, Listing, Opening, Watching
  <2>2. PlaceOf(text) = [ws_init |-> "init", ws_segment |-> "segment",
                         quic_send |-> "number", stream_chunk |-> "number"][text.type]
    BY <1>2 DEF PlaceOf
  <2>3. PlaceOf(text) \in {"reply", "init", "segment", "number"}
    BY <2>1, <2>2
  <2>4. ASSUME text.type = "stream_chunk"
        PROVE  text.offset \in 0..(Modulus - 1) /\ text.length \in 0..(Modulus - 1)
    <3>1. HasField(text, "offset") /\ HasField(text, "length")
      BY <1>2, <2>4 DEF parse_command, Required
    <3>2. /\ "offset" \in DOMAIN text /\ text["offset"] < Modulus
          /\ "length" \in DOMAIN text /\ text["length"] < Modulus
      BY <3>1 DEF HasField
    <3>3. text["offset"] \in Nat /\ text["length"] \in Nat
      BY <3>2, BridgeAssumption
    <3> QED
      BY <3>2, <3>3, BridgeAssumption
  <2> QED
    BY <2>3, <2>4
<1> QED
  BY <1>1, <1>2

\* One round of the loop in send_video_chunk reads some bytes, no more than remain
\* and no more than the file has, so nothing wraps.
LEMMA RoundProps ==
    ASSUME NEW c \in Conn, LocalOK(c), c.pc = "chunk",
           NEW n \in BytesRead(c.cmd, c.sent_bytes, c.remaining)
    PROVE  /\ n \in Nat /\ n > 0 /\ n <= c.remaining
           /\ c.cmd.offset + c.sent_bytes + n <= Size(c.cmd)
           /\ (c.sent_bytes + n) % Modulus = c.sent_bytes + n
           /\ c.sent_bytes + n \in 0..(Modulus - 1)
           /\ c.remaining - n \in Nat
           /\ (c.sent_bytes + n) + (c.remaining - n) = c.cmd.length
<1> USE BridgeAssumption
<1> DEFINE off == c.cmd.offset
           sb == c.sent_bytes
           rem == c.remaining
           size == Size(c.cmd)
           m == Smallest({c.remaining, MaxPayload, Size(c.cmd) - (c.cmd.offset + c.sent_bytes)})
<1>1. /\ off \in Nat /\ sb \in Nat /\ rem \in Nat /\ size \in Nat
      /\ c.cmd.length \in Nat /\ c.cmd.length < Modulus
      /\ sb + rem = c.cmd.length /\ off + sb <= size
  BY DEF LocalOK, InChunk, ChunkLocals, Parsed, Conn
<1>2. rem > 0 /\ (sb + off) % Modulus < size % Modulus
  BY DEF LocalOK, InChunk, ChunkLocals, MoreToSend
<1>3. n \in 1..m /\ m = Smallest({rem, MaxPayload, size - (off + sb)})
  BY DEF BytesRead
<1> HIDE DEF off, sb, rem, size, m
<1>4. sb + off # size
  BY <1>2, <1>1
<1>5. m \in {rem, MaxPayload, size - (off + sb)} /\ m <= rem /\ m <= size - (off + sb)
  <2>1. rem \in Int /\ MaxPayload \in Int /\ size - (off + sb) \in Int
    BY <1>1
  <2> QED
    BY <1>3, <2>1, SmallestOfThree, Zenon
<1>6. /\ n \in Nat /\ n > 0 /\ n <= rem /\ off + sb + n <= size
      /\ sb + n \in Nat /\ sb + n < Modulus /\ rem - n \in Nat
      /\ (sb + n) + (rem - n) = c.cmd.length
  <2>1. n \in 1..m /\ m \in Int
    BY <1>1, <1>3, <1>5
  <2>2. n \in Nat /\ n > 0 /\ n <= m
    BY <2>1
  <2>3. n <= rem /\ off + sb + n <= size
    BY <1>1, <1>5, <2>1, <2>2
  <2> QED
    BY <1>1, <2>2, <2>3
<1>7. (sb + n) % Modulus = sb + n
  BY <1>6, ModulusFits
<1>8. sb + n \in 0..(Modulus - 1)
  BY <1>6
<1> QED
  BY <1>6, <1>7, <1>8 DEF off, sb, rem, size
-----------------------------------------------------------------------------
(* The locals of each worker.                                              *)

\* A step that gives one worker new locals that are in order keeps all in order.
LEMMA LocalsByWorker ==
    ASSUME Locals, NEW w \in Workers, NEW r, con' = [con EXCEPT ![w] = r],
           LocalOK(r), r.n <= MaxCommands[w], next_packet_number' \in Nat \ {0}
    PROVE  Locals'
<1>1. r \in Conn
  BY DEF LocalOK
<1>2. con' \in [Workers -> Conn]
  BY <1>1 DEF Locals
<1>3. ASSUME NEW v \in Workers PROVE LocalOK(con'[v]) /\ con'[v].n <= MaxCommands[v]
  <2>1. CASE v = w
    <3>1. con'[v] = r
      BY <2>1 DEF Locals
    <3> QED
      BY <2>1, <3>1
  <2>2. CASE v # w
    <3>1. con'[v] = con[v]
      BY <2>2 DEF Locals
    <3> QED
      BY <3>1 DEF Locals
  <2> QED
    BY <2>1, <2>2
<1> QED
  BY <1>2, <1>3 DEF Locals

\* At most places a worker's locals have no obligations.
LEMMA IdleLocal ==
    ASSUME NEW r \in Conn,
           r.pc \in {"connect", "read", "init", "count", "echo", "closed"}
             \/ (r.pc = "reply" /\ r.reply # "chunk-sent")
    PROVE  LocalOK(r)
  BY DEF LocalOK, InChunk

\* What is known of one worker.
LEMMA ConnOf ==
    ASSUME Locals, NEW w \in Workers
    PROVE  /\ con[w] \in Conn /\ LocalOK(con[w]) /\ con \in [Workers -> Conn]
           /\ con[w].n \in Nat /\ con[w].n <= MaxCommands[w] /\ MaxCommands[w] \in Nat
           /\ next_packet_number \in Nat \ {0}
  BY BridgeAssumption DEF Locals, Conn

\* The values a worker's locals start from.
LEMMA FreshConn == Fresh \in Conn
<1>1. 0 \in 0..2 /\ 0 \in 0..(Modulus - 1) /\ 0 \in Nat
  BY BridgeAssumption
<1>2. NoText \in Commands
  BY DEF Commands
<1> QED
  BY <1>1, <1>2 DEF Fresh, Conn, Places, Replies

\* Closing the connection keeps the locals in order.
LEMMA LocalsClose ==
    ASSUME Locals, NEW w \in Workers, Close(w), next_packet_number' = next_packet_number
    PROVE  Locals'
<1> DEFINE r == [Fresh EXCEPT !.pc = "closed", !.n = con[w].n]
<1>1. r \in Conn /\ r.pc = "closed" /\ r.n = con[w].n
  BY ConnOf, FreshConn DEF Conn, Places, Fresh
<1>2. con' = [con EXCEPT ![w] = r]
  BY DEF Close
<1> HIDE DEF r
<1> QED
  BY <1>1, <1>2, ConnOf, IdleLocal, LocalsByWorker

\* So does going to read, or to the echo.
LEMMA LocalsGoto ==
    ASSUME Locals, NEW w \in Workers, NEW place \in {"read", "echo"}, Goto(w, place),
           next_packet_number' = next_packet_number
    PROVE  Locals'
<1> DEFINE r == [con[w] EXCEPT !.pc = place]
<1>1. r \in Conn /\ r.pc = place /\ r.n = con[w].n
  BY ConnOf DEF Conn, Places
<1>2. con' = [con EXCEPT ![w] = r]
  BY DEF Goto
<1> HIDE DEF r
<1> QED
  BY <1>1, <1>2, ConnOf, IdleLocal, LocalsByWorker

\* So does every answer but that of a chunk.
LEMMA LocalsAnswer ==
    ASSUME Locals, NEW w \in Workers, NEW msg \in Replies \ {"chunk-sent"},
           Answer(w, msg), next_packet_number' = next_packet_number
    PROVE  Locals'
<1> DEFINE r == [con[w] EXCEPT !.pc = "reply", !.reply = msg]
<1>1. r \in Conn /\ r.pc = "reply" /\ r.reply # "chunk-sent" /\ r.n = con[w].n
  BY ConnOf, ZenonT(30) DEF Conn, Places
<1>2. con' = [con EXCEPT ![w] = r]
  BY ConnOf DEF Answer
<1> HIDE DEF r
<1> QED
  BY <1>1, <1>2, ConnOf, IdleLocal, LocalsByWorker

\* The frame loop, the answers and the file commands keep the locals in order.
LEMMA LocalsFrames ==
    ASSUME Locals, NEW w \in Workers,
           \/ HandshakeFails(w) \/ Handshake(w) \/ ReadFails(w) \/ ReadControl(w)
           \/ Reply(w) \/ Echo(w) \/ SendInit(w) \/ ReadInfo(w) \/ CountSegment(w)
           \/ NotConnected(w) \/ SendPacket(w) \/ NoChunk(w) \/ ChunkFails(w)
    PROVE  Locals'
<1>1. CASE HandshakeFails(w) \/ ReadFails(w)
  BY <1>1, LocalsClose DEF HandshakeFails, ReadFails, ctx
<1>2. CASE Handshake(w) \/ Reply(w) \/ Echo(w)
  <2>1. PICK place \in {"read", "echo"} :
          Goto(w, place) /\ next_packet_number' = next_packet_number
    BY <1>2 DEF Handshake, Reply, Echo, ctx
  <2> QED
    BY <2>1, LocalsGoto
<1>3. CASE ReadControl(w)
  <2>1. PICK place \in {"closed", "read"} :
          con' = [con EXCEPT ![w] = [Fresh EXCEPT !.n = con[w].n + 1, !.pc = place]]
    BY <1>3 DEF ReadControl
  <2> DEFINE r == [Fresh EXCEPT !.n = con[w].n + 1, !.pc = place]
  <2>2. con[w].n + 1 \in Nat /\ con[w].n + 1 <= MaxCommands[w]
    <3>1. con[w].n < MaxCommands[w]
      BY <1>3 DEF ReadControl
    <3> QED
      BY <3>1, ConnOf
  <2>3. r \in Conn /\ r.pc = place /\ r.n = con[w].n + 1
    BY <2>2, FreshConn DEF Conn, Places, Fresh
  <2>4. next_packet_number' = next_packet_number
    BY <1>3 DEF ReadControl, ctx
  <2>5. con' = [con EXCEPT ![w] = r]
    BY <2>1
  <2> HIDE DEF r
  <2> QED
    BY <2>2, <2>3, <2>4, <2>5, ConnOf, IdleLocal, LocalsByWorker
<1>4. CASE NotConnected(w) \/ SendPacket(w) \/ NoChunk(w) \/ ChunkFails(w)
  <2>1. PICK msg \in {"answer", "chunk-failed"} :
          Answer(w, msg) /\ next_packet_number' = next_packet_number
    BY <1>4 DEF NotConnected, SendPacket, NoChunk, ChunkFails, ctx
  <2> QED
    BY <2>1, LocalsAnswer DEF Replies
<1>5. CASE CountSegment(w)
  <2>1. PICK msg \in {"segment-sent", "segment-missing"} :
          Answer(w, msg) /\ next_packet_number' = next_packet_number
    BY <1>5 DEF CountSegment
  <2> QED
    BY <2>1, LocalsAnswer DEF Replies
<1>6. CASE SendInit(w)
  <2>1. PICK outcome \in Outcomes, rc \in BOOLEAN :
          /\ send_ws_file(w, con[w].cmd.video_id \in stored \cap DOMAIN Segments,
                          "INIT", outcome, rc)
          /\ IF rc THEN Goto(w, "info") ELSE Answer(w, "init-missing")
          /\ next_packet_number' = next_packet_number
    BY <1>6 DEF SendInit, ctx
  <2>2. CASE rc
    <3> DEFINE r == [con[w] EXCEPT !.pc = "info"]
    <3>1. con[w].cmd.video_id \in DOMAIN Segments
      BY <2>1, <2>2 DEF send_ws_file
    <3>2. r \in Conn /\ r.pc = "info" /\ r.n = con[w].n /\ r.cmd = con[w].cmd
      BY ConnOf DEF Conn, Places
    <3>3. con' = [con EXCEPT ![w] = r]
      BY <2>1, <2>2 DEF Goto
    <3> HIDE DEF r
    <3>4. LocalOK(r)
      BY <3>1, <3>2 DEF LocalOK, InChunk
    <3> QED
      BY <2>1, <3>2, <3>3, <3>4, ConnOf, LocalsByWorker
  <2>3. CASE ~rc
    BY <2>1, <2>3, LocalsAnswer DEF Replies
  <2> QED
    BY <2>2, <2>3
<1>7. CASE ReadInfo(w)
  <2> DEFINE total == TotalSegments(con[w].cmd.video_id)
             r == [con[w] EXCEPT !.pc = "reply", !.reply = "ws_init", !.remaining = total]
  <2>1. total \in Nat
    <3>1. con[w].cmd.video_id \in DOMAIN Segments
      BY <1>7, ConnOf DEF ReadInfo, LocalOK
    <3> QED
      BY <3>1, BridgeAssumption DEF TotalSegments, CountedSegments
  <2> HIDE DEF total
  <2>2. r \in Conn /\ r.pc = "reply" /\ r.reply = "ws_init" /\ r.n = con[w].n
    BY <2>1, ConnOf, ZenonT(30) DEF Conn, Places, Replies
  <2>3. con' = [con EXCEPT ![w] = r] /\ next_packet_number' = next_packet_number
    BY <1>7, ConnOf DEF ReadInfo, total, ctx
  <2> HIDE DEF r
  <2> QED
    BY <2>2, <2>3, ConnOf, IdleLocal, LocalsByWorker
<1> QED
  BY <1>1, <1>2, <1>3, <1>4, <1>5, <1>6, <1>7

\* A command that was read starts with fresh locals and the fields it needs.
LEMMA LocalsReadCommand ==
    ASSUME Locals, NEW w \in Workers, NEW text \in Texts[w], ReadCommand(w, text)
    PROVE  Locals'
<1> DEFINE place == PlaceOf(text)
           r == [Fresh EXCEPT !.pc = place, !.n = con[w].n + 1, !.cmd = text,
                              !.reply = IF place = "reply" THEN "answer" ELSE "none"]
<1>1. con' = [con EXCEPT ![w] = r] /\ next_packet_number' = next_packet_number
  BY DEF ReadCommand, ctx
<1>2. con[w].n + 1 \in Nat /\ con[w].n + 1 <= MaxCommands[w]
  <2>1. con[w].n < MaxCommands[w]
    BY DEF ReadCommand
  <2> QED
    BY <2>1, ConnOf
<1>3. /\ place \in {"reply", "init", "segment", "number"}
      /\ place = "number" /\ text.type = "stream_chunk" =>
           text.offset \in 0..(Modulus - 1) /\ text.length \in 0..(Modulus - 1)
  BY PlaceProps
<1>4. text \in Commands
  BY DEF Commands
<1> HIDE DEF place
<1>5. /\ r \in Conn /\ r.pc = place /\ r.n = con[w].n + 1 /\ r.cmd = text
      /\ r.reply # "chunk-sent" /\ r.sent_bytes = 0 /\ r.retries = 0 /\ ~r.sent_whole
      /\ ~r.cut
  BY <1>2, <1>3, <1>4, FreshConn DEF Conn, Places, Fresh, Replies
<1> HIDE DEF r
<1>6. LocalOK(r)
  BY <1>3, <1>5 DEF LocalOK, InChunk, Parsed
<1> QED
  BY <1>1, <1>2, <1>5, <1>6, ConnOf, LocalsByWorker

\* A segment is tried at most twice.
LEMMA LocalsSendSegment ==
    ASSUME Locals, NEW w \in Workers, SendSegment(w)
    PROVE  Locals'
<1>1. PICK rc \in BOOLEAN :
        con' = [con EXCEPT ![w].sent_whole = rc,
                  ![w].retries = IF rc THEN con[w].retries ELSE con[w].retries + 1,
                  ![w].pc = IF rc \/ (IF rc THEN con[w].retries ELSE con[w].retries + 1) = 2
                            THEN "count" ELSE "segment"]
  BY DEF SendSegment
<1>2. con[w].retries \in Nat /\ con[w].retries < 2
  BY ConnOf DEF SendSegment, LocalOK, Conn
<1> DEFINE tries == IF rc THEN con[w].retries ELSE con[w].retries + 1
           place == IF rc \/ tries = 2 THEN "count" ELSE "segment"
           r == [con[w] EXCEPT !.sent_whole = rc, !.retries = tries, !.pc = place]
<1>3. tries \in 0..2 /\ (place = "segment" => ~rc /\ tries < 2) /\ place \in {"count", "segment"}
  BY <1>2
<1>4. con' = [con EXCEPT ![w] = r] /\ next_packet_number' = next_packet_number
  BY <1>1, ConnOf, ZenonT(30) DEF SendSegment, ctx
<1> HIDE DEF tries, place
<1>5. /\ r \in Conn /\ r.pc = place /\ r.n = con[w].n /\ r.sent_whole = rc
      /\ r.retries = tries
  BY <1>3, ConnOf, ZenonT(30) DEF Conn, Places
<1> HIDE DEF r
<1>6. LocalOK(r)
  BY <1>3, <1>5 DEF LocalOK, InChunk
<1> QED
  BY <1>4, <1>5, <1>6, ConnOf, LocalsByWorker

\* A packet number is taken.
LEMMA LocalsTakeNumber ==
    ASSUME Locals, NEW w \in Workers, TakeNumber(w)
    PROVE  Locals'
<1> DEFINE r == [con[w] EXCEPT !.pc = "send", !.next_pn = next_packet_number]
<1>1. con' = [con EXCEPT ![w] = r] /\ next_packet_number' = next_packet_number + 1
  BY ConnOf DEF TakeNumber
<1>2. r \in Conn /\ r.pc = "send" /\ r.n = con[w].n /\ r.next_pn = next_packet_number
  BY ConnOf DEF Conn, Places
<1>3. next_packet_number' \in Nat \ {0} /\ next_packet_number > 0
  BY <1>1, ConnOf
<1> HIDE DEF r
<1>4. LocalOK(r)
  BY <1>2, <1>3 DEF LocalOK, InChunk
<1> QED
  BY <1>1, <1>2, <1>3, <1>4, ConnOf, LocalsByWorker

\* A chunk starts with nothing sent, all of it remaining, and inside the file.
LEMMA LocalsStartChunk ==
    ASSUME Locals, NEW w \in Workers, StartChunk(w)
    PROVE  Locals'
<1> DEFINE c == con[w].cmd
           place == IF MoreToSend(c, 0, c.length) THEN "chunk" ELSE "writeback"
           r == [con[w] EXCEPT !.next_pn = next_packet_number, !.remaining = c.length,
                               !.pc = place]
<1>1. con' = [con EXCEPT ![w] = r] /\ next_packet_number' = next_packet_number
  BY ConnOf DEF StartChunk, ctx
<1>2. /\ c.offset \in 0..(Modulus - 1) /\ c.length \in 0..(Modulus - 1)
      /\ con[w].sent_bytes = 0 /\ con[w].cut = FALSE /\ HasChunk(c)
  BY ConnOf DEF StartChunk, LocalOK, Parsed, Conn
<1>3. HasFile(c) /\ Size(c) \in Nat /\ c.offset <= Size(c)
  <2>1. FullPath(FilePath[c.video_id]) \in DOMAIN Disk /\ c.offset < Size(c) % Modulus
    BY <1>2 DEF HasChunk, Size
  <2>2. Size(c) \in Nat
    BY <2>1, BridgeAssumption DEF Size
  <2>3. Size(c) % Modulus <= Size(c) /\ Size(c) % Modulus \in Nat
    BY <2>2, BridgeAssumption
  <2> QED
    BY <1>2, <2>1, <2>2, <2>3, BridgeAssumption DEF HasFile
<1>4. /\ c.length \in Nat /\ c.offset \in Nat /\ place \in {"chunk", "writeback"}
      /\ con[w] \in Conn /\ next_packet_number \in Nat
  BY <1>2, BridgeAssumption, ConnOf
<1> HIDE DEF place, c
<1>5. /\ r \in Conn /\ r.pc = place /\ r.n = con[w].n /\ r.cmd = con[w].cmd
      /\ r.next_pn = next_packet_number /\ r.remaining = c.length /\ r.sent_bytes = 0
      /\ r.cut = FALSE
  BY <1>2, <1>4 DEF Conn, Places
<1> HIDE DEF r
<1>6. /\ Parsed(r) /\ HasFile(r.cmd) /\ Size(r.cmd) \in Nat
      /\ r.sent_bytes + r.remaining = r.cmd.length
      /\ r.cmd.offset + r.sent_bytes <= Size(r.cmd)
  BY <1>2, <1>3, <1>4, <1>5 DEF Parsed, c
<1>7. /\ r.pc = "chunk" \/ r.cut <=> MoreToSend(r.cmd, r.sent_bytes, r.remaining)
      /\ r.pc = "chunk" => ~r.cut
  BY <1>5 DEF place, c
<1>8. LocalOK(r)
  <2>1. ChunkLocals(r)
    BY <1>6, <1>7 DEF ChunkLocals
  <2>2. r.next_pn > 0
    BY <1>5, ConnOf
  <2> QED
    BY <1>4, <1>5, <2>1, <2>2 DEF LocalOK
<1> QED
  BY <1>1, <1>5, <1>8, ConnOf, LocalsByWorker

\* A round of the loop moves bytes from what remains to what is sent.
LEMMA LocalsChunkPacket ==
    ASSUME Locals, NEW w \in Workers, ChunkPacket(w)
    PROVE  Locals'
<1>n. PICK n \in BytesRead(con[w].cmd, con[w].sent_bytes, con[w].remaining) :
        LET c == con[w].cmd
            total == (con[w].sent_bytes + n) % Modulus
        IN con' = [con EXCEPT ![w].next_pn = @ + 1, ![w].sent_bytes = total,
                      ![w].remaining = @ - n,
                      ![w].pc = IF MoreToSend(c, total, con[w].remaining - n)
                                THEN "chunk" ELSE "writeback"]
  BY Zenon DEF ChunkPacket
<1> DEFINE c == con[w].cmd
           total == con[w].sent_bytes + n
           rest == con[w].remaining - n
           place == IF MoreToSend(c, total, rest) THEN "chunk" ELSE "writeback"
           r == [con[w] EXCEPT !.next_pn = @ + 1, !.sent_bytes = total,
                               !.remaining = rest, !.pc = place]
<1>0. con[w].pc = "chunk" /\ con[w] \in Conn /\ LocalOK(con[w]) /\ con[w].cut = FALSE
  BY ConnOf DEF ChunkPacket, LocalOK, InChunk, ChunkLocals, Conn
<1>1. /\ n \in Nat /\ c.offset + con[w].sent_bytes + n <= Size(c)
      /\ (con[w].sent_bytes + n) % Modulus = total /\ total \in 0..(Modulus - 1)
      /\ rest \in Nat /\ total + rest = c.length
  BY <1>0, RoundProps
<1>2. con' = [con EXCEPT ![w] = r] /\ next_packet_number' = next_packet_number
  BY <1>n, <1>1, ConnOf DEF ChunkPacket, ctx
<1>3. /\ Parsed(con[w]) /\ HasFile(c) /\ Size(c) \in Nat /\ con[w].next_pn \in Nat
      /\ con[w].sent_bytes \in Nat
  BY <1>0, BridgeAssumption DEF LocalOK, InChunk, ChunkLocals, Conn
<1>4. place \in {"chunk", "writeback"} /\ con[w].next_pn + 1 \in Nat \ {0}
  BY <1>3
<1>5. c.offset \in Nat /\ c.offset + total <= Size(c)
  <2>1. c.offset \in Nat
    BY <1>3, BridgeAssumption DEF Parsed
  <2>2. con[w].sent_bytes \in Nat /\ n \in Nat
    BY <1>1, <1>3
  <2> HIDE DEF c
  <2> QED
    BY <1>1, <2>1, <2>2
<1> HIDE DEF place, c, total, rest
<1>6. /\ r \in Conn /\ r.pc = place /\ r.n = con[w].n /\ r.cmd = con[w].cmd
      /\ r.next_pn = con[w].next_pn + 1 /\ r.remaining = rest /\ r.sent_bytes = total
      /\ r.cut = FALSE
  BY <1>0, <1>1, <1>4 DEF Conn, Places
<1> HIDE DEF r
<1>7. ChunkLocals(r)
  <2>1. /\ Parsed(r) /\ HasFile(r.cmd) /\ Size(r.cmd) \in Nat
        /\ r.sent_bytes + r.remaining = r.cmd.length
        /\ r.cmd.offset + r.sent_bytes <= Size(r.cmd)
    BY <1>1, <1>3, <1>5, <1>6 DEF Parsed, c
  <2>2. /\ r.pc = "chunk" \/ r.cut <=> MoreToSend(r.cmd, r.sent_bytes, r.remaining)
        /\ r.pc = "chunk" => ~r.cut
    BY <1>6 DEF place, c
  <2> QED
    BY <2>1, <2>2 DEF ChunkLocals
<1>8. LocalOK(r)
  <2>1. r.next_pn > 0
    BY <1>4, <1>6
  <2> QED
    BY <1>4, <1>6, <1>7, <2>1 DEF LocalOK
<1> QED
  BY <1>2, <1>6, <1>8, ConnOf, LocalsByWorker

\* A read that returns nothing leaves the chunk as it is.
LEMMA LocalsChunkCut ==
    ASSUME Locals, NEW w \in Workers, ChunkCut(w)
    PROVE  Locals'
<1> DEFINE r == [con[w] EXCEPT !.pc = "writeback", !.cut = TRUE]
<1>0. con[w].pc = "chunk" /\ con[w] \in Conn /\ LocalOK(con[w])
  BY ConnOf DEF ChunkCut
<1>1. con' = [con EXCEPT ![w] = r] /\ next_packet_number' = next_packet_number
  BY ConnOf DEF ChunkCut, ctx
<1>2. /\ r \in Conn /\ r.pc = "writeback" /\ r.cut = TRUE /\ r.n = con[w].n
      /\ r.cmd = con[w].cmd /\ r.next_pn = con[w].next_pn
      /\ r.remaining = con[w].remaining /\ r.sent_bytes = con[w].sent_bytes
  BY <1>0 DEF Conn, Places
<1> HIDE DEF r
<1>3. LocalOK(r)
  <2>1. ChunkLocals(con[w]) /\ con[w].next_pn > 0
    BY <1>0 DEF LocalOK, InChunk
  <2>2. ChunkLocals(r)
    BY <1>0, <1>2, <2>1 DEF ChunkLocals, Parsed
  <2> QED
    BY <1>2, <2>1, <2>2 DEF LocalOK
<1> QED
  BY <1>1, <1>2, <1>3, ConnOf, LocalsByWorker

\* The copy is written back and the chunk reported.
LEMMA LocalsWriteBack ==
    ASSUME Locals, NEW w \in Workers, WriteBack(w)
    PROVE  Locals'
<1> DEFINE r == [con[w] EXCEPT !.pc = "reply", !.reply = "chunk-sent"]
<1>0. con[w].pc = "writeback" /\ con[w] \in Conn /\ LocalOK(con[w])
  BY ConnOf DEF WriteBack
<1>1. con' = [con EXCEPT ![w] = r] /\ next_packet_number' = con[w].next_pn
  BY ConnOf DEF WriteBack, Answer
<1>2. next_packet_number' \in Nat \ {0}
  BY <1>0, <1>1 DEF LocalOK, Conn
<1>3. /\ r \in Conn /\ r.pc = "reply" /\ r.n = con[w].n /\ r.cmd = con[w].cmd
      /\ r.remaining = con[w].remaining /\ r.sent_bytes = con[w].sent_bytes
      /\ r.cut = con[w].cut
  BY <1>0 DEF Conn, Places, Replies
<1> HIDE DEF r
<1>4. LocalOK(r)
  <2>1. ChunkLocals(con[w])
    BY <1>0 DEF LocalOK, InChunk
  <2>2. ChunkLocals(r)
    BY <1>0, <1>3, <2>1 DEF ChunkLocals, Parsed
  <2> QED
    BY <1>3, <2>2 DEF LocalOK
<1> QED
  BY <1>1, <1>2, <1>3, <1>4, ConnOf, LocalsByWorker

\* Every step keeps the locals of every worker in order.
LEMMA LocalsStep == Locals /\ [Next]_vars => Locals'
<1> SUFFICES ASSUME Locals, [Next]_vars PROVE Locals'
  OBVIOUS
<1>1. CASE UNCHANGED <<con, next_packet_number>>
  BY <1>1 DEF Locals
<1>2. ASSUME NEW w \in Workers, Command(w) PROVE Locals'
  BY <1>2, LocalsFrames, LocalsSendSegment, LocalsTakeNumber, LocalsStartChunk,
     LocalsChunkPacket, LocalsChunkCut, LocalsWriteBack DEF Command
<1>3. ASSUME NEW w \in Workers,
             \/ HandshakeFails(w) \/ Handshake(w) \/ ReadFails(w) \/ ReadControl(w)
             \/ \E text \in Texts[w] : ReadCommand(w, text)
      PROVE  Locals'
  BY <1>3, LocalsFrames, LocalsReadCommand
<1>4. CASE UNCHANGED vars \/ Finished \/ \E v \in DOMAIN FilePath : handle_admin_delete(v)
  BY <1>1, <1>4 DEF vars, Finished, handle_admin_delete, ctx
<1> QED
  BY <1>2, <1>3, <1>4 DEF Next

\* The locals of every worker are in order in every execution.
LEMMA LocalsAlways == Spec => []Locals
<1>1. Init => Locals
  <2> SUFFICES ASSUME Init PROVE Locals
    OBVIOUS
  <2>1. Fresh \in Conn /\ Fresh.pc = "connect" /\ Fresh.n = 0
    BY FreshConn DEF Fresh
  <2>2. LocalOK(Fresh)
    BY <2>1, IdleLocal
  <2>3. con = [w \in Workers |-> Fresh] /\ next_packet_number = 1
    BY DEF Init
  <2>4. \A w \in Workers : MaxCommands[w] \in Nat
    BY BridgeAssumption
  <2> QED
    BY <2>1, <2>2, <2>3, <2>4 DEF Locals
<1> QED
  BY <1>1, LocalsStep, PTL DEF Spec

\* No step of a worker stores a video; an administrator removes one.
LEMMA StoredShrinks == [Next]_vars => stored' \subseteq stored
<1> SUFFICES ASSUME [Next]_vars PROVE stored' \subseteq stored
  OBVIOUS
<1>1. ASSUME NEW w \in Workers, Command(w) PROVE stored' = stored
  <2>1. CASE Reply(w)
    BY <2>1, Zenon DEF Reply
  <2>2. CASE Echo(w)
    BY <2>2, Zenon DEF Echo
  <2>3. CASE SendInit(w)
    BY <2>3, Zenon DEF SendInit
  <2>4. CASE ReadInfo(w)
    BY <2>4, Zenon DEF ReadInfo
  <2>5. CASE SendSegment(w)
    BY <2>5, Zenon DEF SendSegment
  <2>6. CASE CountSegment(w)
    BY <2>6, Zenon DEF CountSegment
  <2>7. CASE TakeNumber(w)
    BY <2>7, Zenon DEF TakeNumber
  <2>8. CASE NotConnected(w)
    BY <2>8, Zenon DEF NotConnected
  <2>9. CASE SendPacket(w)
    BY <2>9, Zenon DEF SendPacket
  <2>10. CASE StartChunk(w)
    BY <2>10, Zenon DEF StartChunk
  <2>11. CASE NoChunk(w)
    BY <2>11, Zenon DEF NoChunk
  <2>12. CASE ChunkPacket(w)
    BY <2>12, Zenon DEF ChunkPacket
  <2>13. CASE ChunkFails(w)
    BY <2>13, Zenon DEF ChunkFails
  <2>14. CASE WriteBack(w)
    BY <2>14, Zenon DEF WriteBack
  <2>15. CASE ChunkCut(w)
    BY <2>15, Zenon DEF ChunkCut
  <2> QED
    BY <1>1, <2>1, <2>2, <2>3, <2>4, <2>5, <2>6, <2>7,
       <2>8, <2>9, <2>10, <2>11, <2>12, <2>13, <2>14, <2>15 DEF Command
<1>2. ASSUME NEW w \in Workers,
             \/ HandshakeFails(w) \/ Handshake(w) \/ ReadFails(w) \/ ReadControl(w)
             \/ \E text \in Texts[w] : ReadCommand(w, text)
      PROVE  stored' = stored
  BY <1>2 DEF HandshakeFails, Handshake, ReadFails, ReadControl, ReadCommand
<1>3. ASSUME NEW v, handle_admin_delete(v) PROVE stored' \subseteq stored
  BY <1>3 DEF handle_admin_delete
<1>4. CASE UNCHANGED vars \/ Finished
  BY <1>4 DEF vars, Finished
<1> QED
  BY <1>1, <1>2, <1>3, <1>4 DEF Next

\* A worker is always at a place of its loop, counts the frames of its client,
\* tries a segment at most twice and never sends more of a chunk than remains.
THEOREM BridgeTypes == Spec => []TypeOK
<1>1. Init => stored \subseteq DOMAIN Segments \cup DOMAIN FilePath
  BY DEF Init
<1>2. stored \subseteq DOMAIN Segments \cup DOMAIN FilePath /\ [Next]_vars
        => (stored \subseteq DOMAIN Segments \cup DOMAIN FilePath)'
  BY StoredShrinks
<1>3. Locals /\ stored \subseteq DOMAIN Segments \cup DOMAIN FilePath => TypeOK
  <2> SUFFICES ASSUME Locals, stored \subseteq DOMAIN Segments \cup DOMAIN FilePath
               PROVE  TypeOK
    OBVIOUS
  <2>1. ASSUME NEW w \in Workers
        PROVE  /\ con[w].pc \in Places /\ con[w].n \in 0..MaxCommands[w]
               /\ con[w].retries \in 0..2
               /\ con[w].remaining \in Nat /\ con[w].sent_bytes \in 0..(Modulus - 1)
    <3>1. con[w] \in Conn /\ con[w].n \in Nat /\ con[w].n <= MaxCommands[w]
      BY ConnOf
    <3>2. MaxCommands[w] \in Nat
      BY BridgeAssumption
    <3> QED
      BY <3>1, <3>2 DEF Conn
  <2> QED
    BY <2>1 DEF TypeOK, Locals
<1> QED
  BY <1>1, <1>2, <1>3, LocalsAlways, PTL DEF Spec

-----------------------------------------------------------------------------
(* What each action does to the locals.                                    *)

\* Worker w goes from one of the places from to one of the places to; the others
\* stay where they are.
Moves(w, from, to) ==
    /\ con[w].pc \in from /\ con'[w].pc \in to
    /\ \A v \in Workers \ {w} : con'[v] = con[v]

\* Its command and the progress of its chunk stay the same.
Keeps(w) ==
    /\ con'[w].n = con[w].n /\ con'[w].cmd = con[w].cmd
    /\ con'[w].next_pn = con[w].next_pn
    /\ con'[w].sent_bytes = con[w].sent_bytes
    /\ con'[w].remaining = con[w].remaining /\ con'[w].cut = con[w].cut

\* The place changes and nothing else.
LEMMA MovedGoto ==
    ASSUME Locals, NEW w \in Workers, NEW place, Goto(w, place)
    PROVE  Moves(w, {con[w].pc}, {place}) /\ Keeps(w)
  BY ConnOf DEF Goto, Moves, Keeps, Conn

\* The answer is chosen and nothing else changes.
LEMMA MovedAnswer ==
    ASSUME Locals, NEW w \in Workers, NEW msg, Answer(w, msg)
    PROVE  Moves(w, {con[w].pc}, {"reply"}) /\ Keeps(w) /\ con'[w].reply = msg
  BY ConnOf DEF Answer, Moves, Keeps, Conn

\* The frame loop.
LEMMA MovedLoop ==
    ASSUME Locals, NEW w \in Workers
    PROVE  /\ HandshakeFails(w) => Moves(w, {"connect"}, {"closed"})
                                   /\ con'[w].n = con[w].n
           /\ Handshake(w) => Moves(w, {"connect"}, {"read"}) /\ Keeps(w)
           /\ ReadFails(w) => Moves(w, {"read"}, {"closed"}) /\ con'[w].n = con[w].n
           /\ ReadControl(w) => Moves(w, {"read"}, {"read", "closed"})
                                /\ con'[w].n = con[w].n + 1
           /\ Reply(w) => Moves(w, {"reply"}, {"read", "echo"}) /\ Keeps(w)
           /\ Echo(w) => Moves(w, {"echo"}, {"read"}) /\ Keeps(w)
<1>1. ASSUME HandshakeFails(w)
      PROVE  Moves(w, {"connect"}, {"closed"}) /\ con'[w].n = con[w].n
  BY <1>1, ConnOf DEF HandshakeFails, Close, Fresh, Moves, Conn
<1>2. ASSUME Handshake(w) PROVE Moves(w, {"connect"}, {"read"}) /\ Keeps(w)
  BY <1>2, MovedGoto DEF Handshake, Moves
<1>3. ASSUME ReadFails(w)
      PROVE  Moves(w, {"read"}, {"closed"}) /\ con'[w].n = con[w].n
  BY <1>3, ConnOf DEF ReadFails, Close, Fresh, Moves, Conn
<1>4. ASSUME ReadControl(w)
      PROVE  Moves(w, {"read"}, {"read", "closed"}) /\ con'[w].n = con[w].n + 1
  BY <1>4, ConnOf DEF ReadControl, Fresh, Moves, Conn
<1>5. ASSUME Reply(w) PROVE Moves(w, {"reply"}, {"read", "echo"}) /\ Keeps(w)
  <2>1. PICK place \in {"read", "echo"} : Goto(w, place) /\ con[w].pc = "reply"
    BY <1>5 DEF Reply
  <2> QED
    BY <2>1, MovedGoto DEF Moves
<1>6. ASSUME Echo(w) PROVE Moves(w, {"echo"}, {"read"}) /\ Keeps(w)
  BY <1>6, MovedGoto DEF Echo, Moves
<1> QED
  BY <1>1, <1>2, <1>3, <1>4, <1>5, <1>6

\* A text takes the worker to its place with fresh locals.
LEMMA MovedCommand ==
    ASSUME Locals, NEW w \in Workers, NEW text \in Texts[w], ReadCommand(w, text)
    PROVE  /\ Moves(w, {"read"}, {PlaceOf(text)})
           /\ PlaceOf(text) \in {"reply", "init", "segment", "number"}
           /\ con'[w].n = con[w].n + 1 /\ con'[w].cmd = text
           /\ con'[w].sent_whole = FALSE
           /\ con'[w].reply \in {"answer", "none"}
<1> DEFINE place == PlaceOf(text)
           r == [Fresh EXCEPT !.pc = place, !.n = con[w].n + 1, !.cmd = text,
                              !.reply = IF place = "reply" THEN "answer" ELSE "none"]
<1>1. con' = [con EXCEPT ![w] = r] /\ con[w].pc = "read"
  BY DEF ReadCommand
<1>2. place \in {"reply", "init", "segment", "number"}
  BY PlaceProps
<1> HIDE DEF place
<1>3. /\ r.pc = place /\ r.n = con[w].n + 1 /\ r.cmd = text /\ r.sent_whole = FALSE
      /\ r.reply \in {"answer", "none"}
  BY DEF Fresh
<1> HIDE DEF r
<1>4. con'[w] = r /\ \A v \in Workers \ {w} : con'[v] = con[v]
  BY <1>1, ConnOf
<1> QED
  BY <1>1, <1>2, <1>3, <1>4 DEF Moves, place

\* The commands that send files.
LEMMA MovedFiles ==
    ASSUME Locals, NEW w \in Workers
    PROVE  /\ SendInit(w) => /\ Moves(w, {"init"}, {"info", "reply"})
                             /\ con'[w].n = con[w].n
                             /\ con'[w].pc = "reply" => con'[w].reply = "init-missing"
           /\ ReadInfo(w) => /\ Moves(w, {"info"}, {"reply"})
                             /\ con'[w].n = con[w].n /\ con'[w].reply = "ws_init"
           /\ SendSegment(w) => /\ Moves(w, {"segment"}, {"segment", "count"})
                                /\ con'[w].n = con[w].n
           /\ CountSegment(w) => /\ Moves(w, {"count"}, {"reply"})
                                 /\ con'[w].n = con[w].n
                                 /\ con'[w].reply \in {"segment-sent", "segment-missing"}
<1>1. ASSUME SendInit(w)
      PROVE  /\ Moves(w, {"init"}, {"info", "reply"})
             /\ con'[w].n = con[w].n
             /\ con'[w].pc = "reply" => con'[w].reply = "init-missing"
  <2>1. PICK rc \in BOOLEAN : /\ IF rc THEN Goto(w, "info") ELSE Answer(w, "init-missing")
                              /\ con[w].pc = "init"
    BY <1>1 DEF SendInit
  <2> QED
    BY <2>1, MovedGoto, MovedAnswer DEF Moves, Keeps
<1>2. ASSUME ReadInfo(w)
      PROVE  /\ Moves(w, {"info"}, {"reply"})
             /\ con'[w].n = con[w].n /\ con'[w].reply = "ws_init"
  BY <1>2, ConnOf DEF ReadInfo, Moves, Conn
<1>3. ASSUME SendSegment(w)
      PROVE  Moves(w, {"segment"}, {"segment", "count"}) /\ con'[w].n = con[w].n
  BY <1>3, ConnOf DEF SendSegment, Moves, Conn
<1>4. ASSUME CountSegment(w)
      PROVE  /\ Moves(w, {"count"}, {"reply"})
             /\ con'[w].n = con[w].n
             /\ con'[w].reply \in {"segment-sent", "segment-missing"}
  <2>1. PICK msg \in {"segment-sent", "segment-missing"} :
          Answer(w, msg) /\ con[w].pc = "count"
    BY <1>4 DEF CountSegment
  <2> QED
    BY <2>1, MovedAnswer DEF Moves, Keeps
<1> QED
  BY <1>1, <1>2, <1>3, <1>4

\* The commands that send packets.
LEMMA MovedPackets ==
    ASSUME Locals, NEW w \in Workers
    PROVE  /\ TakeNumber(w) => /\ Moves(w, {"number"}, {"send"})
                               /\ con'[w].n = con[w].n
                               /\ con'[w].next_pn = next_packet_number
           /\ NotConnected(w) => /\ Moves(w, {"number"}, {"reply"}) /\ Keeps(w)
                                 /\ con'[w].reply = "answer"
           /\ NoChunk(w) => /\ Moves(w, {"number"}, {"reply"}) /\ Keeps(w)
                            /\ con'[w].reply = "chunk-failed"
           /\ SendPacket(w) => /\ Moves(w, {"send"}, {"reply"}) /\ Keeps(w)
                               /\ con'[w].reply = "answer"
           /\ ChunkFails(w) => /\ Moves(w, {"chunk"}, {"reply"}) /\ Keeps(w)
                               /\ con'[w].reply = "chunk-failed"
           /\ WriteBack(w) => /\ Moves(w, {"writeback"}, {"reply"}) /\ Keeps(w)
                              /\ con'[w].reply = "chunk-sent"
<1>1. ASSUME TakeNumber(w)
      PROVE  /\ Moves(w, {"number"}, {"send"}) /\ con'[w].n = con[w].n
             /\ con'[w].next_pn = next_packet_number
  BY <1>1, ConnOf DEF TakeNumber, Moves, Conn
<1>2. ASSUME NEW msg, Answer(w, msg)
      PROVE  Moves(w, {con[w].pc}, {"reply"}) /\ Keeps(w) /\ con'[w].reply = msg
  BY <1>2, MovedAnswer
<1> QED
  BY <1>1, <1>2 DEF NotConnected, NoChunk, SendPacket, ChunkFails, WriteBack, Moves

\* The steps of a chunk.
LEMMA MovedChunk ==
    ASSUME Locals, NEW w \in Workers
    PROVE  /\ StartChunk(w) => /\ Moves(w, {"number"}, {"chunk", "writeback"})
                               /\ con'[w].n = con[w].n /\ con'[w].cmd = con[w].cmd
                               /\ con'[w].next_pn = next_packet_number
                               /\ con'[w].sent_bytes = 0
           /\ ChunkPacket(w) =>
                \E n \in BytesRead(con[w].cmd, con[w].sent_bytes, con[w].remaining) :
                   /\ Moves(w, {"chunk"}, {"chunk", "writeback"})
                   /\ con'[w].n = con[w].n /\ con'[w].cmd = con[w].cmd
                   /\ con'[w].next_pn = con[w].next_pn + 1
                   /\ con'[w].sent_bytes = (con[w].sent_bytes + n) % Modulus
                   /\ sent' = sent \cup {Packet(w, con[w].next_pn,
                                  (con[w].cmd.offset + con[w].sent_bytes) % Modulus, n)}
           /\ ChunkCut(w) => /\ Moves(w, {"chunk"}, {"writeback"})
                             /\ con'[w].n = con[w].n /\ con'[w].cmd = con[w].cmd
                             /\ con'[w].next_pn = con[w].next_pn
                             /\ con'[w].sent_bytes = con[w].sent_bytes
<1>1. ASSUME StartChunk(w)
      PROVE  /\ Moves(w, {"number"}, {"chunk", "writeback"})
             /\ con'[w].n = con[w].n /\ con'[w].cmd = con[w].cmd
             /\ con'[w].next_pn = next_packet_number
             /\ con'[w].sent_bytes = 0
  <2>1. con[w].sent_bytes = 0
    BY <1>1, ConnOf DEF StartChunk, LocalOK
  <2> QED
    BY <1>1, <2>1, ConnOf DEF StartChunk, Moves, Conn
<1>2. ASSUME ChunkPacket(w)
      PROVE  \E n \in BytesRead(con[w].cmd, con[w].sent_bytes, con[w].remaining) :
                /\ Moves(w, {"chunk"}, {"chunk", "writeback"})
                /\ con'[w].n = con[w].n /\ con'[w].cmd = con[w].cmd
                /\ con'[w].next_pn = con[w].next_pn + 1
                /\ con'[w].sent_bytes = (con[w].sent_bytes + n) % Modulus
                /\ sent' = sent \cup {Packet(w, con[w].next_pn,
                               (con[w].cmd.offset + con[w].sent_bytes) % Modulus, n)}
  <2>1. PICK n \in BytesRead(con[w].cmd, con[w].sent_bytes, con[w].remaining) :
          LET c == con[w].cmd
              total == (con[w].sent_bytes + n) % Modulus
          IN /\ sent' = sent \cup
                  {Packet(w, con[w].next_pn, (c.offset + con[w].sent_bytes) % Modulus, n)}
             /\ con' = [con EXCEPT ![w].next_pn = @ + 1, ![w].sent_bytes = total,
                        ![w].remaining = @ - n,
                        ![w].pc = IF MoreToSend(c, total, con[w].remaining - n)
                                  THEN "chunk" ELSE "writeback"]
    BY <1>2, Zenon DEF ChunkPacket
  <2>2. con[w].pc = "chunk"
    BY <1>2 DEF ChunkPacket
  <2>3. /\ Moves(w, {"chunk"}, {"chunk", "writeback"})
        /\ con'[w].n = con[w].n /\ con'[w].cmd = con[w].cmd
        /\ con'[w].next_pn = con[w].next_pn + 1
        /\ con'[w].sent_bytes = (con[w].sent_bytes + n) % Modulus
    BY <2>1, <2>2, ConnOf DEF Moves, Conn
  <2> QED
    BY <2>1, <2>3, Zenon
<1>3. ASSUME ChunkCut(w)
      PROVE  /\ Moves(w, {"chunk"}, {"writeback"})
             /\ con'[w].n = con[w].n /\ con'[w].cmd = con[w].cmd
             /\ con'[w].next_pn = con[w].next_pn
             /\ con'[w].sent_bytes = con[w].sent_bytes
  BY <1>3, ConnOf DEF ChunkCut, Moves, Conn
<1> QED
  BY <1>1, <1>2, <1>3

-----------------------------------------------------------------------------
(* The counters of segments.                                               *)

\* Workers with a segment command that is not counted yet, and those of them that
\* have written their segment.
InProgress == {w \in Workers : con[w].pc \in {"segment", "count"}}
Uncounted == {w \in InProgress : con[w].sent_whole}

CountInv ==
    /\ segment_sent_ok \in Int /\ segment_sent_fail \in Int
    /\ asked \in Int /\ written \in Int
    /\ segment_sent_ok = written - Cardinality(Uncounted)
    /\ segment_sent_ok + segment_sent_fail = asked - Cardinality(InProgress)

counters == <<segment_sent_ok, segment_sent_fail, asked, written>>

\* The sets are finite.
LEMMA InProgressFinite ==
    /\ IsFiniteSet(InProgress) /\ Cardinality(InProgress) \in Nat
    /\ IsFiniteSet(Uncounted) /\ Cardinality(Uncounted) \in Nat
<1>1. InProgress \subseteq Workers /\ Uncounted \subseteq Workers
  BY DEF InProgress, Uncounted
<1> QED
  BY <1>1, BridgeAssumption, FS_Subset, FS_CardinalityType

\* A worker that is in no segment command before or after changes no count.
LEMMA CountOther ==
    ASSUME CountInv, NEW w \in Workers, NEW from, NEW to, Moves(w, from, to),
           from \cap {"segment", "count"} = {}, to \cap {"segment", "count"} = {},
           UNCHANGED counters
    PROVE  CountInv'
<1>1. InProgress' = InProgress /\ Uncounted' = Uncounted
  BY DEF InProgress, Uncounted, Moves
<1> QED
  BY <1>1 DEF CountInv, counters

\* A segment is asked for.
LEMMA CountAsked ==
    ASSUME CountInv, NEW w \in Workers, Moves(w, {"read"}, {"segment"}),
           con'[w].sent_whole = FALSE, asked' = asked + 1,
           UNCHANGED <<segment_sent_ok, segment_sent_fail, written>>
    PROVE  CountInv'
<1>1. /\ InProgress' = InProgress \cup {w} /\ w \notin InProgress
      /\ Uncounted' = Uncounted
  BY DEF InProgress, Uncounted, Moves
<1>2. Cardinality(InProgress') = Cardinality(InProgress) + 1
  BY <1>1, InProgressFinite, FS_AddElement
<1> QED
  BY <1>1, <1>2, InProgressFinite DEF CountInv

\* An attempt to send it ends; the counts change when it is written whole.
LEMMA CountAttempt ==
    ASSUME Locals, CountInv, NEW w \in Workers, SendSegment(w)
    PROVE  CountInv'
<1>1. Moves(w, {"segment"}, {"segment", "count"})
  BY MovedFiles
<1>2. PICK rc \in BOOLEAN :
        /\ con'[w].sent_whole = rc
        /\ written' = IF rc THEN written + 1 ELSE written
        /\ UNCHANGED <<segment_sent_ok, segment_sent_fail, asked>>
  BY ConnOf DEF SendSegment, ctx, Conn
<1>3. ~con[w].sent_whole
  BY <1>1 DEF Locals, LocalOK, Moves
<1>4. InProgress' = InProgress /\ w \in InProgress /\ w \notin Uncounted
  BY <1>1, <1>3 DEF InProgress, Uncounted, Moves
<1>5. CASE rc
  <2>1. Uncounted' = Uncounted \cup {w}
    BY <1>1, <1>2, <1>4, <1>5 DEF InProgress, Uncounted, Moves
  <2>2. Cardinality(Uncounted') = Cardinality(Uncounted) + 1
    BY <1>4, <2>1, InProgressFinite, FS_AddElement
  <2> QED
    BY <1>2, <1>4, <1>5, <2>2, InProgressFinite DEF CountInv
<1>6. CASE ~rc
  <2>1. Uncounted' = Uncounted
    BY <1>1, <1>2, <1>4, <1>6 DEF InProgress, Uncounted, Moves
  <2> QED
    BY <1>2, <1>4, <1>6, <2>1 DEF CountInv
<1> QED
  BY <1>5, <1>6

\* The segment is counted.
LEMMA CountCounted ==
    ASSUME Locals, CountInv, NEW w \in Workers, CountSegment(w)
    PROVE  CountInv'
<1>1. \A v \in Workers \ {w} : con'[v] = con[v]
  BY MovedFiles DEF Moves
<1>2. con[w].pc = "count" /\ con'[w].pc = "reply"
  BY MovedFiles DEF Moves
<1>3. InProgress' = InProgress \ {w} /\ w \in InProgress
  BY <1>1, <1>2 DEF InProgress
<1>4. Cardinality(InProgress') = Cardinality(InProgress) - 1
  BY <1>3, InProgressFinite, FS_RemoveElement
<1>5. Uncounted' = Uncounted \ {w} /\ (w \in Uncounted <=> con[w].sent_whole)
  BY <1>1, <1>2, <1>3 DEF Uncounted, InProgress
<1>6. Cardinality(Uncounted') = IF con[w].sent_whole THEN Cardinality(Uncounted) - 1
                                ELSE Cardinality(Uncounted)
  BY <1>5, InProgressFinite, FS_RemoveElement
<1>7. asked' = asked /\ written' = written
  BY DEF CountSegment, hist
<1>8. CASE con[w].sent_whole
  BY <1>4, <1>6, <1>7, <1>8, InProgressFinite DEF CountInv, CountSegment
<1>9. CASE ~con[w].sent_whole
  BY <1>4, <1>6, <1>7, <1>9, InProgressFinite DEF CountInv, CountSegment
<1> QED
  BY <1>8, <1>9

\* Every step keeps the counts exact.
LEMMA CountStep == Locals /\ CountInv /\ [Next]_vars => CountInv'
<1> SUFFICES ASSUME Locals, CountInv, [Next]_vars PROVE CountInv'
  OBVIOUS
<1>1. ASSUME NEW w \in Workers, NEW text \in Texts[w], ReadCommand(w, text)
      PROVE  CountInv'
  <2> DEFINE place == PlaceOf(text)
  <2>1. /\ asked' = IF place = "segment" THEN asked + 1 ELSE asked
        /\ UNCHANGED <<segment_sent_ok, segment_sent_fail, written>>
    BY <1>1 DEF ReadCommand, ctx
  <2>2. /\ Moves(w, {"read"}, {place}) /\ con'[w].sent_whole = FALSE
        /\ place \in {"reply", "init", "segment", "number"}
    BY <1>1, MovedCommand
  <2> HIDE DEF place
  <2>3. CASE place = "segment"
    BY <2>1, <2>2, <2>3, CountAsked
  <2>4. CASE place # "segment"
    <3>1. UNCHANGED counters
      BY <2>1, <2>4 DEF counters
    <3>2. {place} \cap {"segment", "count"} = {} /\ {"read"} \cap {"segment", "count"} = {}
      BY <2>2, <2>4
    <3> QED
      BY <2>2, <3>1, <3>2, CountOther
  <2> QED
    BY <2>3, <2>4
<1>2. ASSUME NEW w \in Workers, SendSegment(w) \/ CountSegment(w) PROVE CountInv'
  BY <1>2, CountAttempt, CountCounted
<1>3. ASSUME NEW w \in Workers,
             \/ HandshakeFails(w) \/ Handshake(w) \/ ReadFails(w) \/ ReadControl(w)
             \/ Reply(w) \/ Echo(w) \/ SendInit(w) \/ ReadInfo(w)
      PROVE  CountInv'
  <2>1. UNCHANGED counters
    BY <1>3 DEF HandshakeFails, Handshake, ReadFails, ReadControl, Reply, Echo, SendInit,
                ReadInfo, ctx, hist, counters
  <2>2. Moves(w, {"connect", "read", "reply", "echo", "init", "info"},
                 {"closed", "read", "echo", "info", "reply"})
    BY <1>3, MovedLoop, MovedFiles DEF Moves
  <2> QED
    BY <2>1, <2>2, CountOther
<1>4. ASSUME NEW w \in Workers,
             \/ TakeNumber(w) \/ NotConnected(w) \/ SendPacket(w) \/ StartChunk(w)
             \/ NoChunk(w) \/ ChunkPacket(w) \/ ChunkCut(w) \/ ChunkFails(w) \/ WriteBack(w)
      PROVE  CountInv'
  <2>1. UNCHANGED counters
    BY <1>4 DEF TakeNumber, NotConnected, SendPacket, StartChunk, NoChunk, ChunkPacket,
                ChunkCut, ChunkFails, WriteBack, ctx, hist, counters
  <2>2. Moves(w, {"number", "send", "chunk", "writeback"},
                 {"send", "chunk", "writeback", "reply"})
    BY <1>4, MovedPackets, MovedChunk DEF Moves
  <2> QED
    BY <2>1, <2>2, CountOther
<1>5. CASE UNCHANGED vars \/ Finished \/ \E v \in DOMAIN FilePath : handle_admin_delete(v)
  <2>1. UNCHANGED <<con, counters>>
    BY <1>5 DEF vars, Finished, handle_admin_delete, ctx, hist, counters
  <2>2. InProgress' = InProgress /\ Uncounted' = Uncounted
    BY <2>1 DEF InProgress, Uncounted
  <2> QED
    BY <2>1, <2>2 DEF CountInv, counters
<1> QED
  BY <1>1, <1>2, <1>3, <1>4, <1>5 DEF Next, Command

\* However the workers interleave, segment_sent_ok counts the segments that were
\* written whole and every segment command is counted exactly once.
THEOREM Counted == Spec => []SegmentsCounted
<1>1. Init => CountInv
  <2> SUFFICES ASSUME Init PROVE CountInv
    OBVIOUS
  <2>1. InProgress = {} /\ Uncounted = {}
    BY DEF Init, Fresh, InProgress, Uncounted
  <2> QED
    BY <2>1, FS_EmptySet DEF Init, CountInv
<1>2. CountInv => SegmentsCounted
  BY DEF CountInv, SegmentsCounted, InProgress, Uncounted
<1> QED
  BY <1>1, <1>2, CountStep, LocalsAlways, PTL DEF Spec

-----------------------------------------------------------------------------
(* The frames on a stream.                                                 *)

Frames == [kind : {"text", "binary", "pong", "close", "INIT", "SEGM"}, whole : BOOLEAN]

\* The frames written for one command: none of them whole; at most one whole, a
\* file; or besides a whole text after it.
NoneWhole(s) == \A i \in 1..Len(s) : ~s[i].whole
OneFile(s) ==
    /\ \A i \in 1..Len(s) : s[i].whole => s[i].kind \in {"INIT", "SEGM"}
    /\ \A i, j \in 1..Len(s) : i < j => ~(s[i].whole /\ s[j].whole)
FileThenText(s) ==
    \A i, j \in 1..Len(s) : i < j /\ s[i].whole /\ s[j].whole
      => s[i].kind \in {"INIT", "SEGM"} /\ s[j].kind = "text"

\* The stream of worker w is as far as its place says.
WireOK(w) ==
    /\ con[w].pc = "connect" => wire[w] = <<>>
    /\ con[w].pc \in {"init", "segment"} => NoneWhole(wire[w])
    /\ con[w].pc \notin {"read", "closed"} => OneFile(wire[w])
    /\ FileThenText(wire[w])

WireInv == wire \in [Workers -> Seq(Frames)] /\ \A w \in Workers : WireOK(w)

\* One stage of a stream after the other.
LEMMA StreamStages ==
    \A s : (NoneWhole(s) => OneFile(s)) /\ (OneFile(s) => FileThenText(s))
  BY DEF NoneWhole, OneFile, FileThenText

\* What a frame makes of a stream.
LEMMA FrameAppended ==
    ASSUME NEW s \in Seq(Frames), NEW f \in Frames
    PROVE  /\ Append(s, f) \in Seq(Frames)
           /\ NoneWhole(s) /\ ~f.whole => NoneWhole(Append(s, f))
           /\ NoneWhole(s) /\ f.kind \in {"INIT", "SEGM"} => OneFile(Append(s, f))
           /\ OneFile(s) /\ ~f.whole => OneFile(Append(s, f))
           /\ OneFile(s) /\ f.kind = "text" => FileThenText(Append(s, f))
<1> DEFINE t == Append(s, f)
<1>1. /\ t \in Seq(Frames) /\ Len(t) = Len(s) + 1 /\ Len(s) \in Nat
      /\ \A i \in 1..Len(s) : t[i] = s[i]
      /\ t[Len(s) + 1] = f
  OBVIOUS
<1> HIDE DEF t
<1>2. NoneWhole(s) /\ ~f.whole => NoneWhole(t)
  BY <1>1 DEF NoneWhole
<1>3. NoneWhole(s) /\ f.kind \in {"INIT", "SEGM"} => OneFile(t)
  BY <1>1 DEF NoneWhole, OneFile
<1>4. OneFile(s) /\ ~f.whole => OneFile(t)
  BY <1>1 DEF OneFile
<1>5. OneFile(s) /\ f.kind = "text" => FileThenText(t)
  BY <1>1 DEF OneFile, FileThenText
<1> QED
  BY <1>1, <1>2, <1>3, <1>4, <1>5 DEF t

\* An empty stream, and one with a single frame.
LEMMA ShortStreams ==
    /\ <<>> \in Seq(Frames) /\ NoneWhole(<<>>) /\ OneFile(<<>>) /\ FileThenText(<<>>)
    /\ \A f \in Frames : <<f>> \in Seq(Frames) /\ FileThenText(<<f>>)
<1>1. <<>> \in Seq(Frames) /\ NoneWhole(<<>>) /\ OneFile(<<>>) /\ FileThenText(<<>>)
  BY DEF NoneWhole, OneFile, FileThenText
<1>2. ASSUME NEW f \in Frames PROVE <<f>> \in Seq(Frames) /\ FileThenText(<<f>>)
  BY <1>2 DEF FileThenText
<1> QED
  BY <1>1, <1>2

\* A write to w's stream: what it contains afterwards.
LEMMA FrameSent ==
    ASSUME WireInv, NEW w \in Workers, NEW kind \in {"text", "INIT", "SEGM"},
           NEW outcome \in Outcomes, ws_send_frame(w, kind, outcome)
    PROVE  /\ wire' \in [Workers -> Seq(Frames)]
           /\ \A v \in Workers \ {w} : wire'[v] = wire[v]
           /\ \/ outcome # "whole" /\ wire'[w] = wire[w]
              \/ \E f \in Frames : /\ f.kind = kind /\ f.whole = (outcome = "whole")
                                   /\ wire'[w] = Append(wire[w], f)
<1>1. wire \in [Workers -> Seq(Frames)]
  BY DEF WireInv
<1>2. CASE outcome = "none"
  BY <1>1, <1>2 DEF ws_send_frame
<1>3. CASE outcome # "none"
  <2> DEFINE f == Frame(kind, outcome = "whole")
  <2>1. f \in Frames /\ f.kind = kind /\ f.whole = (outcome = "whole")
    BY DEF Frame, Frames
  <2>2. wire' = [wire EXCEPT ![w] = Append(wire[w], f)]
    BY <1>3 DEF ws_send_frame
  <2> HIDE DEF f
  <2>3. Append(wire[w], f) \in Seq(Frames)
    BY <1>1, <2>1
  <2>4. wire'[w] = Append(wire[w], f) /\ \A v \in Workers \ {w} : wire'[v] = wire[v]
    BY <1>1, <2>2
  <2> QED
    BY <1>1, <2>1, <2>2, <2>3, <2>4
<1> QED
  BY <1>2, <1>3

\* A step of w that leaves its own stream in order leaves all in order.
LEMMA WireByWorker ==
    ASSUME WireInv, NEW w \in Workers, NEW from, NEW to, Moves(w, from, to),
           wire' \in [Workers -> Seq(Frames)],
           \A v \in Workers \ {w} : wire'[v] = wire[v],
           con'[w].pc # "connect",
           con'[w].pc \in {"init", "segment"} => NoneWhole(wire'[w]),
           con'[w].pc \notin {"read", "closed"} => OneFile(wire'[w]),
           FileThenText(wire'[w])
    PROVE  WireInv'
<1>1. ASSUME NEW v \in Workers PROVE WireOK(v)'
  <2>1. CASE v = w
    BY <2>1 DEF WireOK
  <2>2. CASE v # w
    <3>1. wire'[v] = wire[v] /\ con'[v] = con[v] /\ WireOK(v)
      BY <2>2 DEF Moves, WireInv
    <3> QED
      BY <3>1 DEF WireOK
  <2> QED
    BY <2>1, <2>2
<1> QED
  BY <1>1 DEF WireInv

\* A step of w in a command that writes nothing.
LEMMA WireQuiet ==
    ASSUME WireInv, NEW w \in Workers, NEW from, NEW to, Moves(w, from, to),
           from \subseteq Places \ {"read", "closed"},
           to \subseteq Places \ {"connect", "init", "segment"},
           wire' = wire
    PROVE  WireInv'
<1>1. OneFile(wire[w]) /\ FileThenText(wire[w]) /\ wire \in [Workers -> Seq(Frames)]
  BY DEF WireInv, WireOK, Moves
<1>2. con'[w].pc \notin {"connect", "init", "segment"}
  BY DEF Moves
<1> QED
  BY <1>1, <1>2, WireByWorker

\* Every step leaves the streams in order.
LEMMA WireStep == Locals /\ WireInv /\ [Next]_vars => WireInv'
<1> SUFFICES ASSUME Locals, WireInv, [Next]_vars PROVE WireInv'
  OBVIOUS
<1>0. wire \in [Workers -> Seq(Frames)] /\ \A w \in Workers : wire[w] \in Seq(Frames)
  BY DEF WireInv
<1>1. ASSUME NEW w \in Workers, HandshakeFails(w) \/ ReadFails(w) PROVE WireInv'
  <2>1. Moves(w, {"connect", "read"}, {"closed"}) /\ wire' = wire
    BY <1>1, MovedLoop DEF Moves, HandshakeFails, ReadFails
  <2>2. con'[w].pc = "closed" /\ FileThenText(wire[w])
    BY <2>1 DEF Moves, WireInv, WireOK
  <2> QED
    BY <1>0, <2>1, <2>2, WireByWorker
<1>2. ASSUME NEW w \in Workers, Handshake(w) PROVE WireInv'
  <2>1. Moves(w, {"connect"}, {"read"}) /\ ws_send_frame(w, "text", "whole")
    BY <1>2, MovedLoop DEF Handshake
  <2>2. OneFile(wire[w]) /\ con'[w].pc = "read"
    BY <2>1 DEF Moves, WireInv, WireOK
  <2>3. PICK f \in Frames : f.kind = "text" /\ wire'[w] = Append(wire[w], f)
    BY <2>1, FrameSent DEF Outcomes
  <2>4. FileThenText(wire'[w])
    BY <1>0, <2>2, <2>3, FrameAppended
  <2>5. /\ wire' \in [Workers -> Seq(Frames)]
        /\ \A v \in Workers \ {w} : wire'[v] = wire[v]
    BY <2>1, FrameSent DEF Outcomes
  <2> QED
    BY <2>1, <2>2, <2>4, <2>5, WireByWorker
<1>3. ASSUME NEW w \in Workers, ReadControl(w) PROVE WireInv'
  <2>1. Moves(w, {"read"}, {"read", "closed"})
    BY <1>3, MovedLoop
  <2>2. PICK opcode \in DOMAIN ControlAnswer, outcome \in Outcomes :
          wire' = [wire EXCEPT ![w] = IF outcome = "none" THEN <<>>
                     ELSE << Frame(ControlAnswer[opcode], outcome = "whole") >>]
    BY <1>3 DEF ReadControl
  <2> DEFINE f == Frame(ControlAnswer[opcode], outcome = "whole")
  <2>3. f \in Frames
    BY DEF Frame, Frames, ControlAnswer
  <2> HIDE DEF f
  <2>4. PICK s \in Seq(Frames) : FileThenText(s) /\ wire' = [wire EXCEPT ![w] = s]
    <3>1. CASE outcome = "none"
      BY <2>2, <3>1, ShortStreams
    <3>2. CASE outcome # "none"
      <4>1. wire' = [wire EXCEPT ![w] = <<f>>]
        BY <2>2, <3>2 DEF f
      <4> QED
        BY <2>3, <4>1, ShortStreams
    <3> QED
      BY <3>1, <3>2
  <2>5. /\ wire' \in [Workers -> Seq(Frames)] /\ wire'[w] = s
        /\ \A v \in Workers \ {w} : wire'[v] = wire[v]
    BY <1>0, <2>4
  <2>6. con'[w].pc \in {"read", "closed"}
    BY <2>1 DEF Moves
  <2> QED
    BY <2>1, <2>4, <2>5, <2>6, WireByWorker
<1>4. ASSUME NEW w \in Workers, NEW text \in Texts[w], ReadCommand(w, text)
      PROVE  WireInv'
  <2>1. /\ Moves(w, {"read"}, {PlaceOf(text)})
        /\ PlaceOf(text) \in {"reply", "init", "segment", "number"}
    BY <1>4, MovedCommand
  <2>2. wire' = [wire EXCEPT ![w] = <<>>]
    BY <1>4 DEF ReadCommand
  <2>3. /\ wire' \in [Workers -> Seq(Frames)] /\ wire'[w] = <<>>
        /\ \A v \in Workers \ {w} : wire'[v] = wire[v]
    BY <1>0, <2>2, ShortStreams
  <2>4. con'[w].pc # "connect"
    BY <2>1 DEF Moves
  <2> QED
    BY <2>1, <2>3, <2>4, ShortStreams, WireByWorker
<1>5. ASSUME NEW w \in Workers, Reply(w) \/ Echo(w) PROVE WireInv'
  <2>1. PICK outcome \in Outcomes :
          /\ ws_send_frame(w, "text", outcome)
          /\ \/ Goto(w, IF outcome = "whole" THEN "read" ELSE "echo")
             \/ Goto(w, "read")
    BY <1>5 DEF Reply, Echo
  <2>2. Moves(w, {"reply", "echo"}, {"read", "echo"})
    BY <1>5, MovedLoop DEF Moves
  <2>3. OneFile(wire[w])
    BY <2>2 DEF Moves, WireInv, WireOK
  <2>4. con'[w].pc \in {"read", "echo"} /\ (con'[w].pc = "echo" => outcome # "whole")
    BY <2>1, ConnOf DEF Goto, Conn
  <2>5. /\ wire' \in [Workers -> Seq(Frames)]
        /\ \A v \in Workers \ {w} : wire'[v] = wire[v]
        /\ \/ outcome # "whole" /\ wire'[w] = wire[w]
           \/ \E f \in Frames : /\ f.kind = "text" /\ f.whole = (outcome = "whole")
                                /\ wire'[w] = Append(wire[w], f)
    BY <2>1, FrameSent
  <2>6. FileThenText(wire'[w])
    BY <1>0, <2>3, <2>5, FrameAppended, StreamStages
  <2>7. outcome # "whole" => OneFile(wire'[w])
    BY <1>0, <2>3, <2>5, FrameAppended
  <2> QED
    BY <2>2, <2>4, <2>5, <2>6, <2>7, WireByWorker
<1>6. ASSUME NEW w \in Workers, SendInit(w) \/ SendSegment(w) PROVE WireInv'
  <2>1. PICK kind \in {"INIT", "SEGM"}, outcome \in Outcomes :
          /\ ws_send_frame(w, kind, outcome)
          /\ con'[w].pc = "segment" => outcome # "whole"
    <3>1. CASE SendInit(w)
      <4>1. con'[w].pc # "segment"
        BY <3>1, MovedFiles DEF Moves
      <4> QED
        BY <3>1, <4>1 DEF SendInit, send_ws_file
    <3>2. CASE SendSegment(w)
      <4>1. PICK outcome \in Outcomes, rc \in BOOLEAN :
              /\ ws_send_frame(w, "SEGM", outcome) /\ rc = (outcome = "whole")
              /\ con' = [con EXCEPT ![w].sent_whole = rc,
                   ![w].retries = IF rc THEN con[w].retries ELSE con[w].retries + 1,
                   ![w].pc = IF rc \/ (IF rc THEN con[w].retries ELSE con[w].retries + 1) = 2
                             THEN "count" ELSE "segment"]
        BY <3>2 DEF SendSegment, send_ws_file
      <4>2. con'[w].pc = "segment" => ~rc
        BY <4>1, ConnOf DEF Conn
      <4> QED
        BY <4>1, <4>2
    <3> QED
      BY <1>6, <3>1, <3>2
  <2>2. Moves(w, {"init", "segment"}, {"info", "reply", "segment", "count"})
    BY <1>6, MovedFiles DEF Moves
  <2>3. NoneWhole(wire[w])
    BY <2>2 DEF Moves, WireInv, WireOK
  <2>4. /\ wire' \in [Workers -> Seq(Frames)]
        /\ \A v \in Workers \ {w} : wire'[v] = wire[v]
        /\ \/ outcome # "whole" /\ wire'[w] = wire[w]
           \/ \E f \in Frames : /\ f.kind = kind /\ f.whole = (outcome = "whole")
                                /\ wire'[w] = Append(wire[w], f)
    BY <2>1, FrameSent
  <2>5. OneFile(wire'[w])
    BY <1>0, <2>3, <2>4, FrameAppended, StreamStages
  <2>6. FileThenText(wire'[w])
    BY <2>5, StreamStages
  <2>7. outcome # "whole" => NoneWhole(wire'[w])
    BY <1>0, <2>3, <2>4, FrameAppended
  <2>8. con'[w].pc \in {"info", "reply", "segment", "count"}
    BY <2>2 DEF Moves
  <2> QED
    BY <2>1, <2>2, <2>4, <2>5, <2>6, <2>7, <2>8, WireByWorker
<1>7. ASSUME NEW w \in Workers,
             \/ ReadInfo(w) \/ CountSegment(w)
             \/ TakeNumber(w) \/ NotConnected(w) \/ SendPacket(w) \/ StartChunk(w)
             \/ NoChunk(w) \/ ChunkPacket(w) \/ ChunkCut(w) \/ ChunkFails(w) \/ WriteBack(w)
      PROVE  WireInv'
  <2>1. wire' = wire
    BY <1>7 DEF ReadInfo, CountSegment, TakeNumber, NotConnected, SendPacket, StartChunk,
                NoChunk, ChunkPacket, ChunkCut, ChunkFails, WriteBack
  <2>2. Moves(w, {"info", "count", "number", "send", "chunk", "writeback"},
                 {"send", "chunk", "writeback", "reply"})
    BY <1>7, MovedFiles, MovedPackets, MovedChunk DEF Moves
  <2> QED
    BY <2>1, <2>2, WireQuiet DEF Places
<1>8. CASE UNCHANGED vars \/ Finished \/ \E v \in DOMAIN FilePath : handle_admin_delete(v)
  <2>1. UNCHANGED <<con, wire>>
    BY <1>8 DEF vars, Finished, handle_admin_delete
  <2> QED
    BY <2>1 DEF WireInv, WireOK
<1> QED
  BY <1>1, <1>2, <1>3, <1>4, <1>5, <1>6, <1>7, <1>8 DEF Next, Command

\* Whatever writes fail and whatever is tried again, the stream of a client has at
\* most one whole file and one whole text after it for each frame it sends.
THEOREM Answered == Spec => []AnsweredOnce
<1>1. Init => WireInv
  <2> SUFFICES ASSUME Init PROVE WireInv
    OBVIOUS
  <2>1. \A w \in Workers : con[w].pc = "connect" /\ wire[w] = <<>>
    BY DEF Init, Fresh
  <2>2. wire \in [Workers -> Seq(Frames)]
    BY ShortStreams DEF Init
  <2> QED
    BY <2>1, <2>2, ShortStreams DEF WireInv, WireOK
<1>2. WireInv => AnsweredOnce
  BY DEF WireInv, WireOK, FileThenText, AnsweredOnce
<1> QED
  BY <1>1, <1>2, WireStep, LocalsAlways, PTL DEF Spec

-----------------------------------------------------------------------------
(* The packet numbers.                                                     *)

Packets == [by : Workers, of : Nat, num : Nat, off : Nat, len : Nat]

\* A chunk works on a copy of the number that only grows, and is the only one that
\* does. It starts from the number itself; no packet of it is out before it grows.
CopyOK(w) ==
    /\ \A v \in Copies : v = w
    /\ next_packet_number <= con[w].next_pn
    /\ \A p \in sent : p.num < con[w].next_pn
    /\ con[w].pc = "chunk" /\ con[w].sent_bytes = 0
         => con[w].next_pn = next_packet_number

\* A number taken for a QUIC_SEND is below the next one, no packet has it, and no
\* other QUIC_SEND took it.
TakenOK(w) ==
    /\ con[w].next_pn < next_packet_number
    /\ \A p \in sent : p.num # con[w].next_pn
    /\ \A v \in Workers : con[v].pc = "send" /\ con[v].next_pn = con[w].next_pn => v = w

NumbersOK ==
    /\ Copies = {} => \A p \in sent : p.num < next_packet_number
    /\ \A w \in Copies : CopyOK(w)
    /\ \A w \in Workers : con[w].pc = "send" => TakenOK(w)
    /\ \A p, q \in sent : p.num = q.num => p = q

NumberInv ==
    /\ sent \subseteq Packets
    /\ disturbed \in BOOLEAN
    /\ ~disturbed => NumbersOK

\* A step of a worker that has no number and takes none.
LEMMA NumbersQuiet ==
    ASSUME NumberInv, NEW w \in Workers, NEW from, NEW to, Moves(w, from, to),
           from \cap {"send", "chunk", "writeback"} = {},
           to \cap {"send", "chunk", "writeback"} = {},
           UNCHANGED <<next_packet_number, sent, disturbed>>
    PROVE  NumberInv'
<1>1. Copies' = Copies /\ w \notin Copies
  BY DEF Copies, Moves
<1>2. con[w].pc # "send" /\ con'[w].pc # "send"
  BY DEF Moves
<1>3. \A v \in Workers : v # w => con'[v] = con[v]
  BY DEF Moves
<1>4. ASSUME NumbersOK PROVE NumbersOK'
  <2>1. ASSUME NEW v \in Copies' PROVE CopyOK(v)'
    <3>1. CopyOK(v) /\ con'[v] = con[v]
      BY <1>1, <1>3, <1>4, <2>1 DEF NumbersOK, Copies
    <3> QED
      BY <1>1, <3>1 DEF CopyOK
  <2>2. ASSUME NEW v \in Workers, con'[v].pc = "send" PROVE TakenOK(v)'
    <3>1. con'[v] = con[v] /\ TakenOK(v)
      BY <1>2, <1>3, <1>4, <2>2 DEF NumbersOK
    <3>2. \A u \in Workers : con'[u].pc = "send" => con'[u] = con[u]
      BY <1>2, <1>3
    <3> QED
      BY <3>1, <3>2 DEF TakenOK
  <2> QED
    BY <1>1, <1>4, <2>1, <2>2 DEF NumbersOK
<1> QED
  BY <1>4 DEF NumberInv

\* QUIC_SEND takes the next number; beside a chunk the chunk is disturbed.
LEMMA NumbersTake ==
    ASSUME Locals, NumberInv, NEW w \in Workers, TakeNumber(w)
    PROVE  NumberInv'
<1>1. /\ Moves(w, {"number"}, {"send"}) /\ con'[w].next_pn = next_packet_number
  BY MovedPackets
<1>2. /\ next_packet_number' = next_packet_number + 1 /\ sent' = sent
      /\ disturbed' = (disturbed \/ Copies # {}) /\ next_packet_number \in Nat
  BY ConnOf DEF TakeNumber
<1>3. Copies' = Copies
  BY <1>1 DEF Copies, Moves
<1>4. ASSUME ~disturbed' PROVE NumbersOK'
  <2>1. Copies = {} /\ NumbersOK
    BY <1>2, <1>4 DEF NumberInv
  <2>2. \A p \in sent : p.num \in Nat /\ p.num < next_packet_number
    BY <2>1 DEF NumbersOK, NumberInv, Packets
  <2>3. \A v \in Workers \ {w} : con'[v] = con[v]
    BY <1>1 DEF Moves
  <2>4. TakenOK(w)'
    <3>1. ASSUME NEW v \in Workers, con'[v].pc = "send",
                 con'[v].next_pn = con'[w].next_pn, v # w
          PROVE  FALSE
      <4>1. con[v].pc = "send" /\ con[v].next_pn = next_packet_number
        BY <1>1, <2>3, <3>1
      <4>2. con[v].next_pn < next_packet_number
        BY <2>1, <4>1 DEF NumbersOK, TakenOK
      <4> QED
        BY <1>2, <4>1, <4>2
    <3>2. \A p \in sent : p.num # next_packet_number
      BY <1>2, <2>2
    <3> QED
      BY <1>1, <1>2, <3>1, <3>2 DEF TakenOK
  <2>5. ASSUME NEW v \in Workers, v # w, con'[v].pc = "send" PROVE TakenOK(v)'
    <3>1. con[v].pc = "send" /\ con'[v] = con[v] /\ TakenOK(v) /\ con[v].next_pn \in Nat
      BY <2>1, <2>3, <2>5, ConnOf DEF NumbersOK, Conn
    <3>2. con[v].next_pn < next_packet_number
      BY <3>1 DEF TakenOK
    <3>3. con'[v].next_pn < next_packet_number' /\ con'[w].next_pn # con'[v].next_pn
      BY <1>1, <1>2, <3>1, <3>2
    <3>4. ASSUME NEW u \in Workers, con'[u].pc = "send",
                 con'[u].next_pn = con'[v].next_pn
          PROVE  u = v
      <4>1. u # w
        BY <3>3, <3>4
      <4> QED
        BY <2>3, <3>1, <3>4, <4>1 DEF TakenOK
    <3>5. \A p \in sent' : p.num # con'[v].next_pn
      BY <1>2, <3>1 DEF TakenOK
    <3> QED
      BY <3>3, <3>4, <3>5 DEF TakenOK
  <2>6. \A p \in sent' : p.num < next_packet_number'
    BY <1>2, <2>2
  <2> QED
    BY <1>2, <1>3, <2>1, <2>4, <2>5, <2>6 DEF NumbersOK
<1> QED
  BY <1>2, <1>4 DEF NumberInv

\* The packet of a QUIC_SEND goes out under the number that was taken for it.
LEMMA NumbersSend ==
    ASSUME Locals, NumberInv, NEW w \in Workers, SendPacket(w)
    PROVE  NumberInv'
<1> DEFINE new == Packet(w, con[w].next_pn, 0, 0)
<1>1. Moves(w, {"send"}, {"reply"}) /\ Keeps(w)
  BY MovedPackets
<1>2. /\ next_packet_number' = next_packet_number /\ disturbed' = disturbed
      /\ sent' \subseteq sent \cup {new}
      /\ next_packet_number \in Nat /\ con[w].next_pn \in Nat
  BY ConnOf DEF SendPacket, ctx, Conn
<1>3. new \in Packets /\ new.num = con[w].next_pn
  BY ConnOf DEF Packet, Packets, Conn
<1> HIDE DEF new
<1>4. Copies' = Copies /\ w \notin Copies
  BY <1>1 DEF Copies, Moves
<1>5. \A v \in Workers \ {w} : con'[v] = con[v]
  BY <1>1 DEF Moves
<1>6. sent' \subseteq Packets
  BY <1>2, <1>3 DEF NumberInv
<1>7. ASSUME ~disturbed' PROVE NumbersOK'
  <2>1. NumbersOK /\ TakenOK(w)
    BY <1>1, <1>2, <1>7 DEF NumberInv, NumbersOK, Moves
  <2>2. /\ con[w].next_pn < next_packet_number
        /\ \A p \in sent : p.num # con[w].next_pn
    BY <2>1 DEF TakenOK
  <2>3. Copies' = {} => \A p \in sent' : p.num < next_packet_number'
    BY <1>2, <1>3, <1>4, <2>1, <2>2 DEF NumbersOK
  <2>4. ASSUME NEW v \in Copies' PROVE CopyOK(v)'
    <3>1. con'[v] = con[v] /\ CopyOK(v) /\ con[v].next_pn \in Nat
      BY <1>4, <1>5, <2>1, <2>4, ConnOf DEF NumbersOK, Copies, Conn
    <3>2. con[w].next_pn < con[v].next_pn
      BY <1>2, <2>2, <3>1 DEF CopyOK
    <3>3. \A p \in sent' : p.num < con'[v].next_pn
      BY <1>2, <1>3, <3>1, <3>2 DEF CopyOK
    <3> QED
      BY <1>2, <1>4, <3>1, <3>3 DEF CopyOK
  <2>5. ASSUME NEW v \in Workers, con'[v].pc = "send" PROVE TakenOK(v)'
    <3>1. v # w
      BY <1>1, <2>5 DEF Moves
    <3>2. con[v].pc = "send" /\ con'[v] = con[v] /\ TakenOK(v)
      BY <1>5, <2>1, <2>5, <3>1 DEF NumbersOK
    <3>3. con[w].next_pn # con[v].next_pn
      BY <1>1, <3>1, <3>2 DEF TakenOK, Moves
    <3>4. \A p \in sent' : p.num # con'[v].next_pn
      BY <1>2, <1>3, <3>2, <3>3 DEF TakenOK
    <3>5. ASSUME NEW u \in Workers, con'[u].pc = "send",
                 con'[u].next_pn = con'[v].next_pn
          PROVE  u = v
      <4>1. u # w
        BY <1>1, <3>5 DEF Moves
      <4> QED
        BY <1>5, <3>2, <3>5, <4>1 DEF TakenOK
    <3> QED
      BY <1>2, <3>2, <3>4, <3>5 DEF TakenOK
  <2>6. \A p, q \in sent' : p.num = q.num => p = q
    BY <1>2, <1>3, <2>1, <2>2 DEF NumbersOK
  <2> QED
    BY <2>3, <2>4, <2>5, <2>6 DEF NumbersOK
<1> QED
  BY <1>2, <1>6, <1>7 DEF NumberInv

\* A chunk copies the number; beside another chunk that one is disturbed.
LEMMA NumbersStart ==
    ASSUME Locals, NumberInv, NEW w \in Workers, StartChunk(w)
    PROVE  NumberInv'
<1>1. /\ Moves(w, {"number"}, {"chunk", "writeback"})
      /\ con'[w].next_pn = next_packet_number
  BY MovedChunk
<1>2. /\ next_packet_number' = next_packet_number /\ sent' = sent
      /\ disturbed' = (disturbed \/ Copies # {}) /\ next_packet_number \in Nat
  BY ConnOf DEF StartChunk, ctx
<1>3. \A v \in Workers \ {w} : con'[v] = con[v]
  BY <1>1 DEF Moves
<1>4. ASSUME ~disturbed' PROVE NumbersOK'
  <2>1. Copies = {} /\ NumbersOK
    BY <1>2, <1>4 DEF NumberInv
  <2>2. Copies' = {w}
    BY <1>1, <1>3, <2>1 DEF Copies, Moves
  <2>3. CopyOK(w)'
    BY <1>1, <1>2, <2>1, <2>2 DEF CopyOK, NumbersOK
  <2>4. ASSUME NEW v \in Workers, con'[v].pc = "send" PROVE TakenOK(v)'
    <3>1. v # w
      BY <1>1, <2>4 DEF Moves
    <3>2. con[v].pc = "send" /\ con'[v] = con[v] /\ TakenOK(v)
      BY <1>3, <2>1, <2>4, <3>1 DEF NumbersOK
    <3>3. \A u \in Workers : con'[u].pc = "send" => con'[u] = con[u]
      BY <1>1, <1>3 DEF Moves
    <3> QED
      BY <1>2, <3>2, <3>3 DEF TakenOK
  <2> QED
    BY <1>2, <2>1, <2>2, <2>3, <2>4 DEF NumbersOK
<1> QED
  BY <1>2, <1>4 DEF NumberInv

\* A packet of a chunk goes out under the worker's copy, which grows.
LEMMA NumbersPacket ==
    ASSUME Locals, NumberInv, NEW w \in Workers, ChunkPacket(w)
    PROVE  NumberInv'
<1>1. PICK n \in BytesRead(con[w].cmd, con[w].sent_bytes, con[w].remaining) :
         /\ Moves(w, {"chunk"}, {"chunk", "writeback"})
         /\ con'[w].next_pn = con[w].next_pn + 1
         /\ con'[w].sent_bytes = (con[w].sent_bytes + n) % Modulus
         /\ sent' = sent \cup {Packet(w, con[w].next_pn,
                        (con[w].cmd.offset + con[w].sent_bytes) % Modulus, n)}
  BY MovedChunk
<1> DEFINE c == con[w]
           new == Packet(w, c.next_pn, (c.cmd.offset + c.sent_bytes) % Modulus, n)
<1>2. /\ n \in Nat /\ n > 0 /\ (con[w].sent_bytes + n) % Modulus = con[w].sent_bytes + n
      /\ con[w].sent_bytes \in Nat /\ con[w].next_pn \in Nat
  <2>1. con[w].pc = "chunk" /\ con[w] \in Conn /\ LocalOK(con[w])
    BY <1>1, ConnOf DEF Moves
  <2>2. n \in Nat /\ n > 0 /\ (con[w].sent_bytes + n) % Modulus = con[w].sent_bytes + n
    BY <1>1, <2>1, RoundProps
  <2> QED
    BY <2>1, <2>2, BridgeAssumption DEF Conn
<1>3. /\ next_packet_number' = next_packet_number /\ disturbed' = disturbed
      /\ sent' = sent \cup {new} /\ next_packet_number \in Nat
  BY <1>1, ConnOf DEF ChunkPacket, ctx
<1>4. (c.cmd.offset + c.sent_bytes) % Modulus \in Nat
  <2>1. c.cmd.offset \in Nat
    BY <1>1, ConnOf, BridgeAssumption DEF Moves, LocalOK, InChunk, ChunkLocals, Parsed
  <2>2. c.cmd.offset + c.sent_bytes \in Nat
    BY <1>2, <2>1
  <2> QED
    BY <2>2, ModulusNat
<1>5. new \in Packets /\ new.num = con[w].next_pn
  BY <1>2, <1>4, ConnOf DEF Packet, Packets, Conn
<1>6. con'[w].sent_bytes # 0
  BY <1>1, <1>2
<1> HIDE DEF c, new
<1>7. Copies' = Copies /\ w \in Copies
  BY <1>1 DEF Copies, Moves
<1>8. \A v \in Workers \ {w} : con'[v] = con[v]
  BY <1>1 DEF Moves
<1>9. ASSUME ~disturbed' PROVE NumbersOK'
  <2>1. NumbersOK /\ CopyOK(w)
    BY <1>3, <1>7, <1>9 DEF NumberInv, NumbersOK
  <2>2. \A p \in sent : p.num \in Nat /\ p.num < con[w].next_pn
    BY <2>1 DEF CopyOK, NumberInv, Packets
  <2>3. CopyOK(w)'
    <3>1. next_packet_number' <= con'[w].next_pn
      BY <1>1, <1>2, <1>3, <2>1 DEF CopyOK
    <3>2. \A p \in sent' : p.num < con'[w].next_pn
      BY <1>1, <1>2, <1>3, <1>5, <2>2
    <3> QED
      BY <1>6, <1>7, <2>1, <3>1, <3>2 DEF CopyOK
  <2>4. \A v \in Copies' : CopyOK(v)'
    BY <1>7, <2>1, <2>3 DEF CopyOK
  <2>5. ASSUME NEW v \in Workers, con'[v].pc = "send" PROVE TakenOK(v)'
    <3>1. v # w
      BY <1>1, <2>5 DEF Moves
    <3>2. /\ con[v].pc = "send" /\ con'[v] = con[v] /\ TakenOK(v)
          /\ con[v].next_pn \in Nat
      BY <1>8, <2>1, <2>5, <3>1, ConnOf DEF NumbersOK, Conn
    <3>3. con[v].next_pn # con[w].next_pn
      BY <1>2, <1>3, <2>1, <3>2 DEF TakenOK, CopyOK
    <3>4. \A u \in Workers : con'[u].pc = "send" => con'[u] = con[u]
      BY <1>1, <1>8 DEF Moves
    <3>5. \A p \in sent' : p.num # con'[v].next_pn
      BY <1>3, <1>5, <3>2, <3>3 DEF TakenOK
    <3> QED
      BY <1>3, <3>2, <3>4, <3>5 DEF TakenOK
  <2>6. \A p, q \in sent' : p.num = q.num => p = q
    BY <1>2, <1>3, <1>5, <2>1, <2>2 DEF NumbersOK
  <2> QED
    BY <1>7, <2>4, <2>5, <2>6 DEF NumbersOK
<1> QED
  BY <1>3, <1>5, <1>9 DEF NumberInv

\* A chunk that is cut keeps its copy.
LEMMA NumbersCut ==
    ASSUME Locals, NumberInv, NEW w \in Workers, ChunkCut(w)
    PROVE  NumberInv'
<1>1. /\ Moves(w, {"chunk"}, {"writeback"})
      /\ con'[w].next_pn = con[w].next_pn /\ con'[w].sent_bytes = con[w].sent_bytes
  BY MovedChunk
<1>2. UNCHANGED <<next_packet_number, sent, disturbed>>
  BY DEF ChunkCut, ctx, hist
<1>3. Copies' = Copies /\ w \in Copies
  BY <1>1 DEF Copies, Moves
<1>4. \A v \in Workers \ {w} : con'[v] = con[v]
  BY <1>1 DEF Moves
<1>5. \A v \in Workers : con'[v].pc = "send" => con'[v] = con[v]
  BY <1>1, <1>4 DEF Moves
<1>6. ASSUME ~disturbed' PROVE NumbersOK'
  <2>1. NumbersOK
    BY <1>2, <1>6 DEF NumberInv
  <2>2. ASSUME NEW v \in Copies' PROVE CopyOK(v)'
    <3>1. CopyOK(v)
      BY <1>3, <2>1, <2>2 DEF NumbersOK
    <3>2. v = w
      BY <1>3, <2>1, <2>2, <3>1 DEF CopyOK
    <3> QED
      BY <1>1, <1>2, <1>3, <3>1, <3>2 DEF CopyOK, Moves
  <2>3. ASSUME NEW v \in Workers, con'[v].pc = "send" PROVE TakenOK(v)'
    BY <1>2, <1>5, <2>1, <2>3 DEF NumbersOK, TakenOK
  <2> QED
    BY <1>2, <1>3, <2>1, <2>2, <2>3 DEF NumbersOK
<1> QED
  BY <1>2, <1>6 DEF NumberInv

\* A chunk ends: it fails, and is disturbed unless nothing of it was sent, or its
\* copy becomes the next number.
LEMMA NumbersEnd ==
    ASSUME Locals, NumberInv, NEW w \in Workers, ChunkFails(w) \/ WriteBack(w)
    PROVE  NumberInv'
<1>1. Moves(w, {"chunk", "writeback"}, {"reply"}) /\ sent' = sent
  BY MovedPackets DEF Moves, ChunkFails, WriteBack, hist
<1>2. \A v \in Workers \ {w} : con'[v] = con[v]
  BY <1>1 DEF Moves
<1>3. disturbed' \in BOOLEAN /\ (disturbed => disturbed')
  BY DEF ChunkFails, WriteBack, hist, NumberInv
<1>4. con[w].next_pn \in Nat /\ con[w].sent_bytes \in Nat /\ next_packet_number \in Nat
  BY ConnOf, BridgeAssumption DEF Conn
<1>5. ASSUME ~disturbed' PROVE NumbersOK'
  <2>1. NumbersOK /\ CopyOK(w)
    BY <1>1, <1>3, <1>5 DEF NumberInv, NumbersOK, Copies, Moves
  <2>2. next_packet_number' = con[w].next_pn
    <3>1. CASE WriteBack(w)
      BY <3>1 DEF WriteBack
    <3>2. CASE ChunkFails(w)
      <4>1. con[w].pc = "chunk" /\ next_packet_number' = next_packet_number
            /\ disturbed' = (disturbed \/ con[w].sent_bytes > 0)
        BY <3>2 DEF ChunkFails, ctx
      <4>2. con[w].sent_bytes = 0
        <5>1. ~(con[w].sent_bytes > 0)
          BY <1>5, <4>1, Zenon
        <5> QED
          BY <1>4, <5>1
      <4> QED
        BY <2>1, <4>1, <4>2 DEF CopyOK
    <3> QED
      BY <3>1, <3>2
  <2>3. Copies' = {}
    BY <1>1, <1>2, <2>1 DEF Copies, CopyOK, Moves
  <2>4. \A p \in sent' : p.num < next_packet_number'
    BY <1>1, <2>1, <2>2 DEF CopyOK
  <2>5. next_packet_number <= next_packet_number'
    BY <2>1, <2>2 DEF CopyOK
  <2>6. ASSUME NEW v \in Workers, con'[v].pc = "send" PROVE TakenOK(v)'
    <3>1. v # w
      BY <1>1, <2>6 DEF Moves
    <3>2. /\ con[v].pc = "send" /\ con'[v] = con[v] /\ TakenOK(v)
          /\ con[v].next_pn \in Nat
      BY <1>2, <2>1, <2>6, <3>1, ConnOf DEF NumbersOK, Conn
    <3>3. \A u \in Workers : con'[u].pc = "send" => con'[u] = con[u]
      BY <1>1, <1>2 DEF Moves
    <3>4. con'[v].next_pn < next_packet_number'
      BY <1>4, <2>2, <2>5, <3>2 DEF TakenOK
    <3> QED
      BY <1>1, <3>2, <3>3, <3>4 DEF TakenOK
  <2> QED
    BY <1>1, <2>1, <2>3, <2>4, <2>6 DEF NumbersOK
<1> QED
  BY <1>1, <1>3, <1>5 DEF NumberInv

\* Every step keeps the numbers apart.
LEMMA NumberStep == Locals /\ NumberInv /\ [Next]_vars => NumberInv'
<1> SUFFICES ASSUME Locals, NumberInv, [Next]_vars PROVE NumberInv'
  OBVIOUS
<1>1. ASSUME NEW w \in Workers, NEW text \in Texts[w], ReadCommand(w, text)
      PROVE  NumberInv'
  <2>1. /\ Moves(w, {"read"}, {PlaceOf(text)})
        /\ PlaceOf(text) \in {"reply", "init", "segment", "number"}
    BY <1>1, MovedCommand
  <2>2. Moves(w, {"read"}, {"reply", "init", "segment", "number"})
    BY <2>1 DEF Moves
  <2>3. UNCHANGED <<next_packet_number, sent, disturbed>>
    BY <1>1 DEF ReadCommand, ctx
  <2> QED
    BY <2>2, <2>3, NumbersQuiet
<1>2. ASSUME NEW w \in Workers,
             \/ HandshakeFails(w) \/ Handshake(w) \/ ReadFails(w) \/ ReadControl(w)
             \/ Reply(w) \/ Echo(w) \/ SendInit(w) \/ ReadInfo(w)
             \/ SendSegment(w) \/ CountSegment(w) \/ NotConnected(w) \/ NoChunk(w)
      PROVE  NumberInv'
  <2>1. UNCHANGED <<next_packet_number, sent, disturbed>>
    BY <1>2 DEF HandshakeFails, Handshake, ReadFails, ReadControl, Reply, Echo, SendInit,
                ReadInfo, SendSegment, CountSegment, NotConnected, NoChunk, ctx, hist
  <2>2. Moves(w, {"connect", "read", "reply", "echo", "init", "info", "segment", "count",
                  "number"},
                 {"closed", "read", "echo", "info", "reply", "segment", "count"})
    BY <1>2, MovedLoop, MovedFiles, MovedPackets DEF Moves
  <2> QED
    BY <2>1, <2>2, NumbersQuiet
<1>3. ASSUME NEW w \in Workers,
             \/ TakeNumber(w) \/ SendPacket(w) \/ StartChunk(w) \/ ChunkPacket(w)
             \/ ChunkCut(w) \/ ChunkFails(w) \/ WriteBack(w)
      PROVE  NumberInv'
  BY <1>3, NumbersTake, NumbersSend, NumbersStart, NumbersPacket, NumbersCut, NumbersEnd
<1>4. CASE UNCHANGED vars \/ Finished \/ \E v \in DOMAIN FilePath : handle_admin_delete(v)
  <2>1. UNCHANGED <<con, next_packet_number, sent, disturbed>>
    BY <1>4 DEF vars, Finished, handle_admin_delete, ctx, hist
  <2>2. Copies' = Copies
    BY <2>1 DEF Copies
  <2> QED
    BY <2>1, <2>2 DEF NumberInv, NumbersOK, CopyOK, TakenOK
<1> QED
  BY <1>1, <1>2, <1>3, <1>4 DEF Next, Command

\* The invariant of the packet numbers always holds.
LEMMA NumberAlways == Spec => []NumberInv
<1>1. Init => NumberInv
  <2> SUFFICES ASSUME Init PROVE NumberInv
    OBVIOUS
  <2>1. sent = {} /\ disturbed = FALSE /\ \A w \in Workers : con[w].pc = "connect"
    BY DEF Init, Fresh
  <2> QED
    BY <2>1 DEF NumberInv, NumbersOK, Copies
<1> QED
  BY <1>1, NumberStep, LocalsAlways, PTL DEF Spec

\* As long as numbers are taken one command after the other and no chunk fails half
\* way, the copy of the number that send_video_chunk works on is not seen: no two
\* packets have the same number.
THEOREM NumbersApart == Spec => []NumbersDistinct
<1>1. NumberInv => NumbersDistinct
  BY DEF NumberInv, NumbersOK, NumbersDistinct
<1> QED
  BY <1>1, NumberAlways, PTL

-----------------------------------------------------------------------------
(* The bytes of a chunk.                                                   *)

\* The packets P carry the first sent_bytes bytes from offset on, piece after piece
\* in the order of their numbers, which are below next_pn.
Tiles(P, offset, sent_bytes, next_pn) ==
    /\ \A p \in P : /\ p.len > 0 /\ p.off >= offset
                    /\ p.off + p.len <= offset + sent_bytes /\ p.num < next_pn
    /\ \A b \in offset..(offset + sent_bytes - 1) :
         \E p \in P : b \in p.off..(p.off + p.len - 1)
    /\ \A p, q \in P : p.num < q.num => p.off + p.len <= q.off
    /\ \A p, q \in P : p.num = q.num => p = q

TilesOf(w) ==
    Tiles(PacketsOf(w), con[w].cmd.offset, con[w].sent_bytes, con[w].next_pn)

TileInv ==
    /\ \A p \in sent : p.of <= con[p.by].n
    /\ \A w \in Workers : con[w].pc = "number" => PacketsOf(w) = {}
    /\ \A w \in Workers : InChunk(con[w]) => TilesOf(w)

\* The next piece.
LEMMA TilesExtended ==
    ASSUME NEW P, P \subseteq Packets, NEW new \in Packets,
           NEW offset \in Nat, NEW sent_bytes \in Nat, NEW next_pn \in Nat,
           Tiles(P, offset, sent_bytes, next_pn), NEW n \in Nat, n > 0,
           new.off = offset + sent_bytes, new.len = n, new.num = next_pn
    PROVE  Tiles(P \cup {new}, offset, sent_bytes + n, next_pn + 1)
<1>1. \A p \in P : p.num \in Nat /\ p.off \in Nat /\ p.len \in Nat
  BY DEF Packets
<1>2. \A p \in P : /\ p.len > 0 /\ p.off >= offset
                   /\ p.off + p.len <= offset + sent_bytes /\ p.num < next_pn
  BY DEF Tiles
<1>3. \A p \in P \cup {new} :
        /\ p.len > 0 /\ p.off >= offset
        /\ p.off + p.len <= offset + (sent_bytes + n) /\ p.num < next_pn + 1
  BY <1>1, <1>2
<1>4. ASSUME NEW b \in offset..(offset + (sent_bytes + n) - 1)
      PROVE  \E p \in P \cup {new} : b \in p.off..(p.off + p.len - 1)
  <2>1. CASE b < offset + sent_bytes
    <3>1. b \in offset..(offset + sent_bytes - 1)
      BY <2>1
    <3>2. PICK p \in P : b \in p.off..(p.off + p.len - 1)
      BY <3>1 DEF Tiles
    <3> QED
      BY <3>2
  <2>2. CASE ~(b < offset + sent_bytes)
    <3>1. b \in new.off..(new.off + new.len - 1)
      BY <2>2
    <3> QED
      BY <3>1
  <2> QED
    BY <2>1, <2>2
<1>5. ASSUME NEW p \in P \cup {new}, NEW q \in P \cup {new}, p.num < q.num
      PROVE  p.off + p.len <= q.off
  BY <1>1, <1>2, <1>5 DEF Tiles
<1>6. ASSUME NEW p \in P \cup {new}, NEW q \in P \cup {new}, p.num = q.num
      PROVE  p = q
  BY <1>1, <1>2, <1>6 DEF Tiles
<1> QED
  BY <1>3, <1>4, <1>5, <1>6 DEF Tiles

\* Every byte is carried by exactly one packet.
LEMMA TilesOnce ==
    ASSUME NEW P, P \subseteq Packets,
           NEW offset \in Nat, NEW sent_bytes \in Nat, NEW next_pn \in Nat,
           Tiles(P, offset, sent_bytes, next_pn)
    PROVE  /\ \A b \in offset..(offset + sent_bytes - 1) :
                Cardinality({p \in P : b \in p.off..(p.off + p.len - 1)}) = 1
           /\ \A p, q \in P : p.num < q.num => p.off < q.off
<1>1. \A p \in P : p.num \in Nat /\ p.off \in Nat /\ p.len \in Nat /\ p.len > 0
  BY DEF Packets, Tiles
<1>2. ASSUME NEW b \in offset..(offset + sent_bytes - 1)
      PROVE  Cardinality({p \in P : b \in p.off..(p.off + p.len - 1)}) = 1
  <2>1. PICK p \in P : b \in p.off..(p.off + p.len - 1)
    BY DEF Tiles
  <2>2. ASSUME NEW q \in P, b \in q.off..(q.off + q.len - 1) PROVE q = p
    <3>1. ~(p.num < q.num)
      BY <1>1, <2>1, <2>2 DEF Tiles
    <3>2. ~(q.num < p.num)
      BY <1>1, <2>1, <2>2 DEF Tiles
    <3>3. p.num = q.num
      BY <1>1, <3>1, <3>2
    <3> QED
      BY <3>3 DEF Tiles
  <2>3. {q \in P : b \in q.off..(q.off + q.len - 1)} = {p}
    BY <2>1, <2>2
  <2> QED
    BY <2>3, FS_Singleton
<1>3. ASSUME NEW p \in P, NEW q \in P, p.num < q.num PROVE p.off < q.off
  BY <1>1, <1>3 DEF Tiles
<1> QED
  BY <1>2, <1>3

\* A chunk ends after length bytes or at the end of the file, and before that when a
\* read returns nothing.
LEMMA EndOfChunk ==
    ASSUME NEW c \in Conn, LocalOK(c), InChunk(c), c.pc # "chunk",
           \A p \in DOMAIN Disk : Disk[p] < Modulus
    PROVE  LET end == Smallest({c.cmd.offset + c.cmd.length, Size(c.cmd)})
           IN IF c.cut THEN c.cmd.offset + c.sent_bytes < end
                       ELSE c.cmd.offset + c.sent_bytes = end
<1> DEFINE off == c.cmd.offset
           len == c.cmd.length
           sb == c.sent_bytes
           rem == c.remaining
           size == Size(c.cmd)
<1>1. /\ off \in Nat /\ len \in Nat /\ sb \in Nat /\ rem \in Nat /\ size \in Nat
      /\ sb + rem = len /\ off + sb <= size
  BY BridgeAssumption DEF LocalOK, ChunkLocals, Parsed, Conn
<1>2. size < Modulus
  BY DEF LocalOK, ChunkLocals, HasFile, Size
<1>3. c.cut <=> (rem > 0 /\ (sb + off) % Modulus < size % Modulus)
  BY DEF LocalOK, ChunkLocals, MoreToSend
<1> HIDE DEF off, len, sb, rem, size
<1>4. sb + off \in Nat /\ sb + off < Modulus
  BY <1>1, <1>2, BridgeAssumption
<1>5. (sb + off) % Modulus = sb + off /\ size % Modulus = size
  BY <1>1, <1>2, <1>4, ModulusFits
<1>6. c.cut <=> (rem > 0 /\ sb + off < size)
  BY <1>3, <1>5
<1>7. LET m == Smallest({off + len, size})
      IN m \in {off + len, size} /\ m <= off + len /\ m <= size
  <2>1. off + len \in Int /\ size \in Int
    BY <1>1
  <2> QED
    BY <2>1, SmallestOfTwo
<1>8. CASE c.cut
  <2>1. off + sb < Smallest({off + len, size})
    BY <1>1, <1>6, <1>7, <1>8
  <2> QED
    BY <1>8, <2>1 DEF off, len, sb, size
<1>9. CASE ~c.cut
  <2>1. off + sb \in {off + len, size} /\ off + sb <= off + len /\ off + sb <= size
    BY <1>1, <1>6, <1>9
  <2>2. off + sb = Smallest({off + len, size})
    BY <1>1, <1>7, <2>1
  <2> QED
    BY <1>9, <2>2 DEF off, len, sb, size
<1> QED
  BY <1>8, <1>9

\* A step of w that sends nothing, or sends for itself, leaves the packets of the
\* others alone and what they are about.
LEMMA TilesByWorker ==
    ASSUME Locals, NumberInv, TileInv, NEW w \in Workers, NEW from, NEW to,
           Moves(w, from, to), con'[w].n \in Nat, con'[w].n >= con[w].n,
           sent \subseteq sent',
           \A p \in sent' \ sent : p.by = w /\ p.of = con'[w].n,
           con'[w].pc = "number" => PacketsOf(w)' = {},
           InChunk(con'[w]) => TilesOf(w)'
    PROVE  TileInv'
<1>1. \A v \in Workers \ {w} : con'[v] = con[v]
  BY DEF Moves
<1>2. ASSUME NEW p \in sent' PROVE p.of <= con'[p.by].n
  <2>1. CASE p \in sent
    <3>1. p.of <= con[p.by].n /\ p.by \in Workers /\ p.of \in Nat /\ con[p.by].n \in Nat
      BY <2>1, ConnOf DEF TileInv, NumberInv, Packets
    <3>2. CASE p.by = w
      BY <3>1, <3>2
    <3>3. CASE p.by # w
      BY <1>1, <3>1, <3>3
    <3> QED
      BY <3>2, <3>3
  <2>2. CASE p \notin sent
    BY <2>2
  <2> QED
    BY <2>1, <2>2
<1>3. ASSUME NEW v \in Workers, v # w
      PROVE  /\ PacketsOf(v)' = PacketsOf(v)
             /\ (con[v].pc = "number" => PacketsOf(v) = {})'
             /\ (InChunk(con[v]) => TilesOf(v))'
  <2>1. con'[v] = con[v]
    BY <1>1, <1>3
  <2>2. PacketsOf(v)' = PacketsOf(v)
    BY <1>3, <2>1 DEF PacketsOf
  <2> QED
    BY <2>1, <2>2 DEF TileInv, TilesOf
<1> QED
  BY <1>2, <1>3 DEF TileInv

\* Most steps send nothing and start no chunk.
LEMMA TilesQuiet ==
    ASSUME Locals, NumberInv, TileInv, NEW w \in Workers, NEW from, NEW to,
           Moves(w, from, to), con'[w].n \in {con[w].n, con[w].n + 1}, sent' = sent,
           con'[w].pc # "number", ~InChunk(con'[w])
    PROVE  TileInv'
<1>1. con'[w].n \in Nat /\ con'[w].n >= con[w].n
  BY ConnOf
<1> QED
  BY <1>1, TilesByWorker

\* A packet of a chunk is the next piece of it.
LEMMA TilesPacket ==
    ASSUME Locals, NumberInv, TileInv, NEW w \in Workers, ChunkPacket(w),
           \A p \in DOMAIN Disk : Disk[p] < Modulus
    PROVE  TileInv'
<1>n. PICK n \in BytesRead(con[w].cmd, con[w].sent_bytes, con[w].remaining) :
         /\ Moves(w, {"chunk"}, {"chunk", "writeback"})
         /\ con'[w].n = con[w].n /\ con'[w].cmd = con[w].cmd
         /\ con'[w].next_pn = con[w].next_pn + 1
         /\ con'[w].sent_bytes = (con[w].sent_bytes + n) % Modulus
         /\ sent' = sent \cup {Packet(w, con[w].next_pn,
                        (con[w].cmd.offset + con[w].sent_bytes) % Modulus, n)}
  BY MovedChunk
<1> DEFINE c == con[w]
           new == Packet(w, c.next_pn, (c.cmd.offset + c.sent_bytes) % Modulus, n)
<1>1. /\ Moves(w, {"chunk"}, {"chunk", "writeback"})
      /\ con'[w].n = c.n /\ con'[w].cmd = c.cmd
      /\ con'[w].next_pn = c.next_pn + 1
      /\ con'[w].sent_bytes = (c.sent_bytes + n) % Modulus
  BY <1>n
<1>2. c \in Conn /\ LocalOK(c) /\ c.pc = "chunk" /\ InChunk(c)
  BY <1>1, ConnOf DEF Moves, InChunk
<1>3. /\ n \in Nat /\ n > 0 /\ (c.sent_bytes + n) % Modulus = c.sent_bytes + n
      /\ c.cmd.offset + c.sent_bytes + n <= Size(c.cmd)
  BY <1>2, RoundProps
<1>4. /\ c.sent_bytes \in Nat /\ c.next_pn \in Nat /\ c.n \in Nat
      /\ c.cmd.offset \in Nat /\ Size(c.cmd) \in Nat
  BY <1>2, BridgeAssumption DEF LocalOK, ChunkLocals, Parsed, Conn
<1>5. Size(c.cmd) < Modulus
  BY <1>2 DEF LocalOK, ChunkLocals, HasFile, Size
<1>6. (c.cmd.offset + c.sent_bytes) % Modulus = c.cmd.offset + c.sent_bytes
  <2>0. ASSUME NEW i \in Nat, NEW j \in Nat, NEW k \in Nat, NEW s \in Nat,
               i + j + k <= s, s < Modulus
        PROVE  i + j \in Nat /\ i + j < Modulus
    BY <2>0, BridgeAssumption
  <2> HIDE DEF c
  <2>1. c.cmd.offset + c.sent_bytes \in Nat /\ c.cmd.offset + c.sent_bytes < Modulus
    BY <1>3, <1>4, <1>5, <2>0
  <2> QED
    BY <2>1, ModulusFits
<1>7. sent' = sent \cup {new}
  BY <1>n
<1>8. /\ new \in Packets /\ new.by = w /\ new.of = c.n /\ new.num = c.next_pn
      /\ new.off = c.cmd.offset + c.sent_bytes /\ new.len = n
  <2>1. c.cmd.offset + c.sent_bytes \in Nat
    BY <1>4
  <2> QED
    BY <1>3, <1>4, <1>6, <2>1 DEF Packet, Packets
<1> HIDE DEF new
<1>9. PacketsOf(w)' = PacketsOf(w) \cup {new}
  BY <1>1, <1>7, <1>8 DEF PacketsOf
<1>10. Tiles(PacketsOf(w), c.cmd.offset, c.sent_bytes, c.next_pn)
  BY <1>2 DEF TileInv, TilesOf
<1>11. PacketsOf(w) \subseteq Packets
  BY DEF PacketsOf, NumberInv
<1>12. Tiles(PacketsOf(w) \cup {new}, c.cmd.offset, c.sent_bytes + n, c.next_pn + 1)
  BY <1>3, <1>4, <1>8, <1>10, <1>11, TilesExtended
<1>13. TilesOf(w)'
  BY <1>1, <1>3, <1>9, <1>12 DEF TilesOf
<1>14. con'[w].pc # "number"
  BY <1>1 DEF Moves
<1> HIDE DEF c
<1>15. con'[w].n \in Nat /\ con'[w].n >= con[w].n
  BY <1>1, <1>4 DEF c
<1>16. sent \subseteq sent' /\ \A p \in sent' \ sent : p.by = w /\ p.of = con'[w].n
  BY <1>1, <1>7, <1>8
<1> QED
  BY <1>1, <1>13, <1>14, <1>15, <1>16, TilesByWorker

\* A chunk starts with no packet and is reported with all of them; between two
\* commands the packets of the last one are forgotten.
LEMMA TilesOthers ==
    ASSUME Locals, NumberInv, TileInv, NEW w \in Workers,
           \/ \E text \in Texts[w] : ReadCommand(w, text)
           \/ StartChunk(w) \/ ChunkCut(w) \/ WriteBack(w) \/ SendPacket(w)
    PROVE  TileInv'
<1>0. con[w].n \in Nat /\ con[w].n + 1 \in Nat /\ con[w].n + 1 > con[w].n
  BY ConnOf
<1>1. CASE \E text \in Texts[w] : ReadCommand(w, text)
  <2>1. PICK text \in Texts[w] : ReadCommand(w, text)
    BY <1>1
  <2>2. /\ Moves(w, {"read"}, {PlaceOf(text)}) /\ con'[w].n = con[w].n + 1
        /\ PlaceOf(text) \in {"reply", "init", "segment", "number"}
        /\ con'[w].reply \in {"answer", "none"}
    BY <2>1, MovedCommand
  <2>3. sent' = sent
    BY <2>1 DEF ReadCommand
  <2>4. \A p \in sent : p.by = w => p.of # con[w].n + 1
    <3>1. ASSUME NEW p \in sent, p.by = w PROVE p.of # con[w].n + 1
      <4>1. p.of <= con[w].n /\ p.of \in Nat
        BY <3>1 DEF TileInv, NumberInv, Packets
      <4> QED
        BY <1>0, <4>1
    <3> QED
      BY <3>1
  <2>5. PacketsOf(w)' = {}
    BY <2>2, <2>3, <2>4 DEF PacketsOf
  <2>6. ~InChunk(con'[w])
    BY <2>2 DEF InChunk, Moves
  <2>7. con'[w].n \in Nat /\ con'[w].n >= con[w].n
    BY <1>0, <2>2
  <2> QED
    BY <2>2, <2>3, <2>5, <2>6, <2>7, TilesByWorker
<1>2. CASE StartChunk(w)
  <2>1. /\ Moves(w, {"number"}, {"chunk", "writeback"})
        /\ con'[w].n = con[w].n /\ con'[w].cmd = con[w].cmd
        /\ con'[w].sent_bytes = 0 /\ sent' = sent
    BY <1>2, MovedChunk DEF StartChunk
  <2>2. PacketsOf(w) = {} /\ con'[w].pc # "number"
    BY <2>1 DEF TileInv, Moves
  <2>3. PacketsOf(w)' = {}
    BY <2>1, <2>2 DEF PacketsOf
  <2>4. con[w].cmd.offset \in Nat
    BY <1>2, ConnOf, BridgeAssumption DEF StartChunk, LocalOK, Parsed
  <2>5. con[w].cmd.offset..(con[w].cmd.offset + 0 - 1) = {}
    BY <2>4
  <2>6. TilesOf(w)'
    BY <2>1, <2>3, <2>5 DEF TilesOf, Tiles
  <2> QED
    BY <1>0, <2>1, <2>2, <2>6, TilesByWorker
<1>3. CASE WriteBack(w)
  <2>1. /\ Moves(w, {"writeback"}, {"reply"}) /\ Keeps(w) /\ sent' = sent
    BY <1>3, MovedPackets DEF WriteBack, hist
  <2>2. PacketsOf(w)' = PacketsOf(w)
    BY <2>1 DEF PacketsOf, Keeps
  <2>3. TilesOf(w)
    BY <2>1 DEF TileInv, InChunk, Moves
  <2>4. TilesOf(w)'
    BY <2>1, <2>2, <2>3 DEF TilesOf, Keeps
  <2>5. con'[w].n = con[w].n /\ con'[w].pc # "number"
    BY <2>1 DEF Keeps, Moves
  <2> QED
    BY <1>0, <2>1, <2>4, <2>5, TilesByWorker
<1>4. CASE SendPacket(w)
  <2> DEFINE new == Packet(w, con[w].next_pn, 0, 0)
  <2>1. /\ Moves(w, {"send"}, {"reply"}) /\ Keeps(w) /\ con'[w].reply = "answer"
        /\ sent' \in {sent, sent \cup {new}}
    BY <1>4, MovedPackets DEF SendPacket
  <2>2. new.by = w /\ new.of = con[w].n
    BY DEF Packet
  <2> HIDE DEF new
  <2>3. con'[w].n = con[w].n /\ con'[w].pc # "number" /\ ~InChunk(con'[w])
    BY <2>1 DEF Keeps, Moves, InChunk
  <2>4. sent \subseteq sent' /\ \A p \in sent' \ sent : p.by = w /\ p.of = con'[w].n
    BY <2>1, <2>2, <2>3
  <2> QED
    BY <1>0, <2>1, <2>3, <2>4, TilesByWorker
<1>5. CASE ChunkCut(w)
  <2>1. /\ Moves(w, {"chunk"}, {"writeback"}) /\ sent' = sent
        /\ con'[w].n = con[w].n /\ con'[w].cmd = con[w].cmd
        /\ con'[w].next_pn = con[w].next_pn /\ con'[w].sent_bytes = con[w].sent_bytes
    BY <1>5, MovedChunk DEF ChunkCut, hist
  <2>2. PacketsOf(w)' = PacketsOf(w)
    BY <2>1 DEF PacketsOf
  <2>3. TilesOf(w)
    BY <2>1 DEF TileInv, InChunk, Moves
  <2>4. TilesOf(w)' /\ con'[w].pc # "number"
    BY <2>1, <2>2, <2>3 DEF TilesOf, Moves
  <2> QED
    BY <1>0, <2>1, <2>4, TilesByWorker
<1> QED
  BY <1>1, <1>2, <1>3, <1>4, <1>5

\* Every step keeps the packets of the chunks in place.
LEMMA TileStep ==
    ASSUME \A p \in DOMAIN Disk : Disk[p] < Modulus
    PROVE  Locals /\ NumberInv /\ TileInv /\ [Next]_vars => TileInv'
<1> SUFFICES ASSUME Locals, NumberInv, TileInv, [Next]_vars PROVE TileInv'
  OBVIOUS
<1>1. ASSUME NEW w \in Workers,
             \/ HandshakeFails(w) \/ Handshake(w) \/ ReadFails(w) \/ ReadControl(w)
             \/ Reply(w) \/ Echo(w) \/ SendInit(w) \/ ReadInfo(w)
             \/ SendSegment(w) \/ CountSegment(w) \/ NotConnected(w) \/ NoChunk(w)
             \/ ChunkFails(w)
      PROVE  TileInv'
  <2>1. sent' = sent
    BY <1>1 DEF HandshakeFails, Handshake, ReadFails, ReadControl, Reply, Echo, SendInit,
                ReadInfo, SendSegment, CountSegment, NotConnected, NoChunk, ChunkFails,
                ctx, hist
  <2>2. /\ Moves(w, Places, {"closed", "read", "echo", "info", "reply", "segment", "count"})
        /\ con'[w].n \in {con[w].n, con[w].n + 1}
        /\ con'[w].pc = "reply" => con'[w].reply # "chunk-sent"
    <3>1. CASE HandshakeFails(w) \/ Handshake(w) \/ ReadFails(w) \/ ReadControl(w)
               \/ Reply(w) \/ Echo(w)
      BY <3>1, MovedLoop DEF Moves, Keeps, Places
    <3>2. CASE SendInit(w) \/ ReadInfo(w) \/ SendSegment(w) \/ CountSegment(w)
      BY <3>2, MovedFiles DEF Moves, Places
    <3>3. CASE NotConnected(w) \/ NoChunk(w) \/ ChunkFails(w)
      BY <3>3, MovedPackets DEF Moves, Keeps, Places
    <3> QED
      BY <1>1, <3>1, <3>2, <3>3
  <2>3. con'[w].pc # "number" /\ ~InChunk(con'[w])
    BY <2>2 DEF InChunk, Moves
  <2> QED
    BY <2>1, <2>2, <2>3, TilesQuiet
<1>2. ASSUME NEW w \in Workers, TakeNumber(w) PROVE TileInv'
  <2>1. Moves(w, {"number"}, {"send"}) /\ con'[w].n = con[w].n /\ sent' = sent
    BY <1>2, MovedPackets DEF TakeNumber
  <2>2. con'[w].pc # "number" /\ ~InChunk(con'[w])
    BY <2>1 DEF InChunk, Moves
  <2> QED
    BY <2>1, <2>2, TilesQuiet
<1>3. ASSUME NEW w \in Workers,
             \/ \E text \in Texts[w] : ReadCommand(w, text)
             \/ StartChunk(w) \/ ChunkCut(w) \/ WriteBack(w) \/ SendPacket(w)
             \/ ChunkPacket(w)
      PROVE  TileInv'
  BY <1>3, TilesOthers, TilesPacket
<1>4. CASE UNCHANGED vars \/ Finished \/ \E v \in DOMAIN FilePath : handle_admin_delete(v)
  <2>1. UNCHANGED <<con, sent>>
    BY <1>4 DEF vars, Finished, handle_admin_delete, hist
  <2>2. \A w \in Workers : PacketsOf(w)' = PacketsOf(w)
    BY <2>1 DEF PacketsOf
  <2> QED
    BY <2>1, <2>2 DEF TileInv, TilesOf
<1> QED
  BY <1>1, <1>2, <1>3, <1>4 DEF Next, Command

\* If every file is below 2^32 bytes, the packets of a chunk that the client is told
\* was sent carry its bytes from the offset on, each once, in the order of their
\* numbers, and up to its end or that of the file unless a read of the file returned
\* nothing. The hypothesis is needed: offsets and the length that stat reports are cut
\* down to 32 bits.
THEOREM ChunkSent ==
    ASSUME \A p \in DOMAIN Disk : Disk[p] < Modulus
    PROVE  Spec => []ChunkIsExact
<1>1. Init => TileInv
  <2> SUFFICES ASSUME Init PROVE TileInv
    OBVIOUS
  <2>1. sent = {} /\ \A w \in Workers : con[w].pc = "connect"
    BY DEF Init, Fresh
  <2> QED
    BY <2>1 DEF TileInv, InChunk
<1>2. Locals /\ NumberInv /\ TileInv => ChunkIsExact
  <2> SUFFICES ASSUME Locals, NumberInv, TileInv, NEW w \in Workers,
                      con[w].pc = "reply", con[w].reply = "chunk-sent"
               PROVE  LET c == con[w].cmd
                          end == c.offset + con[w].sent_bytes
                      IN /\ con[w].cut => end < ChunkEnd(w)
                         /\ ~con[w].cut => end = ChunkEnd(w)
                         /\ \A b \in c.offset..(end - 1) :
                              Cardinality({p \in PacketsOf(w) :
                                            b \in p.off..(p.off + p.len - 1)}) = 1
                         /\ \A p \in PacketsOf(w) :
                              p.len > 0 /\ p.off >= c.offset /\ p.off + p.len <= end
                         /\ \A p, q \in PacketsOf(w) : p.num < q.num => p.off < q.off
    BY DEF ChunkIsExact
  <2> DEFINE c == con[w].cmd
             sb == con[w].sent_bytes
             P == PacketsOf(w)
  <2>1. InChunk(con[w]) /\ con[w] \in Conn /\ LocalOK(con[w]) /\ con[w].pc # "chunk"
    BY ConnOf DEF InChunk
  <2>2. /\ con[w].cut => c.offset + sb < ChunkEnd(w)
        /\ ~con[w].cut => c.offset + sb = ChunkEnd(w)
    BY <2>1, EndOfChunk DEF ChunkEnd
  <2>3. Tiles(P, c.offset, sb, con[w].next_pn)
    BY <2>1 DEF TileInv, TilesOf
  <2>4. /\ c.offset \in Nat /\ sb \in Nat /\ con[w].next_pn \in Nat /\ P \subseteq Packets
    BY <2>1, BridgeAssumption
       DEF LocalOK, ChunkLocals, Parsed, Conn, NumberInv, PacketsOf
  <2> HIDE DEF c, sb, P
  <2>5. /\ \A b \in c.offset..(c.offset + sb - 1) :
             Cardinality({p \in P : b \in p.off..(p.off + p.len - 1)}) = 1
        /\ \A p, q \in P : p.num < q.num => p.off < q.off
    BY <2>3, <2>4, TilesOnce
  <2>6. \A p \in P : p.len > 0 /\ p.off >= c.offset /\ p.off + p.len <= c.offset + sb
    BY <2>3 DEF Tiles
  <2> DEFINE end == c.offset + sb
  <2>7. con[w].cut => end < ChunkEnd(w)
    BY <2>2
  <2>8. ~con[w].cut => end = ChunkEnd(w)
    BY <2>2
  <2>9. c.offset..(end - 1) = c.offset..(c.offset + sb - 1)
    BY <2>4
  <2>10. \A p \in P : p.len > 0 /\ p.off >= c.offset /\ p.off + p.len <= end
    BY <2>6
  <2> HIDE DEF end
  <2>11. \A b \in c.offset..(end - 1) :
             Cardinality({p \in P : b \in p.off..(p.off + p.len - 1)}) = 1
    BY <2>5, <2>9, Zenon
  <2>12. \A p, q \in P : p.num < q.num => p.off < q.off
    BY <2>5
  <2> QED
    BY <2>7, <2>8, <2>10, <2>11, <2>12, ZenonT(60) DEF c, sb, P, end
<1> QED
  BY <1>1, <1>2, TileStep, NumberAlways, LocalsAlways, PTL DEF Spec

=============================================================================
