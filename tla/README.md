# TLA+ models of OTT_QUIC

OTT_QUIC is a small video service: a threaded TCP server that speaks HTTP and
WebSocket, a QUIC-like protocol of its own over UDP, an SQLite database, and a
player in the browser. This directory holds TLA+ modules that model its core,
the TLC configurations that check them on small instances, and proofs that TLAPS
checks for every size. `PROJECT.json` lists the components, runs, mutants,
findings, hazards and theorems, and maps every definition to the lines of code
it models.

Run TLC from this directory, for example
`tlc -workers 2 -config MCQuicStream.cfg MCQuicStream`, and the proofs with
`tlapm QuicStreamProofs.tla`. The longest run takes about three
minutes.

## Inventory

| Component | State | Operations | Hard because |
|---|---|---|---|
| **QUIC stream manager** (`src/server/quic_stream.c`), one per connection | a table of 16 streams; per stream `next_offset` and a list of out-of-order segments | `quic_stream_on_data`, `quic_stream_reset`, init, destroy | segments arrive late, twice, overlapping; the caller's buffer may fill up inside one; offsets are 32 bits; slots are used again |
| **QUIC engine** (`src/server/quic.c`) | 32 connections, 64 packets waiting for an ACK, metrics, `running`, the socket | receive loop (own thread), send, close, stop, join; callbacks for packets, stream data and states | engine thread, workers that send, threads that close; the lock is dropped around callbacks and in `track_pending`; loss, duplication, migration, expiry, retransmission |
| **Packet codec** (`quic.c`) | none | serialize, deserialize | field widths, length checks |
| **TCP server** (`src/server/server.c`) | `client_count`, `running`, the listening socket, one detached worker per client | accept loop, worker, request stop, join, destroy | accept thread, workers and main thread race at the limit and at shutdown |
| **WebSocket connections** (`src/server/websocket.c`) | `next_packet_number`, counters of sent segments, the session's user | frame loop, stream commands, segments, watch history | workers share the counters; sends fail half way; the frame loop ignores shutdown |
| **Sessions** (`src/auth/session.c`, `src/db/database.c`) | table `sessions` in SQLite | login, validate and extend, logout, purge | an extension is four statements without a transaction, and other requests, failures and crashes fall in between |
| **Video store** (`src/server/upload.c`, `database.c`, `api.c`) | rows of `videos` and `watch_history`, video, thumbnail and segment files | upload, segment, update, delete | rows and files are changed one after the other; row ids are read on a shared connection |
| **HTTP API** (`src/http/api.c`, `src/server/http.c`) | none of its own | routing, parsing, answers | - |
| **Player** (`web/js/watch.js`) | media source, queue of segments, requests in flight, reconnection | request, append, seek, recover, reconnect | answers come late or twice, and refer to a media source that is gone |
| **Main program** (`src/main.c`) | which parts were started | start in order, stop in order | parts still use one another while they are stopped |
| Password hashing, TLS context, thumbnails, other pages | - | - | cryptography, external programs, layout |

How they interact. `main.c` starts the database, the engine, the WebSocket
context (which points to both) and the TCP server. The accept thread starts one
worker per client; a worker parses the first request and either answers it as
HTTP (`http_api_handle`: sessions, uploads, administration) or stays as a
WebSocket connection, where commands read the database and files and send QUIC
packets through `quic_engine_send_to_connection`. The engine thread receives
datagrams, keeps the connection table, and hands the payloads of DATA packets to
the stream manager of the connection. All workers share one SQLite connection.

What makes each part correct:

- stream manager: bytes come out in order, each once, none is dropped, and what
  can be delivered is delivered;
- engine: one entry per connection, entries of silent peers are freed, tracked
  packets are settled and sent again a bounded number of times, the state handler
  knows the state of each connection, stop ends the thread;
- packet codec: what one end writes the other reads, and nothing outside of the
  datagram is read;
- TCP server and main program: never more than `max_clients`, places are given
  back, no part is released while a thread can use it, the shutdown ends;
- sessions: a session stays with its user, ends with logout or expiry and for
  no other reason;
- WebSocket commands: packet numbers are distinct, the packets of a chunk carry
  its bytes, each once and in order, the counters are right, a command is answered once and ends;
- video store: what a row promises (file, segments) is there and its own, nothing
  is left behind without a reason, history and sessions refer to what exists;
- player: a media segment is never appended before INIT, and the script never
  waits for something that cannot come.

## Modules

| Module | What it is |
|---|---|
| `QuicStream` | the stream manager, one step per iteration of `consume_segments` |
| `InOrderDelivery` | what such a manager promises, without segments, offsets or buffers |
| `QuicEngine` | the engine thread, senders, closers, the clock |
| `QuicPacket` | the wire format of packets: operators, no state |
| `TcpServer` | accept thread, workers, and the main thread from start to exit |
| `WsBridge` | the WebSocket connections: frame loop, commands, shared counters |
| `VideoStore` | uploads, segmentation, deletion, signup and watch history over tables and files |
| `Player` | the player in the browser, one step per handler |
| `Session` | requests over the table `sessions`, one step per SQL statement |
| `QuicStreamProofs`, `QuicEngineProofs`, `QuicPacketProofs`, `TcpServerProofs`, `SessionProofs`, `WsBridgeProofs`, `VideoStoreProofs`, `PlayerProofs` | theorems |
| `MCQuicStream`, `MCQuicEngine` (with samples of `QuicPacket`), `MCTcpServer`, `MCWsBridge`, `MCVideoStore`, `MCSession`, `MCPlayer` | instances for TLC |

Definitions named `X_Something` beside a definition `X` are mutants: versions of
`X` with a plausible mistake. No specification uses them; each shows, put in the
place of `X`, that the property `PROJECT.json` names for it can fail.

### QuicStream

`streams` is `quic_stream_manager_t`, `call` the locals of the
`quic_stream_on_data` call in progress. `OnData` is the call up to and including
`insert_segment`; `ConsumeStale`, `ConsumeWhole` and `ConsumePart` are the three
ways through the loop body; `Return` is the return. `OnDataNoMemory` and
`OnDataNoSlot` are the error paths, `Reset` and `Destroy` the other functions.
The bytes of a stream are named by their position in what the peer wrote. A
segment carries both the offset the code works with and the position of the
first byte its buffer really holds, so that a wrong `memmove` or a wrong `start`
shows. Offsets are modulo `OffsetMod`, the code's 2^32. `delivered` is history.

The manager takes no lock; the engine calls it from one thread. What happens when
a connection is closed under its feet is part of `QuicEngine`.

### QuicEngine

What the code does under `engine->lock` is one step; where it lets go of the lock
another thread can step in. `eng` is where the engine thread is in
`quic_engine_loop`, `thr` the same for the senders (`send_to_connection`,
`send`, `track_pending`) and closers (`close_connection`). `track_pending`
takes no lock although the other users of the table do: the test of `in_use`, its
setting, the writing of the packet and the reset of `last_sent` and `retries` are
four steps, and the timer or another sender may come between them. `Expired`, `CleanConns`,
`CleanPending` and `CleanBalance` are
`quic_engine_cleanup_connections_locked`, which every path that takes the lock
runs first. Times are ages in seconds; an age is not told apart beyond the limit
the code compares it with. A datagram is a set of flags and the fields the
engine reads. Of a connection's stream manager only the set of streams in use
is kept.

`balance` is `connections_opened - connections_closed`. `seen` (what the state
handler was told last), `aborted` and the field `resent` of a pending slot (how
often the packet in it was sent again) are history. The handlers are installed
before the engine is started; the packet handler does not call back into the
engine. `close_connection` is called by the tests only, not by the server.

### QuicPacket

A datagram is a function from positions to bytes. `quic_packet_serialize` and
`quic_packet_deserialize` are what the two functions write and read;
`Serializable` and `Deserializable` are their checks. The base of a byte is a
constant, 256 in the code: TLC, whose integers end at 2^31, evaluates samples for
base 2 (`ASSUME`s of `MCQuicEngine`), the proofs hold for every base. `QuicEngine`
takes packets as records, which the round trip justifies; a datagram that is
refused changes nothing there but restarts `recvfrom`.

### TcpServer

`acc`, `worker[w]` and `main` are the positions of the three kinds of threads.
`main` follows `main.c`: it brings up five parts one after the other (`up` counts
them: database, engine, engine thread, WebSocket context, server), any of which
may fail, starts the accept thread, waits for the signal, and then clears
`running`, closes the socket, joins the accept thread, waits on the condition
variable and takes the parts down in reverse order (`Release`). A worker reads
(with the five-second timeout `websocket_handle_client` sets) and handles frames
in turn; a plain HTTP request is a read that ends. A worker may use every part.
Failures of `accept` while the server runs change nothing and are not steps.
`leaked` is history: it counts failed handshakes.

### WsBridge

`con[w]` is where the worker of a connection is and the locals of its command.
`next_packet_number`, `segment_sent_ok` and `segment_sent_fail` are the fields of
`websocket_context_t`; what the code does under `ctx->lock` is one step.
STREAM_CHUNK reads the number (`StartChunk`), sends packet by packet
(`ChunkPacket`) and writes its copy back (`WriteBack`). A read of the file returns
any number of bytes up to what was asked for; if it returns none the loop ends and
success is reported (`ChunkCut`). QUIC_SEND takes a number under the lock and sends
after it. `SendSegment` is one attempt of WS_SEGMENT, of
which there are two. A write ends with the whole frame in the stream, a part of it
or nothing. Paths are sequences of components, so that a prefix that is prepended
twice shows. Offsets and lengths are modulo `Modulus`, the code's 2^32.
`handle_admin_delete` takes a video away at any moment. `sent`, `asked`, `written`,
`disturbed` and the local `cut` (a read returned nothing) are history.

### VideoStore

A request is made once and goes through the steps of its handler: for an upload
the file, the thumbnail, the INSERT, the read of the row id, the segmentation
script, and the UPDATE of `segment_path` or the removal of what was made; for a
deletion the SELECT, the DELETE with its cascade, the files, the segments; signup,
login and watch history likewise. Each statement and each file operation is
atomic, may fail, and interleaves with those of other requests. The failures nobody
looks at are those of a DELETE and of the UPDATE of `segment_path`, of each
`unlink` (`unlink_files`) and of `rm -rf`, which may stop half way
(`RemoveDirFails`). `files` says which upload wrote a file; that `fclose` fails
after `fwrite` has succeeded, which `write_file` ignores, is not told apart from
success. `last_rowid` belongs to the connection all share. The name of an upload
is the second it came in. `Crash` ends all requests and keeps tables and files.
The histories name the exceptions the properties make: `misread` (a request took
another row's id), `clashed` (two uploads shared a name), `ignored` (a failed
DELETE that nobody looked at), `leftNames` and `leftDirs` (what a failed write,
segmentation, `unlink` or `rm`, a deletion during the upload, or a crash leaves
behind).

### Player

The script is single-threaded, so a handler is one step and the functions it calls
are operators on the record `p` of the script's globals. `p` also holds the
browser's side: the sockets with the requests the server has still to answer on
each (in order; `ws_init` has two answers, the INIT segment and a text, and is called
`ws_info` while only the text is missing), the state of the MediaSource, the SourceBuffer (whether it has had INIT, the segments
it holds, the operation in progress), the position, and the timers and media events
still to come (`tasks`, which happen in any order). The browser is external and
modelled from how the script uses it; events of elements that were replaced do not
come. Whether the video is paused by the browser and whether it is ready are free.
Positions are counted in segments, so the tolerances of half a second vanish. The
server answers every request in order, or says that a segment or INIT is missing.
`InvalidStateError` is left out: `appendNext` checks for what causes it. `excused`
(elements were replaced while a segment was under way, or the server had no INIT for
them; `noInit` is the second case), `lost` (since the last request the last segment
under way was missing, or went with its connection) and `broken` (a media segment
was appended before INIT) are history.

### Session

`rows` is the table. A request in `session_validate_and_extend` is before one of
its statements, `purge`, `delete` or `create`, and carries the user that
`db_get_session` read. Each statement is atomic (SQLite serialises the shared
connection) and may fail. The time a row has left counts down; `Crash` ends all
requests and keeps the table. Identifiers are never issued twice, as with 128
random bits. `issued`, `loggedOut`, `expired` and `harmed` are history.

## Runs

Bounds of the models, apart from the sizes of the code's own tables:
`MaxStored` (segments stored on one stream), `MaxAborted` (datagrams that open
and close at once, which move a counter for ever), `MaxCommands` (frames a client
sends), `MaxClock` and `MaxCrashes` (seconds and crashes of the video store),
`MaxEvents` (pauses, seeks, lost connections, missing segments, INIT included, and
failed calls of the player together), `MaxUnderWay` (answers under way while timers and media
events happen), and the finite sets of identifiers. Symmetry is used in the session
and video store runs only, which check no liveness. `store` does not follow a
behaviour beyond a state in which two uploads have written one file
(`NoClashSoFar`): its properties of files and segments assume that it did not
happen, the others do not look at names, and the proofs cover all of them without
this constraint. What a clash does is shown by `MCVideoStoreClash.cfg`.

| Run | Checks | Instance |
|---|---|---|
| `stream` | order and exactly-once, reported offset, list order, one slot per stream, draining, refinement of `InOrderDelivery` | three identifiers on two slots, packets longer than the buffer; all orders, overlaps and copies of the bytes of a short stream |
| `engine` | types, one entry per connection, metrics | two peers that migrate, two slots, two streams with room for one, a closing thread |
| `engine_live` | bounded retransmission, state handler informed; expiry, settlement, stop (liveness) | a peer that leaves and returns, two senders on one slot of the pending table |
| `server` | exact count, limit, no use after release; shutdown ends, places freed (liveness) | with and without TLS, three places, four workers; a start that fails at any part |
| `bridge` | distinct packet numbers, exact chunks, counters, one answer per frame; commands end (liveness) | two connections, one with two commands and one with one, between them of every kind; reads and writes that fail or stop half way; deletion |
| `store` | own segments and files, rows settle, nothing left behind, history, signup | three requests of any kind over one old video, two seconds, one crash; every step may fail; up to a clash of names |
| `session` | owner, no loss by races | two sessions, three concurrent requests, failures, crashes |
| `player` | INIT before segments, requests that are held back are resumed, limits | two segments, a buffer of two, a queue of two, two interferences |

The tables are small because the code treats slots alike: one slot makes peers
contend, two show whether entries are mixed up, and a scan in index order has no
further cases. A timeout of one unit leaves a state before, at and after the
limit, one of zero (connections in `engine`) a state at and after it. `stream` has offsets that end just below the wrap, so that the last
byte lies at the largest offset. Two requests show every race of the video store
between two handlers, the third one that a later request meets what they left. In
`bridge` a chunk needs more than one packet and a video more than one segment. In
`player` the second segment makes the buffer full and far enough ahead, and two
interferences are a lost connection and a seek or pause beside it. The proofs
remove the bounds for the properties they cover.

Four runs must end in a counterexample: a document or a test says something the
code does not keep. The findings of `PROJECT.json` quote the claims.

| Run | What TLC shows |
|---|---|
| `stream_tail` | two packets as large as the buffer arrive in the wrong order: the second waits for a third, and the last one for ever |
| `engine_busy` | retransmission runs only when the socket is silent, so steady traffic starves it |
| `server_tls_leak` | each failed TLS handshake takes a place for ever; after `max_clients` of them the server is closed to everybody |
| `session_logout` | a request that is extending the session undoes the logout |

### Further counterexamples

These configurations are not part of the regular runs; each is violated within
seconds and shows one more limit of the code.

| Configuration | Property | What TLC shows |
|---|---|---|
| `MCQuicStreamWrap.cfg` | `NoByteTwice` | a late duplicate is returned again once `next_offset` has wrapped at 2^32 |
| `MCQuicEngineAck.cfg` | `AckMeansAccepted` | data the stream manager refuses (`quic_stream_on_data` returned -1) is acknowledged |
| `MCQuicEngineRace.cfg` | `ClaimsFreeSlot` | two senders find the same pending slot free, the second overwrites the packet of the first, which is never sent again |
| `MCQuicEngineRetries.cfg` | `SentMaxRetries` | the timer frees a slot after the last retransmission, a sender takes it and has not yet written its packet when the timer comes again: the old packet is sent more than QUIC_MAX_RETRIES times |
| `MCQuicEngineClose.cfg` | `FreeEntryIsEmpty` | the entry of a connection that was just closed is given a stream, whose memory is lost when the slot is used again |
| `MCTcpServerTalkative.cfg` | `ShutdownEnds` | a client that keeps sending frames keeps `server_join`, and with it the shutdown, waiting |
| `MCWsBridgeNumbers.cfg` | `NumbersAlwaysDistinct` | two commands at a time use the same packet number, and an ACK of one packet settles the other |
| `MCWsBridgeRetry.cfg` | `RetryOnlyAfterReadFailure` | a segment whose frame was written in part is sent again inside that frame; `docs/DEVELOPMENT_PLANv1.md:615` asks for a retry when a segment cannot be read |
| `MCWsBridgeLong.cfg` | `InitAlwaysReportsSegments` | a video with more segments than the server counts and a large `segment_info.json` is reported to have none |
| `MCWsBridgeWrap.cfg` | `ChunkIsExact` | the size of a file beyond 2^32 bytes is cut, and a chunk reported as sent was not |
| `MCWsBridgeShort.cfg` | `ChunkIsComplete` | the file cannot be read to its end: `send_video_chunk` leaves its loop and the client is told that the chunk was sent |
| `MCWsBridgeUpload.cfg` | `StoredVideoIsStreamed` | STREAM_CHUNK does not find an uploaded video, whose stored path already has the prefix it prepends |
| `MCVideoStoreRowid.cfg` | `SessionIsOwn` | an INSERT between a signup's INSERT and its read of the row id: the session is another user's; `tests/db_test.c:27` asserts `user.id == user_id` |
| `MCVideoStoreStays.cfg` | `OldVideoStays` | for the same reason an upload segments, or on failure deletes, a video it did not make |
| `MCVideoStoreClash.cfg` | `FileIsOwn` | two uploads in one second write the same file |
| `MCVideoStoreOrphan.cfg` | `NoOrphanSegments` | segments that stay for ever without a row: of a video deleted during its upload, or when `rm -rf` fails |
| `MCPlayerInit.cfg` | `InitFirst` | a connection is lost, `send` opens a new one and the reconnection timer another; the segment asked for on the first of them arrives at the SourceBuffer made for the second, before INIT, and ends the video. `docs/DEBUG_LOG.md`, section 5, describes this error as solved |
| `MCSessionRestart.cfg` | `RestartRestores` | a crash between DELETE and INSERT loses the session |
| `MCSessionParallel.cfg` | `ValidIsServed` | of two requests with one valid session one is refused |

In the program as it is started by `main.c` no stream-data handler is installed and
`quic_engine_close_connection` is not called, so the counterexamples about stream
data (`stream_tail`, `MCQuicStreamWrap`, `MCQuicEngineAck`, `MCQuicEngineClose`)
concern the engine as a library and as its tests use it. Those about TLS need the
build with `ENABLE_TLS`. The others need only concurrent clients, long files or a
connection that is lost at the wrong moment.

What the properties of `Player` do not say: that playback never stalls. It can. A
missing segment is taken for the end of the video; `cleaningBuffer` stays set when
the elements are replaced during a clean-up, so that nothing is cleaned up any
more; and a seek leaves `desiredStartTime` behind, to which the next `ws_init`
answer returns.

### Fairness

- `QuicStream!FairSpec`: a call that has begun goes on.
- `QuicEngine!BusySpec`: the engine thread goes on, `quic_engine_stop` goes on
  after clearing `running`, and time passes. Nothing is assumed of peers, senders
  or closers. `FairSpec` adds that `recvfrom` times out again and again, strong
  fairness because each datagram that arrives restarts the wait. The code does not
  guarantee that; `engine_busy` shows what happens without it.
- `TcpServer!BusySpec`: each thread that can take a step takes one; a worker's
  read ends by a frame or by the timeout. No fairness for `SSL_accept`, which has
  no timeout, so `ShutdownEnds` is stated without TLS. `FairSpec` adds that no
  client sends frames for ever (strong fairness of the read that ends);
  `MCTcpServerTalkative.cfg` leaves it out. The main thread goes on once it was
  told to stop (`Release`, `Exit`); nothing is assumed about the signal.
- `WsBridge!FairSpec`: a worker that is inside a command goes on, because writes
  have a timeout of five seconds and files end. Nothing is assumed of clients.
- `VideoStore`, `Session` and `Player` check safety only.

## Proofs

All proofs are for arbitrary values of the constants under the named assumptions
of the modules, and are checked by `tlapm` without gaps. Of the assumptions,
`BridgeAssumption` says that there are finitely many workers (the counters count
them) and that the numbers in a command are natural numbers; `EngineAssumption`
says that there are finitely many senders; `StoreAssumption`
keeps the names of requests apart from the two markers `"old"` and `"torn"`.

- `QuicStreamProofs`. `TypeCorrect`: types, with offsets modulo 2^32, and
  `OneSlotPerStream`: `SlotsAreDistinct`; both whatever the offsets do. The others
  assume that a stream is shorter than 2^32 bytes (`StreamLen < OffsetMod`;
  `MCQuicStreamWrap.cfg` shows that this is needed).
  - `InOrder` (`DeliveredInOrder`) and `OffsetReported`
    (`ReportedOffsetIsFirstByte`) come from `StreamInv`, which adds that stored
    segments are genuine (the offset is the position of the first byte held, and
    the segment ends within the stream), without which nothing could be said of
    the bytes copied, and that a call in progress works on a stream in use.
  - `ListOrdered` (`SegmentOrder`) and the action property `Drained`
    (`DrainedUnlessFull`) come from `OrderInv`. The order of the list is only kept
    because a segment that is trimmed moves to `next_offset`, which no later
    segment of an ordered list can precede; and a call that leaves the loop by
    `break` has filled the buffer (`FullWhenCut`), so that one which did not has
    looked at a list whose head lies ahead.
  - `Refinement` (`ImplementsInOrderDelivery`): the initial state maps to the
    initial state, and each action maps to a step of `InOrderDelivery` or a
    stutter. The bytes a stream holds are those of its list, those of the call in
    progress and the prefix already counted (`HeldMeans`), so that trimming,
    dropping a stale segment and moving bytes to the caller are invisible.
- `QuicEngineProofs`. `TypeCorrect`; `OneEntryPerConnection`, inductive with the
  types, where the work is to show that the scan finds an entry whenever there is
  one, so that a new one is only added when there is none. `RetriesBounded`
  (`RetryBound`): a packet can be sent again more than QUIC_MAX_RETRIES times
  (`MCQuicEngineRetries.cfg`), but how much more is bounded. `RetryInv` counts for
  each slot how often its packet was sent again and how often it still can be if no
  sender changes the slot. A sender that takes the slot adds one to that, and ends
  the count when it writes its own packet; one that resets `retries` adds
  `MaxRetries - 1`. The senders at those two places (`Claimers`, `Resetters`) are
  therefore part of the sum, and each can be there once for a packet.
  `MetricsBalanced`: `MetricsBalance`, inductive with the types; each step changes
  the number of entries in use by what it adds to the counters, and a sweep, in
  the engine or in a sender, by the number of those that expired. `StatesReported`:
  `StateReported` when no thread calls `quic_engine_close_connection` (`Closers =
  {}`, as in the program `main.c` starts). The condition is needed: with the
  constants of `MCQuicEngine.cfg` TLC finds that a thread which has closed a
  connection reports this after the engine has opened and reported it again. Its
  invariant
  `ReportInv` says for each entry what the handler knows or is about to be told by
  the callback the engine is before, and needs `OneEntryPerConnection`: with two
  entries of one identifier the handler could know only one.
- `QuicPacketProofs`. `RoundTripTheorem`: `RoundTrip` for every packet, every base
  of bytes and every datagram that begins with it. `StaysInsideTheorem`:
  `StaysInside` for every sequence of bytes. Both rest on division with remainder
  (`DivMod`, `DivLess`, `Join`), taken once per byte, and on the positions of the
  fields not overlapping.
- `TcpServerProofs`. `ServerTypes`: types. `NeverTooMany`: `ClientLimit`.
  `NoUseAfterRelease`: `PartsOutliveUsers`, however far the start got.
  `ExactCount`: `CountIsExact`. One
  invariant, `ServerInv`, gives all four: the limit and the quiet shutdown follow
  only from what `client_count` counts (the workers, the client in the accept
  thread's hand and the handshakes that failed) and from the accept thread having
  ended before the main thread looks at the count (`MainOrder`).
- `SessionProofs`. `SessionTypes`: types. `OwnerNeverChanges`: `OwnerKept`, for
  which the request's copy
  of the user has to be part of the invariant. `RacesLoseNothing`:
  `SurvivesRaces`, with `ExpiredKnown` so that a purge removes only sessions known
  to have expired.
- `WsBridgeProofs`. `BridgeTypes`: types, from `Locals`, which says what the locals
  of a worker are at each place of its command. `Moves` and `Keeps` state once what
  each action does to them; the other proofs use those lemmas.
  - `Counted` (`SegmentsCounted`): `CountInv` counts the workers whose command is
    started and not yet counted, and those of them that wrote their segment.
  - `Answered` (`AnsweredOnce`): `WireInv` says how much of an answer the stream can
    hold at each place; a segment is tried again only as long as none of its
    frames is whole.
  - `NumbersApart` (`NumbersDistinct`): `NumberInv`, as long as the history
    `disturbed` says that commands with numbers did not overlap and no chunk failed
    half way. There is at most one worker with a copy of the number, the copy only
    grows, and a number taken under the lock has been sent by nobody.
    `MCWsBridgeNumbers.cfg` shows the collision that comes otherwise.
  - `ChunkSent` (`ChunkIsExact`), if every file is shorter than 2^32 bytes
    (`MCWsBridgeWrap.cfg`): by `TileInv` the packets of a chunk tile what has been
    sent of it, without gap or overlap, in the order of their numbers, which stay
    below the worker's copy, whatever each read returned; the loop ends short of
    the end of the chunk only when a read returned nothing (`MCWsBridgeShort.cfg`).
- `VideoStoreProofs`. `StoreTypes`: types; row ids stay below the counters, so that
  an INSERT makes a new row. The invariants build on one another:
  - `HistoryKept` (`HistoryRefers`) needs nothing but the cascade of the DELETE.
    `SignupExclusive` (`SignupIsExclusive`) needs `UserInv`: a signup that inserted
    its user still works for the user it inserted, or misread the id.
  - `OwnInv` says who made what: the row of an upload is its own, a deletion holds a
    copy of the row it deletes, and when either removes files the row is gone and
    its id will not come again.
  - On it rest `FileKept` (`RowHasFile`, by `FileInv`: an upload before its INSERT
    has its file already), `SegmentsOwn` (`SegmentsAreOwn`, by `SegInv`: the
    directory of an upload in progress is made from its file), `Settled`
    (`RowsSettle`, by `SettleInv`: the request that settles a row is the one that
    made it) and `NothingElseLeft` (`NothingElseIsLeft`, by `LeftInv`: which request
    holds a name or a directory, by its place; when it lets go of one, the thing is
    gone from the disk or its removal failed).
- `PlayerProofs`. The handlers are compositions of the script's functions, so the
  invariant `IInv` is a predicate `Sound` on the record of the script, and for each
  function a lemma says what it makes of a record that satisfies it; the lemma of a
  handler puts those together. The video, the queue, the quota and all limits may have
  any size, and there may be any number of connections, seeks and recoveries.
  - `PlayerTypes` (`TypeOK`, with the limit of the queue) is the part `Typed`.
  - `RequestingIsAlwaysServed` (`RequestingIsServed`) is the part `Served`. A segment
    that arrives clears `requesting`, also when it was asked for earlier; where the
    last one under way is missing or goes with its connection `lost` is needed.
  - `InitIsAlwaysFirst` (`InitBeforeSegments`) is the part `Whole`. It needs to know,
    as long as INIT was not appended and `excused` is not set,
    that every segment under way comes behind an INIT of its own connection, or INIT
    is being appended already (`Order`); for that, that an open connection has INIT
    still to bring whenever the script may ask for a segment (`Coming`); and how the
    SourceBuffer and the MediaSource go together (`Media`). A reset either finds a
    segment under way, which sets `excused`, or leaves none, but drops the INIT that
    waited: until the `ws_init` that follows it in the same handler is sent, `Coming`
    does not hold, and the lemmas of that stretch are about `Almost`.

Only model-checked:

- all liveness (`IdleIsFreed`, `PendingIsSettled`, `EngineStops`, `ShutdownEnds`,
  `PlaceIsFreed`, `CommandEnds`), which is beyond the prover, as is `ENABLED`;
- the counterexamples, which are about instances.

The modules avoid `RECURSIVE` operators, which the prover cannot use.

## Plan

Modelled: the stream manager, the engine, the codec, the server with the main
program, the WebSocket commands, the video store, sessions, and the player. Proved:
every invariant, every action property and the refinement that a passing run checks.
Left: a composition of `QuicEngine` and `QuicStream`, two ends over a lossy network.

## Not modelled

- Parsing and formatting of HTTP, JSON, WebSocket frames and multipart bodies, and
  the routing of requests: they keep no state between requests.
- Password hashing (`bcrypt.c`, `hash.c`, the vendored `crypt_blowfish`): pure
  cryptography. A login in the models is one with the right password.
- TLS itself, and the TLS context of the engine (`quic_tls.c`), which nothing uses.
- File serving, thumbnails and media probing: input and output of other programs.
  The segmentation script is modelled by what it leaves behind.
- The other pages of the browser: what they show is what the last answer said.
- Of the engine, the packet counters and the functions that only read; of the
  database, the queries that only read; of the player, the choice of a codec, the
  duration, autoplay and muting; the tools that add users from the command line.
- Real time: a second is a step that may happen at any moment.
