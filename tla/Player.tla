------------------------------- MODULE Player -------------------------------
(***************************************************************************)
(* The player in the browser (web/js/watch.js): it asks the server for the *)
(* INIT segment and then for one media segment after the other, appends    *)
(* what arrives to the SourceBuffer of a MediaSource, and starts again on  *)
(* a seek or when the connection was lost.                                 *)
(*                                                                         *)
(* The script is single-threaded, so a handler is one step; it works on    *)
(* global variables, which form the record p here, and functions of the    *)
(* script are operators on that record. What happens between handlers is   *)
(* anything: answers, media events and timers come in any order, each      *)
(* connection's answers in their own. Positions are counted in segments.   *)
(* The server (WsBridge) answers every request in order.                   *)
(***************************************************************************)
EXTENDS Integers, Sequences, FiniteSets, FiniteSetsExt

CONSTANTS
    N,            \* the segments of the video
    QueueMax,     \* CONFIG.SEGMENT_QUEUE_MAX
    MaxRetries,   \* CONFIG.MAX_APPEND_RETRIES
    MaxAttempts,  \* CONFIG.MAX_RECONNECT_ATTEMPTS
    Ahead,        \* CONFIG.BUFFER_AHEAD_MAX
    Behind,       \* CONFIG.BUFFER_CLEANUP_BEHIND
    Starts,       \* where the video was left
    Targets,      \* where the user seeks
    Quota,        \* segments that fit into the SourceBuffer
    MaxUnderWay,  \* bound: answers under way on a connection when the player does something
    MaxEvents     \* bound: how often the user or the environment interferes

ASSUME PlayerAssumption ==
    /\ N \in Nat \ {0} /\ QueueMax \in Nat \ {0} /\ Quota \in Nat \ {0}
    /\ MaxRetries \in Nat /\ MaxAttempts \in Nat /\ Ahead \in Nat /\ Behind \in Nat
    /\ Starts \cup Targets \subseteq 0..(N - 1) /\ MaxUnderWay \in Nat /\ MaxEvents \in Nat

VARIABLES
    p,        \* the globals of the script, the connections, and the media elements
    left      \* what is left of MaxEvents

vars == <<p, left>>

-----------------------------------------------------------------------------
(* The browser: connections and media elements.                            *)

NoBuffer == [init |-> FALSE, has |-> {}, op |-> <<"absent">>]
NewBuffer == [init |-> FALSE, has |-> {}, op |-> <<"none">>]

Exists(q) == q.sb.op # <<"absent">>
Updating(q) == Exists(q) /\ q.sb.op # <<"none">>

\* net holds the requests that the server has still to answer, as far as the player
\* does something with the answer: watch_get, ws_segment, and ws_init, whose answer is
\* the INIT segment and then a text, which alone is missing of a request ws_info.
NewSocket == [state |-> "connecting", net |-> <<>>]

\* The answer to a ws_segment is on its way.
UnderWay(q) ==
    \E s \in 1..Len(q.socks) : \E i \in 1..Len(q.socks[s].net) :
      q.socks[s].net[i][1] = "ws_segment"

\* video.currentTime = x: a seeking event follows, and waiting if x is not buffered.
Jump(q, x) == [q EXCEPT !.t = x, !.tasks = @ \cup {<<"seeking">>}
                           \cup IF x \in q.sb.has THEN {} ELSE {<<"waiting">>}]

-----------------------------------------------------------------------------
(* Functions of the script.                                                *)

connectWebSocket(q) ==
    [q EXCEPT !.socks = Append(@, NewSocket), !.sock = Len(q.socks) + 1]

send(q, m) ==
    LET state == q.socks[q.sock].state
        kept == [q EXCEPT !.pending = Append(@, m)]
    IN CASE state = "open" -> [q EXCEPT !.socks[q.sock].net = Append(@, m)]
         [] state = "connecting" -> kept
         [] state = "closed" -> connectWebSocket(kept)

isSourceBufferValid(q) == Exists(q) /\ q.ms = "open"

cleanupBuffer(q) ==
    IF /\ ~q.cleaning /\ isSourceBufferValid(q) /\ ~Updating(q)
       /\ \E k \in q.sb.has : k < q.t - Behind
    THEN [q EXCEPT !.cleaning = TRUE, !.sb.op = <<"clean", q.t - Behind>>]
    ELSE q

\* appendBuffer throws QuotaExceededError when the buffer is full: the segment goes
\* back into the queue, after MaxRetries times it is given up.
appendNext(q) ==
    IF ~isSourceBufferValid(q) \/ Updating(q) \/ q.appending \/ q.queue = <<>> THEN q
    ELSE IF Head(q.queue)[1] = "INIT" \/ Cardinality(q.sb.has) < Quota
    THEN [q EXCEPT !.appending = TRUE, !.queue = Tail(@), !.sb.op = Head(q.queue),
                   !.retryCount = 0]
    ELSE IF q.retryCount < MaxRetries
    THEN cleanupBuffer([q EXCEPT !.retryCount = @ + 1, !.tasks = @ \cup {<<"append">>}])
    ELSE [q EXCEPT !.retryCount = 0, !.queue = Tail(@), !.tasks = @ \cup {<<"append">>}]

\* Mutant: the queue has no limit.
appendSegment_NoLimit(q, x) ==
    IF ~Exists(q) THEN q
    ELSE appendNext([q EXCEPT !.queue = Append(@, x)])

\* Without a buffer the segment is dropped; a queue that is full loses its oldest.
appendSegment(q, x) ==
    IF ~Exists(q) THEN q
    ELSE IF Len(q.queue) >= QueueMax
    THEN appendNext([q EXCEPT !.queue = Append(Tail(@), x)])
    ELSE appendNext([q EXCEPT !.queue = Append(@, x)])

\* Mutant: requesting stays set when the request could not be sent.
requestSegment_StaysSet(q) ==
    IF q.requesting \/ ~isSourceBufferValid(q) THEN q
    ELSE IF q.nextSegment >= N
    THEN IF Updating(q) THEN q ELSE [q EXCEPT !.ms = "ended"]
    ELSE [send(q, <<"ws_segment", q.nextSegment>>) EXCEPT !.requesting = TRUE]

\* lost is history: the answer to this request will not come.
requestSegment(q) ==
    IF q.requesting \/ ~isSourceBufferValid(q) THEN q
    ELSE IF q.nextSegment >= N
    THEN IF Updating(q) THEN q ELSE [q EXCEPT !.ms = "ended"]
    ELSE IF q.sb.has # {} /\ q.t < Min(q.sb.has)
    THEN Jump([q EXCEPT !.seekTarget = 0], Min(q.sb.has))
    ELSE IF q.sb.has # {} /\ Max(q.sb.has) - q.t > Ahead
    THEN IF q.userPaused THEN q
         ELSE [q EXCEPT !.requesting = TRUE, !.lost = FALSE, !.tasks = @ \cup {<<"full">>}]
    ELSE [send(q, <<"ws_segment", q.nextSegment>>) EXCEPT
            !.requesting = (q.socks[q.sock].state = "open"), !.lost = FALSE]

\* The timers go on; the events of the elements that are gone do not come. History: a
\* segment under way belongs to the elements that are gone.
resetMediaSource(q) ==
    [q EXCEPT !.excused = @ \/ UnderWay(q), !.queue = <<>>, !.appending = FALSE,
              !.nextSegment = 0, !.pendingInit = FALSE, !.requesting = FALSE,
              !.seekTarget = 0, !.retryCount = 0, !.pending = <<>>,
              !.watchTimer = FALSE, !.sb = NoBuffer, !.ms = "none", !.t = 0,
              !.tasks = @ \ {<<"sourceopen">>, <<"seeking">>, <<"seeked">>, <<"waiting">>}]

setupMediaSource(q) ==
    [q EXCEPT !.ms = "closed", !.tasks = @ \cup {<<"sourceopen">>},
              !.queue = <<>>, !.appending = FALSE]

findSegmentForTime(x) == Min({x, N - 1})

startStream(q, position) ==
    send([setupMediaSource(resetMediaSource(q)) EXCEPT !.desired = position,
            !.seekTarget = position, !.nextSegment = findSegmentForTime(position)],
         <<"ws_init">>)

recoverStream(q) ==
    send([setupMediaSource(resetMediaSource(q)) EXCEPT !.desired = q.t,
            !.seekTarget = q.t, !.nextSegment = findSegmentForTime(q.t)],
         <<"ws_init">>)

\* Mutant: the INIT segment that waited is not appended, but the timer is set.
createSourceBuffer_InitForgotten(q) ==
    LET c == IF Exists(q) THEN q ELSE [q EXCEPT !.sb = NewBuffer]
    IN IF q.ms # "open" THEN q
       ELSE [c EXCEPT !.pendingInit = FALSE, !.tasks = @ \cup {<<"request">>}]

\* createSourceBuffer, once the codec is known, and the INIT segment that waited.
createSourceBuffer(q) ==
    LET c == IF Exists(q) THEN q ELSE [q EXCEPT !.sb = NewBuffer]
    IN IF q.ms # "open" THEN q
       ELSE IF c.pendingInit
       THEN [appendSegment(c, <<"INIT">>) EXCEPT !.pendingInit = FALSE,
               !.tasks = @ \cup {<<"request">>}]
       ELSE c

\* remove() of the whole buffer; it opens a MediaSource that had ended.
ClearBuffer(q) ==
    [q EXCEPT !.sb.op = <<"clear">>, !.ms = "open",
              !.tasks = IF q.ms = "ended" THEN @ \cup {<<"sourceopen">>} ELSE @]

\* checkAndEnd, which waits until there is an idle SourceBuffer.
checkAndEnd(q) ==
    IF Exists(q) /\ ~Updating(q)
    THEN [q EXCEPT !.ms = IF @ = "open" THEN "ended" ELSE @]
    ELSE [q EXCEPT !.tasks = @ \cup {<<"end">>}]

\* What becomes of the position that is sent is left out; sending opens a closed
\* connection again.
saveProgress(q) == IF q.socks[q.sock].state = "closed" THEN connectWebSocket(q) ELSE q

\* fails: remove throws an exception.
reloadFromSegment(q, time, fails) ==
    LET r == [q EXCEPT !.queue = <<>>, !.nextSegment = findSegmentForTime(time),
                       !.requesting = FALSE]
    IN IF Exists(r) /\ ~Updating(r) /\ r.sb.has # {}
       THEN IF fails THEN recoverStream(r) ELSE ClearBuffer(r)
       ELSE send(r, <<"ws_init">>)

-----------------------------------------------------------------------------
\* The page is loaded.
Init ==
    /\ p = [socks |-> <<NewSocket>>, sock |-> 1, pending |-> <<>>, reconnectAttempts |-> 0,
            ms |-> "none", sb |-> NoBuffer, t |-> 0, tasks |-> {},
            queue |-> <<>>, appending |-> FALSE, nextSegment |-> 0, requesting |-> FALSE,
            pendingInit |-> FALSE, codec |-> FALSE, seekTarget |-> 0, desired |-> 0,
            userPaused |-> FALSE, retryCount |-> 0, cleaning |-> FALSE, watchTimer |-> FALSE,
            excused |-> FALSE, noInit |-> FALSE, lost |-> FALSE, broken |-> FALSE]
    /\ left = MaxEvents

Interferes == left > 0 /\ left' = left - 1

(* The connection.                                                         *)

\* queue.forEach(send) for the messages that were kept: the connection is open, and
\* they go out, or it is still connecting, and they are kept again.
flush(q) ==
    IF q.socks[q.sock].state = "open"
    THEN [q EXCEPT !.socks[q.sock].net = @ \o q.pending, !.pending = <<>>]
    ELSE q

\* send opens another connection when the present one is closed.
onopen(s) ==
    /\ p.socks[s].state = "connecting"
    /\ p' = flush(send([p EXCEPT !.socks[s].state = "open", !.reconnectAttempts = 0],
                       <<"watch_get">>))
    /\ UNCHANGED left

\* The connection is lost, or cannot be made. There is no new one while the user
\* pauses, after the last segment, and after too many attempts.
onclose(s) ==
    LET c == [p EXCEPT !.socks[s] = [state |-> "closed", net |-> <<>>]]
        q == [c EXCEPT !.lost = @ \/ (UnderWay(p) /\ ~UnderWay(c))]
    IN /\ p.socks[s].state # "closed"
       /\ Interferes
       /\ p' = IF q.userPaused \/ q.reconnectAttempts >= MaxAttempts \/ q.nextSegment >= N THEN q
               ELSE [q EXCEPT !.reconnectAttempts = @ + 1, !.tasks = @ \cup {<<"reconnect">>}]

\* The first request of connection s is answered, and with that done.
Arrives(s, kind) == p.socks[s].net # <<>> /\ Head(p.socks[s].net)[1] = kind
Taken(s) == [p EXCEPT !.socks[s].net = Tail(@)]

\* handleMessage: the position watched last, from the server or the URL.
OnWatchGet(s) ==
    \E position \in Starts :
      /\ Arrives(s, "watch_get")
      /\ p' = startStream(Taken(s), position)
      /\ UNCHANGED left

\* handleMessage: codec and segments of the video.
OnWsInit(s) ==
    LET q == [Taken(s) EXCEPT !.codec = TRUE, !.watchTimer = TRUE,
                !.nextSegment = IF p.desired > 0 THEN findSegmentForTime(p.desired) ELSE @,
                !.seekTarget = IF @ = 0 THEN p.desired ELSE @]
    IN /\ Arrives(s, "ws_info")
       /\ p' = IF Exists(q) THEN q ELSE createSourceBuffer(q)
       /\ UNCHANGED left

\* handleMessage: segment-missing, which is taken for the end of the video.
OnMissing(s) ==
    /\ Arrives(s, "ws_segment")
    /\ Interferes
    /\ LET q == [Taken(s) EXCEPT !.lost = @ \/ ~UnderWay(Taken(s))]
       IN p' = IF p.ms = "open" THEN checkAndEnd(q) ELSE q

\* init-missing, which comes under the same type. History: the present SourceBuffer
\* may never have INIT.
OnInitMissing(s) ==
    /\ Arrives(s, "ws_init")
    /\ Interferes
    /\ LET q == [Taken(s) EXCEPT !.excused = @ \/ ~p.sb.init, !.noInit = TRUE]
       IN p' = IF p.ms = "open" THEN checkAndEnd(q) ELSE q

\* handleBinary, INIT: kept for later when there is no SourceBuffer yet.
OnInit(s) ==
    LET c == [p EXCEPT !.socks[s].net[1] = <<"ws_info">>]
        q == IF isSourceBufferValid(c)
             THEN [appendSegment(c, <<"INIT">>) EXCEPT !.pendingInit = FALSE]
             ELSE [c EXCEPT !.pendingInit = TRUE]
    IN /\ Arrives(s, "ws_init")
       /\ p' = requestSegment([q EXCEPT !.requesting = FALSE])
       /\ UNCHANGED left

\* handleBinary, SEGM.
OnSegment(s) ==
    LET k == Head(p.socks[s].net)[2]
    IN /\ Arrives(s, "ws_segment")
       /\ p' = appendSegment([Taken(s) EXCEPT !.nextSegment = k + 1, !.requesting = FALSE],
                             <<"SEGM", k>>)
       /\ UNCHANGED left

-----------------------------------------------------------------------------
(* Timers and media events.                                                *)

Due(task) == task \in p.tasks
Done(task) == [p EXCEPT !.tasks = @ \ {task}]

\* The timer set by onclose. A MediaSource that is not open is replaced.
Reconnect ==
    LET q == Done(<<"reconnect">>)
        fresh == IF p.ms \in {"closed", "ended"}
                 THEN setupMediaSource(resetMediaSource(q)) ELSE q
    IN /\ Due(<<"reconnect">>)
       /\ p' = IF p.userPaused THEN q
               ELSE [connectWebSocket(fresh) EXCEPT !.tasks = @ \cup {<<"resume", p.t>>}]
       /\ UNCHANGED left

\* The timer set there: from the position at which the connection was lost.
Resume(time) ==
    LET q == Done(<<"resume", time>>)
    IN /\ Due(<<"resume", time>>)
       /\ p' = IF p.socks[p.sock].state # "open" THEN q
               ELSE send([q EXCEPT !.pendingInit = FALSE,
                            !.nextSegment = IF time > 0 THEN findSegmentForTime(time) ELSE @],
                         <<"ws_init">>)
       /\ UNCHANGED left

\* The MediaSource is open. Before the server has named the codec there is no
\* SourceBuffer.
sourceopen ==
    LET q == [Done(<<"sourceopen">>) EXCEPT !.ms = "open"]
    IN /\ Due(<<"sourceopen">>)
       /\ p' = IF p.codec THEN createSourceBuffer(q) ELSE q
       /\ UNCHANGED left

\* The timer set when a waiting INIT was appended.
RequestTimer ==
    /\ Due(<<"request">>)
    /\ p' = requestSegment(Done(<<"request">>))
    /\ UNCHANGED left

\* The timer set when enough was buffered.
FullTimer ==
    /\ Due(<<"full">>)
    /\ p' = requestSegment([Done(<<"full">>) EXCEPT !.requesting = FALSE])
    /\ UNCHANGED left

\* The timer set when the SourceBuffer was full.
AppendTimer ==
    /\ Due(<<"append">>)
    /\ p' = appendNext(Done(<<"append">>))
    /\ UNCHANGED left

\* The timer set by checkAndEnd.
EndTimer ==
    /\ Due(<<"end">>)
    /\ p' = checkAndEnd(Done(<<"end">>))
    /\ UNCHANGED left

\* The SourceBuffer after the operation in progress. A media segment cannot be
\* decoded without INIT: that ends the MediaSource.
Finished(q) ==
    LET op == q.sb.op
        idle == [q EXCEPT !.sb.op = <<"none">>]
    IN CASE op[1] = "INIT" -> [idle EXCEPT !.sb.init = TRUE]
         [] op[1] = "SEGM" /\ q.sb.init -> [idle EXCEPT !.sb.has = @ \cup {op[2]}]
         [] op[1] = "SEGM" /\ ~q.sb.init -> [idle EXCEPT !.ms = "ended", !.broken = TRUE]
         [] op[1] = "clean" -> [idle EXCEPT !.sb.has = {k \in @ : k >= op[2]}]
         [] op[1] = "clear" -> [idle EXCEPT !.sb.has = {}]

\* The listener of setupSourceBufferEvents; paused is video.paused. While a seek
\* target is pending it does nothing else.
AfterUpdate(q, paused) ==
    LET r == [q EXCEPT !.appending = FALSE]
        looks == paused /\ ~r.userPaused /\ r.sb.has # {}
        c == IF looks THEN [r EXCEPT !.seekTarget = 0] ELSE r
    IN IF looks /\ r.seekTarget > 0 /\ r.seekTarget # r.t
       THEN IF r.seekTarget \in r.sb.has THEN Jump([r EXCEPT !.seekTarget = 0], r.seekTarget) ELSE r
       ELSE IF c.queue # <<>> THEN appendNext(c)
       ELSE IF c.nextSegment < N /\ ~c.requesting THEN requestSegment(c) ELSE c

\* The listeners of reloadFromSegment and of cleanupBuffer come after it.
updateend ==
    \E paused \in BOOLEAN :
      LET q == AfterUpdate(Finished(p), paused)
      IN /\ Updating(p)
         /\ p' = CASE p.sb.op[1] = "clear" -> send(q, <<"ws_init">>)
                   [] p.sb.op[1] = "clean" -> appendNext([q EXCEPT !.cleaning = FALSE])
                   [] OTHER -> q
         /\ UNCHANGED left

\* The position has changed; ready is whether it can be played from there.
onseeking ==
    \E ready \in BOOLEAN, fails \in BOOLEAN :
      LET q == [Done(<<"seeking">>) EXCEPT !.userPaused = FALSE, !.seekTarget = p.t]
      IN /\ Due(<<"seeking">>)
         /\ p' = IF p.t \notin p.sb.has THEN reloadFromSegment(q, p.t, fails)
                 ELSE IF ready THEN [q EXCEPT !.seekTarget = 0, !.tasks = @ \cup {<<"seeked">>}]
                 ELSE [q EXCEPT !.tasks = @ \cup {<<"seeked">>, <<"check", p.t>>}]
         /\ IF fails THEN Interferes ELSE UNCHANGED left

\* The timer set there: still not playable, so load again.
CheckTimer(time) ==
    \E ready \in BOOLEAN :
      LET q == Done(<<"check", time>>)
      IN /\ Due(<<"check", time>>)
         /\ p' = IF ready \/ p.userPaused THEN q ELSE reloadFromSegment(q, time, FALSE)
         /\ UNCHANGED left

onseeked ==
    LET q == Done(<<"seeked">>)
    IN /\ Due(<<"seeked">>)
       /\ p' = IF q.sb.has = {} THEN q
               ELSE IF q.seekTarget > 0 /\ q.seekTarget # q.t
               THEN IF q.seekTarget \in q.sb.has
                    THEN Jump([q EXCEPT !.seekTarget = 0], q.seekTarget) ELSE q
               ELSE [q EXCEPT !.seekTarget = 0]
       /\ UNCHANGED left

\* Playback has run out of data: a gap is jumped over, and more is asked for.
onwaiting ==
    LET q == Done(<<"waiting">>)
        later == {k \in q.sb.has : k > q.t}
        r == IF q.t \notin q.sb.has /\ later # {} THEN Jump(q, Min(later)) ELSE q
    IN /\ Due(<<"waiting">>)
       /\ p' = IF r.nextSegment < N THEN requestSegment(r) ELSE r
       /\ UNCHANGED left

\* cleanupInterval.
Cleanup == p' = cleanupBuffer(p) /\ p' # p /\ UNCHANGED left

\* watchTimer, while the video plays.
SaveTimer ==
    /\ p.watchTimer /\ p.t > 0 /\ ~p.userPaused
    /\ p' = saveProgress(p)
    /\ UNCHANGED left

-----------------------------------------------------------------------------
(* The video plays, and the user.                                          *)

Play ==
    /\ ~p.userPaused /\ p.t \in p.sb.has /\ p.t + 1 < N /\ ~p.broken
    /\ p.ms = "ended" => p.t + 1 \in p.sb.has
    /\ p' = [p EXCEPT !.t = @ + 1,
                !.tasks = IF p.t + 1 \in p.sb.has THEN @ ELSE @ \cup {<<"waiting">>}]
    /\ UNCHANGED left

\* The end of a MediaSource that has ended.
OnEnded ==
    /\ p.ms = "ended" /\ ~p.userPaused /\ p.t \in p.sb.has /\ p.t + 1 \notin p.sb.has
    /\ p' = saveProgress([p EXCEPT !.userPaused = TRUE])
    /\ UNCHANGED left

Seek(x) ==
    /\ p.ms \in {"open", "ended"} /\ p.codec
    /\ Interferes
    /\ p' = Jump(p, x)

onpause ==
    /\ ~p.userPaused
    /\ Interferes
    /\ p' = [p EXCEPT !.userPaused = TRUE]

onplaying ==
    /\ p.userPaused /\ p.t \in p.sb.has
    /\ p' = [p EXCEPT !.userPaused = FALSE]
    /\ UNCHANGED left

-----------------------------------------------------------------------------
Received ==
    \E s \in 1..Len(p.socks) :
      onopen(s) \/ OnWatchGet(s) \/ OnWsInit(s) \/ OnInit(s) \/ OnSegment(s)

\* The answers that are under way on a connection; ws_init has two.
Answers(net) == Len(net) + Cardinality({i \in 1..Len(net) : net[i][1] = "ws_init"})

\* Timers and media events. A bound holds them up when many answers are under way.
Local ==
    /\ \A s \in 1..Len(p.socks) : Answers(p.socks[s].net) <= MaxUnderWay
    /\ \/ sourceopen \/ updateend \/ onseeking \/ onseeked \/ onwaiting
       \/ Play \/ OnEnded
       \/ Reconnect \/ \E x \in 0..(N - 1) : Resume(x) \/ CheckTimer(x)
       \/ RequestTimer \/ FullTimer \/ AppendTimer \/ EndTimer
       \/ Cleanup \/ SaveTimer

Next ==
    \/ Received \/ Local
    \/ \E s \in 1..Len(p.socks) : onclose(s) \/ OnMissing(s) \/ OnInitMissing(s)
    \/ \E x \in Targets : Seek(x)
    \/ onpause \/ onplaying

Spec == Init /\ [][Next]_vars

-----------------------------------------------------------------------------
(* Properties.                                                             *)

TypeOK ==
    /\ p.sock \in 1..Len(p.socks)
    /\ p.nextSegment \in 0..N /\ p.t \in 0..(N - 1)
    /\ p.sb.has \subseteq 0..(N - 1)
    /\ Len(p.queue) <= QueueMax
    /\ p.retryCount \in 0..MaxRetries /\ p.reconnectAttempts \in 0..MaxAttempts

\* A media segment that is appended before INIT cannot be decoded and ends the
\* MediaSource. A media segment comes to a SourceBuffer that has had INIT, however
\* answers, sourceopen and the update of the buffer are ordered and wherever the user
\* seeks, unless the elements were replaced while a segment was under way, or the
\* server had no INIT for them.
InitBeforeSegments == p.broken => p.excused

\* The same without the first exception: what the debug log describes as solved.
InitFirst == p.broken => p.noInit

\* While requesting is set the script asks for nothing, so something must come that
\* clears it: a segment or the timer of a buffer that was full. Otherwise the video
\* stops for good. That the last segment under way is missing, or lost with its
\* connection, is not held against the script until it makes the next request.
RequestingIsServed == p.requesting => UnderWay(p) \/ Due(<<"full">>) \/ p.lost
=============================================================================
