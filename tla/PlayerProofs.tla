---------------------------- MODULE PlayerProofs ----------------------------
(***************************************************************************)
(* Theorems about Player, for videos of any length, queues, quotas and     *)
(* bounds of any size: type correctness with the limit of the segment      *)
(* queue, that a request which keeps the script from asking again is       *)
(* answered, and that no media segment reaches a SourceBuffer without INIT *)
(* unless the elements were replaced while a segment was under way.        *)
(***************************************************************************)
EXTENDS Player, WellFoundedInduction, TLAPS

-----------------------------------------------------------------------------
(* The inductive invariant, as predicates on the record of the script, so  *)
(* that each function of the script can be shown to preserve it.           *)

Fields ==
    {"socks", "sock", "pending", "reconnectAttempts", "ms", "sb", "t", "tasks", "queue",
     "appending", "nextSegment", "requesting", "pendingInit", "codec", "seekTarget",
     "desired", "userPaused", "retryCount", "cleaning", "watchTimer", "excused", "noInit",
     "lost", "broken"}

Requests ==
    {<<"watch_get">>, <<"ws_init">>, <<"ws_info">>}
      \cup {<<"ws_segment", k>> : k \in 0..(N - 1)}
Segments == {<<"INIT">>} \cup {<<"SEGM", k>> : k \in 0..(N - 1)}
Operations ==
    {<<"absent">>, <<"none">>, <<"clear">>} \cup {<<"clean", x>> : x \in Int} \cup Segments

Sockets == [state : {"connecting", "open", "closed"}, net : Seq(Requests)]
Buffers == [init : BOOLEAN, has : SUBSET (0..(N - 1)), op : Operations]

\* The record has its fields, and the flags are Boolean.
Shape(q) ==
    /\ DOMAIN q = Fields /\ q = [x \in Fields |-> q[x]]
    /\ q.excused \in BOOLEAN /\ q.broken \in BOOLEAN

\* The connections: one of them is the present one.
Network(q) ==
    /\ q.socks \in Seq(Sockets) /\ q.sock \in 1..Len(q.socks)
    /\ q.pending \in Seq(Requests)

\* Positions, numbers of segments and counters.
Numbers(q) ==
    /\ q.nextSegment \in 0..N
    /\ q.t \in 0..(N - 1) /\ q.seekTarget \in 0..(N - 1) /\ q.desired \in 0..(N - 1)
    /\ q.retryCount \in 0..MaxRetries /\ q.reconnectAttempts \in 0..MaxAttempts

\* The SourceBuffer and the queue before it.
Buffered(q) ==
    /\ q.sb \in Buffers
    /\ q.queue \in Seq(Segments) /\ Len(q.queue) <= QueueMax

\* Something will come that clears requesting.
Served(q) == q.requesting => UnderWay(q) \/ <<"full">> \in q.tasks \/ q.lost

\* SourceBuffer and MediaSource: what INIT allows has not happened before it, and
\* the only sourceopen before it is that of a MediaSource without a SourceBuffer.
Media(q) ==
    /\ ~Exists(q) => q.sb = NoBuffer /\ q.queue = <<>> /\ ~q.appending
    /\ Exists(q) => q.ms \in {"open", "ended"}
    /\ q.sb.has # {} => q.sb.init
    /\ ~q.sb.init /\ <<"sourceopen">> \in q.tasks => q.ms = "closed"
    /\ ~q.sb.init /\ Exists(q) => q.sb.op[1] \in {"none", "INIT", "SEGM"}

\* INIT is being appended, or nothing can be appended any more.
Ready(q) == Exists(q) /\ (q.sb.op = <<"INIT">> \/ q.ms # "open")

\* The answer to the request brings INIT, or the request for it.
Asks(m) == m[1] \in {"ws_init", "watch_get"}

\* A segment is under way that comes before any INIT of its connection.
Unasked(q) ==
    \E s \in 1..Len(q.socks) : \E i \in 1..Len(q.socks[s].net) :
      /\ q.socks[s].net[i][1] = "ws_segment"
      /\ \A j \in 1..(i - 1) : ~Asks(q.socks[s].net[j])

InitAsked(q) ==
    \E j \in 1..Len(q.socks[q.sock].net) : Asks(q.socks[q.sock].net[j])
SegmentKept(q) == \E j \in 1..Len(q.pending) : q.pending[j][1] = "ws_segment"
Open(q) == q.socks[q.sock].state = "open"

\* What holds until INIT was appended: every segment comes after it.
Order(q) ==
    ~q.excused /\ ~q.sb.init =>
      /\ q.sb.op[1] # "SEGM"
      /\ Ready(q) \/ (q.queue = <<>> /\ ~q.appending)
      /\ Unasked(q) => Ready(q)
      /\ ~Exists(q) => ~UnderWay(q) /\ ~SegmentKept(q)
      /\ q.pendingInit => ~isSourceBufferValid(q)

\* INIT comes on a connection that is open.
Coming(q) ==
    ~q.excused /\ ~q.sb.init /\ Open(q) => Ready(q) \/ q.pendingInit \/ InitAsked(q)

\* A media segment without INIT was only ever appended after elements were replaced
\* that a segment was meant for, or the server had no INIT for them.
Whole(q) == q.broken => q.excused

Typed(q) == Shape(q) /\ Network(q) /\ Numbers(q) /\ Buffered(q)
Almost(q) == Typed(q) /\ Served(q) /\ Media(q) /\ Order(q) /\ Whole(q)
Sound(q) == Almost(q) /\ Coming(q)

IInv == Sound(p)

\* Only the fields of F differ.
Same(q, r, F) == \A x \in Fields \ F : r[x] = q[x]

-----------------------------------------------------------------------------
(* Positions.                                                              *)

Less == {ss \in Nat \X Nat : ss[1] < ss[2]}

\* The lowest of some segments is one of them.
LEMMA MinExists == ASSUME NEW S, S \subseteq Nat, S # {} PROVE Min(S) \in S
<1>1. IsWellFoundedOn(Less, Nat)
  BY NatLessThanWellFounded DEF OpToRel, Less
<1>2. PICK x \in S : \A y \in S : ~ (<<y, x>> \in Less)
  BY <1>1, WFMin, Zenon
<1>3. \A y \in S : ~(y < x)
  BY <1>2 DEF Less
<1>4. \A y \in S : x =< y
  BY <1>3
<1> QED BY <1>4 DEF Min

\* findSegmentForTime names a segment of the video.
LEMMA FindSegment == ASSUME NEW x \in Nat PROVE findSegmentForTime(x) \in 0..(N - 1)
<1>1. {x, N - 1} \subseteq Nat
  BY PlayerAssumption
<1>2. Min({x, N - 1}) \in {x, N - 1} /\ \A y \in {x, N - 1} : Min({x, N - 1}) =< y
  BY PlayerAssumption DEF Min
<1> QED BY <1>1, <1>2, PlayerAssumption DEF findSegmentForTime

\* What is assumed of the constants, apart from the positions.
LEMMA Bounds ==
  /\ N \in Nat /\ N > 0 /\ QueueMax \in Nat /\ QueueMax > 0
  /\ MaxRetries \in Nat /\ MaxAttempts \in Nat
  BY PlayerAssumption

\* Another number of retries.
LEMMA RetryNumbers ==
  ASSUME NEW q, Numbers(q), NEW r, r.retryCount \in 0..MaxRetries,
         \A x \in Fields \ {"retryCount"} : r[x] = q[x] \/ x \notin
           {"nextSegment", "t", "seekTarget", "desired", "reconnectAttempts"}
  PROVE  Numbers(r)
<1>1. /\ r.nextSegment = q.nextSegment /\ r.t = q.t /\ r.seekTarget = q.seekTarget
      /\ r.desired = q.desired /\ r.reconnectAttempts = q.reconnectAttempts
  BY DEF Fields
<1> QED BY <1>1 DEF Numbers

-----------------------------------------------------------------------------
(* The connection.                                                         *)

\* A connection whose requests are replaced.
LEMMA NetExcept ==
  ASSUME NEW c \in Sockets, NEW n \in Seq(Requests)
  PROVE  /\ [c EXCEPT !.net = n] \in Sockets
         /\ [c EXCEPT !.net = n].net = n /\ [c EXCEPT !.net = n].state = c.state
  BY DEF Sockets

\* The same, of a connection that is known to be that one.
LEMMA NetSet ==
  ASSUME NEW c \in Sockets, NEW n \in Seq(Requests), NEW d, d = [c EXCEPT !.net = n]
  PROVE  d \in Sockets /\ d.net = n /\ d.state = c.state
  BY NetExcept

\* What a connection that is opened changes.
LEMMA ConnectEffect ==
  ASSUME NEW q, Typed(q), NEW r, r = connectWebSocket(q)
  PROVE  /\ Typed(r)
         /\ r.sock = Len(q.socks) + 1 /\ r.socks = Append(q.socks, NewSocket)
         /\ Same(q, r, {"sock", "socks"})
<1>1. NewSocket \in Sockets
  BY DEF NewSocket, Sockets
<1>2. /\ r.sock = Len(q.socks) + 1 /\ r.socks = Append(q.socks, NewSocket)
      /\ Same(q, r, {"sock", "socks"})
      /\ DOMAIN r = Fields /\ r = [x \in Fields |-> r[x]]
  BY DEF connectWebSocket, Typed, Shape, Fields, Same
<1>3. Network(r)
  <2>1. q.socks \in Seq(Sockets) /\ q.pending \in Seq(Requests) /\ r.pending = q.pending
    BY <1>2 DEF Typed, Network, Fields, Same
  <2>2. Append(q.socks, NewSocket) \in Seq(Sockets)
        /\ Len(Append(q.socks, NewSocket)) = Len(q.socks) + 1
        /\ Len(q.socks) \in Nat
    BY <1>1, <2>1
  <2> QED BY <1>2, <2>1, <2>2 DEF Network
<1>4. Shape(r)
  BY <1>2 DEF Typed, Shape, Fields, Same
<1>5. Numbers(r) /\ Buffered(r)
  BY <1>2 DEF Typed, Numbers, Buffered, Fields, Same
<1> QED BY <1>2, <1>3, <1>4, <1>5 DEF Typed

\* What send changes: the present connection takes the message, or it is kept.
LEMMA SendEffect ==
  ASSUME NEW q, Typed(q), NEW m \in Requests, NEW r, r = send(q, m)
  PROVE  /\ Typed(r)
         /\ \/ /\ Open(q)
               /\ r.socks = [q.socks EXCEPT ![q.sock].net = Append(@, m)]
               /\ Same(q, r, {"socks"})
            \/ /\ ~Open(q) /\ ~Open(r)
               /\ r.pending = Append(q.pending, m)
               /\ \/ Same(q, r, {"pending"})
                  \/ /\ r.socks = Append(q.socks, NewSocket) /\ r.sock = Len(q.socks) + 1
                     /\ Same(q, r, {"pending", "sock", "socks"})
<1> DEFINE kept == [q EXCEPT !.pending = Append(@, m)]
<1>1. q.socks[q.sock] \in Sockets /\ q.socks \in Seq(Sockets) /\ q.pending \in Seq(Requests)
      /\ q.sock \in DOMAIN q.socks
  BY DEF Typed, Network
<1>2. q.socks[q.sock].state \in {"connecting", "open", "closed"}
  BY <1>1 DEF Sockets
<1>3. /\ kept.pending = Append(q.pending, m) /\ Same(q, kept, {"pending"})
      /\ DOMAIN kept = Fields /\ kept = [x \in Fields |-> kept[x]]
  BY DEF Typed, Shape, Fields, Same
<1>4. Typed(kept)
  <2>1. Append(q.pending, m) \in Seq(Requests)
    BY <1>1
  <2> HIDE DEF kept
  <2>2. Network(kept)
    BY <1>3, <2>1 DEF Typed, Network, Fields, Same
  <2> QED BY <1>3, <2>2 DEF Typed, Shape, Numbers, Buffered, Fields, Same
<1>5. CASE q.socks[q.sock].state = "open"
  <2> DEFINE sent == [q.socks EXCEPT ![q.sock].net = Append(@, m)]
  <2>1. r = [q EXCEPT !.socks = sent]
    BY <1>5, Zenon DEF send
  <2>2. sent \in Seq(Sockets) /\ Len(sent) = Len(q.socks)
    <3>1. q.socks[q.sock].net \in Seq(Requests)
      BY <1>1 DEF Sockets
    <3>2. Append(q.socks[q.sock].net, m) \in Seq(Requests)
      BY <3>1
    <3>4. [q.socks[q.sock] EXCEPT !.net = Append(@, m)] \in Sockets
      BY <1>1, <3>2, NetExcept
    <3> QED BY <1>1, <3>4
  <2> HIDE DEF sent
  <2>3. /\ r.socks = sent /\ Same(q, r, {"socks"})
        /\ DOMAIN r = Fields /\ r = [x \in Fields |-> r[x]]
    BY <2>1 DEF Typed, Shape, Fields, Same
  <2>4. Typed(r)
    BY <2>2, <2>3 DEF Typed, Network, Shape, Numbers, Buffered, Fields, Same
  <2> QED BY <1>5, <2>3, <2>4 DEF sent, Open
<1>6. CASE q.socks[q.sock].state = "connecting"
  <2>1. r = kept
    BY <1>6 DEF send
  <2>2. r.socks = q.socks /\ r.sock = q.sock
    BY <1>3, <2>1 DEF Same, Fields
  <2> QED BY <1>3, <1>4, <1>6, <2>1, <2>2 DEF Open
<1>7. CASE q.socks[q.sock].state = "closed"
  <2>1. r = connectWebSocket(kept)
    BY <1>7 DEF send
  <2> HIDE DEF kept
  <2>2. /\ Typed(r) /\ r.sock = Len(kept.socks) + 1
        /\ r.socks = Append(kept.socks, NewSocket) /\ Same(kept, r, {"sock", "socks"})
    BY <1>4, <2>1, ConnectEffect
  <2>3. kept.socks = q.socks /\ r.pending = kept.pending
    BY <1>3, <2>2 DEF Same, Fields
  <2>4. ~Open(r)
    <3>1. r.socks[r.sock] = NewSocket
      BY <1>1, <2>2, <2>3
    <3> QED BY <3>1 DEF Open, NewSocket
  <2>5. Same(q, r, {"pending", "sock", "socks"})
    BY <1>3, <2>2 DEF Same, Fields
  <2>6. ~Open(q)
    BY <1>7 DEF Open
  <2> QED BY <1>3, <2>2, <2>3, <2>4, <2>5, <2>6
<1> QED BY <1>2, <1>5, <1>6, <1>7

\* The requests of the connections, after one was sent.
LEMMA SentNet ==
  ASSUME NEW q, Typed(q), NEW m \in Requests, NEW r,
         r.socks = [q.socks EXCEPT ![q.sock].net = Append(@, m)], r.sock = q.sock
  PROVE  /\ UnderWay(q) => UnderWay(r)
         /\ m[1] = "ws_segment" => UnderWay(r)
         /\ UnderWay(r) => UnderWay(q) \/ m[1] = "ws_segment"
         /\ InitAsked(q) \/ Asks(m) => InitAsked(r)
         /\ Unasked(r) => Unasked(q) \/ (m[1] = "ws_segment" /\ ~InitAsked(q))
         /\ Open(r) <=> Open(q)
<1> DEFINE a == q.socks[q.sock].net
           b == Append(a, m)
<1>1. q.socks \in Seq(Sockets) /\ q.sock \in 1..Len(q.socks) /\ q.socks[q.sock] \in Sockets
      /\ Len(q.socks) \in Nat /\ \A s \in 1..Len(q.socks) : q.socks[s] \in Sockets
  BY DEF Typed, Network
<1>2. a \in Seq(Requests) /\ Len(a) \in Nat
  BY <1>1 DEF Sockets
<1> HIDE DEF a
<1>3. b \in Seq(Requests) /\ Len(b) = Len(a) + 1 /\ b[Len(a) + 1] = m
      /\ \A i \in 1..Len(a) : b[i] = a[i]
  BY <1>2
<1>4. Len(r.socks) = Len(q.socks) /\ r.socks[q.sock] = [q.socks[q.sock] EXCEPT !.net = b]
      /\ \A s \in 1..Len(q.socks) : s # q.sock => r.socks[s] = q.socks[s]
  BY <1>1 DEF a
<1>5. r.socks[q.sock].net = b /\ r.socks[q.sock].state = q.socks[q.sock].state
  <2> DEFINE c == q.socks[q.sock]
  <2>1. c \in Sockets /\ b \in Seq(Requests) /\ r.socks[q.sock] = [c EXCEPT !.net = b]
    BY <1>1, <1>3, <1>4
  <2> HIDE DEF b, c
  <2>2. [c EXCEPT !.net = b].net = b /\ [c EXCEPT !.net = b].state = c.state
    BY <2>1, NetExcept
  <2>3. r.socks[q.sock].net = b /\ r.socks[q.sock].state = c.state
    BY <2>1, <2>2
  <2> QED BY <2>3 DEF c
<1> HIDE DEF b
<1>6. UnderWay(q) => UnderWay(r)
  <2> SUFFICES ASSUME NEW s \in 1..Len(q.socks), NEW i \in 1..Len(q.socks[s].net),
                      q.socks[s].net[i][1] = "ws_segment"
               PROVE  UnderWay(r)
    BY DEF UnderWay
  <2>1. CASE s = q.sock
    BY <1>1, <1>2, <1>3, <1>4, <1>5, <2>1 DEF UnderWay, a
  <2>2. CASE s # q.sock
    BY <1>1, <1>4, <2>2 DEF UnderWay
  <2> QED BY <2>1, <2>2
<1>7. m[1] = "ws_segment" => UnderWay(r)
  <2>1. Len(a) + 1 \in 1..Len(b) /\ q.sock \in 1..Len(r.socks)
    BY <1>1, <1>2, <1>3, <1>4
  <2> QED BY <1>3, <1>5, <2>1 DEF UnderWay
<1>8. UnderWay(r) => UnderWay(q) \/ m[1] = "ws_segment"
  <2> SUFFICES ASSUME NEW s \in 1..Len(r.socks), NEW i \in 1..Len(r.socks[s].net),
                      r.socks[s].net[i][1] = "ws_segment", m[1] # "ws_segment"
               PROVE  UnderWay(q)
    BY DEF UnderWay
  <2>1. CASE s = q.sock
    <3>1. i \in 1..Len(a) /\ a[i][1] = "ws_segment"
      BY <1>2, <1>3, <1>5, <2>1
    <3> QED BY <1>1, <3>1 DEF UnderWay, a
  <2>2. CASE s # q.sock
    BY <1>1, <1>4, <2>2 DEF UnderWay
  <2> QED BY <2>1, <2>2
<1>9. InitAsked(q) \/ Asks(m) => InitAsked(r)
  <2>1. (\E j \in 1..Len(a) : Asks(a[j])) \/ Asks(m) => \E j \in 1..Len(b) : Asks(b[j])
    <3>1. Len(a) + 1 \in 1..Len(b) /\ \A j \in 1..Len(a) : j \in 1..Len(b)
      BY <1>2, <1>3
    <3> QED BY <1>3, <3>1
  <2> QED BY <1>5, <2>1 DEF InitAsked, a
<1>10. Unasked(r) => Unasked(q) \/ (m[1] = "ws_segment" /\ ~InitAsked(q))
  <2> SUFFICES ASSUME NEW s \in 1..Len(r.socks), NEW i \in 1..Len(r.socks[s].net),
                      r.socks[s].net[i][1] = "ws_segment",
                      \A j \in 1..(i - 1) : ~Asks(r.socks[s].net[j])
               PROVE  Unasked(q) \/ (m[1] = "ws_segment" /\ ~InitAsked(q))
    BY DEF Unasked
  <2>1. CASE s = q.sock
    <3>1. b[i][1] = "ws_segment" /\ i \in 1..(Len(a) + 1)
          /\ \A j \in 1..(i - 1) : ~Asks(b[j])
      BY <1>3, <1>5, <2>1
    <3>2. CASE i = Len(a) + 1
      <4>1. \A j \in 1..Len(a) : ~Asks(a[j])
        BY <1>2, <1>3, <3>1, <3>2
      <4> QED BY <1>3, <3>1, <3>2, <4>1 DEF InitAsked, a
    <3>3. CASE i \in 1..Len(a)
      <4>1. \A j \in 1..(i - 1) : j \in 1..Len(a)
        BY <1>2, <3>3
      <4>2. a[i][1] = "ws_segment" /\ \A j \in 1..(i - 1) : ~Asks(a[j])
        BY <1>3, <3>1, <3>3, <4>1
      <4> QED BY <1>1, <3>3, <4>2 DEF Unasked, a
    <3> QED BY <1>2, <3>1, <3>2, <3>3
  <2>2. CASE s # q.sock
    BY <1>1, <1>4, <2>2 DEF Unasked
  <2> QED BY <2>1, <2>2
<1>11. Open(r) <=> Open(q)
  BY <1>5 DEF Open
<1> QED BY <1>6, <1>7, <1>8, <1>9, <1>10, <1>11

\* A connection that is opened has no requests.
LEMMA ConnectNet ==
  ASSUME NEW q, Typed(q), NEW r,
         r.socks = Append(q.socks, NewSocket), r.sock = Len(q.socks) + 1
  PROVE  /\ UnderWay(r) <=> UnderWay(q)
         /\ Unasked(r) <=> Unasked(q)
         /\ ~Open(r)
<1>1. q.socks \in Seq(Sockets) /\ Len(q.socks) \in Nat
  BY DEF Typed, Network
<1>2. /\ Len(r.socks) = Len(q.socks) + 1 /\ r.socks[r.sock] = NewSocket
      /\ \A s \in 1..Len(q.socks) : r.socks[s] = q.socks[s]
      /\ \A s \in 1..Len(r.socks) : s \in 1..Len(q.socks) \/ s = r.sock
      /\ \A s \in 1..Len(q.socks) : s \in 1..Len(r.socks)
  BY <1>1
<1>3. r.socks[r.sock].state = "connecting" /\ 1..Len(r.socks[r.sock].net) = {}
  BY <1>2 DEF NewSocket
<1>4. UnderWay(r) <=> UnderWay(q)
  <2>1. UnderWay(q) => UnderWay(r)
    BY <1>2 DEF UnderWay
  <2>2. UnderWay(r) => UnderWay(q)
    BY <1>2, <1>3 DEF UnderWay
  <2> QED BY <2>1, <2>2
<1>5. Unasked(r) <=> Unasked(q)
  BY <1>2, <1>3 DEF Unasked
<1> QED BY <1>3, <1>4, <1>5 DEF Open

\* A message that is kept.
LEMMA KeptNet ==
  ASSUME NEW q, Typed(q), NEW m, NEW r, r.pending = Append(q.pending, m)
  PROVE  SegmentKept(r) => SegmentKept(q) \/ m[1] = "ws_segment"
<1>1. q.pending \in Seq(Requests) /\ Len(q.pending) \in Nat
  BY DEF Typed, Network
<1>2. /\ Len(r.pending) = Len(q.pending) + 1 /\ r.pending[Len(q.pending) + 1] = m
      /\ \A i \in 1..Len(q.pending) : r.pending[i] = q.pending[i]
      /\ \A i \in 1..Len(r.pending) : i \in 1..Len(q.pending) \/ i = Len(q.pending) + 1
  BY <1>1
<1> QED BY <1>2 DEF SegmentKept

\* A new connection preserves the invariant.
LEMMA ConnectSound ==
  ASSUME NEW q, Almost(q)
  PROVE  Sound(connectWebSocket(q))
<1> DEFINE r == connectWebSocket(q)
<1>1. /\ Typed(q) /\ Typed(r) /\ Same(q, r, {"sock", "socks"})
      /\ r.socks = Append(q.socks, NewSocket) /\ r.sock = Len(q.socks) + 1
  BY ConnectEffect DEF Almost
<1> HIDE DEF r
<1>2. (UnderWay(r) <=> UnderWay(q)) /\ (Unasked(r) <=> Unasked(q)) /\ ~Open(r)
  BY <1>1, ConnectNet
<1>3. /\ r.pending = q.pending /\ r.sb = q.sb /\ r.ms = q.ms /\ r.tasks = q.tasks
      /\ r.queue = q.queue /\ r.appending = q.appending /\ r.requesting = q.requesting
      /\ r.pendingInit = q.pendingInit /\ r.excused = q.excused /\ r.lost = q.lost
      /\ r.broken = q.broken
  BY <1>1 DEF Same, Fields
<1>4. Served(r) /\ Media(r) /\ Whole(r)
  BY <1>2, <1>3 DEF Almost, Served, Media, Whole, Exists
<1>5. Order(r)
  BY <1>2, <1>3 DEF Almost, Order, Exists, Ready, isSourceBufferValid, SegmentKept
<1>6. Coming(r)
  BY <1>2 DEF Coming
<1>7. Sound(r)
  BY <1>1, <1>4, <1>5, <1>6 DEF Almost, Sound
<1> QED BY <1>7 DEF r

\* send preserves the invariant when it asks for INIT, whether INIT was to come before
\* or not, and when it asks for a segment that comes after INIT.
LEMMA SendSound ==
  ASSUME NEW q, Almost(q), NEW m \in Requests,
         \/ Asks(m)
         \/ /\ m[1] = "ws_segment" /\ Exists(q) /\ Coming(q)
            /\ ~q.excused /\ ~q.sb.init /\ Open(q) => Ready(q) \/ InitAsked(q)
  PROVE  /\ Sound(send(q, m)) /\ Same(q, send(q, m), {"pending", "sock", "socks"})
         /\ m[1] = "ws_segment" /\ Open(q) => UnderWay(send(q, m))
         /\ Asks(m) /\ Open(send(q, m)) => InitAsked(send(q, m))
<1> DEFINE r == send(q, m)
<1>1. /\ Typed(q) /\ Typed(r)
      /\ \/ /\ Open(q)
            /\ r.socks = [q.socks EXCEPT ![q.sock].net = Append(@, m)]
            /\ Same(q, r, {"socks"})
         \/ /\ ~Open(q) /\ ~Open(r)
            /\ r.pending = Append(q.pending, m)
            /\ \/ Same(q, r, {"pending"})
               \/ /\ r.socks = Append(q.socks, NewSocket) /\ r.sock = Len(q.socks) + 1
                  /\ Same(q, r, {"pending", "sock", "socks"})
  BY SendEffect DEF Almost
<1> HIDE DEF r
<1>2. Same(q, r, {"pending", "sock", "socks"})
  BY <1>1 DEF Same
<1>3. /\ r.sb = q.sb /\ r.ms = q.ms /\ r.tasks = q.tasks
      /\ r.queue = q.queue /\ r.appending = q.appending /\ r.requesting = q.requesting
      /\ r.pendingInit = q.pendingInit /\ r.excused = q.excused /\ r.lost = q.lost
      /\ r.broken = q.broken
  BY <1>2 DEF Same, Fields
<1>4. Media(r) /\ Whole(r)
  BY <1>3 DEF Almost, Media, Whole, Exists
<1>5. (Exists(r) <=> Exists(q)) /\ (Ready(r) <=> Ready(q))
      /\ (isSourceBufferValid(r) <=> isSourceBufferValid(q))
  BY <1>3 DEF Exists, Ready, isSourceBufferValid
<1>6. Asks(m) => m[1] # "ws_segment"
  BY DEF Asks
<1>7. CASE Open(q)
  <2>1. r.socks = [q.socks EXCEPT ![q.sock].net = Append(@, m)] /\ r.sock = q.sock
        /\ r.pending = q.pending
    BY <1>1, <1>7 DEF Same, Fields
  <2>2. /\ UnderWay(q) => UnderWay(r)
        /\ m[1] = "ws_segment" => UnderWay(r)
        /\ UnderWay(r) => UnderWay(q) \/ m[1] = "ws_segment"
        /\ InitAsked(q) \/ Asks(m) => InitAsked(r)
        /\ Unasked(r) => Unasked(q) \/ (m[1] = "ws_segment" /\ ~InitAsked(q))
    BY <1>1, <2>1, SentNet
  <2>3. SegmentKept(r) <=> SegmentKept(q)
    BY <2>1 DEF SegmentKept
  <2>4. Served(r)
    BY <1>3, <2>2 DEF Almost, Served
  <2>5. Order(r)
    BY <1>3, <1>5, <1>6, <1>7, <2>2, <2>3 DEF Almost, Order
  <2>6. Coming(r)
    BY <1>3, <1>5, <1>7, <2>2 DEF Coming
  <2> QED BY <1>1, <1>2, <1>4, <2>2, <2>4, <2>5, <2>6 DEF Almost, Sound, r
<1>8. CASE ~Open(q)
  <2>1. ~Open(r) /\ (UnderWay(r) <=> UnderWay(q)) /\ (Unasked(r) <=> Unasked(q))
    <3>1. CASE Same(q, r, {"pending"})
      <4>1. r.socks = q.socks
        BY <3>1 DEF Same, Fields
      <4>2. UnderWay(r) <=> UnderWay(q)
        BY <4>1 DEF UnderWay
      <4>3. Unasked(r) <=> Unasked(q)
        BY <4>1 DEF Unasked
      <4> QED BY <1>1, <1>8, <4>2, <4>3
    <3>2. CASE r.socks = Append(q.socks, NewSocket) /\ r.sock = Len(q.socks) + 1
      BY <1>1, <3>2, ConnectNet
    <3> QED BY <1>1, <1>8, <3>1, <3>2
  <2>2. SegmentKept(r) => SegmentKept(q) \/ m[1] = "ws_segment"
    BY <1>1, <1>8, KeptNet
  <2>3. Served(r)
    BY <1>3, <2>1 DEF Almost, Served
  <2>4. Order(r)
    BY <1>3, <1>5, <1>6, <2>1, <2>2 DEF Almost, Order
  <2>5. Coming(r)
    BY <2>1 DEF Coming
  <2> QED BY <1>1, <1>2, <1>4, <1>8, <2>1, <2>3, <2>4, <2>5 DEF Almost, Sound, r
<1> QED BY <1>7, <1>8

-----------------------------------------------------------------------------
(* Functions that leave the connections alone.                             *)

\* What the invariant says of the connections depends on nothing else.
LEMMA SameNet ==
  ASSUME NEW q, NEW r, r.socks = q.socks, r.sock = q.sock, r.pending = q.pending
  PROVE  /\ (UnderWay(r) <=> UnderWay(q)) /\ (Unasked(r) <=> Unasked(q))
         /\ (InitAsked(r) <=> InitAsked(q)) /\ (SegmentKept(r) <=> SegmentKept(q))
         /\ (Open(r) <=> Open(q)) /\ (Network(q) => Network(r))
<1>1. UnderWay(r) <=> UnderWay(q)
  BY DEF UnderWay
<1>2. Unasked(r) <=> Unasked(q)
  BY DEF Unasked
<1>3. (InitAsked(r) <=> InitAsked(q)) /\ (SegmentKept(r) <=> SegmentKept(q))
  BY DEF InitAsked, SegmentKept
<1>4. (Open(r) <=> Open(q)) /\ (Network(q) => Network(r))
  BY DEF Open, Network
<1> QED BY <1>1, <1>2, <1>3, <1>4

Inner ==
    {"t", "tasks", "nextSegment", "codec", "seekTarget", "desired", "userPaused",
     "retryCount", "cleaning", "watchTimer", "reconnectAttempts", "requesting"}

\* Positions, counters and timers may change: no sourceopen is invented, and whenever
\* requesting is set something will clear it, or the segment is lost.
LEMMA LostSound ==
  ASSUME NEW q, Almost(q), NEW r, Shape(r), Numbers(r), Same(q, r, Inner \cup {"lost"}),
         <<"sourceopen">> \in r.tasks => <<"sourceopen">> \in q.tasks,
         r.requesting => <<"full">> \in r.tasks \/ UnderWay(q) \/ r.lost
  PROVE  Almost(r) /\ (Coming(q) => Coming(r))
<1>1. /\ r.socks = q.socks /\ r.sock = q.sock /\ r.pending = q.pending
      /\ r.sb = q.sb /\ r.ms = q.ms /\ r.queue = q.queue /\ r.appending = q.appending
      /\ r.pendingInit = q.pendingInit /\ r.excused = q.excused /\ r.broken = q.broken
  BY DEF Same, Fields, Inner
<1>2. /\ (UnderWay(r) <=> UnderWay(q)) /\ (Unasked(r) <=> Unasked(q))
      /\ (InitAsked(r) <=> InitAsked(q)) /\ (SegmentKept(r) <=> SegmentKept(q))
      /\ (Open(r) <=> Open(q)) /\ (Network(q) => Network(r))
  BY <1>1, SameNet
<1>3. (Exists(r) <=> Exists(q)) /\ (Ready(r) <=> Ready(q))
      /\ (isSourceBufferValid(r) <=> isSourceBufferValid(q))
  BY <1>1 DEF Exists, Ready, isSourceBufferValid
<1>4. Typed(r)
  BY <1>1, <1>2 DEF Almost, Typed, Buffered
<1>5. Served(r) /\ Whole(r)
  BY <1>1, <1>2 DEF Almost, Served, Whole
<1>6. Media(r)
  BY <1>1, <1>3 DEF Almost, Media
<1>7. Order(r) /\ (Coming(q) => Coming(r))
  BY <1>1, <1>2, <1>3 DEF Almost, Order, Coming
<1> QED BY <1>4, <1>5, <1>6, <1>7 DEF Almost

\* The same when nothing is lost or asked for anew.
LEMMA InnerSound ==
  ASSUME NEW q, Almost(q), NEW r, Shape(r), Numbers(r), Same(q, r, Inner),
         <<"sourceopen">> \in r.tasks => <<"sourceopen">> \in q.tasks,
         r.requesting => \/ <<"full">> \in r.tasks
                         \/ q.requesting /\ <<"full">> \notin q.tasks
                         \/ UnderWay(q)
  PROVE  Almost(r) /\ (Coming(q) => Coming(r))
<1>1. Same(q, r, Inner \cup {"lost"}) /\ r.lost = q.lost
  BY DEF Same, Fields, Inner
<1>2. Served(q)
  BY DEF Almost
<1>3. r.requesting => <<"full">> \in r.tasks \/ UnderWay(q) \/ r.lost
  BY <1>1, <1>2 DEF Served
<1> QED BY <1>1, <1>3, LostSound

\* Jump preserves the invariant.
LEMMA JumpSound ==
  ASSUME NEW q, Sound(q), NEW x \in 0..(N - 1)
  PROVE  Sound(Jump(q, x))
<1> DEFINE r == Jump(q, x)
<1>1. Shape(q) /\ Numbers(q)
  BY DEF Sound, Almost, Typed
<1>2. /\ DOMAIN r = Fields /\ r = [y \in Fields |-> r[y]]
      /\ r.t = x /\ Same(q, r, {"t", "tasks"})
      /\ r.tasks = q.tasks \cup {<<"seeking">>}
                     \cup IF x \in q.sb.has THEN {} ELSE {<<"waiting">>}
  BY <1>1 DEF Jump, Shape, Fields, Same
<1> HIDE DEF r
<1>3. Shape(r) /\ Same(q, r, Inner)
  BY <1>1, <1>2 DEF Shape, Fields, Same, Inner
<1>4. Numbers(r)
  BY <1>1, <1>2 DEF Numbers, Same, Fields
<1>5. <<"sourceopen">> \in r.tasks => <<"sourceopen">> \in q.tasks
  BY <1>2
<1>6. r.requesting => <<"full">> \in r.tasks \/ (q.requesting /\ <<"full">> \notin q.tasks)
  BY <1>2 DEF Same, Fields
<1>7. Sound(r)
  BY <1>3, <1>4, <1>5, <1>6, InnerSound DEF Sound
<1> QED BY <1>7 DEF r

\* The operations of a SourceBuffer, by their first component.
LEMMA OperationKinds ==
  /\ Segments \subseteq Operations
  /\ \A o \in Segments : /\ o[1] \in {"INIT", "SEGM"} /\ (o[1] = "INIT" => o = <<"INIT">>)
                         /\ (o[1] = "SEGM" => o[2] \in 0..(N - 1))
  /\ \A o \in Operations : /\ o[1] \in {"absent", "none", "clear", "clean", "INIT", "SEGM"}
                           /\ o[1] = "absent" => o = <<"absent">>
                           /\ o[1] = "none" => o = <<"none">>
                           /\ o[1] = "INIT" => o = <<"INIT">>
                           /\ o[1] = "SEGM" => o[2] \in 0..(N - 1)
                           /\ o[1] = "clean" => o[2] \in Int
  /\ \A x \in Int : <<"clean", x>> \in Operations
<1>1. \A o \in Segments : /\ o[1] \in {"INIT", "SEGM"} /\ (o[1] = "INIT" => o = <<"INIT">>)
                          /\ (o[1] = "SEGM" => o[2] \in 0..(N - 1))
  BY DEF Segments
<1>2. \A o \in Operations : /\ o[1] \in {"absent", "none", "clear", "clean", "INIT", "SEGM"}
                            /\ o[1] = "absent" => o = <<"absent">>
                            /\ o[1] = "none" => o = <<"none">>
                            /\ o[1] = "INIT" => o = <<"INIT">>
                            /\ o[1] = "SEGM" => o[2] \in 0..(N - 1)
                            /\ o[1] = "clean" => o[2] \in Int
  <2> TAKE o \in Operations
  <2>1. CASE o \in Segments
    BY <1>1, <2>1
  <2>2. CASE o \notin Segments
    BY <2>2 DEF Operations
  <2> QED BY <2>1, <2>2
<1> QED BY <1>1, <1>2 DEF Operations

\* A SourceBuffer with another operation.
LEMMA OpExcept ==
  ASSUME NEW b \in Buffers, NEW o \in Operations, NEW c, c = [b EXCEPT !.op = o]
  PROVE  c \in Buffers /\ c.op = o /\ c.has = b.has /\ c.init = b.init
  BY DEF Buffers

\* SourceBuffer, MediaSource and queue may change, as long as INIT comes first.
LEMMA BufferSound ==
  ASSUME NEW q, Almost(q), NEW r, Shape(r), Numbers(r), Buffered(r), Media(r),
         Same(q, r, Inner \cup {"sb", "ms", "queue", "appending", "pendingInit"}),
         r.requesting => \/ <<"full">> \in r.tasks
                         \/ q.requesting /\ <<"full">> \notin q.tasks,
         ~q.excused /\ ~r.sb.init =>
           /\ ~q.sb.init /\ r.sb.op[1] # "SEGM"
           /\ Ready(r) \/ (r.queue = <<>> /\ ~r.appending)
           /\ Ready(q) => Ready(r)
           /\ Exists(q) => Exists(r)
           /\ q.pendingInit => Ready(r) \/ r.pendingInit
           /\ r.pendingInit => ~isSourceBufferValid(r)
  PROVE  Almost(r) /\ (Coming(q) => Coming(r))
<1>1. /\ r.socks = q.socks /\ r.sock = q.sock /\ r.pending = q.pending
      /\ r.excused = q.excused /\ r.lost = q.lost /\ r.broken = q.broken
  BY DEF Same, Fields, Inner
<1>2. /\ (UnderWay(r) <=> UnderWay(q)) /\ (Unasked(r) <=> Unasked(q))
      /\ (InitAsked(r) <=> InitAsked(q)) /\ (SegmentKept(r) <=> SegmentKept(q))
      /\ (Open(r) <=> Open(q)) /\ (Network(q) => Network(r))
  BY <1>1, SameNet
<1>3. Typed(r)
  BY <1>1, <1>2 DEF Almost, Typed
<1>4. Served(r) /\ Whole(r)
  BY <1>1, <1>2 DEF Almost, Served, Whole
<1>5. Order(r)
  BY <1>1, <1>2 DEF Almost, Order
<1>6. Coming(q) => Coming(r)
  BY <1>1, <1>2 DEF Coming
<1> QED BY <1>3, <1>4, <1>5, <1>6 DEF Almost

\* cleanupBuffer preserves the invariant; it starts no remove before INIT.
LEMMA CleanupSound ==
  ASSUME NEW q, Almost(q)
  PROVE  LET r == cleanupBuffer(q)
         IN /\ Almost(r) /\ (Coming(q) => Coming(r))
            /\ Same(q, r, {"cleaning", "sb"}) /\ r.sb.init = q.sb.init
            /\ Exists(r) <=> Exists(q)
            /\ ~q.sb.init => r = q
<1> DEFINE r == cleanupBuffer(q)
           o == <<"clean", q.t - Behind>>
<1>1. Typed(q) /\ Shape(q) /\ Numbers(q) /\ Buffered(q) /\ Media(q) /\ q.sb \in Buffers
  BY DEF Almost, Typed, Buffered
<1>2. CASE r = q
  BY <1>2 DEF Same
<1>3. CASE r # q
  <2>1. /\ r = [q EXCEPT !.cleaning = TRUE, !.sb.op = o]
        /\ isSourceBufferValid(q) /\ q.sb.has # {}
    BY <1>3 DEF cleanupBuffer
  <2>2. o \in Operations
    <3>1. q.t - Behind \in Int
      BY <1>1, PlayerAssumption DEF Numbers
    <3> QED BY <3>1, OperationKinds
  <2>3. q.sb.init /\ Exists(q) /\ q.ms \in {"open", "ended"}
    BY <1>1, <2>1 DEF Media, isSourceBufferValid
  <2>4. o # <<"absent">> /\ o[1] = "clean"
    OBVIOUS
  <2> HIDE DEF o, r
  <2>5. /\ DOMAIN r = Fields /\ r = [x \in Fields |-> r[x]]
        /\ Same(q, r, {"cleaning", "sb"}) /\ r.sb = [q.sb EXCEPT !.op = o]
    BY <1>1, <2>1 DEF Shape, Fields, Same
  <2>6. r.sb \in Buffers /\ r.sb.op = o /\ r.sb.has = q.sb.has /\ r.sb.init = q.sb.init
    BY <1>1, <2>2, <2>5, OpExcept
  <2>7. Shape(r) /\ Numbers(r) /\ Buffered(r)
    BY <1>1, <2>5, <2>6 DEF Shape, Numbers, Buffered, Same, Fields
  <2>8. Exists(r)
    BY <2>4, <2>6 DEF Exists
  <2>9. Media(r)
    BY <1>1, <2>3, <2>5, <2>6, <2>8 DEF Media, Same, Fields
  <2>10. /\ Same(q, r, Inner \cup {"sb", "ms", "queue", "appending", "pendingInit"})
         /\ r.requesting = q.requesting /\ r.tasks = q.tasks
    BY <2>5 DEF Same, Fields, Inner
  <2>11. Almost(r) /\ (Coming(q) => Coming(r))
    BY <2>3, <2>6, <2>7, <2>9, <2>10, BufferSound
  <2> QED BY <2>3, <2>5, <2>6, <2>8, <2>11 DEF r
<1> QED BY <1>2, <1>3

Appended == {"appending", "queue", "sb", "retryCount", "tasks", "cleaning"}

\* The first segment of the queue is taken from it, into the SourceBuffer or not.
LEMMA TailQueue ==
  ASSUME NEW q, Buffered(q), q.queue # <<>>
  PROVE  /\ Head(q.queue) \in Segments /\ Tail(q.queue) \in Seq(Segments)
         /\ Len(Tail(q.queue)) <= QueueMax
  BY PlayerAssumption DEF Buffered

\* appendNext preserves the invariant: before INIT it finds nothing to append.
LEMMA AppendNextSound ==
  ASSUME NEW q, Almost(q)
  PROVE  LET r == appendNext(q)
         IN /\ Almost(r) /\ (Coming(q) => Coming(r))
            /\ Same(q, r, Appended) /\ r.sb.init = q.sb.init
            /\ Exists(r) <=> Exists(q)
            /\ <<"full">> \in q.tasks => <<"full">> \in r.tasks
<1> DEFINE r == appendNext(q)
<1>1. Typed(q) /\ Shape(q) /\ Numbers(q) /\ Buffered(q) /\ Media(q) /\ q.sb \in Buffers
  BY DEF Almost, Typed, Buffered
<1>2. CASE ~isSourceBufferValid(q) \/ Updating(q) \/ q.appending \/ q.queue = <<>>
  <2>1. r = q
    BY <1>2 DEF appendNext
  <2> QED BY <2>1 DEF Same
<1>3. CASE ~(~isSourceBufferValid(q) \/ Updating(q) \/ q.appending \/ q.queue = <<>>)
  <2>1. q.excused \/ q.sb.init
    <3>1. ~Ready(q)
      BY <1>3 DEF Ready, isSourceBufferValid, Updating
    <3> QED BY <1>3, <3>1 DEF Almost, Order
  <2>2. Exists(q) /\ q.ms \in {"open", "ended"}
    BY <1>1, <1>3 DEF Media, isSourceBufferValid
  <2>3. /\ Head(q.queue) \in Segments /\ Tail(q.queue) \in Seq(Segments)
        /\ Len(Tail(q.queue)) <= QueueMax
    BY <1>1, <1>3, TailQueue
  <2>4. CASE Head(q.queue)[1] = "INIT" \/ Cardinality(q.sb.has) < Quota
    <3> DEFINE h == Head(q.queue)
    <3>1. r = [q EXCEPT !.appending = TRUE, !.queue = Tail(@), !.sb.op = h, !.retryCount = 0]
      BY <1>3, <2>4 DEF appendNext
    <3>2. h \in Operations /\ h[1] \in {"INIT", "SEGM"} /\ h # <<"absent">>
      BY <2>3, OperationKinds
    <3> HIDE DEF r, h
    <3>3. /\ DOMAIN r = Fields /\ r = [x \in Fields |-> r[x]]
          /\ Same(q, r, {"appending", "queue", "sb", "retryCount"})
          /\ r.sb = [q.sb EXCEPT !.op = h] /\ r.queue = Tail(q.queue) /\ r.retryCount = 0
      BY <1>1, <3>1 DEF Shape, Fields, Same
    <3>4. r.sb \in Buffers /\ r.sb.op = h /\ r.sb.has = q.sb.has /\ r.sb.init = q.sb.init
      BY <1>1, <3>2, <3>3, OpExcept
    <3>5. Shape(r) /\ Buffered(r)
      BY <1>1, <2>3, <3>3, <3>4 DEF Shape, Buffered, Same, Fields
    <3>6. Numbers(r)
      <4>1. r.retryCount \in 0..MaxRetries
        BY <3>3, Bounds
      <4> QED BY <1>1, <3>3, <4>1, RetryNumbers DEF Same
    <3>7. Exists(r)
      BY <3>2, <3>4 DEF Exists
    <3>8. Media(r)
      BY <1>1, <2>2, <3>2, <3>3, <3>4, <3>7 DEF Media, Same, Fields
    <3>9. /\ Same(q, r, Inner \cup {"sb", "ms", "queue", "appending", "pendingInit"})
          /\ Same(q, r, Appended)
          /\ r.requesting = q.requesting /\ r.tasks = q.tasks
      BY <3>3 DEF Same, Fields, Inner, Appended
    <3>10. Almost(r) /\ (Coming(q) => Coming(r))
      BY <2>1, <3>4, <3>5, <3>6, <3>8, <3>9, BufferSound
    <3> QED BY <2>2, <3>4, <3>7, <3>9, <3>10 DEF r
  <2>5. CASE /\ ~(Head(q.queue)[1] = "INIT" \/ Cardinality(q.sb.has) < Quota)
             /\ q.retryCount < MaxRetries
    <3> DEFINE a == [q EXCEPT !.retryCount = @ + 1, !.tasks = @ \cup {<<"append">>}]
    <3>1. r = cleanupBuffer(a)
      BY <1>3, <2>5 DEF appendNext
    <3>2. /\ DOMAIN a = Fields /\ a = [x \in Fields |-> a[x]]
          /\ Same(q, a, {"retryCount", "tasks"}) /\ a.retryCount = q.retryCount + 1
          /\ a.tasks = q.tasks \cup {<<"append">>}
      BY <1>1 DEF Shape, Fields, Same
    <3> HIDE DEF r, a
    <3>3. Shape(a) /\ Same(q, a, Inner) /\ Same(q, a, Appended)
      BY <1>1, <3>2 DEF Shape, Same, Fields, Inner, Appended
    <3>4. Numbers(a)
      <4>1. a.retryCount \in 0..MaxRetries
        <5>1. q.retryCount \in 0..MaxRetries
          BY <1>1 DEF Numbers
        <5> QED BY <2>5, <3>2, <5>1, Bounds
      <4> QED BY <1>1, <3>2, <4>1, RetryNumbers DEF Same
    <3>5. /\ <<"sourceopen">> \in a.tasks => <<"sourceopen">> \in q.tasks
          /\ <<"full">> \in a.tasks <=> <<"full">> \in q.tasks
          /\ a.requesting = q.requesting /\ a.sb = q.sb
      BY <3>2 DEF Same, Fields
    <3>6. Almost(a) /\ (Coming(q) => Coming(a))
      BY <3>3, <3>4, <3>5, InnerSound
    <3>7. /\ Almost(r) /\ (Coming(a) => Coming(r))
          /\ Same(a, r, {"cleaning", "sb"}) /\ r.sb.init = a.sb.init
          /\ Exists(r) <=> Exists(a)
      BY <3>1, <3>6, CleanupSound
    <3>8. Same(q, r, Appended) /\ r.tasks = a.tasks
      BY <3>3, <3>7 DEF Same, Fields, Appended
    <3>9. Exists(a) <=> Exists(q)
      BY <3>5 DEF Exists
    <3> QED BY <3>5, <3>6, <3>7, <3>8, <3>9 DEF r
  <2>6. CASE /\ ~(Head(q.queue)[1] = "INIT" \/ Cardinality(q.sb.has) < Quota)
             /\ ~(q.retryCount < MaxRetries)
    <3>1. r = [q EXCEPT !.retryCount = 0, !.queue = Tail(@), !.tasks = @ \cup {<<"append">>}]
      BY <1>3, <2>6 DEF appendNext
    <3> HIDE DEF r
    <3>3. /\ DOMAIN r = Fields /\ r = [x \in Fields |-> r[x]]
          /\ Same(q, r, {"queue", "tasks", "retryCount"})
          /\ r.queue = Tail(q.queue) /\ r.retryCount = 0
          /\ r.tasks = q.tasks \cup {<<"append">>}
      BY <1>1, <3>1 DEF Shape, Fields, Same
    <3>4. r.sb = q.sb /\ r.ms = q.ms /\ r.appending = q.appending
      BY <3>3 DEF Same, Fields
    <3>5. Shape(r) /\ Buffered(r)
      BY <1>1, <2>3, <3>3, <3>4 DEF Shape, Buffered, Same, Fields
    <3>6. Numbers(r)
      <4>1. r.retryCount \in 0..MaxRetries
        BY <3>3, Bounds
      <4> QED BY <1>1, <3>3, <4>1, RetryNumbers DEF Same
    <3>7. Exists(r)
      BY <2>2, <3>4 DEF Exists
    <3>8. Media(r)
      BY <1>1, <2>2, <3>3, <3>4, <3>7 DEF Media
    <3>9. /\ Same(q, r, Inner \cup {"sb", "ms", "queue", "appending", "pendingInit"})
          /\ Same(q, r, Appended) /\ r.requesting = q.requesting
          /\ <<"full">> \in r.tasks <=> <<"full">> \in q.tasks
      BY <3>3 DEF Same, Fields, Inner, Appended
    <3>10. Almost(r) /\ (Coming(q) => Coming(r))
      BY <2>1, <3>4, <3>5, <3>6, <3>8, <3>9, BufferSound
    <3> QED BY <2>2, <3>4, <3>7, <3>9, <3>10 DEF r
  <2> QED BY <2>4, <2>5, <2>6
<1> QED BY <1>2, <1>3

\* The rest of a queue of one.
LEMMA TailOfOne == ASSUME NEW y PROVE Head(<<y>>) = y /\ Tail(<<y>>) = <<>>
<1>1. <<y>> \in Seq({y}) /\ Len(<<y>>) = 1 /\ <<y>> # <<>>
  OBVIOUS
<1>2. Tail(<<y>>) \in Seq({y}) /\ Len(Tail(<<y>>)) = 0
  BY <1>1
<1>3. \A u \in Seq({y}) : Len(u) = 0 => u = <<>>
  OBVIOUS
<1> QED BY <1>1, <1>2, <1>3

\* INIT goes through an empty queue into an idle SourceBuffer.
LEMMA AppendInitEffect ==
  ASSUME NEW q, Typed(q), q.ms = "open", q.sb.op = <<"none">>, q.queue = <<>>, ~q.appending,
         NEW r, r = appendSegment(q, <<"INIT">>)
  PROVE  /\ Shape(r) /\ Numbers(r) /\ Buffered(r)
         /\ Same(q, r, {"appending", "queue", "sb", "retryCount"})
         /\ r.sb.op = <<"INIT">> /\ r.sb.has = q.sb.has /\ r.sb.init = q.sb.init
<1> DEFINE a == [q EXCEPT !.queue = Append(@, <<"INIT">>)]
<1>1. Shape(q) /\ Numbers(q) /\ Buffered(q) /\ q.sb \in Buffers
  BY DEF Typed, Buffered
<1>2. Len(q.queue) = 0 /\ ~(Len(q.queue) >= QueueMax)
  BY Bounds
<1>3. Exists(q)
  BY DEF Exists
<1>4. r = appendNext(a)
  BY <1>2, <1>3 DEF appendSegment
<1>5. /\ DOMAIN a = Fields /\ a = [x \in Fields |-> a[x]] /\ Same(q, a, {"queue"})
      /\ a.queue = <<<<"INIT">>>>
  BY <1>1 DEF Shape, Fields, Same
<1> HIDE DEF a
<1>6. a.ms = "open" /\ a.sb = q.sb /\ ~a.appending
  BY <1>5 DEF Same, Fields
<1>7. isSourceBufferValid(a) /\ ~Updating(a) /\ ~a.appending /\ a.queue # <<>>
  BY <1>5, <1>6 DEF isSourceBufferValid, Updating, Exists
<1>8. Head(a.queue) = <<"INIT">> /\ Tail(a.queue) = <<>>
  BY <1>5, TailOfOne
<1>9. r = [a EXCEPT !.appending = TRUE, !.queue = Tail(@), !.sb.op = Head(a.queue), !.retryCount = 0]
  BY <1>4, <1>7, <1>8 DEF appendNext
<1>10. r = [a EXCEPT !.appending = TRUE, !.queue = <<>>, !.sb.op = <<"INIT">>, !.retryCount = 0]
  BY <1>8, <1>9
<1>11. /\ DOMAIN r = Fields /\ r = [x \in Fields |-> r[x]]
       /\ Same(a, r, {"appending", "queue", "sb", "retryCount"})
       /\ r.sb = [a.sb EXCEPT !.op = <<"INIT">>] /\ r.queue = <<>> /\ r.retryCount = 0
  BY <1>5, <1>10 DEF Fields, Same
<1>12. Same(q, r, {"appending", "queue", "sb", "retryCount"})
  BY <1>5, <1>11 DEF Same
<1>13. r.sb = [q.sb EXCEPT !.op = <<"INIT">>] /\ <<"INIT">> \in Operations
  BY <1>6, <1>11 DEF Operations, Segments
<1>14. /\ r.sb \in Buffers /\ r.sb.op = <<"INIT">>
       /\ r.sb.has = q.sb.has /\ r.sb.init = q.sb.init
  BY <1>1, <1>13, OpExcept
<1>15. Shape(r)
  BY <1>1, <1>11, <1>12 DEF Shape, Same, Fields
<1>16. Buffered(r)
  <2>1. <<>> \in Seq(Segments) /\ Len(<<>>) <= QueueMax
    BY Bounds
  <2> QED BY <1>11, <1>14, <2>1 DEF Buffered
<1>17. Numbers(r)
  <2>1. r.retryCount \in 0..MaxRetries
    BY <1>11, Bounds
  <2> QED BY <1>1, <1>12, <2>1, RetryNumbers DEF Same
<1> QED BY <1>12, <1>14, <1>15, <1>16, <1>17

\* appendSegment preserves the invariant, for INIT and for a segment that comes after it.
LEMMA AppendSegmentSound ==
  ASSUME NEW q, Almost(q), NEW x \in Segments,
         x = <<"INIT">> \/ (~q.excused /\ ~q.sb.init => Ready(q))
  PROVE  LET r == appendSegment(q, x)
         IN /\ Almost(r) /\ (Coming(q) => Coming(r))
            /\ Same(q, r, Appended) /\ r.sb.init = q.sb.init
            /\ Exists(r) <=> Exists(q)
            /\ <<"full">> \in q.tasks => <<"full">> \in r.tasks
            /\ x = <<"INIT">> /\ Exists(q) /\ ~q.excused /\ ~q.sb.init => Ready(r)
<1> DEFINE r == appendSegment(q, x)
<1>1. Typed(q) /\ Shape(q) /\ Numbers(q) /\ Buffered(q) /\ Media(q) /\ q.sb \in Buffers
  BY DEF Almost, Typed, Buffered
<1>2. CASE ~Exists(q)
  <2>1. r = q
    BY <1>2 DEF appendSegment
  <2> QED BY <1>2, <2>1 DEF Same
<1>3. CASE Exists(q) /\ (q.excused \/ q.sb.init \/ Ready(q))
  <2>1. PICK n : /\ r = appendNext([q EXCEPT !.queue = n]) /\ n \in Seq(Segments)
                 /\ Len(n) <= QueueMax
    <3>1. q.queue \in Seq(Segments) /\ Len(q.queue) \in Nat /\ Len(q.queue) <= QueueMax
      BY <1>1 DEF Buffered
    <3>2. CASE Len(q.queue) >= QueueMax
      <4>1. r = appendNext([q EXCEPT !.queue = Append(Tail(q.queue), x)])
        BY <1>3, <3>2 DEF appendSegment
      <4>2. q.queue # <<>> /\ Len(q.queue) > 0
        BY <3>1, <3>2, Bounds
      <4>3. Tail(q.queue) \in Seq(Segments) /\ Len(Tail(q.queue)) = Len(q.queue) - 1
        BY <3>1, <4>2
      <4>4. Append(Tail(q.queue), x) \in Seq(Segments)
            /\ Len(Append(Tail(q.queue), x)) = Len(q.queue)
        BY <3>1, <4>3
      <4> QED BY <3>1, <4>1, <4>4
    <3>3. CASE ~(Len(q.queue) >= QueueMax)
      <4>1. r = appendNext([q EXCEPT !.queue = Append(q.queue, x)])
        BY <1>3, <3>3 DEF appendSegment
      <4>2. Append(q.queue, x) \in Seq(Segments) /\ Len(Append(q.queue, x)) = Len(q.queue) + 1
        BY <3>1
      <4>3. Len(q.queue) + 1 <= QueueMax
        BY <3>1, <3>3, Bounds
      <4> QED BY <4>1, <4>2, <4>3
    <3> QED BY <3>2, <3>3
  <2> DEFINE a == [q EXCEPT !.queue = n]
  <2>2. /\ DOMAIN a = Fields /\ a = [y \in Fields |-> a[y]] /\ Same(q, a, {"queue"})
        /\ a.queue = n
    BY <1>1 DEF Shape, Fields, Same
  <2>3. r = appendNext(a)
    BY <2>1
  <2> HIDE DEF a, r
  <2>4. /\ a.sb = q.sb /\ a.ms = q.ms /\ a.appending = q.appending /\ a.tasks = q.tasks
        /\ a.requesting = q.requesting /\ a.pendingInit = q.pendingInit
        /\ a.excused = q.excused
    BY <2>2 DEF Same, Fields
  <2>5. /\ Exists(a) <=> Exists(q)
        /\ Ready(a) <=> Ready(q)
        /\ isSourceBufferValid(a) <=> isSourceBufferValid(q)
    BY <2>4 DEF Exists, Ready, isSourceBufferValid
  <2>6. Shape(a) /\ Numbers(a) /\ Buffered(a)
    BY <1>1, <2>1, <2>2 DEF Shape, Numbers, Buffered, Same, Fields
  <2>7. Media(a)
    BY <1>1, <1>3, <2>4, <2>5 DEF Media
  <2>8. Same(q, a, Inner \cup {"sb", "ms", "queue", "appending", "pendingInit"})
    BY <2>2 DEF Same
  <2>9. ~q.excused /\ ~q.sb.init =>
          Ready(a) /\ a.sb.op[1] # "SEGM" /\ (a.pendingInit => ~isSourceBufferValid(a))
    BY <1>3, <2>4, <2>5 DEF Almost, Order
  <2>10. Almost(a) /\ (Coming(q) => Coming(a))
    BY <2>4, <2>5, <2>6, <2>7, <2>8, <2>9, BufferSound
  <2>11. /\ Almost(r) /\ (Coming(a) => Coming(r))
         /\ Same(a, r, Appended) /\ r.sb.init = a.sb.init
         /\ Exists(r) <=> Exists(a)
         /\ <<"full">> \in a.tasks => <<"full">> \in r.tasks
    BY <2>3, <2>10, AppendNextSound
  <2>12. Same(q, r, Appended)
    BY <2>2, <2>11 DEF Same, Appended
  <2>13. ~q.excused /\ ~q.sb.init => Ready(r)
    <3> SUFFICES ASSUME ~q.excused, ~q.sb.init PROVE Ready(r)
      OBVIOUS
    <3>1. ~isSourceBufferValid(a) \/ Updating(a)
      BY <2>9 DEF Ready, isSourceBufferValid, Updating, Exists
    <3>2. r = a
      BY <2>3, <3>1 DEF appendNext
    <3> QED BY <2>9, <3>2
  <2> QED BY <2>4, <2>5, <2>10, <2>11, <2>12, <2>13 DEF r
<1>4. CASE Exists(q) /\ ~q.excused /\ ~q.sb.init /\ ~Ready(q)
  <2>1. x = <<"INIT">>
    BY <1>4
  <2>2. q.ms = "open" /\ q.sb.op[1] = "none" /\ q.queue = <<>> /\ ~q.appending
        /\ q.sb.op \in Operations
    <3>1. q.sb.op \in Operations
      BY <1>1 DEF Buffers
    <3> QED BY <1>1, <1>4, <3>1, OperationKinds DEF Almost, Order, Ready, Media
  <2>3. q.sb.op = <<"none">>
    BY <2>2, OperationKinds
  <2>4. /\ Shape(r) /\ Numbers(r) /\ Buffered(r)
        /\ Same(q, r, {"appending", "queue", "sb", "retryCount"})
        /\ r.sb.op = <<"INIT">> /\ r.sb.has = q.sb.has /\ r.sb.init = q.sb.init
    BY <1>1, <2>1, <2>2, <2>3, AppendInitEffect
  <2> HIDE DEF r
  <2>5. /\ Same(q, r, Inner \cup {"sb", "ms", "queue", "appending", "pendingInit"})
        /\ Same(q, r, Appended) /\ r.requesting = q.requesting /\ r.tasks = q.tasks
        /\ r.ms = q.ms /\ r.pendingInit = q.pendingInit
    BY <2>4 DEF Same, Fields, Inner, Appended
  <2>6. Exists(r) /\ Ready(r) /\ r.sb.op[1] = "INIT"
    BY <2>4 DEF Exists, Ready
  <2>7. Media(r)
    BY <1>1, <1>4, <2>2, <2>4, <2>5, <2>6 DEF Media
  <2>8. ~q.pendingInit
    BY <1>4, <2>2 DEF Almost, Order, isSourceBufferValid
  <2>9. Almost(r) /\ (Coming(q) => Coming(r))
    BY <1>4, <2>4, <2>5, <2>6, <2>7, <2>8, BufferSound
  <2> QED BY <1>4, <2>4, <2>5, <2>6, <2>9 DEF r
<1> QED BY <1>2, <1>3, <1>4

-----------------------------------------------------------------------------
(* requestSegment, and the end of the MediaSource.                         *)

\* The MediaSource ends while its SourceBuffer is idle.
LEMMA EndSound ==
  ASSUME NEW q, Almost(q), Exists(q), q.ms = "open", ~Updating(q)
  PROVE  LET r == [q EXCEPT !.ms = "ended"]
         IN Almost(r) /\ (Coming(q) => Coming(r))
<1> DEFINE r == [q EXCEPT !.ms = "ended"]
<1>1. Typed(q) /\ Shape(q) /\ Numbers(q) /\ Buffered(q) /\ Media(q)
  BY DEF Almost, Typed
<1>2. /\ DOMAIN r = Fields /\ r = [x \in Fields |-> r[x]]
      /\ Same(q, r, {"ms"}) /\ r.ms = "ended"
  BY <1>1 DEF Shape, Fields, Same
<1> HIDE DEF r
<1>3. /\ r.sb = q.sb /\ r.queue = q.queue /\ r.appending = q.appending /\ r.tasks = q.tasks
      /\ r.requesting = q.requesting /\ r.pendingInit = q.pendingInit
  BY <1>2 DEF Same, Fields
<1>4. Shape(r) /\ Numbers(r) /\ Buffered(r)
  BY <1>1, <1>2 DEF Shape, Numbers, Buffered, Same, Fields
<1>5. Exists(r) /\ Ready(r) /\ ~isSourceBufferValid(r)
  BY <1>2, <1>3 DEF Exists, Ready, isSourceBufferValid
<1>6. Media(r)
  BY <1>1, <1>2, <1>3, <1>5 DEF Media, Exists
<1>7. Same(q, r, Inner \cup {"sb", "ms", "queue", "appending", "pendingInit"})
  BY <1>2 DEF Same
<1>8. ~q.excused /\ ~q.sb.init => r.sb.op[1] # "SEGM"
  BY <1>3 DEF Almost, Order
<1>9. Almost(r) /\ (Coming(q) => Coming(r))
  BY <1>3, <1>4, <1>5, <1>6, <1>7, <1>8, BufferSound
<1> QED BY <1>9 DEF r

\* checkAndEnd preserves the invariant.
LEMMA CheckAndEndSound ==
  ASSUME NEW q, Sound(q)
  PROVE  Sound(checkAndEnd(q))
<1>1. Shape(q) /\ Numbers(q) /\ Almost(q) /\ Coming(q)
  BY DEF Sound, Almost, Typed
<1>2. CASE Exists(q) /\ ~Updating(q) /\ q.ms = "open"
  <2>1. checkAndEnd(q) = [q EXCEPT !.ms = "ended"]
    BY <1>2 DEF checkAndEnd
  <2> QED BY <1>1, <1>2, <2>1, EndSound DEF Sound
<1>3. CASE Exists(q) /\ ~Updating(q) /\ q.ms # "open"
  <2>1. checkAndEnd(q) = [q EXCEPT !.ms = q.ms]
    BY <1>3 DEF checkAndEnd
  <2>2. [q EXCEPT !.ms = q.ms] = q
    BY <1>1 DEF Shape, Fields
  <2> QED BY <2>1, <2>2
<1>4. CASE ~(Exists(q) /\ ~Updating(q))
  <2> DEFINE r == [q EXCEPT !.tasks = @ \cup {<<"end">>}]
  <2>1. checkAndEnd(q) = r
    BY <1>4 DEF checkAndEnd
  <2>2. /\ DOMAIN r = Fields /\ r = [x \in Fields |-> r[x]]
        /\ Same(q, r, {"tasks"}) /\ r.tasks = q.tasks \cup {<<"end">>}
    BY <1>1 DEF Shape, Fields, Same
  <2> HIDE DEF r
  <2>3. Shape(r) /\ Numbers(r) /\ Same(q, r, Inner)
    BY <1>1, <2>2 DEF Shape, Numbers, Same, Fields, Inner
  <2>4. /\ <<"sourceopen">> \in r.tasks => <<"sourceopen">> \in q.tasks
        /\ <<"full">> \in r.tasks <=> <<"full">> \in q.tasks
        /\ r.requesting = q.requesting
    BY <2>2 DEF Same, Fields
  <2>5. Sound(r)
    BY <1>1, <2>3, <2>4, InnerSound DEF Sound
  <2> QED BY <2>1, <2>5
<1> QED BY <1>2, <1>3, <1>4

\* requestSegment preserves the invariant: what it asks for comes after INIT.
LEMMA RequestSound ==
  ASSUME NEW q, Sound(q)
  PROVE  Sound(requestSegment(q))
<1>1. Shape(q) /\ Numbers(q) /\ Almost(q) /\ Coming(q) /\ q.sb \in Buffers
  BY DEF Sound, Almost, Typed, Buffered
<1>2. CASE q.requesting \/ ~isSourceBufferValid(q)
  BY <1>2 DEF requestSegment
<1>3. CASE ~(q.requesting \/ ~isSourceBufferValid(q)) /\ q.nextSegment >= N
  <2>1. CASE Updating(q)
    BY <1>3, <2>1 DEF requestSegment
  <2>2. CASE ~Updating(q)
    <3>1. requestSegment(q) = [q EXCEPT !.ms = "ended"]
      BY <1>3, <2>2 DEF requestSegment
    <3>2. Exists(q) /\ q.ms = "open"
      BY <1>3 DEF isSourceBufferValid
    <3> QED BY <1>1, <2>2, <3>1, <3>2, EndSound DEF Sound
  <2> QED BY <2>1, <2>2
<1>4. CASE /\ ~(q.requesting \/ ~isSourceBufferValid(q)) /\ ~(q.nextSegment >= N)
           /\ q.sb.has # {} /\ q.t < Min(q.sb.has)
  <2> DEFINE a == [q EXCEPT !.seekTarget = 0]
  <2>1. requestSegment(q) = Jump(a, Min(q.sb.has))
    BY <1>4 DEF requestSegment
  <2>2. Min(q.sb.has) \in 0..(N - 1)
    <3>1. q.sb.has \subseteq 0..(N - 1)
      BY <1>1 DEF Buffers
    <3>2. q.sb.has \subseteq Nat
      BY <3>1
    <3>3. Min(q.sb.has) \in q.sb.has
      BY <1>4, <3>2, MinExists
    <3> QED BY <3>1, <3>3
  <2>3. /\ DOMAIN a = Fields /\ a = [x \in Fields |-> a[x]]
        /\ Same(q, a, {"seekTarget"}) /\ a.seekTarget = 0
    BY <1>1 DEF Shape, Fields, Same
  <2> HIDE DEF a
  <2>4. Shape(a) /\ Same(q, a, Inner) /\ a.tasks = q.tasks /\ a.requesting = q.requesting
    BY <1>1, <2>3 DEF Shape, Same, Fields, Inner
  <2>5. Numbers(a)
    BY <1>1, <2>3, Bounds DEF Numbers, Same, Fields
  <2>6. Sound(a)
    BY <1>1, <2>4, <2>5, InnerSound DEF Sound
  <2> QED BY <2>1, <2>2, <2>6, JumpSound
<1>5. CASE /\ ~(q.requesting \/ ~isSourceBufferValid(q)) /\ ~(q.nextSegment >= N)
           /\ ~(q.sb.has # {} /\ q.t < Min(q.sb.has))
           /\ q.sb.has # {} /\ Max(q.sb.has) - q.t > Ahead
  <2>1. CASE q.userPaused
    BY <1>5, <2>1 DEF requestSegment
  <2>2. CASE ~q.userPaused
    <3> DEFINE r == [q EXCEPT !.requesting = TRUE, !.lost = FALSE,
                              !.tasks = @ \cup {<<"full">>}]
    <3>1. requestSegment(q) = r
      BY <1>5, <2>2 DEF requestSegment
    <3>2. /\ DOMAIN r = Fields /\ r = [x \in Fields |-> r[x]]
          /\ Same(q, r, {"requesting", "lost", "tasks"})
          /\ r.tasks = q.tasks \cup {<<"full">>}
      BY <1>1 DEF Shape, Fields, Same
    <3> HIDE DEF r
    <3>3. Shape(r) /\ Numbers(r) /\ Same(q, r, Inner \cup {"lost"})
      BY <1>1, <3>2 DEF Shape, Numbers, Same, Fields, Inner
    <3>4. /\ <<"sourceopen">> \in r.tasks => <<"sourceopen">> \in q.tasks
          /\ <<"full">> \in r.tasks
      BY <3>2
    <3>5. Sound(r)
      BY <1>1, <3>3, <3>4, LostSound DEF Sound
    <3> QED BY <3>1, <3>5
  <2> QED BY <2>1, <2>2
<1>6. CASE /\ ~(q.requesting \/ ~isSourceBufferValid(q)) /\ ~(q.nextSegment >= N)
           /\ ~(q.sb.has # {} /\ q.t < Min(q.sb.has))
           /\ ~(q.sb.has # {} /\ Max(q.sb.has) - q.t > Ahead)
  <2> DEFINE m == <<"ws_segment", q.nextSegment>>
             s == send(q, m)
             r == [s EXCEPT !.requesting = (q.socks[q.sock].state = "open"), !.lost = FALSE]
  <2>1. requestSegment(q) = r
    BY <1>6 DEF requestSegment
  <2>2. m \in Requests /\ m[1] = "ws_segment"
    <3>1. q.nextSegment \in 0..(N - 1)
      BY <1>1, <1>6, Bounds DEF Numbers
    <3> QED BY <3>1 DEF Requests
  <2>3. Exists(q) /\ (~q.excused /\ ~q.sb.init /\ Open(q) => Ready(q) \/ InitAsked(q))
    BY <1>1, <1>6 DEF isSourceBufferValid, Almost, Order, Coming
  <2> HIDE DEF m
  <2>4. Sound(s) /\ (Open(q) => UnderWay(s)) /\ Same(q, s, {"pending", "sock", "socks"})
    BY <1>1, <2>2, <2>3, SendSound
  <2> HIDE DEF s
  <2>5. Shape(s) /\ Numbers(s) /\ Almost(s) /\ Coming(s)
    BY <2>4 DEF Sound, Almost, Typed
  <2>6. /\ DOMAIN r = Fields /\ r = [x \in Fields |-> r[x]]
        /\ Same(s, r, {"requesting", "lost"}) /\ (r.requesting => Open(q))
    BY <2>5 DEF Shape, Fields, Same, Open
  <2> HIDE DEF r
  <2>7. Shape(r) /\ Numbers(r) /\ Same(s, r, Inner \cup {"lost"}) /\ r.tasks = s.tasks
    BY <2>5, <2>6 DEF Shape, Numbers, Same, Fields, Inner
  <2>8. Sound(r)
    BY <2>4, <2>5, <2>6, <2>7, LostSound DEF Sound
  <2> QED BY <2>1, <2>8
<1> QED BY <1>2, <1>3, <1>4, <1>5, <1>6

-----------------------------------------------------------------------------
(* The elements are replaced, and the SourceBuffer is created.             *)

\* The elements after resetMediaSource and setupMediaSource. If no segment was under
\* way none is now, and otherwise that is recorded; INIT has still to be asked for.
LEMMA FreshSound ==
  ASSUME NEW q, Typed(q), Whole(q)
  PROVE  Almost(setupMediaSource(resetMediaSource(q)))
<1> DEFINE a == resetMediaSource(q)
           r == setupMediaSource(a)
<1>1. Shape(q) /\ Network(q) /\ Numbers(q) /\ Buffered(q)
  BY DEF Typed
<1>2. /\ DOMAIN a = Fields /\ a = [x \in Fields |-> a[x]]
      /\ a.socks = q.socks /\ a.sock = q.sock /\ a.pending = <<>>
      /\ a.reconnectAttempts = q.reconnectAttempts /\ a.desired = q.desired
      /\ a.sb = NoBuffer /\ a.t = 0 /\ a.nextSegment = 0 /\ a.seekTarget = 0
      /\ a.retryCount = 0
  <2>1. DOMAIN a = Fields /\ a = [x \in Fields |-> a[x]]
    BY <1>1 DEF resetMediaSource, Shape
  <2>2. /\ a.socks = q.socks /\ a.sock = q.sock /\ a.pending = <<>>
        /\ a.reconnectAttempts = q.reconnectAttempts /\ a.desired = q.desired
    BY <1>1 DEF resetMediaSource, Shape, Fields
  <2>3. /\ a.sb = NoBuffer /\ a.t = 0 /\ a.nextSegment = 0 /\ a.seekTarget = 0
        /\ a.retryCount = 0
    BY <1>1 DEF resetMediaSource, Shape, Fields
  <2> QED BY <2>1, <2>2, <2>3
<1>3. /\ ~a.requesting /\ ~a.pendingInit /\ a.broken = q.broken
      /\ a.excused = (q.excused \/ UnderWay(q))
  BY <1>1 DEF resetMediaSource, Shape, Fields
<1> HIDE DEF a
<1>4. /\ DOMAIN r = Fields /\ r = [x \in Fields |-> r[x]]
      /\ Same(a, r, {"ms", "tasks", "queue", "appending"})
      /\ r.ms = "closed" /\ r.queue = <<>> /\ r.appending = FALSE
  BY <1>2 DEF setupMediaSource, Fields, Same
<1> HIDE DEF r
<1>5. /\ r.socks = q.socks /\ r.sock = q.sock /\ r.pending = <<>>
      /\ r.reconnectAttempts = q.reconnectAttempts /\ r.desired = q.desired
      /\ r.sb = NoBuffer /\ r.t = 0 /\ r.nextSegment = 0 /\ r.seekTarget = 0
      /\ r.retryCount = 0
      /\ ~r.requesting /\ ~r.pendingInit /\ r.broken = q.broken
      /\ r.excused = (q.excused \/ UnderWay(q))
  BY <1>2, <1>3, <1>4, ZenonT(60) DEF Same, Fields
<1>6. Shape(r)
  BY <1>1, <1>4, <1>5 DEF Shape
<1>7. Network(r)
  <2>1. <<>> \in Seq(Requests)
    OBVIOUS
  <2> QED BY <1>1, <1>5, <2>1 DEF Network
<1>8. Numbers(r)
  BY <1>1, <1>5, Bounds DEF Numbers
<1>9. Buffered(r)
  <2>1. NoBuffer \in Buffers
    BY DEF NoBuffer, Buffers, Operations
  <2>2. <<>> \in Seq(Segments) /\ Len(<<>>) <= QueueMax
    BY Bounds
  <2> QED BY <1>4, <1>5, <2>1, <2>2 DEF Buffered
<1>10. r.sb.op = <<"absent">> /\ r.sb.has = {} /\ r.sb.init = FALSE /\ ~Exists(r)
  BY <1>5 DEF NoBuffer, Exists
<1>11. Served(r) /\ Media(r)
  BY <1>4, <1>5, <1>10 DEF Served, Media
<1>12. Whole(r)
  BY <1>5 DEF Whole
<1>13. UnderWay(r) <=> UnderWay(q)
  BY <1>5 DEF UnderWay
<1>14. Unasked(r) => UnderWay(r)
  BY DEF Unasked, UnderWay
<1>15. ~SegmentKept(r)
  <2>1. 1..Len(r.pending) = {}
    BY <1>5
  <2> QED BY <2>1 DEF SegmentKept
<1>16. Order(r)
  <2> SUFFICES ASSUME ~r.excused PROVE Order(r)
    BY DEF Order
  <2>1. ~UnderWay(r)
    BY <1>5, <1>13
  <2>2. ~Unasked(r) /\ r.sb.op[1] = "absent"
    BY <1>10, <1>14, <2>1
  <2> QED BY <1>4, <1>5, <1>10, <1>15, <2>1, <2>2 DEF Order
<1> QED BY <1>6, <1>7, <1>8, <1>9, <1>11, <1>12, <1>16 DEF Almost, Typed, r, a

\* startStream, and recoverStream with it, establish the invariant.
LEMMA StartSound ==
  ASSUME NEW q, Typed(q), Whole(q), NEW position \in 0..(N - 1)
  PROVE  Sound(startStream(q, position))
<1> DEFINE a == setupMediaSource(resetMediaSource(q))
           b == [a EXCEPT !.desired = position, !.seekTarget = position,
                          !.nextSegment = findSegmentForTime(position)]
<1>1. startStream(q, position) = send(b, <<"ws_init">>)
  BY DEF startStream
<1>2. Almost(a)
  BY FreshSound
<1> HIDE DEF a
<1>3. Shape(a) /\ Numbers(a)
  BY <1>2 DEF Almost, Typed
<1>4. /\ DOMAIN b = Fields /\ b = [x \in Fields |-> b[x]]
      /\ Same(a, b, {"desired", "seekTarget", "nextSegment"})
      /\ b.desired = position /\ b.seekTarget = position
      /\ b.nextSegment = findSegmentForTime(position)
  BY <1>3 DEF Shape, Fields, Same
<1> HIDE DEF b
<1>5. Shape(b) /\ Same(a, b, Inner) /\ b.tasks = a.tasks /\ b.requesting = a.requesting
  BY <1>3, <1>4 DEF Shape, Same, Fields, Inner
<1>6. Numbers(b)
  <2>1. findSegmentForTime(position) \in 0..(N - 1)
    BY FindSegment
  <2>2. b.nextSegment \in 0..N
    BY <1>4, <2>1, Bounds
  <2>3. /\ b.t = a.t /\ b.retryCount = a.retryCount
        /\ b.reconnectAttempts = a.reconnectAttempts
    BY <1>4 DEF Same, Fields
  <2> QED BY <1>3, <1>4, <2>2, <2>3 DEF Numbers
<1>7. Almost(b)
  BY <1>2, <1>5, <1>6, InnerSound
<1>8. <<"ws_init">> \in Requests /\ Asks(<<"ws_init">>)
  BY DEF Requests, Asks
<1> QED BY <1>1, <1>7, <1>8, SendSound

\* saveProgress preserves the invariant.
LEMMA SaveSound ==
  ASSUME NEW q, Sound(q)
  PROVE  Sound(saveProgress(q))
  BY ConnectSound DEF saveProgress, Sound

\* remove() of a SourceBuffer that holds something, and so has had INIT.
LEMMA ClearSound ==
  ASSUME NEW q, Sound(q), Exists(q), q.sb.has # {}
  PROVE  Sound(ClearBuffer(q))
<1> DEFINE r == ClearBuffer(q)
<1>1. Shape(q) /\ Numbers(q) /\ Buffered(q) /\ Media(q) /\ Almost(q) /\ Coming(q)
      /\ q.sb \in Buffers
  BY DEF Sound, Almost, Typed, Buffered
<1>2. /\ DOMAIN r = Fields /\ r = [x \in Fields |-> r[x]]
      /\ Same(q, r, {"sb", "ms", "tasks"})
      /\ r.sb = [q.sb EXCEPT !.op = <<"clear">>] /\ r.ms = "open"
      /\ r.tasks = IF q.ms = "ended" THEN q.tasks \cup {<<"sourceopen">>} ELSE q.tasks
  BY <1>1 DEF ClearBuffer, Shape, Fields, Same
<1> HIDE DEF r
<1>3. <<"clear">> \in Operations /\ <<"clear">> # <<"absent">>
  BY DEF Operations
<1>4. /\ r.sb \in Buffers /\ r.sb.op = <<"clear">>
      /\ r.sb.has = q.sb.has /\ r.sb.init = q.sb.init
  BY <1>1, <1>2, <1>3, OpExcept
<1>5. Shape(r) /\ Numbers(r) /\ Buffered(r)
  BY <1>1, <1>2, <1>4 DEF Shape, Numbers, Buffered, Same, Fields
<1>6. q.sb.init
  BY <1>1 DEF Media
<1>7. Exists(r)
  BY <1>3, <1>4 DEF Exists
<1>8. Media(r)
  BY <1>2, <1>4, <1>6, <1>7 DEF Media
<1>9. /\ Same(q, r, Inner \cup {"sb", "ms", "queue", "appending", "pendingInit"})
      /\ r.requesting = q.requesting
      /\ <<"full">> \in r.tasks <=> <<"full">> \in q.tasks
  BY <1>2 DEF Same, Fields, Inner
<1>10. Almost(r) /\ (Coming(q) => Coming(r))
  BY <1>1, <1>4, <1>5, <1>6, <1>8, <1>9, BufferSound
<1> QED BY <1>1, <1>10 DEF Sound, r

\* reloadFromSegment preserves the invariant, whether remove throws or not.
LEMMA ReloadSound ==
  ASSUME NEW q, Sound(q), NEW time \in 0..(N - 1), NEW fails \in BOOLEAN
  PROVE  Sound(reloadFromSegment(q, time, fails))
<1> DEFINE r == [q EXCEPT !.queue = <<>>, !.nextSegment = findSegmentForTime(time),
                          !.requesting = FALSE]
<1>1. Shape(q) /\ Numbers(q) /\ Buffered(q) /\ Media(q) /\ Almost(q) /\ Coming(q)
  BY DEF Sound, Almost, Typed
<1>2. /\ DOMAIN r = Fields /\ r = [x \in Fields |-> r[x]]
      /\ Same(q, r, {"queue", "nextSegment", "requesting"})
      /\ r.queue = <<>> /\ r.nextSegment = findSegmentForTime(time) /\ r.requesting = FALSE
  BY <1>1 DEF Shape, Fields, Same
<1>3. reloadFromSegment(q, time, fails) =
        IF Exists(r) /\ ~Updating(r) /\ r.sb.has # {}
        THEN IF fails THEN recoverStream(r) ELSE ClearBuffer(r)
        ELSE send(r, <<"ws_init">>)
  BY DEF reloadFromSegment
<1> HIDE DEF r
<1>4. /\ r.sb = q.sb /\ r.ms = q.ms /\ r.appending = q.appending /\ r.tasks = q.tasks
      /\ r.pendingInit = q.pendingInit
  BY <1>2 DEF Same, Fields
<1>5. /\ Exists(r) <=> Exists(q)
      /\ Ready(r) <=> Ready(q)
      /\ isSourceBufferValid(r) <=> isSourceBufferValid(q)
  BY <1>4 DEF Exists, Ready, isSourceBufferValid
<1>6. Shape(r)
  BY <1>1, <1>2 DEF Shape, Same, Fields
<1>7. Buffered(r)
  <2>1. <<>> \in Seq(Segments) /\ Len(<<>>) <= QueueMax
    BY Bounds
  <2> QED BY <1>1, <1>2, <1>4, <2>1 DEF Buffered
<1>8. Numbers(r)
  <2>1. findSegmentForTime(time) \in 0..(N - 1)
    BY FindSegment
  <2>2. r.nextSegment \in 0..N
    BY <1>2, <2>1, Bounds
  <2>3. /\ r.t = q.t /\ r.retryCount = q.retryCount /\ r.seekTarget = q.seekTarget
        /\ r.reconnectAttempts = q.reconnectAttempts /\ r.desired = q.desired
    BY <1>2 DEF Same, Fields
  <2> QED BY <1>1, <2>2, <2>3 DEF Numbers
<1>9. Media(r)
  BY <1>1, <1>2, <1>4, <1>5 DEF Media
<1>10. Same(q, r, Inner \cup {"sb", "ms", "queue", "appending", "pendingInit"})
  BY <1>2 DEF Same, Inner
<1>11. ~q.excused /\ ~q.sb.init =>
         /\ r.sb.op[1] # "SEGM"
         /\ Ready(r) \/ (r.queue = <<>> /\ ~r.appending)
         /\ r.pendingInit => ~isSourceBufferValid(r)
  BY <1>1, <1>2, <1>4, <1>5 DEF Almost, Order
<1>12. Sound(r)
  BY <1>1, <1>2, <1>4, <1>5, <1>6, <1>7, <1>8, <1>9, <1>10, <1>11, BufferSound DEF Sound
<1>13. Sound(recoverStream(r))
  <2>1. recoverStream(r) = startStream(r, r.t)
    BY DEF recoverStream, startStream
  <2>2. Typed(r) /\ Whole(r) /\ r.t \in 0..(N - 1)
    BY <1>12 DEF Sound, Almost, Typed, Numbers
  <2> QED BY <2>1, <2>2, StartSound
<1>14. Sound(send(r, <<"ws_init">>))
  <2>1. <<"ws_init">> \in Requests /\ Asks(<<"ws_init">>)
    BY DEF Requests, Asks
  <2> QED BY <1>12, <2>1, SendSound DEF Sound
<1> QED BY <1>3, <1>12, <1>13, <1>14, ClearSound

\* createSourceBuffer preserves the invariant: the INIT that waited goes first.
LEMMA CreateSound ==
  ASSUME NEW q, Sound(q)
  PROVE  Sound(createSourceBuffer(q))
<1>1. Shape(q) /\ Numbers(q) /\ Buffered(q) /\ Network(q) /\ Media(q) /\ Almost(q) /\ Coming(q)
  BY DEF Sound, Almost, Typed
<1>2. CASE q.ms # "open"
  BY <1>2 DEF createSourceBuffer
<1>3. CASE q.ms = "open" /\ Exists(q) /\ ~q.pendingInit
  BY <1>3 DEF createSourceBuffer
<1>4. CASE q.ms = "open" /\ Exists(q) /\ q.pendingInit
  <2> DEFINE a == appendSegment(q, <<"INIT">>)
             r == [a EXCEPT !.pendingInit = FALSE, !.tasks = @ \cup {<<"request">>}]
  <2>1. createSourceBuffer(q) = r
    BY <1>4 DEF createSourceBuffer
  <2>2. q.excused \/ q.sb.init
    BY <1>1, <1>4 DEF Almost, Order, isSourceBufferValid
  <2>3. <<"INIT">> \in Segments
    BY DEF Segments
  <2>4. /\ Almost(a) /\ (Coming(q) => Coming(a)) /\ Same(q, a, Appended)
        /\ a.sb.init = q.sb.init
    BY <1>1, <2>3, AppendSegmentSound
  <2> HIDE DEF a
  <2>5. Shape(a) /\ Numbers(a) /\ Buffered(a) /\ Media(a) /\ a.excused = q.excused
    BY <2>4 DEF Almost, Typed, Same, Fields, Appended
  <2>6. /\ DOMAIN r = Fields /\ r = [x \in Fields |-> r[x]]
        /\ Same(a, r, {"pendingInit", "tasks"}) /\ r.tasks = a.tasks \cup {<<"request">>}
    BY <2>5 DEF Shape, Fields, Same
  <2> HIDE DEF r
  <2>7. Shape(r) /\ Numbers(r) /\ Buffered(r)
    BY <2>5, <2>6 DEF Shape, Numbers, Buffered, Same, Fields
  <2>8. /\ r.sb = a.sb /\ r.queue = a.queue /\ r.appending = a.appending /\ r.ms = a.ms
        /\ r.requesting = a.requesting
        /\ <<"full">> \in r.tasks <=> <<"full">> \in a.tasks
        /\ <<"sourceopen">> \in r.tasks <=> <<"sourceopen">> \in a.tasks
    BY <2>6 DEF Same, Fields
  <2>9. Media(r)
    BY <2>5, <2>8 DEF Media, Exists
  <2>10. Same(a, r, Inner \cup {"sb", "ms", "queue", "appending", "pendingInit"})
    BY <2>6 DEF Same, Inner
  <2>11. Sound(r)
    BY <1>1, <2>2, <2>4, <2>5, <2>7, <2>8, <2>9, <2>10, BufferSound DEF Sound
  <2> QED BY <2>1, <2>11
<1>5. CASE q.ms = "open" /\ ~Exists(q)
  <2> DEFINE c == [q EXCEPT !.sb = NewBuffer]
  <2>1. /\ DOMAIN c = Fields /\ c = [x \in Fields |-> c[x]]
        /\ Same(q, c, {"sb"}) /\ c.sb = NewBuffer
    BY <1>1 DEF Shape, Fields, Same
  <2>2. createSourceBuffer(q) = IF c.pendingInit
          THEN [appendSegment(c, <<"INIT">>) EXCEPT !.pendingInit = FALSE,
                  !.tasks = @ \cup {<<"request">>}]
          ELSE c
    BY <1>5 DEF createSourceBuffer
  <2> HIDE DEF c
  <2>3. /\ c.queue = q.queue /\ c.appending = q.appending /\ c.ms = q.ms
        /\ c.tasks = q.tasks /\ c.pendingInit = q.pendingInit
        /\ c.requesting = q.requesting
        /\ c.socks = q.socks /\ c.sock = q.sock /\ c.pending = q.pending
    BY <2>1 DEF Same, Fields
  <2>4. c.sb \in Buffers /\ c.sb.op = <<"none">> /\ c.sb.has = {} /\ c.sb.init = FALSE
    <3>1. NewBuffer \in Buffers
      BY DEF NewBuffer, Buffers, Operations
    <3> QED BY <2>1, <3>1 DEF NewBuffer
  <2>5. /\ c.queue = <<>> /\ ~c.appending /\ ~q.sb.init /\ ~Ready(q)
        /\ <<"sourceopen">> \notin c.tasks
    <3>1. q.sb = NoBuffer
      BY <1>1, <1>5 DEF Media
    <3>2. ~q.sb.init
      BY <3>1 DEF NoBuffer
    <3> QED BY <1>1, <1>5, <2>3, <3>2 DEF Media, Ready
  <2>6. Shape(c) /\ Numbers(c) /\ Buffered(c)
    BY <1>1, <2>1, <2>3, <2>4 DEF Shape, Numbers, Buffered, Same, Fields
  <2>7. Network(c)
    BY <1>1, <2>3 DEF Network
  <2>8. Exists(c)
    BY <2>4 DEF Exists
  <2>9. CASE ~c.pendingInit
    <3>1. Media(c)
      BY <1>5, <2>3, <2>4, <2>5, <2>8 DEF Media
    <3>2. Same(q, c, Inner \cup {"sb", "ms", "queue", "appending", "pendingInit"})
      BY <2>1 DEF Same, Inner
    <3>3. c.sb.op[1] # "SEGM"
      BY <2>4
    <3>4. Sound(c)
      BY <1>1, <2>3, <2>4, <2>5, <2>6, <2>8, <2>9, <3>1, <3>2, <3>3, BufferSound DEF Sound
    <3> QED BY <2>2, <2>9, <3>4
  <2>10. CASE c.pendingInit
    <3> DEFINE a == appendSegment(c, <<"INIT">>)
               r == [a EXCEPT !.pendingInit = FALSE, !.tasks = @ \cup {<<"request">>}]
    <3>1. createSourceBuffer(q) = r
      BY <2>2, <2>10
    <3>2. Typed(c)
      BY <2>6, <2>7 DEF Typed
    <3>3. /\ Shape(a) /\ Numbers(a) /\ Buffered(a)
          /\ Same(c, a, {"appending", "queue", "sb", "retryCount"})
          /\ a.sb.op = <<"INIT">> /\ a.sb.has = c.sb.has /\ a.sb.init = c.sb.init
      BY <1>5, <2>3, <2>4, <2>5, <3>2, AppendInitEffect
    <3> HIDE DEF a
    <3>4. /\ DOMAIN r = Fields /\ r = [x \in Fields |-> r[x]] /\ r.pendingInit = FALSE
          /\ Same(a, r, {"pendingInit", "tasks"}) /\ r.tasks = a.tasks \cup {<<"request">>}
      BY <3>3 DEF Shape, Fields, Same
    <3> HIDE DEF r
    <3>5. Shape(r) /\ Numbers(r) /\ Buffered(r)
      BY <3>3, <3>4 DEF Shape, Numbers, Buffered, Same, Fields
    <3>6. /\ r.sb = a.sb /\ r.ms = "open" /\ r.requesting = q.requesting
          /\ r.tasks = q.tasks \cup {<<"request">>}
      BY <1>5, <2>3, <3>3, <3>4 DEF Same, Fields
    <3>7. /\ r.sb.op = <<"INIT">> /\ r.sb.op[1] = "INIT" /\ r.sb.has = {}
          /\ r.sb.init = FALSE /\ Exists(r) /\ Ready(r)
      BY <2>4, <3>3, <3>6 DEF Exists, Ready
    <3>8. Media(r)
      BY <2>3, <2>5, <3>6, <3>7 DEF Media
    <3>9. Same(q, r, Inner \cup {"sb", "ms", "queue", "appending", "pendingInit"})
      BY <2>1, <3>3, <3>4 DEF Same, Inner
    <3>10. <<"full">> \in r.tasks <=> <<"full">> \in q.tasks
      BY <3>6
    <3>11. Sound(r)
      BY <1>1, <2>5, <3>4, <3>5, <3>6, <3>7, <3>8, <3>9, <3>10, BufferSound DEF Sound
    <3> QED BY <3>1, <3>11
  <2> QED BY <2>9, <2>10
<1> QED BY <1>2, <1>3, <1>4, <1>5

-----------------------------------------------------------------------------
(* The end of an operation of the SourceBuffer.                            *)

\* After INIT, or once a replacement was recorded, nothing is said about the order.
LEMMA LateSound ==
  ASSUME NEW q, Almost(q), NEW r, Shape(r), Numbers(r), Buffered(r), Media(r), Whole(r),
         Same(q, r, {"sb", "ms", "broken"}), r.excused \/ r.sb.init
  PROVE  Sound(r)
<1>1. /\ r.socks = q.socks /\ r.sock = q.sock /\ r.pending = q.pending
      /\ r.lost = q.lost /\ r.tasks = q.tasks /\ r.requesting = q.requesting
  BY DEF Same, Fields
<1>2. (UnderWay(r) <=> UnderWay(q)) /\ (Network(q) => Network(r))
  BY <1>1, SameNet
<1>3. Typed(r) /\ Served(r)
  BY <1>1, <1>2 DEF Almost, Typed, Served
<1>4. Order(r) /\ Coming(r)
  BY DEF Order, Coming
<1> QED BY <1>3, <1>4 DEF Almost, Sound

\* The operation in progress ends. A segment without INIT only comes to a SourceBuffer
\* that replaced the one it was meant for.
LEMMA FinishedSound ==
  ASSUME NEW q, Sound(q), Updating(q)
  PROVE  Sound(Finished(q))
<1> DEFINE r == Finished(q)
           idle == [q EXCEPT !.sb.op = <<"none">>]
           b == [q.sb EXCEPT !.op = <<"none">>]
<1>1. /\ Shape(q) /\ Numbers(q) /\ Buffered(q) /\ Media(q) /\ Almost(q) /\ Whole(q)
      /\ q.sb \in Buffers /\ q.sb.op \in Operations /\ q.sb.init \in BOOLEAN
      /\ q.sb.has \subseteq 0..(N - 1)
  BY DEF Sound, Almost, Typed, Buffered, Buffers
<1>2. Exists(q) /\ q.sb.op[1] \in {"clear", "clean", "INIT", "SEGM"} /\ q.ms \in {"open", "ended"}
  BY <1>1, OperationKinds DEF Updating, Exists, Media
<1>3. /\ DOMAIN idle = Fields /\ idle = [x \in Fields |-> idle[x]]
      /\ Same(q, idle, {"sb"}) /\ idle.sb = b
  BY <1>1 DEF Shape, Fields, Same
<1>4. b \in Buffers /\ b.op = <<"none">> /\ b.has = q.sb.has /\ b.init = q.sb.init
  <2>1. <<"none">> \in Operations
    BY DEF Operations
  <2> QED BY <1>1, <2>1, OpExcept
<1>5. ~q.excused /\ ~q.sb.init => q.sb.op[1] = "INIT"
  BY <1>1, <1>2 DEF Almost, Order, Media
<1> HIDE DEF idle, b
<1>6. ASSUME NEW f, DOMAIN f = Fields, f = [x \in Fields |-> f[x]],
             Same(q, f, {"sb", "ms", "broken"}), f.sb \in Buffers, f.sb.op = <<"none">>,
             f.ms \in {"open", "ended"}, f.broken \in BOOLEAN,
             f.broken => f.excused, f.sb.has # {} => f.sb.init,
             f.excused \/ f.sb.init, q.sb.init => f.sb.init
      PROVE  Sound(f)
  <2>1. /\ f.queue = q.queue /\ f.appending = q.appending /\ f.tasks = q.tasks
        /\ f.excused = q.excused
    BY <1>6 DEF Same, Fields
  <2>2. Shape(f) /\ Whole(f)
    BY <1>1, <1>6, <2>1 DEF Shape, Whole
  <2>3. Numbers(f) /\ Buffered(f)
    BY <1>1, <1>6, <2>1 DEF Numbers, Buffered, Same, Fields
  <2>4. Exists(f) /\ f.sb.op[1] = "none"
    BY <1>6 DEF Exists
  <2>5. Media(f)
    BY <1>1, <1>2, <1>6, <2>1, <2>4 DEF Media
  <2> QED BY <1>1, <1>6, <2>2, <2>3, <2>5, LateSound
<1>7. CASE q.sb.op[1] = "INIT"
  <2>1. r = [idle EXCEPT !.sb.init = TRUE]
    BY <1>7 DEF Finished, idle
  <2> HIDE DEF r
  <2>2. /\ DOMAIN r = Fields /\ r = [x \in Fields |-> r[x]]
        /\ Same(q, r, {"sb", "ms", "broken"}) /\ r.sb = [b EXCEPT !.init = TRUE]
        /\ r.ms = q.ms /\ r.broken = q.broken /\ r.excused = q.excused
    BY <1>3, <2>1 DEF Fields, Same
  <2>3. r.sb \in Buffers /\ r.sb.op = <<"none">> /\ r.sb.init = TRUE
    BY <1>4, <2>2 DEF Buffers
  <2>4. Sound(r)
    BY <1>1, <1>2, <1>6, <2>2, <2>3 DEF Shape, Whole
  <2> QED BY <2>4 DEF r
<1>8. CASE q.sb.op[1] = "SEGM" /\ q.sb.init
  <2> DEFINE k == q.sb.op[2]
  <2>1. r = [idle EXCEPT !.sb.has = @ \cup {k}]
    BY <1>8 DEF Finished, idle
  <2>2. k \in 0..(N - 1)
    BY <1>1, <1>8, OperationKinds
  <2> HIDE DEF r, k
  <2>3. /\ DOMAIN r = Fields /\ r = [x \in Fields |-> r[x]]
        /\ Same(q, r, {"sb", "ms", "broken"}) /\ r.sb = [b EXCEPT !.has = @ \cup {k}]
        /\ r.ms = q.ms /\ r.broken = q.broken /\ r.excused = q.excused
    BY <1>3, <2>1 DEF Fields, Same
  <2>4. r.sb \in Buffers /\ r.sb.op = <<"none">> /\ r.sb.init = b.init
    BY <1>4, <2>2, <2>3 DEF Buffers
  <2>5. Sound(r)
    BY <1>1, <1>2, <1>4, <1>6, <1>8, <2>3, <2>4 DEF Shape, Whole
  <2> QED BY <2>5 DEF r
<1>9. CASE q.sb.op[1] = "SEGM" /\ ~q.sb.init
  <2>1. r = [idle EXCEPT !.ms = "ended", !.broken = TRUE]
    BY <1>9 DEF Finished, idle
  <2> HIDE DEF r
  <2>2. /\ DOMAIN r = Fields /\ r = [x \in Fields |-> r[x]]
        /\ Same(q, r, {"sb", "ms", "broken"}) /\ r.sb = b
        /\ r.ms = "ended" /\ r.broken = TRUE /\ r.excused = q.excused
    BY <1>3, <2>1 DEF Fields, Same
  <2>3. q.excused
    BY <1>5, <1>9
  <2>4. q.sb.has = {}
    BY <1>1, <1>9 DEF Media
  <2>5. Sound(r)
    BY <1>4, <1>6, <1>9, <2>2, <2>3, <2>4
  <2> QED BY <2>5 DEF r
<1>10. CASE q.sb.op[1] = "clean"
  <2> DEFINE low == q.sb.op[2]
  <2>1. r = [idle EXCEPT !.sb.has = {k \in @ : k >= low}]
    BY <1>10 DEF Finished, idle
  <2> HIDE DEF r, low
  <2>3. /\ DOMAIN r = Fields /\ r = [x \in Fields |-> r[x]]
        /\ Same(q, r, {"sb", "ms", "broken"}) /\ r.sb = [b EXCEPT !.has = {k \in b.has : k >= low}]
        /\ r.ms = q.ms /\ r.broken = q.broken /\ r.excused = q.excused
    BY <1>3, <2>1 DEF Fields, Same
  <2>4. r.sb \in Buffers /\ r.sb.op = <<"none">> /\ r.sb.init = b.init
    BY <1>4, <2>3 DEF Buffers
  <2>5. q.excused \/ q.sb.init
    BY <1>5, <1>10
  <2>6. r.sb.has # {} => r.sb.init
    <3>1. r.sb.has \subseteq b.has
      BY <1>4, <2>3 DEF Buffers
    <3> QED BY <1>1, <1>4, <2>4, <3>1 DEF Media
  <2>7. Sound(r)
    BY <1>1, <1>2, <1>4, <1>6, <2>3, <2>4, <2>5, <2>6 DEF Shape, Whole
  <2> QED BY <2>7 DEF r
<1>11. CASE q.sb.op[1] = "clear"
  <2>1. r = [idle EXCEPT !.sb.has = {}]
    BY <1>11 DEF Finished, idle
  <2> HIDE DEF r
  <2>3. /\ DOMAIN r = Fields /\ r = [x \in Fields |-> r[x]]
        /\ Same(q, r, {"sb", "ms", "broken"}) /\ r.sb = [b EXCEPT !.has = {}]
        /\ r.ms = q.ms /\ r.broken = q.broken /\ r.excused = q.excused
    BY <1>3, <2>1 DEF Fields, Same
  <2>4. r.sb \in Buffers /\ r.sb.op = <<"none">> /\ r.sb.init = b.init /\ r.sb.has = {}
    BY <1>4, <2>3 DEF Buffers
  <2>5. q.excused \/ q.sb.init
    BY <1>5, <1>11
  <2>6. Sound(r)
    BY <1>1, <1>2, <1>4, <1>6, <2>3, <2>4, <2>5 DEF Shape, Whole
  <2> QED BY <2>6 DEF r
<1> QED BY <1>2, <1>7, <1>8, <1>9, <1>10, <1>11

-----------------------------------------------------------------------------
(* Positions and timers of the handlers.                                   *)

\* A seek target may be set and cleared.
LEMMA SeekTargetSound ==
  ASSUME NEW q, Sound(q), NEW x \in 0..(N - 1)
  PROVE  Sound([q EXCEPT !.seekTarget = x])
<1> DEFINE r == [q EXCEPT !.seekTarget = x]
<1>1. Shape(q) /\ Numbers(q) /\ Almost(q) /\ Coming(q)
  BY DEF Sound, Almost, Typed
<1>2. /\ DOMAIN r = Fields /\ r = [y \in Fields |-> r[y]]
      /\ Same(q, r, {"seekTarget"}) /\ r.seekTarget = x
  BY <1>1 DEF Shape, Fields, Same
<1> HIDE DEF r
<1>3. /\ Shape(r) /\ Numbers(r) /\ Same(q, r, Inner)
      /\ r.tasks = q.tasks /\ r.requesting = q.requesting
  BY <1>1, <1>2 DEF Shape, Numbers, Same, Fields, Inner
<1>4. Sound(r)
  BY <1>1, <1>3, InnerSound DEF Sound
<1> QED BY <1>4 DEF r

\* A task that has been done, other than the timer of a buffer that was full.
LEMMA DoneSound ==
  ASSUME NEW q, Sound(q), NEW task, task # <<"full">>, NEW r,
         r = [q EXCEPT !.tasks = @ \ {task}]
  PROVE  Sound(r) /\ Same(q, r, {"tasks"}) /\ r.tasks = q.tasks \ {task}
<1>1. Shape(q) /\ Numbers(q) /\ Almost(q) /\ Coming(q)
  BY DEF Sound, Almost, Typed
<1>2. /\ DOMAIN r = Fields /\ r = [y \in Fields |-> r[y]]
      /\ Same(q, r, {"tasks"}) /\ r.tasks = q.tasks \ {task}
  BY <1>1 DEF Shape, Fields, Same
<1>3. /\ Shape(r) /\ Numbers(r) /\ Same(q, r, Inner) /\ r.requesting = q.requesting
  BY <1>1, <1>2 DEF Shape, Numbers, Same, Fields, Inner
<1>4. /\ <<"sourceopen">> \in r.tasks => <<"sourceopen">> \in q.tasks
      /\ <<"full">> \in r.tasks <=> <<"full">> \in q.tasks
  BY <1>2
<1> QED BY <1>1, <1>2, <1>3, <1>4, InnerSound DEF Sound

\* The listener that runs first after every operation preserves the invariant.
LEMMA AfterUpdateSound ==
  ASSUME NEW q, Sound(q), NEW paused \in BOOLEAN
  PROVE  Sound(AfterUpdate(q, paused))
<1> DEFINE r == [q EXCEPT !.appending = FALSE]
           looks == paused /\ ~r.userPaused /\ r.sb.has # {}
           c == IF looks THEN [r EXCEPT !.seekTarget = 0] ELSE r
<1>1. AfterUpdate(q, paused) =
        IF looks /\ r.seekTarget > 0 /\ r.seekTarget # r.t
        THEN IF r.seekTarget \in r.sb.has THEN Jump([r EXCEPT !.seekTarget = 0], r.seekTarget) ELSE r
        ELSE IF c.queue # <<>> THEN appendNext(c)
        ELSE IF c.nextSegment < N /\ ~c.requesting THEN requestSegment(c) ELSE c
  BY DEF AfterUpdate
<1>2. Shape(q) /\ Numbers(q) /\ Buffered(q) /\ Media(q) /\ Almost(q) /\ Coming(q)
  BY DEF Sound, Almost, Typed
<1>3. /\ DOMAIN r = Fields /\ r = [x \in Fields |-> r[x]]
      /\ Same(q, r, {"appending"}) /\ r.appending = FALSE
  BY <1>2 DEF Shape, Fields, Same
<1> HIDE DEF r
<1>4. /\ r.sb = q.sb /\ r.ms = q.ms /\ r.queue = q.queue /\ r.tasks = q.tasks
      /\ r.pendingInit = q.pendingInit /\ r.requesting = q.requesting
  BY <1>3 DEF Same, Fields
<1>5. /\ Exists(r) <=> Exists(q)
      /\ Ready(r) <=> Ready(q)
      /\ isSourceBufferValid(r) <=> isSourceBufferValid(q)
  BY <1>4 DEF Exists, Ready, isSourceBufferValid
<1>6. Shape(r) /\ Numbers(r) /\ Buffered(r)
  BY <1>2, <1>3 DEF Shape, Numbers, Buffered, Same, Fields
<1>7. Media(r)
  BY <1>2, <1>3, <1>4, <1>5 DEF Media
<1>8. Same(q, r, Inner \cup {"sb", "ms", "queue", "appending", "pendingInit"})
  BY <1>3 DEF Same
<1>9. ~q.excused /\ ~q.sb.init =>
        /\ r.sb.op[1] # "SEGM"
        /\ Ready(r) \/ (r.queue = <<>> /\ ~r.appending)
        /\ r.pendingInit => ~isSourceBufferValid(r)
  BY <1>2, <1>3, <1>4, <1>5 DEF Almost, Order
<1>10. Sound(r)
  BY <1>2, <1>4, <1>5, <1>6, <1>7, <1>8, <1>9, BufferSound DEF Sound
<1>11. Sound([r EXCEPT !.seekTarget = 0])
  <2>1. 0 \in 0..(N - 1)
    BY Bounds
  <2> QED BY <1>10, <2>1, SeekTargetSound
<1>12. Sound(c)
  BY <1>10, <1>11
<1>13. r.seekTarget \in 0..(N - 1)
  BY <1>6 DEF Numbers
<1>14. Sound(Jump([r EXCEPT !.seekTarget = 0], r.seekTarget))
  BY <1>11, <1>13, JumpSound
<1> HIDE DEF c
<1>15. Sound(appendNext(c)) /\ Sound(requestSegment(c))
  BY <1>12, AppendNextSound, RequestSound DEF Sound
<1> QED BY <1>1, <1>10, <1>12, <1>14, <1>15

-----------------------------------------------------------------------------
(* What the connections bring.                                             *)

\* One connection is replaced in the list of the connections.
LEMMA SocketSet ==
  ASSUME NEW f \in Seq(Sockets), NEW s \in 1..Len(f), NEW d \in Sockets, NEW g,
         g = [f EXCEPT ![s] = d]
  PROVE  /\ g \in Seq(Sockets) /\ Len(g) = Len(f) /\ g[s] = d
         /\ \A u \in 1..Len(f) : u # s => g[u] = f[u]
  OBVIOUS

\* One connection has other requests, the others have theirs.
LEMMA OtherNet ==
  ASSUME NEW q, Typed(q), NEW s \in 1..Len(q.socks), NEW r,
         r.socks \in Seq(Sockets), Len(r.socks) = Len(q.socks),
         r.socks[s].state = q.socks[s].state,
         \A u \in 1..Len(q.socks) : u # s => r.socks[u] = q.socks[u],
         r.sock = q.sock, r.pending = q.pending
  PROVE  Network(r) /\ (Open(r) <=> Open(q))
<1>1. q.sock \in 1..Len(q.socks) /\ q.pending \in Seq(Requests)
  BY DEF Typed, Network
<1>2. Network(r)
  BY <1>1 DEF Network
<1>3. Open(r) <=> Open(q)
  BY <1>1 DEF Open
<1> QED BY <1>2, <1>3

\* The first request of a connection was answered.
LEMMA TakenNet ==
  ASSUME NEW q, Typed(q), NEW s \in 1..Len(q.socks), q.socks[s].net # <<>>, NEW r,
         r.socks = [q.socks EXCEPT ![s].net = Tail(@)], r.sock = q.sock, r.pending = q.pending
  PROVE  /\ Network(r) /\ (Open(r) <=> Open(q))
         /\ UnderWay(r) => UnderWay(q)
         /\ UnderWay(q) => UnderWay(r) \/ Head(q.socks[s].net)[1] = "ws_segment"
         /\ ~Asks(Head(q.socks[s].net)) => /\ Unasked(r) => Unasked(q)
                                           /\ InitAsked(q) => InitAsked(r)
<1> DEFINE a == q.socks[s].net
           b == Tail(a)
<1>1. q.socks[s] \in Sockets /\ q.sock \in 1..Len(q.socks)
  BY DEF Typed, Network
<1>2. a \in Seq(Requests)
  BY <1>1 DEF Sockets
<1> DEFINE d == [q.socks[s] EXCEPT !.net = b]
<1>3. r.socks = [q.socks EXCEPT ![s] = d] /\ a # <<>> /\ Head(q.socks[s].net) = Head(a)
  OBVIOUS
<1> HIDE DEF a
<1>4. b \in Seq(Requests) /\ Len(a) \in Nat \ {0} /\ Len(b) = Len(a) - 1 /\ a[1] = Head(a)
      /\ \A i \in 1..Len(b) : b[i] = a[i + 1]
  BY <1>2, <1>3
<1> HIDE DEF b
<1>5. /\ Network(r) /\ Len(r.socks) = Len(q.socks) /\ r.socks[s].net = b
      /\ \A u \in 1..Len(q.socks) : u # s => r.socks[u] = q.socks[u]
      /\ Open(r) <=> Open(q)
  <2> DEFINE c == q.socks[s]
  <2>1. c \in Sockets /\ d = [c EXCEPT !.net = b]
    BY <1>1
  <2> HIDE DEF c, d
  <2>2. d \in Sockets /\ d.net = b /\ d.state = c.state
    BY <1>4, <2>1, NetSet
  <2>3. d.state = q.socks[s].state
    BY <2>2 DEF c
  <2>4. r.socks = [q.socks EXCEPT ![s] = d]
    BY <1>3
  <2>5. q.socks \in Seq(Sockets)
    BY DEF Typed, Network
  <2>6. /\ r.socks \in Seq(Sockets) /\ Len(r.socks) = Len(q.socks) /\ r.socks[s] = d
        /\ \A u \in 1..Len(q.socks) : u # s => r.socks[u] = q.socks[u]
    <3> DEFINE f == q.socks
               g == r.socks
    <3>1. f \in Seq(Sockets) /\ s \in 1..Len(f) /\ g = [f EXCEPT ![s] = d]
      BY <2>4, <2>5
    <3> HIDE DEF f, g
    <3>2. /\ g \in Seq(Sockets) /\ Len(g) = Len(f) /\ g[s] = d
          /\ \A u \in 1..Len(f) : u # s => g[u] = f[u]
      BY <2>2, <3>1, SocketSet
    <3> QED BY <3>2 DEF f, g
  <2> QED BY <2>2, <2>3, <2>6, OtherNet
<1> HIDE DEF d
<1>6. /\ \A i \in 1..Len(b) : i + 1 \in 1..Len(a)
      /\ \A i \in 1..Len(a) : i = 1 \/ (i - 1 \in 1..Len(b) /\ b[i - 1] = a[i])
  <2>1. \A i \in 1..Len(b) : i + 1 \in 1..Len(a)
    BY <1>4
  <2>2. ASSUME NEW i \in 1..Len(a), i # 1
        PROVE  i - 1 \in 1..Len(b) /\ b[i - 1] = a[i]
    <3>1. i - 1 \in 1..Len(b) /\ (i - 1) + 1 = i
      BY <1>4, <2>2
    <3>2. b[i - 1] = a[(i - 1) + 1]
      BY <1>4, <3>1
    <3> QED BY <3>1, <3>2
  <2> QED BY <2>1, <2>2
<1>7. UnderWay(r) => UnderWay(q)
  <2> SUFFICES ASSUME NEW u \in 1..Len(r.socks), NEW i \in 1..Len(r.socks[u].net),
                      r.socks[u].net[i][1] = "ws_segment"
               PROVE  UnderWay(q)
    BY DEF UnderWay
  <2>1. CASE u = s
    <3>1. i + 1 \in 1..Len(a) /\ a[i + 1][1] = "ws_segment"
      BY <1>4, <1>5, <1>6, <2>1
    <3> QED BY <3>1 DEF UnderWay, a
  <2>2. CASE u # s
    <3>1. u \in 1..Len(q.socks) /\ q.socks[u] = r.socks[u]
      BY <1>5, <2>2
    <3> QED BY <3>1 DEF UnderWay
  <2> QED BY <2>1, <2>2
<1>8. UnderWay(q) => UnderWay(r) \/ Head(a)[1] = "ws_segment"
  <2> SUFFICES ASSUME NEW u \in 1..Len(q.socks), NEW i \in 1..Len(q.socks[u].net),
                      q.socks[u].net[i][1] = "ws_segment", Head(a)[1] # "ws_segment"
               PROVE  UnderWay(r)
    BY DEF UnderWay
  <2>1. CASE u = s
    <3>1. i \in 1..Len(a) /\ a[i][1] = "ws_segment"
      BY <2>1 DEF a
    <3>2. i - 1 \in 1..Len(b) /\ b[i - 1][1] = "ws_segment"
      BY <1>4, <1>6, <3>1
    <3> QED BY <1>5, <3>2, ZenonT(60) DEF UnderWay
  <2>2. CASE u # s
    BY <1>5, <2>2 DEF UnderWay
  <2> QED BY <2>1, <2>2
<1>9. ASSUME ~Asks(Head(a)) PROVE Unasked(r) => Unasked(q)
  <2> SUFFICES ASSUME NEW u \in 1..Len(r.socks), NEW i \in 1..Len(r.socks[u].net),
                      r.socks[u].net[i][1] = "ws_segment",
                      \A j \in 1..(i - 1) : ~Asks(r.socks[u].net[j])
               PROVE  Unasked(q)
    BY DEF Unasked
  <2>1. CASE u = s
    <3>1. i \in 1..Len(b) /\ b[i][1] = "ws_segment" /\ \A j \in 1..(i - 1) : ~Asks(b[j])
      BY <1>5, <2>1
    <3>2. i + 1 \in 1..Len(a) /\ a[i + 1][1] = "ws_segment"
      BY <1>4, <1>6, <3>1
    <3>3. \A j \in 1..((i + 1) - 1) : j = 1 \/ (j - 1 \in 1..(i - 1) /\ b[j - 1] = a[j])
      BY <1>4, <1>6, <3>1
    <3>4. \A j \in 1..((i + 1) - 1) : ~Asks(a[j])
      BY <1>4, <1>9, <3>1, <3>3
    <3> QED BY <3>2, <3>4 DEF Unasked, a
  <2>2. CASE u # s
    BY <1>5, <2>2, ZenonT(60) DEF Unasked
  <2> QED BY <2>1, <2>2
<1>10. ASSUME ~Asks(Head(a)) PROVE InitAsked(q) => InitAsked(r)
  <2> SUFFICES ASSUME NEW j \in 1..Len(q.socks[q.sock].net), Asks(q.socks[q.sock].net[j])
               PROVE  InitAsked(r)
    BY DEF InitAsked
  <2>1. CASE q.sock = s
    <3>1. j \in 1..Len(a) /\ Asks(a[j])
      BY <2>1 DEF a
    <3>2. j - 1 \in 1..Len(b) /\ Asks(b[j - 1])
      BY <1>4, <1>6, <1>10, <3>1
    <3> QED BY <1>5, <2>1, <3>2 DEF InitAsked
  <2>2. CASE q.sock # s
    BY <1>1, <1>5, <2>2 DEF InitAsked
  <2> QED BY <2>1, <2>2
<1> QED BY <1>3, <1>5, <1>7, <1>8, <1>9, <1>10

\* The INIT segment has come, and the text has still to.
LEMMA InfoNet ==
  ASSUME NEW q, Typed(q), NEW s \in 1..Len(q.socks), q.socks[s].net # <<>>,
         Head(q.socks[s].net)[1] = "ws_init", NEW r,
         r.socks = [q.socks EXCEPT ![s].net[1] = <<"ws_info">>],
         r.sock = q.sock, r.pending = q.pending
  PROVE  /\ Network(r) /\ (Open(r) <=> Open(q))
         /\ UnderWay(r) <=> UnderWay(q)
<1> DEFINE a == q.socks[s].net
           b == [a EXCEPT ![1] = <<"ws_info">>]
<1>1. q.socks[s] \in Sockets
  BY DEF Typed, Network
<1>2. a \in Seq(Requests)
  BY <1>1 DEF Sockets
<1> DEFINE d == [q.socks[s] EXCEPT !.net = b]
<1>3. r.socks = [q.socks EXCEPT ![s] = d] /\ a # <<>> /\ Head(a)[1] = "ws_init"
  OBVIOUS
<1> HIDE DEF a
<1>4. b \in Seq(Requests) /\ Len(b) = Len(a) /\ b[1] = <<"ws_info">> /\ a[1] = Head(a)
      /\ \A i \in 1..Len(a) : i # 1 => b[i] = a[i]
  <2>1. <<"ws_info">> \in Requests
    BY DEF Requests
  <2> QED BY <1>2, <1>3, <2>1
<1> HIDE DEF b
<1>5. /\ Network(r) /\ Len(r.socks) = Len(q.socks) /\ r.socks[s].net = b
      /\ \A u \in 1..Len(q.socks) : u # s => r.socks[u] = q.socks[u]
      /\ Open(r) <=> Open(q)
  <2> DEFINE c == q.socks[s]
  <2>1. c \in Sockets /\ d = [c EXCEPT !.net = b]
    BY <1>1
  <2> HIDE DEF c, d
  <2>2. d \in Sockets /\ d.net = b /\ d.state = c.state
    BY <1>4, <2>1, NetSet
  <2>3. d.state = q.socks[s].state
    BY <2>2 DEF c
  <2>4. r.socks = [q.socks EXCEPT ![s] = d]
    BY <1>3
  <2>5. q.socks \in Seq(Sockets)
    BY DEF Typed, Network
  <2>6. /\ r.socks \in Seq(Sockets) /\ Len(r.socks) = Len(q.socks) /\ r.socks[s] = d
        /\ \A u \in 1..Len(q.socks) : u # s => r.socks[u] = q.socks[u]
    <3> DEFINE f == q.socks
               g == r.socks
    <3>1. f \in Seq(Sockets) /\ s \in 1..Len(f) /\ g = [f EXCEPT ![s] = d]
      BY <2>4, <2>5
    <3> HIDE DEF f, g
    <3>2. /\ g \in Seq(Sockets) /\ Len(g) = Len(f) /\ g[s] = d
          /\ \A u \in 1..Len(f) : u # s => g[u] = f[u]
      BY <2>2, <3>1, SocketSet
    <3> QED BY <3>2 DEF f, g
  <2> QED BY <2>2, <2>3, <2>6, OtherNet
<1> HIDE DEF d
<1>6. \A i \in 1..Len(a) : a[i][1] = "ws_segment" <=> b[i][1] = "ws_segment"
  BY <1>3, <1>4
<1>7. \A u \in 1..Len(q.socks) :
        /\ Len(r.socks[u].net) = Len(q.socks[u].net)
        /\ \A i \in 1..Len(q.socks[u].net) :
             q.socks[u].net[i][1] = "ws_segment" <=> r.socks[u].net[i][1] = "ws_segment"
  BY <1>4, <1>5, <1>6 DEF a
<1>8. UnderWay(r) <=> UnderWay(q)
  <2>1. UnderWay(r) => UnderWay(q)
    BY <1>5, <1>7 DEF UnderWay
  <2>2. UnderWay(q) => UnderWay(r)
    BY <1>5, <1>7 DEF UnderWay
  <2> QED BY <2>1, <2>2
<1> QED BY <1>5, <1>8

\* A connection is gone, and its requests with it.
LEMMA ClosedNet ==
  ASSUME NEW q, Typed(q), NEW s \in 1..Len(q.socks), NEW r,
         r.socks = [q.socks EXCEPT ![s] = [state |-> "closed", net |-> <<>>]],
         r.sock = q.sock, r.pending = q.pending
  PROVE  /\ Network(r)
         /\ UnderWay(r) => UnderWay(q)
         /\ Unasked(r) => Unasked(q)
         /\ Open(r) => Open(q) /\ (InitAsked(q) => InitAsked(r))
<1> DEFINE c == [state |-> "closed", net |-> <<>>]
<1>1. /\ q.socks \in Seq(Sockets) /\ Len(q.socks) \in Nat /\ q.sock \in 1..Len(q.socks)
      /\ q.pending \in Seq(Requests)
  BY DEF Typed, Network
<1>2. c \in Sockets /\ c.state = "closed" /\ 1..Len(c.net) = {}
  <2>1. <<>> \in Seq(Requests)
    OBVIOUS
  <2> QED BY <2>1 DEF Sockets
<1> HIDE DEF c
<1>3. /\ r.socks \in Seq(Sockets) /\ Len(r.socks) = Len(q.socks) /\ r.socks[s] = c
      /\ \A u \in 1..Len(q.socks) : u # s => r.socks[u] = q.socks[u]
  BY <1>1, <1>2 DEF c
<1>4. Network(r)
  BY <1>1, <1>3 DEF Network
<1>5. UnderWay(r) => UnderWay(q)
  BY <1>2, <1>3 DEF UnderWay
<1>6. Unasked(r) => Unasked(q)
  BY <1>2, <1>3 DEF Unasked
<1>7. Open(r) => q.sock # s
  BY <1>2, <1>3 DEF Open
<1>8. Open(r) => Open(q) /\ (InitAsked(q) => InitAsked(r))
  BY <1>1, <1>3, <1>7 DEF Open, InitAsked
<1> QED BY <1>4, <1>5, <1>6, <1>8

\* The messages that were kept go out, after a request for INIT.
LEMMA FlushNet ==
  ASSUME NEW q, Typed(q), InitAsked(q), NEW r,
         r.socks = [q.socks EXCEPT ![q.sock].net = @ \o q.pending],
         r.sock = q.sock, r.pending = <<>>
  PROVE  /\ Network(r) /\ InitAsked(r) /\ ~SegmentKept(r)
         /\ UnderWay(q) => UnderWay(r)
         /\ UnderWay(r) => UnderWay(q) \/ SegmentKept(q)
         /\ Unasked(r) => Unasked(q)
<1> DEFINE s == q.sock
           m == q.pending
           a == q.socks[s].net
           b == a \o m
           c == q.socks[s]
           d == [c EXCEPT !.net = b]
           f == q.socks
           g == r.socks
<1>1. c \in Sockets /\ s \in 1..Len(f) /\ m \in Seq(Requests) /\ f \in Seq(Sockets)
  BY DEF Typed, Network
<1>2. a \in Seq(Requests)
  BY <1>1 DEF Sockets
<1>3. g = [f EXCEPT ![s] = d]
  OBVIOUS
<1>4. PICK k \in 1..Len(a) : Asks(a[k])
  BY DEF InitAsked
<1> HIDE DEF a, m
<1>5. /\ b \in Seq(Requests) /\ Len(a) \in Nat /\ Len(m) \in Nat /\ Len(b) = Len(a) + Len(m)
      /\ \A i \in 1..Len(a) : b[i] = a[i]
      /\ \A i \in 1..Len(b) : i > Len(a) => i - Len(a) \in 1..Len(m) /\ b[i] = m[i - Len(a)]
  BY <1>1, <1>2
<1> HIDE DEF b, c
<1>6. d \in Sockets /\ d.net = b
  BY <1>1, <1>5, NetSet
<1> HIDE DEF d, f, g
<1>7. /\ g \in Seq(Sockets) /\ Len(g) = Len(f) /\ g[s] = d
      /\ \A u \in 1..Len(f) : u # s => g[u] = f[u]
  BY <1>1, <1>3, <1>6, SocketSet
<1>8. /\ r.socks \in Seq(Sockets) /\ Len(r.socks) = Len(q.socks) /\ r.socks[s].net = b
      /\ \A u \in 1..Len(q.socks) : u # s => r.socks[u] = q.socks[u]
      /\ s \in 1..Len(q.socks)
  BY <1>1, <1>6, <1>7 DEF f, g
<1>9. Network(r)
  <2>1. <<>> \in Seq(Requests)
    OBVIOUS
  <2> QED BY <1>8, <2>1 DEF Network
<1>10. InitAsked(r)
  <2>1. k \in 1..Len(b) /\ Asks(b[k])
    BY <1>4, <1>5
  <2> QED BY <1>8, <2>1 DEF InitAsked
<1>11. ~SegmentKept(r)
  <2>1. 1..Len(r.pending) = {}
    OBVIOUS
  <2> QED BY <2>1 DEF SegmentKept
<1>12. UnderWay(q) => UnderWay(r)
  <2> SUFFICES ASSUME NEW u \in 1..Len(q.socks), NEW i \in 1..Len(q.socks[u].net),
                      q.socks[u].net[i][1] = "ws_segment"
               PROVE  UnderWay(r)
    BY DEF UnderWay
  <2>1. CASE u = s
    <3>1. i \in 1..Len(a) /\ a[i][1] = "ws_segment"
      BY <2>1 DEF a
    <3>2. i \in 1..Len(b) /\ b[i][1] = "ws_segment"
      BY <1>5, <3>1
    <3> QED BY <1>8, <3>2 DEF UnderWay
  <2>2. CASE u # s
    <3>1. u \in 1..Len(r.socks) /\ q.socks[u] = r.socks[u]
      BY <1>8, <2>2
    <3> QED BY <3>1 DEF UnderWay
  <2> QED BY <2>1, <2>2
<1>13. UnderWay(r) => UnderWay(q) \/ SegmentKept(q)
  <2> SUFFICES ASSUME NEW u \in 1..Len(r.socks), NEW i \in 1..Len(r.socks[u].net),
                      r.socks[u].net[i][1] = "ws_segment"
               PROVE  UnderWay(q) \/ SegmentKept(q)
    BY DEF UnderWay
  <2>1. CASE u = s
    <3>1. i \in 1..Len(b) /\ b[i][1] = "ws_segment"
      BY <1>8, <2>1
    <3>2. CASE i > Len(a)
      <4>1. i - Len(a) \in 1..Len(m) /\ m[i - Len(a)][1] = "ws_segment"
        BY <1>5, <3>1, <3>2
      <4> QED BY <4>1 DEF SegmentKept, m
    <3>3. CASE ~(i > Len(a))
      <4>1. i \in 1..Len(a)
        BY <1>5, <3>1, <3>3
      <4>2. a[i][1] = "ws_segment"
        BY <1>5, <3>1, <4>1
      <4> QED BY <1>8, <4>1, <4>2 DEF UnderWay, a
    <3> QED BY <3>2, <3>3
  <2>2. CASE u # s
    <3>1. u \in 1..Len(q.socks) /\ q.socks[u] = r.socks[u]
      BY <1>8, <2>2
    <3> QED BY <3>1 DEF UnderWay
  <2> QED BY <2>1, <2>2
<1>14. Unasked(r) => Unasked(q)
  <2> SUFFICES ASSUME NEW u \in 1..Len(r.socks), NEW i \in 1..Len(r.socks[u].net),
                      r.socks[u].net[i][1] = "ws_segment",
                      \A j \in 1..(i - 1) : ~Asks(r.socks[u].net[j])
               PROVE  Unasked(q)
    BY DEF Unasked
  <2>1. CASE u = s
    <3>1. i \in 1..Len(b) /\ b[i][1] = "ws_segment" /\ \A j \in 1..(i - 1) : ~Asks(b[j])
      BY <1>8, <2>1
    <3>2. i <= k
      <4>1. Asks(b[k]) /\ k \in 1..Len(a)
        BY <1>4, <1>5
      <4>2. k \notin 1..(i - 1)
        BY <3>1, <4>1
      <4> QED BY <1>5, <3>1, <4>1, <4>2
    <3>3. i \in 1..Len(a) /\ \A j \in 1..(i - 1) : j \in 1..Len(a)
      BY <1>4, <1>5, <3>1, <3>2
    <3>4. a[i][1] = "ws_segment" /\ \A j \in 1..(i - 1) : ~Asks(a[j])
      BY <1>5, <3>1, <3>3
    <3> QED BY <1>8, <3>3, <3>4 DEF Unasked, a
  <2>2. CASE u # s
    <3>1. u \in 1..Len(q.socks) /\ q.socks[u] = r.socks[u]
      BY <1>8, <2>2
    <3> QED BY <3>1 DEF Unasked
  <2> QED BY <2>1, <2>2
<1> QED BY <1>9, <1>10, <1>11, <1>12, <1>13, <1>14

\* Sending what was kept preserves the invariant, after a request for INIT.
LEMMA FlushSound ==
  ASSUME NEW q, Sound(q), Open(q) => InitAsked(q)
  PROVE  Sound(flush(q))
<1>1. CASE ~Open(q)
  BY <1>1 DEF flush, Open
<1>2. CASE Open(q)
  <2> DEFINE sent == [q.socks EXCEPT ![q.sock].net = @ \o q.pending]
             r == flush(q)
  <2>1. r = [q EXCEPT !.socks = sent, !.pending = <<>>]
    BY <1>2, Zenon DEF flush, Open
  <2>2. Shape(q) /\ Network(q) /\ Numbers(q) /\ Buffered(q) /\ Typed(q) /\ Almost(q)
    BY DEF Sound, Almost, Typed
  <2> HIDE DEF r, sent
  <2>3. /\ DOMAIN r = Fields /\ r = [x \in Fields |-> r[x]]
        /\ Same(q, r, {"socks", "pending"}) /\ r.socks = sent /\ r.pending = <<>>
    BY <2>1, <2>2 DEF Shape, Fields, Same
  <2>4. /\ r.sock = q.sock /\ r.sb = q.sb /\ r.ms = q.ms /\ r.tasks = q.tasks
        /\ r.queue = q.queue /\ r.appending = q.appending /\ r.requesting = q.requesting
        /\ r.pendingInit = q.pendingInit /\ r.excused = q.excused /\ r.lost = q.lost
        /\ r.broken = q.broken
    BY <2>3 DEF Same, Fields
  <2>5. /\ Network(r) /\ InitAsked(r) /\ ~SegmentKept(r)
        /\ UnderWay(q) => UnderWay(r)
        /\ UnderWay(r) => UnderWay(q) \/ SegmentKept(q)
        /\ Unasked(r) => Unasked(q)
    <3>1. r.socks = [q.socks EXCEPT ![q.sock].net = @ \o q.pending]
      BY <2>3 DEF sent
    <3> QED BY <1>2, <2>2, <2>3, <2>4, <3>1, FlushNet
  <2>6. Shape(r) /\ Numbers(r) /\ Buffered(r)
    BY <2>2, <2>3 DEF Shape, Numbers, Buffered, Same, Fields
  <2>7. /\ Exists(r) <=> Exists(q)
        /\ Ready(r) <=> Ready(q)
        /\ isSourceBufferValid(r) <=> isSourceBufferValid(q)
    BY <2>4 DEF Exists, Ready, isSourceBufferValid
  <2>8. Served(r) /\ Whole(r)
    BY <2>2, <2>4, <2>5 DEF Almost, Served, Whole
  <2>9. Media(r)
    BY <2>2, <2>4, <2>7 DEF Almost, Media
  <2>10. Order(r)
    BY <2>2, <2>4, <2>5, <2>7 DEF Almost, Order
  <2>11. Coming(r)
    BY <2>5 DEF Coming
  <2> QED BY <2>5, <2>6, <2>8, <2>9, <2>10, <2>11 DEF Sound, Almost, Typed, r
<1> QED BY <1>1, <1>2

-----------------------------------------------------------------------------
(* The handlers of the connection.                                         *)

\* The first request of a connection was answered, and not by INIT. If a segment was
\* asked for, requesting is cleared, another is under way, or it counts as lost.
LEMMA TakenSound ==
  ASSUME NEW q, Sound(q), NEW s \in 1..Len(q.socks), q.socks[s].net # <<>>,
         ~Asks(Head(q.socks[s].net)), NEW r, Shape(r), Numbers(r),
         r.socks = [q.socks EXCEPT ![s].net = Tail(@)], r.tasks = q.tasks,
         Same(q, r, Inner \cup {"socks", "lost"}),
         r.requesting => \/ r.lost \/ UnderWay(r)
                         \/ q.requesting /\ Head(q.socks[s].net)[1] # "ws_segment",
         q.lost => r.lost
  PROVE  Sound(r)
<1>1. Typed(q) /\ Almost(q) /\ Coming(q) /\ Media(q) /\ Buffered(q)
  BY DEF Sound, Almost, Typed
<1>2. /\ r.sock = q.sock /\ r.sb = q.sb /\ r.ms = q.ms /\ r.pending = q.pending
      /\ r.queue = q.queue /\ r.appending = q.appending
      /\ r.pendingInit = q.pendingInit /\ r.excused = q.excused
      /\ r.broken = q.broken
  BY DEF Same, Fields, Inner
<1>3. /\ Network(r) /\ (Open(r) <=> Open(q))
      /\ UnderWay(r) => UnderWay(q)
      /\ UnderWay(q) => UnderWay(r) \/ Head(q.socks[s].net)[1] = "ws_segment"
      /\ Unasked(r) => Unasked(q)
      /\ InitAsked(q) => InitAsked(r)
  BY <1>1, <1>2, TakenNet
<1>4. SegmentKept(r) <=> SegmentKept(q)
  BY <1>2 DEF SegmentKept
<1>5. /\ Exists(r) <=> Exists(q)
      /\ Ready(r) <=> Ready(q)
      /\ isSourceBufferValid(r) <=> isSourceBufferValid(q)
  BY <1>2 DEF Exists, Ready, isSourceBufferValid
<1>6. Typed(r)
  BY <1>1, <1>2, <1>3 DEF Typed, Buffered
<1>7. Served(r)
  BY <1>1, <1>3 DEF Almost, Served
<1>8. Media(r) /\ Whole(r)
  BY <1>1, <1>2, <1>5 DEF Almost, Media, Whole
<1>9. Order(r)
  BY <1>1, <1>2, <1>3, <1>4, <1>5 DEF Almost, Order
<1>10. Coming(r)
  BY <1>1, <1>2, <1>3, <1>5 DEF Coming
<1> QED BY <1>6, <1>7, <1>8, <1>9, <1>10 DEF Sound, Almost

\* What the removal of an answered request changes.
LEMMA TakenEffect ==
  ASSUME Sound(p), NEW s \in 1..Len(p.socks), p.socks[s].net # <<>>
  PROVE  /\ DOMAIN Taken(s) = Fields /\ Taken(s) = [x \in Fields |-> Taken(s)[x]]
         /\ Taken(s).socks = [p.socks EXCEPT ![s].net = Tail(@)]
         /\ Same(p, Taken(s), {"socks"})
<1> DEFINE n == [p.socks EXCEPT ![s].net = Tail(@)]
<1>1. Taken(s) = [p EXCEPT !.socks = n]
  BY Zenon DEF Taken
<1>2. DOMAIN p = Fields /\ p = [x \in Fields |-> p[x]]
  BY DEF Sound, Almost, Typed, Shape
<1> HIDE DEF n
<1>3. /\ DOMAIN Taken(s) = Fields /\ Taken(s) = [x \in Fields |-> Taken(s)[x]]
      /\ Taken(s).socks = n /\ Same(p, Taken(s), {"socks"})
  BY <1>1, <1>2 DEF Fields, Same
<1> QED BY <1>3 DEF n

\* A new connection is open: it has no requests yet.
LEMMA OpenedSound ==
  ASSUME NEW q, Sound(q), NEW s \in 1..Len(q.socks), NEW r,
         r = [q EXCEPT !.socks[s].state = "open", !.reconnectAttempts = 0]
  PROVE  Almost(r)
<1> DEFINE f == q.socks
           c == f[s]
           d == [c EXCEPT !.state = "open"]
           g == [f EXCEPT ![s] = d]
<1>1. /\ Typed(q) /\ Shape(q) /\ Network(q) /\ Numbers(q) /\ Buffered(q) /\ Almost(q)
      /\ Media(q) /\ Whole(q)
  BY DEF Sound, Almost, Typed
<1>2. f \in Seq(Sockets) /\ s \in 1..Len(f) /\ c \in Sockets
  BY <1>1 DEF Network
<1>3. r = [q EXCEPT !.socks = g, !.reconnectAttempts = 0]
  BY Zenon
<1> HIDE DEF c
<1>4. d \in Sockets /\ d.net = c.net
  BY <1>2 DEF Sockets
<1> HIDE DEF d, f
<1>5. /\ g \in Seq(Sockets) /\ Len(g) = Len(f) /\ g[s] = d
      /\ \A u \in 1..Len(f) : u # s => g[u] = f[u]
  BY <1>2, <1>4, SocketSet
<1> HIDE DEF g
<1>6. /\ DOMAIN r = Fields /\ r = [x \in Fields |-> r[x]] /\ r.socks = g
      /\ Same(q, r, {"socks", "reconnectAttempts"}) /\ r.reconnectAttempts = 0
  BY <1>1, <1>3 DEF Shape, Fields, Same
<1>7. /\ r.sock = q.sock /\ r.sb = q.sb /\ r.ms = q.ms /\ r.tasks = q.tasks
      /\ r.queue = q.queue /\ r.appending = q.appending /\ r.requesting = q.requesting
      /\ r.pendingInit = q.pendingInit /\ r.excused = q.excused /\ r.lost = q.lost
      /\ r.broken = q.broken /\ r.pending = q.pending
  BY <1>6 DEF Same, Fields
<1>8. /\ r.socks \in Seq(Sockets) /\ Len(r.socks) = Len(q.socks)
      /\ \A u \in 1..Len(q.socks) : r.socks[u].net = q.socks[u].net
  BY <1>4, <1>5, <1>6 DEF f, c
<1>9. UnderWay(r) <=> UnderWay(q)
  BY <1>8, SMTT(30) DEF UnderWay
<1>10. Unasked(r) <=> Unasked(q)
  BY <1>8 DEF Unasked
<1>11. Network(r)
  BY <1>1, <1>7, <1>8 DEF Network
<1>12. Shape(r) /\ Buffered(r)
  BY <1>1, <1>6, <1>7 DEF Shape, Buffered
<1>13. Numbers(r)
  <2>1. r.reconnectAttempts \in 0..MaxAttempts
    BY <1>6, Bounds
  <2>2. /\ r.t = q.t /\ r.retryCount = q.retryCount /\ r.seekTarget = q.seekTarget
        /\ r.nextSegment = q.nextSegment /\ r.desired = q.desired
    BY <1>6 DEF Same, Fields
  <2> QED BY <1>1, <2>1, <2>2 DEF Numbers
<1>14. Served(r) /\ Whole(r) /\ Media(r)
  BY <1>1, <1>7, <1>9 DEF Almost, Served, Whole, Media, Exists
<1>15. Order(r)
  BY <1>1, <1>7, <1>9, <1>10 DEF Almost, Order, Exists, Ready, isSourceBufferValid, SegmentKept
<1> QED BY <1>11, <1>12, <1>13, <1>14, <1>15 DEF Almost, Typed

\* socket.onopen preserves the invariant.
LEMMA OnopenSound ==
  ASSUME Sound(p), NEW s \in 1..Len(p.socks), onopen(s)
  PROVE  Sound(p')
<1> DEFINE q == [p EXCEPT !.socks[s].state = "open", !.reconnectAttempts = 0]
           r == send(q, <<"watch_get">>)
<1>1. p' = flush(r)
  BY DEF onopen
<1>2. Almost(q)
  BY OpenedSound
<1>3. <<"watch_get">> \in Requests /\ Asks(<<"watch_get">>)
  BY DEF Requests, Asks
<1> HIDE DEF q
<1>4. Sound(r) /\ (Open(r) => InitAsked(r))
  BY <1>2, <1>3, SendSound
<1> HIDE DEF r
<1> QED BY <1>1, <1>4, FlushSound

\* A connection that is lost preserves the invariant.
LEMMA OncloseSound ==
  ASSUME Sound(p), NEW s \in 1..Len(p.socks), onclose(s)
  PROVE  Sound(p')
<1> DEFINE n == [p.socks EXCEPT ![s] = [state |-> "closed", net |-> <<>>]]
           c == [p EXCEPT !.socks = n]
           q == [c EXCEPT !.lost = @ \/ (UnderWay(p) /\ ~UnderWay(c))]
           r == [q EXCEPT !.reconnectAttempts = @ + 1, !.tasks = @ \cup {<<"reconnect">>}]
<1>1. \/ p' = q
      \/ p' = r /\ ~(q.reconnectAttempts >= MaxAttempts)
  BY Zenon DEF onclose
<1>2. /\ Typed(p) /\ Shape(p) /\ Numbers(p) /\ Buffered(p) /\ Almost(p) /\ Coming(p)
      /\ Media(p) /\ Whole(p)
  BY DEF Sound, Almost, Typed
<1>3. n = [p.socks EXCEPT ![s] = [state |-> "closed", net |-> <<>>]]
  OBVIOUS
<1> HIDE DEF n
<1>4. /\ DOMAIN q = Fields /\ q = [x \in Fields |-> q[x]]
      /\ Same(p, q, {"socks", "lost"}) /\ q.socks = n
      /\ (p.lost => q.lost) /\ (UnderWay(p) => UnderWay(q) \/ q.lost)
  <2>1. /\ DOMAIN c = Fields /\ c = [x \in Fields |-> c[x]]
        /\ Same(p, c, {"socks"}) /\ c.socks = n
    BY <1>2 DEF Shape, Fields, Same
  <2> HIDE DEF c
  <2>2. /\ DOMAIN q = Fields /\ q = [x \in Fields |-> q[x]]
        /\ Same(c, q, {"lost"}) /\ q.lost = (c.lost \/ (UnderWay(p) /\ ~UnderWay(c)))
    BY <2>1 DEF Fields, Same
  <2> HIDE DEF q
  <2>3. /\ Same(p, q, {"socks", "lost"}) /\ q.socks = c.socks /\ c.lost = p.lost
        /\ q.sock = c.sock /\ q.pending = c.pending
    BY <2>1, <2>2 DEF Same, Fields
  <2>4. UnderWay(q) <=> UnderWay(c)
    BY <2>3, SameNet
  <2> QED BY <2>1, <2>2, <2>3, <2>4
<1> HIDE DEF q, c
<1>5. /\ q.sock = p.sock /\ q.sb = p.sb /\ q.ms = p.ms /\ q.tasks = p.tasks
      /\ q.queue = p.queue /\ q.appending = p.appending /\ q.requesting = p.requesting
      /\ q.pendingInit = p.pendingInit /\ q.excused = p.excused
      /\ q.broken = p.broken /\ q.pending = p.pending
  BY <1>4 DEF Same, Fields
<1>6. /\ Network(q)
      /\ UnderWay(q) => UnderWay(p)
      /\ Unasked(q) => Unasked(p)
      /\ Open(q) => Open(p) /\ (InitAsked(p) => InitAsked(q))
  <2>1. /\ q.socks = [p.socks EXCEPT ![s] = [state |-> "closed", net |-> <<>>]]
        /\ q.sock = p.sock /\ q.pending = p.pending /\ Typed(p)
    BY <1>2, <1>3, <1>4, <1>5
  <2> QED BY <2>1, ClosedNet
<1>7. /\ Exists(q) <=> Exists(p)
      /\ Ready(q) <=> Ready(p)
      /\ isSourceBufferValid(q) <=> isSourceBufferValid(p)
      /\ SegmentKept(q) <=> SegmentKept(p)
  BY <1>5 DEF Exists, Ready, isSourceBufferValid, SegmentKept
<1>8. Shape(q) /\ Numbers(q) /\ Buffered(q)
  BY <1>2, <1>4 DEF Shape, Numbers, Buffered, Same, Fields
<1>9. Served(q)
  <2>1. Served(p)
    BY <1>2 DEF Almost
  <2> QED BY <1>4, <1>5, <2>1 DEF Served
<1>10. Media(q) /\ Whole(q)
  BY <1>2, <1>5, <1>7 DEF Media, Whole
<1>11. Order(q)
  BY <1>2, <1>5, <1>6, <1>7 DEF Almost, Order
<1>12. Coming(q)
  BY <1>2, <1>5, <1>6, <1>7 DEF Coming
<1>13. Sound(q)
  BY <1>6, <1>8, <1>9, <1>10, <1>11, <1>12 DEF Sound, Almost, Typed
<1>14. ASSUME ~(q.reconnectAttempts >= MaxAttempts) PROVE Sound(r)
  <2>1. /\ DOMAIN r = Fields /\ r = [x \in Fields |-> r[x]]
        /\ Same(q, r, {"reconnectAttempts", "tasks"})
        /\ r.reconnectAttempts = q.reconnectAttempts + 1
        /\ r.tasks = q.tasks \cup {<<"reconnect">>}
    BY <1>8 DEF Shape, Fields, Same
  <2> HIDE DEF r
  <2>2. Shape(r) /\ Same(q, r, Inner) /\ r.requesting = q.requesting
    BY <1>8, <2>1 DEF Shape, Same, Fields, Inner
  <2>3. Numbers(r)
    <3>1. q.reconnectAttempts \in 0..MaxAttempts
      BY <1>8 DEF Numbers
    <3>2. r.reconnectAttempts \in 0..MaxAttempts
      BY <1>14, <2>1, <3>1, Bounds
    <3>3. /\ r.t = q.t /\ r.retryCount = q.retryCount /\ r.seekTarget = q.seekTarget
          /\ r.nextSegment = q.nextSegment /\ r.desired = q.desired
      BY <2>1 DEF Same, Fields
    <3> QED BY <1>8, <3>2, <3>3 DEF Numbers
  <2>4. /\ <<"sourceopen">> \in r.tasks => <<"sourceopen">> \in q.tasks
        /\ <<"full">> \in r.tasks <=> <<"full">> \in q.tasks
    BY <2>1
  <2> QED BY <1>13, <2>2, <2>3, <2>4, InnerSound DEF Sound
<1> QED BY <1>1, <1>13, <1>14

\* The position watched last starts the stream.
LEMMA OnWatchGetSound ==
  ASSUME Sound(p), NEW s \in 1..Len(p.socks), OnWatchGet(s)
  PROVE  Sound(p')
<1> DEFINE q == Taken(s)
<1>1. PICK position \in Starts : Arrives(s, "watch_get") /\ p' = startStream(q, position)
  BY DEF OnWatchGet
<1>2. position \in 0..(N - 1)
  BY PlayerAssumption
<1>3. p.socks[s].net # <<>>
  BY <1>1 DEF Arrives
<1>4. /\ DOMAIN q = Fields /\ q = [x \in Fields |-> q[x]]
      /\ q.socks = [p.socks EXCEPT ![s].net = Tail(@)] /\ Same(p, q, {"socks"})
  BY <1>3, TakenEffect
<1> HIDE DEF q
<1>5. Typed(p) /\ Shape(p) /\ Numbers(p) /\ Buffered(p) /\ Whole(p)
  BY DEF Sound, Almost, Typed
<1>6. Shape(q) /\ Numbers(q) /\ Buffered(q) /\ Whole(q) /\ q.sock = p.sock /\ q.pending = p.pending
  BY <1>4, <1>5 DEF Shape, Numbers, Buffered, Whole, Same, Fields
<1>7. Network(q)
  BY <1>3, <1>4, <1>5, <1>6, TakenNet
<1>8. Typed(q)
  BY <1>6, <1>7 DEF Typed
<1> QED BY <1>1, <1>2, <1>6, <1>8, StartSound

\* The codec is known, and the SourceBuffer is created.
LEMMA OnWsInitSound ==
  ASSUME Sound(p), NEW s \in 1..Len(p.socks), OnWsInit(s)
  PROVE  Sound(p')
<1> DEFINE a == Taken(s)
           next == IF p.desired > 0 THEN findSegmentForTime(p.desired) ELSE a.nextSegment
           seek == IF a.seekTarget = 0 THEN p.desired ELSE a.seekTarget
           q == [a EXCEPT !.codec = TRUE, !.watchTimer = TRUE,
                          !.nextSegment = next, !.seekTarget = seek]
<1>1. p.socks[s].net # <<>> /\ Head(p.socks[s].net)[1] = "ws_info"
  BY DEF OnWsInit, Arrives
<1>2. p' = IF Exists(q) THEN q ELSE createSourceBuffer(q)
  BY Zenon DEF OnWsInit
<1>3. /\ DOMAIN a = Fields /\ a = [x \in Fields |-> a[x]]
      /\ a.socks = [p.socks EXCEPT ![s].net = Tail(@)] /\ Same(p, a, {"socks"})
  BY <1>1, TakenEffect
<1> HIDE DEF a
<1>4. Typed(p) /\ Shape(p) /\ Numbers(p)
  BY DEF Sound, Almost, Typed
<1>5. next \in 0..N /\ seek \in 0..(N - 1)
  <2>1. /\ p.desired \in 0..(N - 1) /\ a.nextSegment \in 0..N /\ a.seekTarget \in 0..(N - 1)
    BY <1>3, <1>4 DEF Numbers, Same, Fields
  <2>2. findSegmentForTime(p.desired) \in 0..(N - 1)
    <3>1. p.desired \in Nat
      BY <2>1
    <3> QED BY <3>1, FindSegment
  <2> QED BY <2>1, <2>2, Bounds
<1> HIDE DEF next, seek
<1>6. /\ DOMAIN q = Fields /\ q = [x \in Fields |-> q[x]]
      /\ Same(a, q, {"codec", "watchTimer", "nextSegment", "seekTarget"})
      /\ q.nextSegment = next /\ q.seekTarget = seek
  BY <1>3 DEF Fields, Same
<1> HIDE DEF q
<1>7. /\ Same(p, q, Inner \cup {"socks", "lost"}) /\ q.socks = a.socks /\ q.tasks = p.tasks
      /\ q.requesting = p.requesting /\ q.lost = p.lost
  BY <1>3, <1>6 DEF Same, Fields, Inner
<1>8. Shape(q)
  BY <1>4, <1>6, <1>7 DEF Shape, Same, Fields, Inner
<1>9. Numbers(q)
  <2>1. /\ q.t = p.t /\ q.retryCount = p.retryCount /\ q.desired = p.desired
        /\ q.reconnectAttempts = p.reconnectAttempts
    BY <1>3, <1>6 DEF Same, Fields
  <2> QED BY <1>4, <1>5, <1>6, <2>1 DEF Numbers
<1>10. ~Asks(Head(p.socks[s].net)) /\ Head(p.socks[s].net)[1] # "ws_segment"
  BY <1>1 DEF Asks
<1>11. Sound(q)
  <2>1. q.socks = [p.socks EXCEPT ![s].net = Tail(@)]
    BY <1>3, <1>7
  <2> QED BY <1>1, <1>7, <1>8, <1>9, <1>10, <2>1, TakenSound, ZenonT(60)
<1> QED BY <1>2, <1>11, CreateSound

\* A segment that is missing.
LEMMA OnMissingSound ==
  ASSUME Sound(p), NEW s \in 1..Len(p.socks), OnMissing(s)
  PROVE  Sound(p')
<1> DEFINE a == Taken(s)
           q == [a EXCEPT !.lost = @ \/ ~UnderWay(a)]
<1>1. p.socks[s].net # <<>> /\ Head(p.socks[s].net)[1] = "ws_segment"
  BY DEF OnMissing, Arrives
<1>2. p' = IF p.ms = "open" THEN checkAndEnd(q) ELSE q
  BY Zenon DEF OnMissing
<1>3. /\ DOMAIN a = Fields /\ a = [x \in Fields |-> a[x]]
      /\ a.socks = [p.socks EXCEPT ![s].net = Tail(@)] /\ Same(p, a, {"socks"})
  BY <1>1, TakenEffect
<1> HIDE DEF a
<1>4. Typed(p) /\ Shape(p) /\ Numbers(p)
  BY DEF Sound, Almost, Typed
<1>5. /\ DOMAIN q = Fields /\ q = [x \in Fields |-> q[x]]
      /\ Same(a, q, {"lost"}) /\ q.lost = (a.lost \/ ~UnderWay(a))
  BY <1>3 DEF Fields, Same
<1> HIDE DEF q
<1>6. /\ Same(p, q, Inner \cup {"socks", "lost"}) /\ q.socks = a.socks /\ q.tasks = p.tasks
      /\ Same(p, q, {"socks", "lost"}) /\ a.lost = p.lost
      /\ q.sock = a.sock /\ q.pending = a.pending
  BY <1>3, <1>5 DEF Same, Fields, Inner
<1>7. Shape(q) /\ Numbers(q)
  BY <1>4, <1>5, <1>6 DEF Shape, Numbers, Same, Fields
<1>8. ~Asks(Head(p.socks[s].net))
  BY <1>1 DEF Asks
<1>9. Sound(q)
  <2>1. q.socks = [p.socks EXCEPT ![s].net = Tail(@)]
    BY <1>3, <1>6
  <2>2. (p.lost => q.lost) /\ (q.lost \/ UnderWay(q))
    BY <1>5, <1>6, SameNet
  <2> QED BY <1>1, <1>6, <1>7, <1>8, <2>1, <2>2, TakenSound, ZenonT(60)
<1> QED BY <1>2, <1>9, CheckAndEndSound

\* The server has no INIT: the SourceBuffer has had it before, or need not have it.
LEMMA OnInitMissingSound ==
  ASSUME Sound(p), NEW s \in 1..Len(p.socks), OnInitMissing(s)
  PROVE  Sound(p')
<1> DEFINE a == Taken(s)
           q == [a EXCEPT !.excused = @ \/ ~p.sb.init, !.noInit = TRUE]
<1>1. p.socks[s].net # <<>> /\ Head(p.socks[s].net)[1] = "ws_init"
  BY DEF OnInitMissing, Arrives
<1>2. p' = IF p.ms = "open" THEN checkAndEnd(q) ELSE q
  BY Zenon DEF OnInitMissing
<1>3. /\ DOMAIN a = Fields /\ a = [x \in Fields |-> a[x]]
      /\ a.socks = [p.socks EXCEPT ![s].net = Tail(@)] /\ Same(p, a, {"socks"})
  BY <1>1, TakenEffect
<1> HIDE DEF a
<1>4. /\ Typed(p) /\ Shape(p) /\ Numbers(p) /\ Buffered(p) /\ Media(p) /\ Served(p)
      /\ Whole(p)
  BY DEF Sound, Almost, Typed
<1>5. /\ DOMAIN q = Fields /\ q = [x \in Fields |-> q[x]]
      /\ Same(a, q, {"excused", "noInit"}) /\ q.excused = (a.excused \/ ~p.sb.init)
  BY <1>3 DEF Fields, Same
<1> HIDE DEF q
<1>6. /\ q.socks = a.socks /\ q.sock = p.sock /\ q.sb = p.sb /\ q.ms = p.ms
      /\ q.tasks = p.tasks /\ q.queue = p.queue /\ q.appending = p.appending
      /\ q.requesting = p.requesting /\ q.lost = p.lost /\ q.pending = p.pending
      /\ q.broken = p.broken /\ a.excused = p.excused
      /\ q.t = p.t /\ q.nextSegment = p.nextSegment /\ q.seekTarget = p.seekTarget
      /\ q.desired = p.desired /\ q.retryCount = p.retryCount
      /\ q.reconnectAttempts = p.reconnectAttempts
  BY <1>3, <1>5 DEF Same, Fields
<1>7. /\ Network(q) /\ (UnderWay(p) => UnderWay(q))
  <2>1. q.socks = [p.socks EXCEPT ![s].net = Tail(@)]
    BY <1>3, <1>6
  <2> QED BY <1>1, <1>4, <1>6, <2>1, TakenNet
<1>8. q.excused \in BOOLEAN /\ (q.excused \/ q.sb.init) /\ (p.excused => q.excused)
  BY <1>4, <1>5, <1>6 DEF Shape, Buffered, Buffers
<1>9. Typed(q)
  BY <1>4, <1>5, <1>6, <1>7, <1>8 DEF Typed, Shape, Numbers, Buffered
<1>10. Served(q) /\ Whole(q)
  BY <1>4, <1>6, <1>7, <1>8 DEF Served, Whole
<1>11. Media(q)
  BY <1>4, <1>6 DEF Media, Exists
<1>12. Sound(q)
  BY <1>8, <1>9, <1>10, <1>11 DEF Sound, Almost, Order, Coming
<1> QED BY <1>2, <1>12, CheckAndEndSound

\* A segment comes: INIT came before it, or is being appended.
LEMMA OnSegmentSound ==
  ASSUME Sound(p), NEW s \in 1..Len(p.socks), OnSegment(s)
  PROVE  Sound(p')
<1> DEFINE a == Taken(s)
           k == Head(p.socks[s].net)[2]
           q == [a EXCEPT !.nextSegment = k + 1, !.requesting = FALSE]
<1>1. p.socks[s].net # <<>> /\ Head(p.socks[s].net)[1] = "ws_segment"
  BY DEF OnSegment, Arrives
<1>2. p' = appendSegment(q, <<"SEGM", k>>)
  BY Zenon DEF OnSegment
<1>3. /\ DOMAIN a = Fields /\ a = [x \in Fields |-> a[x]]
      /\ a.socks = [p.socks EXCEPT ![s].net = Tail(@)] /\ Same(p, a, {"socks"})
  BY <1>1, TakenEffect
<1> HIDE DEF a
<1>4. Typed(p) /\ Shape(p) /\ Numbers(p) /\ Almost(p)
  BY DEF Sound, Almost, Typed
<1>5. /\ p.socks[s].net \in Seq(Requests) /\ p.socks[s].net[1] = Head(p.socks[s].net)
      /\ 1 \in 1..Len(p.socks[s].net) /\ Head(p.socks[s].net) \in Requests
  <2>1. p.socks[s] \in Sockets
    BY <1>4 DEF Typed, Network
  <2>2. p.socks[s].net \in Seq(Requests)
    BY <2>1 DEF Sockets
  <2> QED BY <1>1, <2>2
<1>6. k \in 0..(N - 1)
  BY <1>1, <1>5 DEF Requests
<1>7. ~p.excused /\ ~p.sb.init => Ready(p)
  <2>1. Unasked(p)
    <3>1. \A j \in 1..(1 - 1) : ~Asks(p.socks[s].net[j])
      OBVIOUS
    <3> QED BY <1>1, <1>5, <3>1 DEF Unasked
  <2> QED BY <1>4, <2>1 DEF Almost, Order
<1> HIDE DEF k
<1>8. /\ DOMAIN q = Fields /\ q = [x \in Fields |-> q[x]]
      /\ Same(a, q, {"nextSegment", "requesting"}) /\ q.nextSegment = k + 1
      /\ q.requesting = FALSE
  BY <1>3 DEF Fields, Same
<1> HIDE DEF q
<1>9. /\ Same(p, q, Inner \cup {"socks", "lost"}) /\ q.socks = a.socks /\ q.tasks = p.tasks
      /\ Same(p, q, {"nextSegment", "requesting", "socks"})
  BY <1>3, <1>8 DEF Same, Fields, Inner
<1>10. Shape(q)
  BY <1>4, <1>8, <1>9 DEF Shape, Same, Fields
<1>11. Numbers(q)
  <2>1. q.nextSegment \in 0..N
    BY <1>6, <1>8, Bounds
  <2>2. /\ q.t = p.t /\ q.retryCount = p.retryCount /\ q.desired = p.desired
        /\ q.reconnectAttempts = p.reconnectAttempts /\ q.seekTarget = p.seekTarget
    BY <1>9 DEF Same, Fields
  <2> QED BY <1>4, <2>1, <2>2 DEF Numbers
<1>12. ~Asks(Head(p.socks[s].net))
  BY <1>1 DEF Asks
<1>13. Sound(q)
  <2>1. q.socks = [p.socks EXCEPT ![s].net = Tail(@)] /\ q.lost = p.lost
    BY <1>3, <1>9 DEF Same, Fields
  <2> QED BY <1>1, <1>8, <1>9, <1>10, <1>11, <1>12, <2>1, TakenSound
<1>14. ~q.excused /\ ~q.sb.init => Ready(q)
  <2>1. q.excused = p.excused /\ q.sb = p.sb /\ q.ms = p.ms
    BY <1>9 DEF Same, Fields
  <2> QED BY <1>7, <2>1 DEF Ready, Exists
<1>15. <<"SEGM", k>> \in Segments
  BY <1>6 DEF Segments
<1>16. Sound(appendSegment(q, <<"SEGM", k>>))
  <2> DEFINE x == <<"SEGM", k>>
  <2>1. x \in Segments
    BY <1>15
  <2> HIDE DEF x
  <2>2. Sound(appendSegment(q, x))
    BY <1>13, <1>14, <2>1, AppendSegmentSound DEF Sound
  <2> QED BY <2>2 DEF x
<1> QED BY <1>2, <1>16

\* INIT is being appended, or nothing can be: that is all the order asks for.
LEMMA ReadySound ==
  ASSUME NEW r, Typed(r), Served(r), Media(r), Whole(r),
         ~r.excused /\ ~r.sb.init => Ready(r) /\ r.sb.op[1] # "SEGM" /\ ~r.pendingInit
  PROVE  Sound(r)
<1>1. Ready(r) => Exists(r)
  BY DEF Ready
<1>2. Order(r) /\ Coming(r)
  BY <1>1 DEF Order, Coming
<1> QED BY <1>2 DEF Sound, Almost

\* What the arrival of INIT changes on its connection.
LEMMA InfoEffect ==
  ASSUME Sound(p), NEW s \in 1..Len(p.socks), NEW c,
         c = [p EXCEPT !.socks[s].net[1] = <<"ws_info">>]
  PROVE  /\ DOMAIN c = Fields /\ c = [x \in Fields |-> c[x]]
         /\ c.socks = [p.socks EXCEPT ![s].net[1] = <<"ws_info">>]
         /\ Same(p, c, {"socks"})
<1> DEFINE n == [p.socks EXCEPT ![s].net[1] = <<"ws_info">>]
<1>1. c = [p EXCEPT !.socks = n]
  BY Zenon
<1>2. DOMAIN p = Fields /\ p = [x \in Fields |-> p[x]]
  BY DEF Sound, Almost, Typed, Shape
<1> HIDE DEF n
<1>3. /\ DOMAIN c = Fields /\ c = [x \in Fields |-> c[x]]
      /\ c.socks = n /\ Same(p, c, {"socks"})
  BY <1>1, <1>2 DEF Fields, Same
<1> QED BY <1>3 DEF n

\* INIT comes: it is appended before anything else, or it waits for the SourceBuffer,
\* and then no segment is under way.
LEMMA OnInitSound ==
  ASSUME Sound(p), NEW s \in 1..Len(p.socks), OnInit(s)
  PROVE  Sound(p')
<1> DEFINE c == [p EXCEPT !.socks[s].net[1] = <<"ws_info">>]
           a == appendSegment(c, <<"INIT">>)
           q == IF isSourceBufferValid(c) THEN [a EXCEPT !.pendingInit = FALSE]
                ELSE [c EXCEPT !.pendingInit = TRUE]
           r == [q EXCEPT !.requesting = FALSE]
<1>1. p.socks[s].net # <<>> /\ Head(p.socks[s].net)[1] = "ws_init"
  BY DEF OnInit, Arrives
<1>2. p' = requestSegment(r)
  BY Zenon DEF OnInit
<1>3. /\ DOMAIN c = Fields /\ c = [x \in Fields |-> c[x]]
      /\ c.socks = [p.socks EXCEPT ![s].net[1] = <<"ws_info">>]
      /\ Same(p, c, {"socks"})
  BY InfoEffect
<1> HIDE DEF c
<1>4. /\ Typed(p) /\ Shape(p) /\ Numbers(p) /\ Buffered(p) /\ Almost(p) /\ Media(p)
      /\ Order(p) /\ Whole(p) /\ Served(p)
  BY DEF Sound, Almost, Typed
<1>5. /\ c.sock = p.sock /\ c.sb = p.sb /\ c.ms = p.ms /\ c.tasks = p.tasks
      /\ c.queue = p.queue /\ c.appending = p.appending /\ c.requesting = p.requesting
      /\ c.pendingInit = p.pendingInit /\ c.excused = p.excused /\ c.lost = p.lost
      /\ c.broken = p.broken /\ c.pending = p.pending
  BY <1>3 DEF Same, Fields
<1>6. Network(c) /\ (UnderWay(c) <=> UnderWay(p))
  BY <1>1, <1>3, <1>4, <1>5, InfoNet
<1>7. Shape(c) /\ Numbers(c) /\ Buffered(c)
  BY <1>3, <1>4 DEF Shape, Numbers, Buffered, Same, Fields
<1>8. /\ Exists(c) <=> Exists(p)
      /\ Ready(c) <=> Ready(p)
      /\ isSourceBufferValid(c) <=> isSourceBufferValid(p)
      /\ SegmentKept(c) <=> SegmentKept(p)
  BY <1>5 DEF Exists, Ready, isSourceBufferValid, SegmentKept
<1>9. Typed(c) /\ Served(c) /\ Media(c) /\ Whole(c)
  BY <1>4, <1>5, <1>6, <1>7, <1>8 DEF Typed, Served, Media, Whole
<1>10. Sound(q)
  <2>1. CASE ~isSourceBufferValid(c)
    <3>1. q = [c EXCEPT !.pendingInit = TRUE]
      BY <2>1
    <3> HIDE DEF q
    <3>2. /\ DOMAIN q = Fields /\ q = [x \in Fields |-> q[x]]
          /\ Same(c, q, {"pendingInit"}) /\ q.pendingInit = TRUE
      BY <1>3, <3>1 DEF Fields, Same
    <3>3. /\ q.socks = c.socks /\ q.sock = c.sock /\ q.sb = c.sb /\ q.ms = c.ms
          /\ q.tasks = c.tasks /\ q.queue = c.queue /\ q.appending = c.appending
          /\ q.requesting = c.requesting /\ q.excused = c.excused /\ q.lost = c.lost
          /\ q.broken = c.broken /\ q.pending = c.pending
      BY <3>2 DEF Same, Fields
    <3>4. Shape(q) /\ Numbers(q) /\ Buffered(q)
      BY <1>7, <3>2 DEF Shape, Numbers, Buffered, Same, Fields
    <3>5. Network(q) /\ (UnderWay(q) <=> UnderWay(c)) /\ (SegmentKept(q) <=> SegmentKept(c))
      BY <1>6, <3>3, SameNet
    <3>6. /\ Exists(q) <=> Exists(c)
          /\ Ready(q) <=> Ready(c)
          /\ ~isSourceBufferValid(q)
      BY <2>1, <3>3 DEF Exists, Ready, isSourceBufferValid
    <3>7. Served(q) /\ Media(q) /\ Whole(q)
      BY <1>9, <3>3, <3>5, <3>6 DEF Served, Media, Whole
    <3>8. Unasked(q) => UnderWay(q)
      BY DEF Unasked, UnderWay
    <3>9. Exists(q) => Ready(q)
      BY <3>6 DEF Ready, isSourceBufferValid
    <3>10. Order(q)
      BY <1>4, <1>5, <1>6, <1>8, <3>3, <3>5, <3>6, <3>8, <3>9 DEF Order
    <3>11. Coming(q)
      BY <3>2 DEF Coming
    <3> QED BY <3>4, <3>5, <3>7, <3>10, <3>11 DEF Sound, Almost, Typed
  <2>2. CASE isSourceBufferValid(c)
    <3>1. q = [a EXCEPT !.pendingInit = FALSE]
      BY <2>2
    <3>2. Exists(c) /\ c.ms = "open"
      BY <2>2 DEF isSourceBufferValid
    <3>3. /\ Typed(a) /\ Served(a) /\ Media(a) /\ Whole(a)
          /\ ~a.excused /\ ~a.sb.init => Ready(a) /\ a.sb.op[1] # "SEGM"
      <4>1. CASE p.excused \/ p.sb.init \/ Ready(p)
        <5>1. Order(c)
          BY <1>4, <1>5, <1>6, <1>8, <4>1 DEF Order
        <5>2. Almost(c)
          BY <1>9, <5>1 DEF Almost
        <5>3. <<"INIT">> \in Segments
          BY DEF Segments
        <5>4. /\ Almost(a) /\ Same(c, a, Appended) /\ a.sb.init = c.sb.init
              /\ Exists(c) /\ ~c.excused /\ ~c.sb.init => Ready(a)
          BY <5>2, <5>3, AppendSegmentSound
        <5> HIDE DEF a
        <5>5. a.excused = c.excused
          BY <5>4 DEF Same, Fields, Appended
        <5>6. ~a.excused /\ ~a.sb.init => a.sb.op[1] # "SEGM"
          BY <5>4 DEF Almost, Order
        <5> QED BY <3>2, <5>4, <5>5, <5>6 DEF Almost
      <4>2. CASE ~p.excused /\ ~p.sb.init /\ ~Ready(p)
        <5>1. c.sb.op \in Operations
          BY <1>7 DEF Buffered, Buffers
        <5>2. c.sb.op[1] = "none" /\ c.queue = <<>> /\ ~c.appending
          BY <1>4, <1>5, <1>8, <3>2, <4>2, <5>1, OperationKinds DEF Order, Media, Ready
        <5>3. c.sb.op = <<"none">>
          BY <5>1, <5>2, OperationKinds
        <5>4. /\ Shape(a) /\ Numbers(a) /\ Buffered(a)
              /\ Same(c, a, {"appending", "queue", "sb", "retryCount"})
              /\ a.sb.op = <<"INIT">> /\ a.sb.has = c.sb.has /\ a.sb.init = c.sb.init
          BY <1>9, <3>2, <5>2, <5>3, AppendInitEffect
        <5> HIDE DEF a
        <5>5. /\ a.socks = c.socks /\ a.sock = c.sock /\ a.pending = c.pending
              /\ a.ms = c.ms /\ a.tasks = c.tasks /\ a.requesting = c.requesting
              /\ a.lost = c.lost /\ a.broken = c.broken /\ a.excused = c.excused
          BY <5>4 DEF Same, Fields
        <5>6. Network(a) /\ (UnderWay(a) <=> UnderWay(c))
          BY <1>6, <5>5, SameNet
        <5>7. Exists(a) /\ Ready(a) /\ a.sb.op[1] = "INIT"
          BY <5>4 DEF Exists, Ready
        <5>8. Served(a) /\ Media(a) /\ Whole(a)
          BY <1>9, <3>2, <5>4, <5>5, <5>6, <5>7 DEF Served, Media, Whole
        <5> QED BY <5>4, <5>6, <5>7, <5>8 DEF Typed
      <4> QED BY <4>1, <4>2
    <3> HIDE DEF a, q
    <3>4. Shape(a) /\ Numbers(a) /\ Buffered(a) /\ Network(a)
      BY <3>3 DEF Typed
    <3>5. /\ DOMAIN q = Fields /\ q = [x \in Fields |-> q[x]]
          /\ Same(a, q, {"pendingInit"}) /\ q.pendingInit = FALSE
      BY <3>1, <3>4 DEF Shape, Fields, Same
    <3>6. /\ q.socks = a.socks /\ q.sock = a.sock /\ q.sb = a.sb /\ q.ms = a.ms
          /\ q.tasks = a.tasks /\ q.queue = a.queue /\ q.appending = a.appending
          /\ q.requesting = a.requesting /\ q.excused = a.excused /\ q.lost = a.lost
          /\ q.broken = a.broken /\ q.pending = a.pending
      BY <3>5 DEF Same, Fields
    <3>7. Shape(q) /\ Numbers(q) /\ Buffered(q)
      BY <3>4, <3>5 DEF Shape, Numbers, Buffered, Same, Fields
    <3>8. Network(q) /\ (UnderWay(q) <=> UnderWay(a))
      BY <3>4, <3>6, SameNet
    <3>9. Served(q) /\ Media(q) /\ Whole(q)
      BY <3>3, <3>6, <3>8 DEF Served, Media, Whole, Exists
    <3>10. Ready(q) <=> Ready(a)
      BY <3>6 DEF Ready, Exists
    <3>11. Typed(q)
      BY <3>7, <3>8 DEF Typed
    <3> QED BY <3>3, <3>5, <3>6, <3>9, <3>10, <3>11, ReadySound
  <2> QED BY <2>1, <2>2
<1> HIDE DEF q
<1>11. Sound(r)
  <2>1. Shape(q) /\ Numbers(q)
    BY <1>10 DEF Sound, Almost, Typed
  <2>2. /\ DOMAIN r = Fields /\ r = [x \in Fields |-> r[x]]
        /\ Same(q, r, {"requesting"}) /\ r.requesting = FALSE
    BY <2>1 DEF Shape, Fields, Same
  <2> HIDE DEF r
  <2>3. Shape(r) /\ Numbers(r) /\ Same(q, r, Inner) /\ r.tasks = q.tasks
    BY <2>1, <2>2 DEF Shape, Numbers, Same, Fields, Inner
  <2> QED BY <1>10, <2>2, <2>3, InnerSound DEF Sound
<1> HIDE DEF r
<1> QED BY <1>2, <1>11, RequestSound

-----------------------------------------------------------------------------
(* Timers, media events, the video and the user.                           *)

\* A timer may be set and an event may be announced, other than sourceopen.
LEMMA TaskSound ==
  ASSUME NEW q, Sound(q), NEW T, <<"sourceopen">> \notin T, NEW r,
         r = [q EXCEPT !.tasks = @ \cup T]
  PROVE  Sound(r)
<1>1. Shape(q) /\ Numbers(q) /\ Almost(q) /\ Coming(q)
  BY DEF Sound, Almost, Typed
<1>2. /\ DOMAIN r = Fields /\ r = [y \in Fields |-> r[y]]
      /\ Same(q, r, {"tasks"}) /\ r.tasks = q.tasks \cup T
  BY <1>1 DEF Shape, Fields, Same
<1>3. Shape(r) /\ Numbers(r) /\ Same(q, r, Inner) /\ r.requesting = q.requesting
  BY <1>1, <1>2 DEF Shape, Numbers, Same, Fields, Inner
<1>4. /\ <<"sourceopen">> \in r.tasks => <<"sourceopen">> \in q.tasks
      /\ <<"full">> \in q.tasks => <<"full">> \in r.tasks
  BY <1>2
<1> QED BY <1>1, <1>3, <1>4, InnerSound DEF Sound

\* The user pauses the video, or it plays.
LEMMA PausedSound ==
  ASSUME NEW q, Sound(q), NEW b, NEW r, r = [q EXCEPT !.userPaused = b]
  PROVE  Sound(r)
<1>1. Shape(q) /\ Numbers(q) /\ Almost(q) /\ Coming(q)
  BY DEF Sound, Almost, Typed
<1>2. /\ DOMAIN r = Fields /\ r = [y \in Fields |-> r[y]] /\ Same(q, r, {"userPaused"})
  BY <1>1 DEF Shape, Fields, Same
<1>3. /\ Shape(r) /\ Numbers(r) /\ Same(q, r, Inner)
      /\ r.tasks = q.tasks /\ r.requesting = q.requesting
  BY <1>1, <1>2 DEF Shape, Numbers, Same, Fields, Inner
<1> QED BY <1>1, <1>3, InnerSound DEF Sound

\* The timer set by onclose.
LEMMA ReconnectSound ==
  ASSUME Sound(p), Reconnect
  PROVE  Sound(p')
<1> DEFINE q == Done(<<"reconnect">>)
           fresh == IF p.ms \in {"closed", "ended"}
                    THEN setupMediaSource(resetMediaSource(q)) ELSE q
           c == connectWebSocket(fresh)
           T == {<<"resume", p.t>>}
<1>1. p' = q \/ p' = [c EXCEPT !.tasks = @ \cup T]
  BY Zenon DEF Reconnect
<1>2. Sound(q)
  <2>1. <<"reconnect">> # <<"full">>
    OBVIOUS
  <2> QED BY <2>1, DoneSound DEF Done
<1> HIDE DEF q
<1>3. Almost(fresh)
  <2>1. Typed(q) /\ Whole(q) /\ Almost(q)
    BY <1>2 DEF Sound, Almost
  <2> QED BY <2>1, FreshSound
<1> HIDE DEF fresh
<1>4. Sound(c)
  BY <1>3, ConnectSound
<1>5. <<"sourceopen">> \notin T
  OBVIOUS
<1> HIDE DEF c, T
<1> QED BY <1>1, <1>2, <1>4, <1>5, TaskSound

\* The timer set there.
LEMMA ResumeSound ==
  ASSUME Sound(p), NEW time \in 0..(N - 1), Resume(time)
  PROVE  Sound(p')
<1> DEFINE q == Done(<<"resume", time>>)
           next == IF time > 0 THEN findSegmentForTime(time) ELSE q.nextSegment
           r == [q EXCEPT !.pendingInit = FALSE, !.nextSegment = next]
<1>1. p' = q \/ p' = send(r, <<"ws_init">>)
  BY Zenon DEF Resume
<1>2. Sound(q)
  <2>1. <<"resume", time>> # <<"full">>
    OBVIOUS
  <2> QED BY <2>1, DoneSound DEF Done
<1> HIDE DEF q
<1>3. /\ Shape(q) /\ Network(q) /\ Numbers(q) /\ Buffered(q) /\ Almost(q) /\ Media(q)
      /\ Order(q) /\ Whole(q) /\ Served(q)
  BY <1>2 DEF Sound, Almost, Typed
<1>4. next \in 0..N
  <2>1. q.nextSegment \in 0..N
    BY <1>3 DEF Numbers
  <2>2. findSegmentForTime(time) \in 0..(N - 1)
    BY FindSegment
  <2> QED BY <2>1, <2>2, Bounds
<1> HIDE DEF next
<1>5. /\ DOMAIN r = Fields /\ r = [x \in Fields |-> r[x]]
      /\ Same(q, r, {"pendingInit", "nextSegment"}) /\ r.pendingInit = FALSE
      /\ r.nextSegment = next
  BY <1>3 DEF Shape, Fields, Same
<1> HIDE DEF r
<1>6. /\ r.socks = q.socks /\ r.sock = q.sock /\ r.sb = q.sb /\ r.ms = q.ms
      /\ r.tasks = q.tasks /\ r.queue = q.queue /\ r.appending = q.appending
      /\ r.requesting = q.requesting /\ r.excused = q.excused /\ r.lost = q.lost
      /\ r.broken = q.broken /\ r.pending = q.pending
  BY <1>5 DEF Same, Fields
<1>7. Shape(r) /\ Buffered(r)
  BY <1>3, <1>5, <1>6 DEF Shape, Buffered
<1>8. Numbers(r)
  <2>1. /\ r.t = q.t /\ r.retryCount = q.retryCount /\ r.desired = q.desired
        /\ r.reconnectAttempts = q.reconnectAttempts /\ r.seekTarget = q.seekTarget
    BY <1>5 DEF Same, Fields
  <2> QED BY <1>3, <1>4, <1>5, <2>1 DEF Numbers
<1>9. /\ Network(r) /\ (UnderWay(r) <=> UnderWay(q)) /\ (Unasked(r) <=> Unasked(q))
      /\ (SegmentKept(r) <=> SegmentKept(q))
  BY <1>3, <1>6, SameNet
<1>10. Served(r) /\ Media(r) /\ Whole(r)
  BY <1>3, <1>6, <1>9 DEF Served, Media, Whole, Exists
<1>11. Order(r)
  BY <1>3, <1>5, <1>6, <1>9 DEF Order, Exists, Ready
<1>12. Almost(r)
  BY <1>7, <1>8, <1>9, <1>10, <1>11 DEF Almost, Typed
<1>13. <<"ws_init">> \in Requests /\ Asks(<<"ws_init">>)
  BY DEF Requests, Asks
<1>14. Sound(send(r, <<"ws_init">>))
  BY <1>12, <1>13, SendSound
<1> QED BY <1>1, <1>2, <1>14

\* The MediaSource is open: for the first time, or again after INIT.
LEMMA SourceopenSound ==
  ASSUME Sound(p), sourceopen
  PROVE  Sound(p')
<1> DEFINE d == Done(<<"sourceopen">>)
           q == [d EXCEPT !.ms = "open"]
<1>1. <<"sourceopen">> \in p.tasks
  BY DEF sourceopen, Due
<1>2. p' = q \/ p' = createSourceBuffer(q)
  BY Zenon DEF sourceopen
<1>3. Sound(d) /\ Same(p, d, {"tasks"}) /\ d.tasks = p.tasks \ {<<"sourceopen">>}
  <2>1. <<"sourceopen">> # <<"full">>
    OBVIOUS
  <2>2. d = [p EXCEPT !.tasks = @ \ {<<"sourceopen">>}]
    BY DEF Done
  <2> HIDE DEF d
  <2> QED BY <2>1, <2>2, DoneSound
<1> HIDE DEF d
<1>4. /\ Shape(d) /\ Numbers(d) /\ Buffered(d) /\ Almost(d) /\ Coming(d) /\ Media(d)
      /\ Order(d)
  BY <1>3 DEF Sound, Almost, Typed
<1>5. d.sb.init \/ ~Exists(d)
  <2>1. Media(p) /\ d.sb = p.sb
    BY <1>3 DEF Sound, Almost, Same, Fields
  <2> QED BY <1>1, <2>1 DEF Media, Exists
<1>6. /\ DOMAIN q = Fields /\ q = [x \in Fields |-> q[x]]
      /\ Same(d, q, {"ms"}) /\ q.ms = "open"
  BY <1>4 DEF Shape, Fields, Same
<1> HIDE DEF q
<1>7. /\ q.sb = d.sb /\ q.tasks = d.tasks /\ q.queue = d.queue /\ q.appending = d.appending
      /\ q.requesting = d.requesting /\ q.pendingInit = d.pendingInit
  BY <1>6 DEF Same, Fields
<1>8. (Exists(q) <=> Exists(d)) /\ (isSourceBufferValid(q) => Exists(q)) /\ (Ready(d) => Exists(d))
  BY <1>7 DEF Exists, isSourceBufferValid, Ready
<1>9. Shape(q) /\ Numbers(q) /\ Buffered(q)
  BY <1>4, <1>6 DEF Shape, Numbers, Buffered, Same, Fields
<1>10. <<"sourceopen">> \notin q.tasks
  BY <1>3, <1>7
<1>11. Media(q)
  BY <1>4, <1>6, <1>7, <1>8, <1>10 DEF Media
<1>12. Same(d, q, Inner \cup {"sb", "ms", "queue", "appending", "pendingInit"})
  BY <1>6 DEF Same
<1>13. ~d.excused /\ ~q.sb.init =>
         /\ ~Exists(d) /\ ~Exists(q) /\ q.sb.op[1] # "SEGM"
         /\ q.queue = <<>> /\ ~q.appending
  BY <1>4, <1>5, <1>7, <1>8 DEF Order, Media
<1>14. Sound(q)
  BY <1>4, <1>7, <1>8, <1>9, <1>11, <1>12, <1>13, BufferSound DEF Sound
<1> QED BY <1>2, <1>14, CreateSound

\* The other timers.
LEMMA TimersSound ==
  ASSUME Sound(p), RequestTimer \/ FullTimer \/ AppendTimer \/ EndTimer
  PROVE  Sound(p')
<1>1. CASE RequestTimer
  <2> DEFINE q == Done(<<"request">>)
  <2>1. p' = requestSegment(q)
    BY <1>1 DEF RequestTimer
  <2>2. <<"request">> # <<"full">>
    OBVIOUS
  <2>3. Sound(q)
    BY <2>2, DoneSound DEF Done
  <2> QED BY <2>1, <2>3, RequestSound
<1>2. CASE FullTimer
  <2> DEFINE q == [Done(<<"full">>) EXCEPT !.requesting = FALSE]
  <2>1. p' = requestSegment(q)
    BY <1>2 DEF FullTimer
  <2>2. Shape(p) /\ Numbers(p) /\ Almost(p) /\ Coming(p)
    BY DEF Sound, Almost, Typed
  <2>3. /\ DOMAIN q = Fields /\ q = [x \in Fields |-> q[x]]
        /\ Same(p, q, {"tasks", "requesting"}) /\ q.requesting = FALSE
        /\ q.tasks = p.tasks \ {<<"full">>}
    BY <2>2 DEF Done, Shape, Fields, Same
  <2> HIDE DEF q
  <2>4. Shape(q) /\ Numbers(q) /\ Same(p, q, Inner)
    BY <2>2, <2>3 DEF Shape, Numbers, Same, Fields, Inner
  <2>5. <<"sourceopen">> \in q.tasks => <<"sourceopen">> \in p.tasks
    BY <2>3
  <2>6. Sound(q)
    BY <2>2, <2>3, <2>4, <2>5, InnerSound DEF Sound
  <2> QED BY <2>1, <2>6, RequestSound
<1>3. CASE AppendTimer
  <2> DEFINE q == Done(<<"append">>)
  <2>1. p' = appendNext(q)
    BY <1>3 DEF AppendTimer
  <2>2. <<"append">> # <<"full">>
    OBVIOUS
  <2>3. Sound(q)
    BY <2>2, DoneSound DEF Done
  <2> HIDE DEF q
  <2> QED BY <2>1, <2>3, AppendNextSound DEF Sound
<1>4. CASE EndTimer
  <2> DEFINE q == Done(<<"end">>)
  <2>1. p' = checkAndEnd(q)
    BY <1>4 DEF EndTimer
  <2>2. <<"end">> # <<"full">>
    OBVIOUS
  <2>3. Sound(q)
    BY <2>2, DoneSound DEF Done
  <2> QED BY <2>1, <2>3, CheckAndEndSound
<1> QED BY <1>1, <1>2, <1>3, <1>4

\* The end of an operation, with the listeners that follow.
LEMMA UpdateendSound ==
  ASSUME Sound(p), updateend
  PROVE  Sound(p')
<1>1. PICK paused \in BOOLEAN :
        /\ Updating(p)
        /\ \/ p' = send(AfterUpdate(Finished(p), paused), <<"ws_init">>)
           \/ p' = appendNext([AfterUpdate(Finished(p), paused) EXCEPT !.cleaning = FALSE])
           \/ p' = AfterUpdate(Finished(p), paused)
  BY Zenon DEF updateend
<1> DEFINE q == AfterUpdate(Finished(p), paused)
           r == [q EXCEPT !.cleaning = FALSE]
<1>2. Sound(q)
  BY <1>1, FinishedSound, AfterUpdateSound
<1>3. p' = send(q, <<"ws_init">>) \/ p' = appendNext(r) \/ p' = q
  BY <1>1
<1> HIDE DEF q
<1>4. Sound(send(q, <<"ws_init">>))
  <2>1. <<"ws_init">> \in Requests /\ Asks(<<"ws_init">>)
    BY DEF Requests, Asks
  <2> QED BY <1>2, <2>1, SendSound DEF Sound
<1>5. Shape(q) /\ Numbers(q) /\ Almost(q) /\ Coming(q)
  BY <1>2 DEF Sound, Almost, Typed
<1>6. /\ DOMAIN r = Fields /\ r = [x \in Fields |-> r[x]] /\ Same(q, r, {"cleaning"})
  BY <1>5 DEF Shape, Fields, Same
<1> HIDE DEF r
<1>7. /\ Shape(r) /\ Numbers(r) /\ Same(q, r, Inner)
      /\ r.tasks = q.tasks /\ r.requesting = q.requesting
  BY <1>5, <1>6 DEF Shape, Numbers, Same, Fields, Inner
<1>8. Almost(r) /\ Coming(r)
  BY <1>5, <1>7, InnerSound
<1>9. Sound(appendNext(r))
  BY <1>8, AppendNextSound DEF Sound
<1> QED BY <1>2, <1>3, <1>4, <1>9

\* Seeking, and the timer that looks again.
LEMMA SeekingSound ==
  ASSUME Sound(p), onseeking
  PROVE  Sound(p')
<1> DEFINE d == Done(<<"seeking">>)
           q == [d EXCEPT !.userPaused = FALSE, !.seekTarget = p.t]
           z == [q EXCEPT !.seekTarget = 0]
           S == {<<"seeked">>}
           C == {<<"seeked">>, <<"check", p.t>>}
<1>1. PICK ready \in BOOLEAN, fails \in BOOLEAN :
        \/ p' = reloadFromSegment(q, p.t, fails)
        \/ p' = [q EXCEPT !.seekTarget = 0, !.tasks = @ \cup S]
        \/ p' = [q EXCEPT !.tasks = @ \cup C]
  BY Zenon DEF onseeking
<1>2. p.t \in 0..(N - 1) /\ 0 \in 0..(N - 1)
  BY Bounds DEF Sound, Almost, Typed, Numbers
<1>3. Sound(d)
  <2>1. <<"seeking">> # <<"full">>
    OBVIOUS
  <2> QED BY <2>1, DoneSound DEF Done
<1> HIDE DEF d
<1>4. Sound(q)
  <2> DEFINE u == [d EXCEPT !.userPaused = FALSE]
  <2>1. Sound(u)
    BY <1>3, PausedSound
  <2>2. q = [u EXCEPT !.seekTarget = p.t]
    <3>1. Shape(d)
      BY <1>3 DEF Sound, Almost, Typed
    <3> QED BY <3>1 DEF Shape, Fields
  <2> HIDE DEF u, q
  <2> QED BY <1>2, <2>1, <2>2, SeekTargetSound
<1> HIDE DEF q
<1>5. Sound(z)
  BY <1>2, <1>4, SeekTargetSound
<1>6. [q EXCEPT !.seekTarget = 0, !.tasks = @ \cup S] = [z EXCEPT !.tasks = @ \cup S]
  <2>1. Shape(q)
    BY <1>4 DEF Sound, Almost, Typed
  <2> QED BY <2>1 DEF Shape, Fields
<1>7. <<"sourceopen">> \notin S /\ <<"sourceopen">> \notin C
  OBVIOUS
<1> HIDE DEF z, S, C
<1>8. Sound([z EXCEPT !.tasks = @ \cup S]) /\ Sound([q EXCEPT !.tasks = @ \cup C])
  BY <1>4, <1>5, <1>7, TaskSound
<1>9. Sound(reloadFromSegment(q, p.t, fails))
  BY <1>2, <1>4, ReloadSound
<1> QED BY <1>1, <1>6, <1>8, <1>9

\* The timer that loads again what is still not playable.
LEMMA CheckTimerSound ==
  ASSUME Sound(p), NEW time \in 0..(N - 1), CheckTimer(time)
  PROVE  Sound(p')
<1> DEFINE q == Done(<<"check", time>>)
<1>1. p' = q \/ p' = reloadFromSegment(q, time, FALSE)
  BY Zenon DEF CheckTimer
<1>2. <<"check", time>> # <<"full">>
  OBVIOUS
<1>3. Sound(q)
  BY <1>2, DoneSound DEF Done
<1> HIDE DEF q
<1> QED BY <1>1, <1>3, ReloadSound

\* The seek has ended.
LEMMA SeekedSound ==
  ASSUME Sound(p), onseeked
  PROVE  Sound(p')
<1> DEFINE q == Done(<<"seeked">>)
           z == [q EXCEPT !.seekTarget = 0]
<1>1. p' = q \/ p' = Jump(z, q.seekTarget) \/ p' = z
  BY Zenon DEF onseeked
<1>2. <<"seeked">> # <<"full">>
  OBVIOUS
<1>3. Sound(q)
  BY <1>2, DoneSound DEF Done
<1> HIDE DEF q
<1>4. q.seekTarget \in 0..(N - 1) /\ 0 \in 0..(N - 1)
  BY <1>3, Bounds DEF Sound, Almost, Typed, Numbers
<1>5. Sound(z)
  BY <1>3, <1>4, SeekTargetSound
<1> HIDE DEF z
<1> QED BY <1>1, <1>3, <1>4, <1>5, JumpSound

\* Playback has run out of data.
LEMMA WaitingSound ==
  ASSUME Sound(p), onwaiting
  PROVE  Sound(p')
<1> DEFINE q == Done(<<"waiting">>)
           later == {k \in q.sb.has : k > q.t}
           r == IF q.t \notin q.sb.has /\ later # {} THEN Jump(q, Min(later)) ELSE q
<1>1. p' = requestSegment(r) \/ p' = r
  BY Zenon DEF onwaiting
<1>2. <<"waiting">> # <<"full">>
  OBVIOUS
<1>3. Sound(q)
  BY <1>2, DoneSound DEF Done
<1> HIDE DEF q
<1>4. later # {} => Min(later) \in 0..(N - 1)
  <2>1. q.sb \in Buffers
    BY <1>3 DEF Sound, Almost, Typed, Buffered
  <2>2. q.sb.has \subseteq 0..(N - 1)
    BY <2>1 DEF Buffers
  <2>3. later \subseteq 0..(N - 1) /\ later \subseteq Nat
    BY <2>2
  <2> HIDE DEF later
  <2>4. later # {} => Min(later) \in later
    BY <2>3, MinExists
  <2> QED BY <2>3, <2>4
<1> HIDE DEF later
<1>5. Sound(r)
  BY <1>3, <1>4, JumpSound
<1> HIDE DEF r
<1> QED BY <1>1, <1>5, RequestSound

\* The intervals, the video and the user.
LEMMA UserSound ==
  ASSUME Sound(p),
         \/ Cleanup \/ SaveTimer \/ Play \/ OnEnded \/ onpause \/ onplaying
         \/ \E x \in Targets : Seek(x)
  PROVE  Sound(p')
<1>1. CASE Cleanup
  <2>1. p' = cleanupBuffer(p)
    BY <1>1 DEF Cleanup
  <2> QED BY <2>1, CleanupSound DEF Sound
<1>2. CASE SaveTimer
  BY <1>2, SaveSound DEF SaveTimer
<1>3. CASE Play
  <2> DEFINE r == p'
  <2>1. /\ p.t + 1 < N
        /\ r = [p EXCEPT !.t = @ + 1,
                  !.tasks = IF p.t + 1 \in p.sb.has THEN @ ELSE @ \cup {<<"waiting">>}]
    BY <1>3 DEF Play
  <2>2. Shape(p) /\ Numbers(p) /\ Almost(p) /\ Coming(p)
    BY DEF Sound, Almost, Typed
  <2> HIDE DEF r
  <2>3. /\ DOMAIN r = Fields /\ r = [x \in Fields |-> r[x]]
        /\ Same(p, r, {"t", "tasks"}) /\ r.t = p.t + 1
        /\ r.tasks = p.tasks \/ r.tasks = p.tasks \cup {<<"waiting">>}
    BY <2>1, <2>2 DEF Shape, Fields, Same
  <2>4. Shape(r) /\ Same(p, r, Inner) /\ r.requesting = p.requesting
    BY <2>2, <2>3 DEF Shape, Same, Fields, Inner
  <2>5. Numbers(r)
    <3>1. p.t \in 0..(N - 1)
      BY <2>2 DEF Numbers
    <3>2. r.t \in 0..(N - 1)
      BY <2>1, <2>3, <3>1, Bounds
    <3>3. /\ r.nextSegment = p.nextSegment /\ r.retryCount = p.retryCount
          /\ r.desired = p.desired /\ r.reconnectAttempts = p.reconnectAttempts
          /\ r.seekTarget = p.seekTarget
      BY <2>3 DEF Same, Fields
    <3> QED BY <2>2, <3>2, <3>3 DEF Numbers
  <2>6. /\ <<"sourceopen">> \in r.tasks => <<"sourceopen">> \in p.tasks
        /\ <<"full">> \in r.tasks <=> <<"full">> \in p.tasks
    BY <2>3
  <2>7. Sound(r)
    BY <2>2, <2>4, <2>5, <2>6, InnerSound DEF Sound
  <2> QED BY <2>7 DEF r
<1>4. CASE OnEnded
  <2> DEFINE q == [p EXCEPT !.userPaused = TRUE]
  <2>1. p' = saveProgress(q)
    BY <1>4 DEF OnEnded
  <2>2. Sound(q)
    BY PausedSound
  <2> QED BY <2>1, <2>2, SaveSound
<1>5. CASE onpause
  <2> DEFINE q == [p EXCEPT !.userPaused = TRUE]
  <2>1. p' = q
    BY <1>5 DEF onpause
  <2>2. Sound(q)
    BY PausedSound
  <2> QED BY <2>1, <2>2
<1>6. CASE onplaying
  <2> DEFINE q == [p EXCEPT !.userPaused = FALSE]
  <2>1. p' = q
    BY <1>6 DEF onplaying
  <2>2. Sound(q)
    BY PausedSound
  <2> QED BY <2>1, <2>2
<1>7. CASE \E x \in Targets : Seek(x)
  <2>1. PICK x \in Targets : p' = Jump(p, x)
    BY <1>7 DEF Seek
  <2>2. x \in 0..(N - 1)
    BY PlayerAssumption
  <2> QED BY <2>1, <2>2, JumpSound
<1> QED BY <1>1, <1>2, <1>3, <1>4, <1>5, <1>6, <1>7

-----------------------------------------------------------------------------
(* The theorems.                                                           *)

\* A sequence of one element.
LEMMA OneElement ==
  ASSUME NEW S, NEW y \in S
  PROVE  <<y>> \in Seq(S) /\ Len(<<y>>) = 1 /\ <<y>>[1] = y
  OBVIOUS

\* The page that is loaded satisfies the invariant: nothing is there yet.
LEMMA InitSound == Init => Sound(p)
<1> SUFFICES ASSUME Init PROVE Sound(p)
  OBVIOUS
<1>1. /\ DOMAIN p = Fields /\ p = [x \in Fields |-> p[x]]
      /\ p.socks = <<NewSocket>> /\ p.sock = 1 /\ p.pending = <<>> /\ p.reconnectAttempts = 0
      /\ p.ms = "none" /\ p.sb = NoBuffer /\ p.t = 0 /\ p.tasks = {} /\ p.queue = <<>>
  BY DEF Init, Fields
<1>2. /\ p.appending = FALSE /\ p.nextSegment = 0 /\ p.requesting = FALSE
      /\ p.pendingInit = FALSE /\ p.seekTarget = 0 /\ p.desired = 0 /\ p.retryCount = 0
      /\ p.excused = FALSE /\ p.lost = FALSE /\ p.broken = FALSE
  BY DEF Init, Fields
<1>3. NewSocket \in Sockets /\ NewSocket.net = <<>> /\ NewSocket.state = "connecting"
  BY DEF NewSocket, Sockets
<1>4. p.socks \in Seq(Sockets) /\ Len(p.socks) = 1 /\ p.socks[1] = NewSocket
  BY <1>1, <1>3, OneElement
<1>5. Network(p)
  <2>1. <<>> \in Seq(Requests)
    OBVIOUS
  <2>2. p.sock \in 1..Len(p.socks)
    BY <1>1, <1>4
  <2> QED BY <1>1, <1>4, <2>1, <2>2 DEF Network
<1>6. Shape(p) /\ Numbers(p)
  <2>1. 0 \in 0..N /\ 0 \in 0..(N - 1) /\ 0 \in 0..MaxRetries /\ 0 \in 0..MaxAttempts
    BY Bounds
  <2>2. Numbers(p)
    BY <1>1, <1>2, <2>1 DEF Numbers
  <2>3. Shape(p)
    BY <1>1, <1>2 DEF Shape
  <2> QED BY <2>2, <2>3
<1>7. Buffered(p)
  <2>1. NoBuffer \in Buffers
    BY DEF NoBuffer, Buffers, Operations
  <2>2. <<>> \in Seq(Segments) /\ Len(<<>>) <= QueueMax
    BY Bounds
  <2> QED BY <1>1, <2>1, <2>2 DEF Buffered
<1>8. p.sb.op = <<"absent">> /\ p.sb.has = {} /\ p.sb.init = FALSE /\ ~Exists(p)
  BY <1>1 DEF NoBuffer, Exists
<1>9. Served(p) /\ Media(p) /\ Whole(p)
  BY <1>1, <1>2, <1>8 DEF Served, Media, Whole
<1>10. ~UnderWay(p)
  <2>1. \A s \in 1..Len(p.socks) : 1..Len(p.socks[s].net) = {}
    BY <1>3, <1>4
  <2> QED BY <2>1 DEF UnderWay
<1>11. ~Unasked(p)
  BY <1>10 DEF Unasked, UnderWay
<1>12. ~SegmentKept(p)
  <2>1. 1..Len(p.pending) = {}
    BY <1>1
  <2> QED BY <2>1 DEF SegmentKept
<1>13. ~Open(p)
  BY <1>1, <1>3, <1>4 DEF Open
<1>14. Order(p) /\ Coming(p)
  <2>1. p.sb.op[1] # "SEGM"
    BY <1>8
  <2>2. p.queue = <<>> /\ p.appending = FALSE /\ p.pendingInit = FALSE
    BY <1>1, <1>2
  <2>3. Order(p)
    BY <1>10, <1>11, <1>12, <2>1, <2>2 DEF Order
  <2>4. Coming(p)
    BY <1>13 DEF Coming
  <2> QED BY <2>3, <2>4
<1> QED BY <1>5, <1>6, <1>7, <1>9, <1>14 DEF Sound, Almost, Typed

\* Every step of the player preserves the invariant.
LEMMA NextSound == Sound(p) /\ [Next]_vars => Sound(p')
<1> SUFFICES ASSUME Sound(p), [Next]_vars PROVE Sound(p')
  OBVIOUS
<1>1. CASE Received
  <2>1. PICK s \in 1..Len(p.socks) :
          onopen(s) \/ OnWatchGet(s) \/ OnWsInit(s) \/ OnInit(s) \/ OnSegment(s)
    BY <1>1 DEF Received
  <2> QED BY <2>1, OnopenSound, OnWatchGetSound, OnWsInitSound, OnInitSound, OnSegmentSound
<1>2. CASE Local
  <2>1. CASE Cleanup \/ SaveTimer \/ Play \/ OnEnded
    BY <2>1, UserSound
  <2>2. CASE RequestTimer \/ FullTimer \/ AppendTimer \/ EndTimer
    BY <2>2, TimersSound
  <2>3. CASE sourceopen \/ updateend \/ onseeking \/ onseeked \/ onwaiting \/ Reconnect
    BY <2>3, SourceopenSound, UpdateendSound, SeekingSound, SeekedSound, WaitingSound,
       ReconnectSound
  <2>4. CASE \E x \in 0..(N - 1) : Resume(x) \/ CheckTimer(x)
    BY <2>4, ResumeSound, CheckTimerSound
  <2> QED BY <1>2, <2>1, <2>2, <2>3, <2>4 DEF Local
<1>3. CASE \E s \in 1..Len(p.socks) : onclose(s) \/ OnMissing(s) \/ OnInitMissing(s)
  BY <1>3, OncloseSound, OnMissingSound, OnInitMissingSound
<1>4. CASE (\E x \in Targets : Seek(x)) \/ onpause \/ onplaying
  BY <1>4, UserSound
<1>5. CASE UNCHANGED vars
  BY <1>5 DEF vars
<1> QED BY <1>1, <1>2, <1>3, <1>4, <1>5 DEF Next

\* The invariant of the script holds always.
THEOREM SoundAlways == Spec => []IInv
<1>1. Init => IInv
  BY InitSound DEF IInv
<1>2. IInv /\ [Next]_vars => IInv'
  BY NextSound DEF IInv
<1> QED BY <1>1, <1>2, PTL DEF Spec

\* Type correctness: the segment queue keeps its limit, and counters, positions and
\* what the SourceBuffer holds keep their range, for videos, queues and limits of any
\* size.
THEOREM PlayerTypes == Spec => []TypeOK
<1>1. IInv => TypeOK
  <2> SUFFICES ASSUME Sound(p) PROVE TypeOK
    BY DEF IInv
  <2>1. Network(p) /\ Numbers(p) /\ Buffered(p) /\ p.sb \in Buffers
    BY DEF Sound, Almost, Typed, Buffered
  <2>2. p.sb.has \subseteq 0..(N - 1)
    BY <2>1 DEF Buffers
  <2> QED BY <2>1, <2>2 DEF Network, Numbers, Buffered, TypeOK
<1> QED BY <1>1, SoundAlways, PTL

\* While requesting keeps the script from asking, a segment is under way or the timer of
\* a full buffer is set, unless the last one under way was missing or lost with its
\* connection.
THEOREM RequestingIsAlwaysServed == Spec => []RequestingIsServed
<1>1. IInv => RequestingIsServed
  BY DEF IInv, Sound, Almost, Served, RequestingIsServed, Due
<1> QED BY <1>1, SoundAlways, PTL

\* A media segment comes to a SourceBuffer that has had INIT, unless the elements were
\* replaced while a segment was under way, or the server had no INIT for them.
THEOREM InitIsAlwaysFirst == Spec => []InitBeforeSegments
<1>1. IInv => InitBeforeSegments
  BY DEF IInv, Sound, Almost, Whole, InitBeforeSegments
<1> QED BY <1>1, SoundAlways, PTL

=============================================================================
