----------------------------- MODULE QuicEngine -----------------------------
(***************************************************************************)
(* The QUIC-like UDP engine (src/server/quic.c): the table of connections, *)
(* the table of DATA packets waiting for an acknowledgement, the receive   *)
(* loop of the engine thread, and the threads that send on or close        *)
(* connections. Everything done under engine->lock is one step; what the   *)
(* code does without the lock is a step of its own, so that the threads    *)
(* interleave exactly where they can.                                      *)
(*                                                                         *)
(* Timestamps are modelled by their age in seconds (now - last_seen),      *)
(* saturated one past the last value the code tells apart.                 *)
(***************************************************************************)
EXTENDS Integers, FiniteSets

CONSTANTS
    ConnIds,            \* connection identifiers a peer may use, numbers above 0
    Addrs,              \* peer addresses, numbers above 0
    StreamIds,          \* stream identifiers in DATA packets
    PacketNumbers,      \* packet numbers
    Kinds,              \* flag sets of the datagrams that may arrive
    Senders,            \* threads that call quic_engine_send_to_connection
    Closers,            \* threads that call quic_engine_close_connection
    MaxConnections,     \* QUIC_MAX_CONNECTIONS
    ConnectionTimeout,  \* QUIC_CONNECTION_TIMEOUT, seconds
    MaxPending,         \* QUIC_MAX_PENDING
    RetransTimeout,     \* QUIC_RETRANS_TIMEOUT, seconds
    MaxRetries,         \* QUIC_MAX_RETRIES
    MaxStreams,         \* QUIC_STREAM_MAX_STREAMS
    StreamHandler,      \* whether quic_engine_set_stream_data_handler was called
    MaxAborted          \* bound of the model: datagrams that open and close at once

Flags == {"INITIAL", "HANDSHAKE", "DATA", "ACK", "CLOSE"}

ASSUME EngineAssumption ==
    /\ ConnIds \subseteq Nat \ {0} /\ ConnIds # {}
    /\ Addrs \subseteq Nat \ {0}
    /\ PacketNumbers \subseteq Nat
    /\ StreamIds \subseteq Nat
    /\ IsFiniteSet(StreamIds)
    /\ Kinds \subseteq SUBSET Flags
    /\ Senders \cap Closers = {} /\ IsFiniteSet(Senders)
    /\ MaxConnections \in Nat \ {0}
    /\ ConnectionTimeout \in Nat
    /\ MaxPending \in Nat \ {0}
    /\ RetransTimeout \in Nat
    /\ MaxRetries \in Nat \ {0}
    /\ MaxStreams \in Nat
    /\ StreamHandler \in BOOLEAN
    /\ MaxAborted \in Nat

VARIABLES
    conns,    \* engine->connections
    pending,  \* engine->pending
    balance,  \* metrics: connections_opened - connections_closed
    eng,      \* locals of the engine thread in quic_engine_loop
    thr,      \* locals of the sending and closing threads
    running,  \* engine->running
    open,     \* whether engine->sockfd is open
    seen,     \* history: the last state the state handler was told, by connection
    aborted   \* history: connections opened and closed by one datagram

vars == <<conns, pending, balance, eng, thr, running, open, seen, aborted>>

Slots   == 1..MaxConnections
PSlots  == 1..MaxPending
Threads == Senders \cup Closers

\* quic_connection_entry_t; streams are those in use in its stream_mgr.
Entry == [in_use : BOOLEAN, connection_id : ConnIds \cup {0}, addr : Addrs \cup {0},
          age : 0..(ConnectionTimeout + 1),
          state : {"IDLE", "CONNECTING", "CONNECTED", "CLOSED"},
          streams : {S \in SUBSET (StreamIds \cup {0}) : Cardinality(S) <= MaxStreams}]

\* quic_pending_packet_t; resent is history: how often the packet that the buffer
\* holds was sent again.
Pending == [in_use : BOOLEAN, connection_id : ConnIds \cup {0},
            packet_number : PacketNumbers \cup {0},
            age : 0..RetransTimeout, retries : Nat, resent : Nat]

Packet == [flags : SUBSET Flags, connection_id : ConnIds \cup {0}, addr : Addrs \cup {0},
           packet_number : PacketNumbers \cup {0}, stream_id : StreamIds \cup {0}]

\* pc is where the loop is: "top" before recvfrom, "recv" inside it, "process"
\* before quic_engine_process_packet, "emit" before quic_engine_emit_state,
\* "find" and "data" around the lookup of the entry, "ack" before the ACK.
Engine == [pc : {"top", "recv", "process", "emit", "find", "data", "ack", "exited"},
           pkt : Packet, changed : {"IDLE", "CONNECTING", "CONNECTED", "CLOSED"},
           slot : Slots, accepted : BOOLEAN]

\* pc of a thread: "send" before sendto, "scan", "claim", "fill" and "reset" inside
\* quic_engine_track_pending, "emit" before quic_engine_emit_state.
Thread == [pc : {"idle", "send", "scan", "claim", "fill", "reset", "emit"},
           connection_id : ConnIds \cup {0}, packet_number : PacketNumbers \cup {0},
           slot : PSlots]

TypeOK ==
    /\ conns \in [Slots -> Entry]
    /\ pending \in [PSlots -> Pending]
    /\ balance \in Int
    /\ eng \in Engine
    /\ thr \in [Threads -> Thread]
    /\ running \in BOOLEAN /\ open \in BOOLEAN
    /\ seen \in [ConnIds -> {"IDLE", "CONNECTING", "CONNECTED", "CLOSED"}]
    /\ aborted \in 0..MaxAborted

ZeroPacket == [flags |-> {}, connection_id |-> 0, addr |-> 0, packet_number |-> 0,
               stream_id |-> 0]

AtTop == [pc |-> "top", pkt |-> ZeroPacket, changed |-> "IDLE", slot |-> 1,
          accepted |-> FALSE]

IdleThread == [pc |-> "idle", connection_id |-> 0, packet_number |-> 0, slot |-> 1]

\* quic_engine_init zeroes the engine (last_sent 0 lies far in the past), then
\* quic_engine_start creates the thread.
Init ==
    /\ conns = [s \in Slots |-> [in_use |-> FALSE, connection_id |-> 0, addr |-> 0,
                                 age |-> 0, state |-> "IDLE", streams |-> {}]]
    /\ pending = [i \in PSlots |-> [in_use |-> FALSE, connection_id |-> 0,
                                    packet_number |-> 0, age |-> RetransTimeout,
                                    retries |-> 0, resent |-> 0]]
    /\ balance = 0
    /\ eng = AtTop
    /\ thr = [t \in Threads |-> IdleThread]
    /\ running = TRUE /\ open = TRUE
    /\ seen = [id \in ConnIds |-> "IDLE"]
    /\ aborted = 0

-----------------------------------------------------------------------------
(* The tables.                                                             *)

\* The slot a scan in index order stops at, as a set: {} when there is none.
Lowest(S) == {s \in S : \A t \in S : s <= t}

Live(c) == {s \in Slots : c[s].in_use}

\* Mutant: only established connections are found.
FindEntry_ConnectedOnly(c, id) ==
    Lowest({s \in Live(c) : c[s].connection_id = id /\ c[s].state = "CONNECTED"})

\* quic_engine_find_entry_locked in table c.
FindEntry(c, id) == Lowest({s \in Live(c) : c[s].connection_id = id})

\* The slot quic_engine_add_connection_locked takes.
FreeSlot(c) == Lowest(Slots \ Live(c))

\* An entry that is closed: its stream manager is destroyed.
Freed(e) == [e EXCEPT !.in_use = FALSE, !.state = "CLOSED", !.streams = {}]

\* quic_engine_clear_pending_for_connection for every id of ids.
ClearPending(p, ids) ==
    [i \in PSlots |-> IF p[i].in_use /\ p[i].connection_id \in ids
                      THEN [p[i] EXCEPT !.in_use = FALSE] ELSE p[i]]

\* The entries quic_engine_cleanup_connections_locked closes, and the table,
\* the metrics and the pending packets (those of ids too) it leaves.
Expired == {s \in Live(conns) : conns[s].age > ConnectionTimeout}

CleanConns == [s \in Slots |-> IF s \in Expired THEN Freed(conns[s]) ELSE conns[s]]

CleanPending(ids) ==
    ClearPending(pending, {conns[s].connection_id : s \in Expired} \cup ids)

\* Mutant: connections that expire are not counted as closed.
CleanBalance_Uncounted == balance

CleanBalance == balance - Cardinality(Expired)

-----------------------------------------------------------------------------
(* The engine thread.                                                      *)

\* Mutant: the loop goes on after an error without looking at running.
EnterRecv_NoCheck ==
    /\ eng.pc = "top"
    /\ eng' = [eng EXCEPT !.pc = "recv"]
    /\ UNCHANGED <<conns, pending, balance, thr, running, open, seen, aborted>>

\* The loop calls recvfrom; on the closed descriptor it fails, and running,
\* cleared before the descriptor was closed, ends the loop.
EnterRecv ==
    /\ eng.pc = "top"
    /\ eng' = [eng EXCEPT !.pc = IF open THEN "recv" ELSE "exited"]
    /\ UNCHANGED <<conns, pending, balance, thr, running, open, seen, aborted>>

\* quic_engine_ack_pending: only the first match is released.
Acked(id, pn) ==
    LET match == Lowest({i \in PSlots : pending[i].in_use
                            /\ pending[i].connection_id = id
                            /\ pending[i].packet_number = pn})
    IN [i \in PSlots |-> IF i \in match THEN [pending[i] EXCEPT !.in_use = FALSE]
                         ELSE pending[i]]

\* A datagram arrives that quic_packet_deserialize accepts.
Receive(pkt) ==
    /\ eng.pc = "recv"
    /\ pending' = IF "ACK" \in pkt.flags
                  THEN Acked(pkt.connection_id, pkt.packet_number) ELSE pending
    /\ eng' = [eng EXCEPT !.pc = "process", !.pkt = pkt]
    /\ UNCHANGED <<conns, balance, thr, running, open, seen, aborted>>

\* A datagram it refuses, EINTR, or an error: the loop just goes on.
ReceiveNothing ==
    /\ eng.pc = "recv"
    /\ eng' = AtTop
    /\ UNCHANGED <<conns, pending, balance, thr, running, open, seen, aborted>>

\* recvfrom fails once running was cleared.
ExitLoop ==
    /\ eng.pc = "recv"
    /\ ~running
    /\ eng' = [AtTop EXCEPT !.pc = "exited"]
    /\ UNCHANGED <<conns, pending, balance, thr, running, open, seen, aborted>>

\* Mutant: one retransmission too many.
Retransmit_OneMore(c, p, ok) ==
    [i \in PSlots |->
        IF ~p[i].in_use \/ p[i].age < RetransTimeout THEN p[i]
        ELSE IF FindEntry(c, p[i].connection_id) = {} \/ i \notin ok
             THEN [p[i] EXCEPT !.in_use = FALSE]
        ELSE [p[i] EXCEPT !.age = 0, !.retries = @ + 1, !.resent = @ + 1,
                          !.in_use = p[i].retries + 1 <= MaxRetries]]

\* Mutant: a packet whose connection is gone keeps its slot.
Retransmit_KeepsOrphans(c, p, ok) ==
    [i \in PSlots |->
        IF ~p[i].in_use \/ p[i].age < RetransTimeout THEN p[i]
        ELSE IF FindEntry(c, p[i].connection_id) = {} THEN p[i]
        ELSE IF i \notin ok THEN [p[i] EXCEPT !.in_use = FALSE]
        ELSE [p[i] EXCEPT !.age = 0, !.retries = @ + 1, !.resent = @ + 1,
                          !.in_use = p[i].retries + 1 < MaxRetries]]

\* quic_engine_retransmit_pending on tables c and p; ok are the slots whose
\* sendto sends everything.
Retransmit(c, p, ok) ==
    [i \in PSlots |->
        IF ~p[i].in_use \/ p[i].age < RetransTimeout THEN p[i]
        ELSE IF FindEntry(c, p[i].connection_id) = {} \/ i \notin ok
             THEN [p[i] EXCEPT !.in_use = FALSE]
        ELSE [p[i] EXCEPT !.age = 0, !.retries = @ + 1, !.resent = @ + 1,
                          !.in_use = p[i].retries + 1 < MaxRetries]]

\* Mutant: a timeout of recvfrom does not look for expired connections.
RecvTimeout_NoCleanup ==
    /\ eng.pc = "recv"
    /\ running
    /\ \E ok \in SUBSET PSlots : pending' = Retransmit(conns, pending, ok)
    /\ eng' = AtTop
    /\ UNCHANGED <<conns, balance, thr, running, open, seen, aborted>>

\* recvfrom times out: expired connections go, overdue packets are sent again.
RecvTimeout ==
    /\ eng.pc = "recv"
    /\ running
    /\ \E ok \in SUBSET PSlots :
         pending' = Retransmit(CleanConns, CleanPending({}), ok)
    /\ conns' = CleanConns
    /\ balance' = CleanBalance
    /\ eng' = AtTop
    /\ UNCHANGED <<thr, running, open, seen, aborted>>

\* process_packet refuses: no such connection and no INITIAL, or a full table.
ProcessRefused ==
    /\ eng.pc = "process"
    /\ FindEntry(CleanConns, eng.pkt.connection_id) = {}
    /\ "INITIAL" \notin eng.pkt.flags \/ FreeSlot(CleanConns) = {}
    /\ conns' = CleanConns
    /\ pending' = CleanPending({})
    /\ balance' = CleanBalance
    /\ eng' = AtTop
    /\ UNCHANGED <<thr, running, open, seen, aborted>>

\* The entry as quic_engine_add_connection_locked fills it in.
NewEntry == [in_use |-> TRUE, connection_id |-> eng.pkt.connection_id,
             addr |-> eng.pkt.addr, age |-> 0, state |-> "CONNECTING", streams |-> {}]

Establishes(e) == e.state = "CONNECTING" /\ "HANDSHAKE" \in eng.pkt.flags

\* What the flags of the packet make of entry e.
Handled(e) ==
    IF "CLOSE" \in eng.pkt.flags THEN Freed(e)
    ELSE IF Establishes(e) THEN [e EXCEPT !.state = "CONNECTED"]
    ELSE e

\* state_changed, told is what it was set to before the flags are looked at.
StateChanged(e, told) ==
    IF "CLOSE" \in eng.pkt.flags THEN "CLOSED"
    ELSE IF Establishes(e) THEN "CONNECTED"
    ELSE told

\* Mutant: a HANDSHAKE packet is not delivered.
ShouldDeliver_NotHandshake(e) ==
    \/ "CLOSE" \in eng.pkt.flags
    \/ e.state = "CONNECTED"
    \/ "INITIAL" \in eng.pkt.flags

ShouldDeliver(e) ==
    \/ "CLOSE" \in eng.pkt.flags
    \/ Handled(e).state = "CONNECTED"
    \/ eng.pkt.flags \cap {"INITIAL", "HANDSHAKE"} # {}

\* The part of process_packet that new and known connections share: e is the
\* entry in slot s so far.
ProcessEntry(s, e, told, created) ==
    /\ conns' = [CleanConns EXCEPT ![s] = Handled(e)]
    /\ pending' = CleanPending(IF "CLOSE" \in eng.pkt.flags
                               THEN {eng.pkt.connection_id} ELSE {})
    /\ balance' = CleanBalance + (IF "CLOSE" \in eng.pkt.flags THEN -1
                                  ELSE IF created THEN 1 ELSE 0)
    /\ eng' = IF ShouldDeliver(e)
              THEN [eng EXCEPT !.pc = "emit", !.changed = StateChanged(e, told)]
              ELSE AtTop
    /\ UNCHANGED <<thr, running, open, seen>>

\* process_packet opens a connection.
ProcessNew ==
    /\ eng.pc = "process"
    /\ FindEntry(CleanConns, eng.pkt.connection_id) = {}
    /\ "INITIAL" \in eng.pkt.flags
    /\ \E s \in FreeSlot(CleanConns) : ProcessEntry(s, NewEntry, "CONNECTING", TRUE)
    /\ IF "CLOSE" \in eng.pkt.flags
       THEN aborted < MaxAborted /\ aborted' = aborted + 1
       ELSE UNCHANGED aborted

\* process_packet on a known connection, which may have moved to a new address.
ProcessKnown ==
    /\ eng.pc = "process"
    /\ \E s \in FindEntry(CleanConns, eng.pkt.connection_id) :
         ProcessEntry(s, [CleanConns[s] EXCEPT !.addr = eng.pkt.addr, !.age = 0],
                      IF CleanConns[s].addr # eng.pkt.addr THEN CleanConns[s].state
                      ELSE "IDLE",
                      FALSE)
    /\ UNCHANGED aborted

\* quic_engine_emit_state; the handshake answer, which is not tracked; then on
\* to the stream data, or to the packet handler and the next datagram.
EmitState ==
    /\ eng.pc = "emit"
    /\ seen' = IF eng.changed = "IDLE" THEN seen
               ELSE [seen EXCEPT ![eng.pkt.connection_id] = eng.changed]
    /\ eng' = IF "DATA" \in eng.pkt.flags /\ StreamHandler
              THEN [eng EXCEPT !.pc = "find", !.changed = "IDLE"] ELSE AtTop
    /\ UNCHANGED <<conns, pending, balance, thr, running, open, aborted>>

\* The entry is looked up under the lock, which is then released.
FindForData ==
    /\ eng.pc = "find"
    /\ LET found == FindEntry(conns, eng.pkt.connection_id)
       IN \/ \E s \in found : eng' = [eng EXCEPT !.pc = "data", !.slot = s]
          \/ found = {} /\ eng' = [eng EXCEPT !.pc = "ack"]
    /\ UNCHANGED <<conns, pending, balance, thr, running, open, seen, aborted>>

\* Mutant: one stream more than the table has is taken.
HasStreamSlot_OneTooMany(used, id) == id \in used \/ Cardinality(used) <= MaxStreams

\* Whether the manager with streams used finds or creates stream id.
HasStreamSlot(used, id) == id \in used \/ Cardinality(used) < MaxStreams

\* quic_stream_on_data on that entry, without the lock. It fails when every
\* stream of the manager is taken, or when memory runs out.
OnData ==
    /\ eng.pc = "data"
    /\ LET used == conns[eng.slot].streams
           id   == eng.pkt.stream_id
       IN \/ /\ HasStreamSlot(used, id)
             /\ \E stored \in BOOLEAN :
                  eng' = [eng EXCEPT !.pc = "ack", !.accepted = stored]
             /\ conns' = [conns EXCEPT ![eng.slot].streams = used \cup {id}]
          \/ /\ ~HasStreamSlot(used, id)
             /\ eng' = [eng EXCEPT !.pc = "ack", !.accepted = FALSE]
             /\ UNCHANGED conns
    /\ UNCHANGED <<pending, balance, thr, running, open, seen, aborted>>

\* The ACK goes out, whatever became of the data; then the packet handler.
SendAck ==
    /\ eng.pc = "ack"
    /\ eng' = AtTop
    /\ UNCHANGED <<conns, pending, balance, thr, running, open, seen, aborted>>

-----------------------------------------------------------------------------
(* quic_engine_send_to_connection.                                         *)

\* quic_engine_get_connection, which also drops expired connections.
GetConnection(t, id, pn) ==
    /\ thr[t].pc = "idle"
    /\ LET s == {e \in FindEntry(CleanConns, id) : CleanConns[e].state = "CONNECTED"}
       IN /\ conns' = [e \in Slots |-> IF e \in s THEN [CleanConns[e] EXCEPT !.age = 0]
                                       ELSE CleanConns[e]]
          /\ thr' = IF s = {} THEN thr
                    ELSE [thr EXCEPT ![t] = [pc |-> "send", connection_id |-> id,
                                             packet_number |-> pn, slot |-> 1]]
    /\ pending' = CleanPending({})
    /\ balance' = CleanBalance
    /\ UNCHANGED <<eng, running, open, seen, aborted>>

\* sendto to the address read before; a failure ends the call.
SendTo(t) ==
    /\ thr[t].pc = "send"
    /\ \/ open /\ thr' = [thr EXCEPT ![t].pc = "scan"]
       \/ thr' = [thr EXCEPT ![t] = IdleThread]
    /\ UNCHANGED <<conns, pending, balance, eng, running, open, seen, aborted>>

\* track_pending, which takes no lock: finds an unused slot, or gives up.
TrackScan(t) ==
    /\ thr[t].pc = "scan"
    /\ LET free == Lowest({i \in PSlots : ~pending[i].in_use})
       IN \/ \E i \in free : thr' = [thr EXCEPT ![t].pc = "claim", ![t].slot = i]
          \/ free = {} /\ thr' = [thr EXCEPT ![t] = IdleThread]
    /\ UNCHANGED <<conns, pending, balance, eng, running, open, seen, aborted>>

\* ... sets its in_use ...
TrackClaim(t) ==
    /\ thr[t].pc = "claim"
    /\ pending' = [pending EXCEPT ![thr[t].slot].in_use = TRUE]
    /\ thr' = [thr EXCEPT ![t].pc = "fill"]
    /\ UNCHANGED <<conns, balance, eng, running, open, seen, aborted>>

\* ... writes the packet over what the slot held before ...
TrackFill(t) ==
    /\ thr[t].pc = "fill"
    /\ pending' = [pending EXCEPT ![thr[t].slot] =
            [@ EXCEPT !.connection_id = thr[t].connection_id,
                      !.packet_number = thr[t].packet_number, !.resent = 0]]
    /\ thr' = [thr EXCEPT ![t].pc = "reset"]
    /\ UNCHANGED <<conns, balance, eng, running, open, seen, aborted>>

\* ... and then the time and the number of retries. Between these steps the timer
\* takes the slot as it is, and another sender takes it when the timer has freed it.
TrackReset(t) ==
    /\ thr[t].pc = "reset"
    /\ pending' = [pending EXCEPT ![thr[t].slot] = [@ EXCEPT !.age = 0, !.retries = 0]]
    /\ thr' = [thr EXCEPT ![t] = IdleThread]
    /\ UNCHANGED <<conns, balance, eng, running, open, seen, aborted>>

-----------------------------------------------------------------------------
(* quic_engine_close_connection, quic_engine_stop and time.                *)

\* The part under the lock; an unknown connection is an error.
CloseConnection(t, id) ==
    /\ thr[t].pc = "idle"
    /\ \E s \in FindEntry(conns, id) :
         /\ conns[s].state # "CLOSED"
         /\ conns' = [conns EXCEPT ![s] = Freed(@)]
    /\ pending' = ClearPending(pending, {id})
    /\ balance' = balance - 1
    /\ thr' = [thr EXCEPT ![t] = [IdleThread EXCEPT !.pc = "emit", !.connection_id = id]]
    /\ UNCHANGED <<eng, running, open, seen, aborted>>

\* The CLOSE packet, which is not tracked, and the event.
EmitClosed(t) ==
    /\ thr[t].pc = "emit"
    /\ seen' = [seen EXCEPT ![thr[t].connection_id] = "CLOSED"]
    /\ thr' = [thr EXCEPT ![t] = IdleThread]
    /\ UNCHANGED <<conns, pending, balance, eng, running, open, aborted>>

\* quic_engine_stop: running is cleared under the lock, then the socket closed.
Stop ==
    /\ running
    /\ running' = FALSE
    /\ UNCHANGED <<conns, pending, balance, eng, thr, open, seen, aborted>>

CloseSocket ==
    /\ ~running /\ open
    /\ open' = FALSE
    /\ UNCHANGED <<conns, pending, balance, eng, thr, running, seen, aborted>>

\* A second passes.
Tick ==
    /\ conns' = [s \in Slots |->
            IF conns[s].in_use /\ conns[s].age <= ConnectionTimeout
            THEN [conns[s] EXCEPT !.age = @ + 1] ELSE conns[s]]
    /\ pending' = [i \in PSlots |->
            IF pending[i].age < RetransTimeout
            THEN [pending[i] EXCEPT !.age = @ + 1] ELSE pending[i]]
    /\ UNCHANGED <<balance, eng, thr, running, open, seen, aborted>>

-----------------------------------------------------------------------------
\* The datagrams of a kind: fields the engine does not read are 0.
Datagrams(kind) ==
    [flags : {kind}, connection_id : ConnIds, addr : Addrs,
     packet_number : IF "ACK" \in kind THEN PacketNumbers ELSE {0},
     stream_id : IF "DATA" \in kind THEN StreamIds ELSE {0}]

EngineStep ==
    \/ EnterRecv
    \/ \E kind \in Kinds : \E pkt \in Datagrams(kind) : Receive(pkt)
    \/ ReceiveNothing
    \/ ExitLoop
    \/ RecvTimeout
    \/ ProcessRefused
    \/ ProcessNew
    \/ ProcessKnown
    \/ EmitState
    \/ FindForData
    \/ OnData
    \/ SendAck

Next ==
    \/ EngineStep
    \/ \E t \in Senders, id \in ConnIds, pn \in PacketNumbers : GetConnection(t, id, pn)
    \/ \E t \in Senders : SendTo(t)
    \/ \E t \in Senders : TrackScan(t)
    \/ \E t \in Senders : TrackClaim(t)
    \/ \E t \in Senders : TrackFill(t)
    \/ \E t \in Senders : TrackReset(t)
    \/ \E t \in Closers, id \in ConnIds : CloseConnection(t, id)
    \/ \E t \in Closers : EmitClosed(t)
    \/ Stop
    \/ CloseSocket
    \/ Tick

Spec == Init /\ [][Next]_vars

\* The engine thread keeps running and quic_engine_stop goes on to close the
\* socket, seconds pass; nothing is assumed of the other threads or of the peers.
BusySpec == Spec /\ WF_vars(EngineStep) /\ WF_vars(CloseSocket) /\ WF_vars(Tick)

\* In addition the socket is silent for a second again and again, the only time
\* at which the loop looks at the packets to send again.
FairSpec == BusySpec /\ SF_vars(RecvTimeout)

-----------------------------------------------------------------------------
(* Properties.                                                             *)

\* No two entries in use carry the same connection: whatever expires, closes and
\* opens again, in the engine thread or in a sender's cleanup, a lookup by
\* connection_id has at most one answer.
UniqueConnection ==
    \A s, t \in Live(conns) :
        conns[s].connection_id = conns[t].connection_id => s = t

\* How often a packet is sent again, although track_pending takes no lock: not just
\* QUIC_MAX_RETRIES times. A sender that has taken the slot and not yet written its
\* packet has the old one sent once more than that, and one that resets retries
\* after the timer has begun to count starts the count again; but each sender can do
\* so once for a packet, so that it is QUIC_MAX_RETRIES times for the packet and for
\* each thread that sends, and never without end.
RetryBound ==
    \A i \in PSlots : pending[i].resent <= MaxRetries * (Cardinality(Senders) + 1)

\* What the name QUIC_MAX_RETRIES promises: no packet is sent again more often. Not so
\* when the timer comes between the steps of track_pending.
SentMaxRetries == \A i \in PSlots : pending[i].resent <= MaxRetries

\* As long as only the engine thread closes connections, the state handler has
\* been told the state of every connection in use, except of the one whose
\* packet is being processed: no change of state is left unreported, also not by
\* a packet that is then not delivered.
StateReported ==
    \A s \in Live(conns) :
        (eng.pc = "emit" /\ eng.pkt.connection_id = conns[s].connection_id)
            \/ seen[conns[s].connection_id] = conns[s].state

\* connections_opened - connections_closed is the number of connections in use,
\* less those that one datagram opened and closed, which are counted as closed
\* only.
MetricsBalance == balance = Cardinality(Live(conns)) - aborted

\* A connection nobody hears from, half-open ones included, does not keep its
\* slot: again and again the slot is free or the peer has just been heard.
IdleIsFreed ==
    \A s \in Slots : []<>(~running \/ ~conns[s].in_use \/ conns[s].age = 0)

\* Every tracked packet is settled: it is acknowledged, given up, or its
\* connection ends; no slot of the pending table stays taken for ever.
PendingIsSettled ==
    \A i \in PSlots : []<>(~running \/ ~pending[i].in_use)

\* Once quic_engine_stop was called the engine thread ends, so that
\* quic_engine_join returns, whatever the peers keep sending.
EngineStops == ~running ~> (eng.pc = "exited")

\* An acknowledged DATA packet was taken by the stream manager ("reliable data
\* transfer", docs/DEVELOPMENT_PLANv1.md).
AckMeansAccepted == eng.pc = "ack" => eng.accepted

\* The slot track_pending found free is free when it takes it: otherwise the
\* packet another sender tracks there is never sent again
\* ("retransmission on packet loss", docs/planv3.md).
ClaimsFreeSlot ==
    \A t \in Senders : thr[t].pc = "claim" => ~pending[thr[t].slot].in_use

\* A free entry has no stream: otherwise the segments stored in it are lost when
\* the slot is used again ("no memory leak", docs/DEVELOPMENT_PLANv1.md).
FreeEntryIsEmpty ==
    \A s \in Slots : ~conns[s].in_use => conns[s].streams = {}
=============================================================================
