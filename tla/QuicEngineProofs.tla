-------------------------- MODULE QuicEngineProofs --------------------------
(***************************************************************************)
(* Theorems about QuicEngine, for tables, timeouts and thread sets of any  *)
(* size: type correctness, that a connection has one entry, how often a    *)
(* packet can be sent again when senders race with the timer, that the     *)
(* metrics balance, and that the state handler is told every state.        *)
(***************************************************************************)
EXTENDS QuicEngine, FiniteSetTheorems, WellFoundedInduction, TLAPS

-----------------------------------------------------------------------------
(* The scans and the cleanup.                                              *)

Less == {ss \in Nat \X Nat : ss[1] < ss[2]}

\* A scan in index order finds something if there is something to be found.
LEMMA LowestExists == ASSUME NEW S, S \subseteq Nat, S # {} PROVE Lowest(S) # {}
<1>1. IsWellFoundedOn(Less, Nat)
  BY NatLessThanWellFounded DEF OpToRel, Less
<1>2. PICK x \in S : \A y \in S : ~ (<<y, x>> \in Less)
  BY <1>1, WFMin, Zenon
<1>3. \A y \in S : ~(y < x)
  BY <1>2 DEF Less
<1>4. \A y \in S : x <= y
  BY <1>3
<1> QED BY <1>4 DEF Lowest

\* An unsuccessful quic_engine_find_entry_locked means that no entry in use has
\* the identifier; a successful one returns such an entry.
LEMMA FindEntryProps ==
  ASSUME NEW c, NEW id
  PROVE  /\ FindEntry(c, id) = {} =>
                \A s \in Slots : c[s].in_use => c[s].connection_id # id
         /\ \A s \in FindEntry(c, id) :
                s \in Slots /\ c[s].in_use /\ c[s].connection_id = id
<1>1. {s \in Live(c) : c[s].connection_id = id} \subseteq Nat
  BY EngineAssumption DEF Live, Slots
<1>2. FindEntry(c, id) = {} => {s \in Live(c) : c[s].connection_id = id} = {}
  BY <1>1, LowestExists DEF FindEntry
<1> QED BY <1>2 DEF FindEntry, Lowest, Live

\* Closing an entry keeps it an entry.
LEMMA FreedType == ASSUME NEW e \in Entry PROVE Freed(e) \in Entry
<1>1. {} \in {S \in SUBSET (StreamIds \cup {0}) : Cardinality(S) <= MaxStreams}
  BY FS_EmptySet, EngineAssumption
<1> QED BY <1>1 DEF Freed, Entry

\* quic_engine_cleanup_connections_locked keeps the types of what it changes.
LEMMA CleanTypes ==
  ASSUME TypeOK, NEW ids
  PROVE  /\ CleanConns \in [Slots -> Entry]
         /\ CleanPending(ids) \in [PSlots -> Pending]
         /\ CleanBalance \in Int
<1>1. CleanConns \in [Slots -> Entry]
  BY FreedType DEF TypeOK, CleanConns
<1>2. CleanPending(ids) \in [PSlots -> Pending]
  BY DEF TypeOK, CleanPending, ClearPending, Pending
<1>3. Cardinality(Expired) \in Nat
  <2>1. IsFiniteSet(Slots)
    BY FS_Interval, EngineAssumption DEF Slots
  <2>2. Expired \subseteq Slots
    BY DEF Expired, Live
  <2> QED BY <2>1, <2>2, FS_Subset, FS_CardinalityType
<1>4. CleanBalance \in Int
  BY <1>3 DEF CleanBalance, TypeOK
<1> QED BY <1>1, <1>2, <1>4

\* The start of the loop is a state of the engine thread.
LEMMA TopType == AtTop \in Engine
  BY EngineAssumption DEF AtTop, Engine, ZeroPacket, Packet, Slots

\* An idle thread is a thread.
LEMMA IdleType == IdleThread \in Thread
  BY EngineAssumption DEF IdleThread, Thread, PSlots

\* quic_engine_ack_pending and quic_engine_retransmit_pending keep the type of
\* the pending table.
LEMMA PendingTypes ==
  ASSUME TypeOK
  PROVE  /\ \A id, pn : Acked(id, pn) \in [PSlots -> Pending]
         /\ \A c, ok : \A p \in [PSlots -> Pending] :
                Retransmit(c, p, ok) \in [PSlots -> Pending]
<1>1. \A e \in Pending : [e EXCEPT !.in_use = FALSE] \in Pending
  BY DEF Pending
<1>2. \A id, pn : Acked(id, pn) \in [PSlots -> Pending]
  BY <1>1 DEF Acked, TypeOK
<1>3. ASSUME NEW e \in Pending
      PROVE  [e EXCEPT !.age = 0, !.retries = @ + 1, !.resent = @ + 1,
                       !.in_use = e.retries + 1 < MaxRetries] \in Pending
  <2>1. e.retries + 1 \in Nat /\ e.resent + 1 \in Nat /\ 0 \in 0..RetransTimeout
    BY EngineAssumption DEF Pending
  <2>2. \A x, y \in Nat : \A b \in BOOLEAN :
            [e EXCEPT !.age = 0, !.retries = x, !.resent = y, !.in_use = b] \in Pending
    BY <2>1, Zenon DEF Pending
  <2>3. (e.retries + 1 < MaxRetries) \in BOOLEAN
    OBVIOUS
  <2> QED BY <2>1, <2>2, <2>3, Zenon
<1>4. ASSUME NEW c, NEW ok, NEW p \in [PSlots -> Pending]
      PROVE  Retransmit(c, p, ok) \in [PSlots -> Pending]
  BY <1>1, <1>3 DEF Retransmit
<1> QED BY <1>2, <1>4

\* What the flags of a packet make of an entry is an entry.
LEMMA HandledType == ASSUME NEW e \in Entry PROVE Handled(e) \in Entry
<1>1. [e EXCEPT !.state = "CONNECTED"] \in Entry
  BY DEF Entry
<1> QED BY <1>1, FreedType DEF Handled

-----------------------------------------------------------------------------
(* Type correctness.                                                       *)

\* The part of process_packet shared by new and known connections.
LEMMA ProcessEntryTypes ==
  ASSUME TypeOK, NEW s \in Slots, NEW e \in Entry,
         NEW told \in {"IDLE", "CONNECTING", "CONNECTED", "CLOSED"},
         NEW created \in BOOLEAN, ProcessEntry(s, e, told, created)
  PROVE  /\ conns' \in [Slots -> Entry]
         /\ pending' \in [PSlots -> Pending]
         /\ balance' \in Int
         /\ eng' \in Engine
<1>1. conns' \in [Slots -> Entry]
  BY CleanTypes, HandledType DEF ProcessEntry
<1>2. pending' \in [PSlots -> Pending]
  BY CleanTypes DEF ProcessEntry
<1>3. balance' \in Int
  BY CleanTypes DEF ProcessEntry
<1>4. StateChanged(e, told) \in {"IDLE", "CONNECTING", "CONNECTED", "CLOSED"}
  BY DEF StateChanged
<1>5. [eng EXCEPT !.pc = "emit", !.changed = StateChanged(e, told)] \in Engine
  BY <1>4 DEF TypeOK, Engine
<1>6. eng' \in Engine
  BY <1>5, TopType DEF ProcessEntry
<1> QED BY <1>1, <1>2, <1>3, <1>6

\* A packet that opens a connection, or belongs to one, makes a proper entry.
LEMMA ProcessTypes ==
  ASSUME TypeOK, ProcessNew \/ ProcessKnown
  PROVE  TypeOK'
<1>0. eng.pkt \in Packet
  BY DEF TypeOK, Engine
<1>1. CASE ProcessNew
  <2>1. NewEntry \in Entry
    <3>1. {} \in {S \in SUBSET (StreamIds \cup {0}) : Cardinality(S) <= MaxStreams}
      BY FS_EmptySet, EngineAssumption
    <3> QED BY <1>0, <3>1, EngineAssumption DEF NewEntry, Entry, Packet
  <2>2. PICK s \in FreeSlot(CleanConns) : ProcessEntry(s, NewEntry, "CONNECTING", TRUE)
    BY <1>1 DEF ProcessNew
  <2>3. s \in Slots
    BY DEF FreeSlot, Lowest
  <2>4. aborted' \in 0..MaxAborted
    BY <1>1, EngineAssumption DEF ProcessNew, TypeOK
  <2> QED BY <2>1, <2>2, <2>3, <2>4, ProcessEntryTypes DEF ProcessEntry, TypeOK
<1>2. CASE ProcessKnown
  <2> DEFINE E(s) == [CleanConns[s] EXCEPT !.addr = eng.pkt.addr, !.age = 0]
             T(s) == IF CleanConns[s].addr # eng.pkt.addr THEN CleanConns[s].state
                     ELSE "IDLE"
  <2>1. PICK s \in FindEntry(CleanConns, eng.pkt.connection_id) :
            ProcessEntry(s, E(s), T(s), FALSE)
    BY <1>2 DEF ProcessKnown
  <2>2. s \in Slots
    BY FindEntryProps
  <2>3. CleanConns[s] \in Entry
    BY <2>2, CleanTypes
  <2>4. E(s) \in Entry
    <3>1. eng.pkt.addr \in Addrs \cup {0} /\ 0 \in 0..(ConnectionTimeout + 1)
      BY <1>0, EngineAssumption DEF Packet
    <3>2. \A a \in Addrs \cup {0} : \A n \in 0..(ConnectionTimeout + 1) :
              [CleanConns[s] EXCEPT !.addr = a, !.age = n] \in Entry
      BY <2>3, Zenon DEF Entry
    <3> QED BY <3>1, <3>2, Zenon
  <2>5. T(s) \in {"IDLE", "CONNECTING", "CONNECTED", "CLOSED"}
    BY <2>3 DEF Entry
  <2> HIDE DEF E, T
  <2>6. UNCHANGED <<thr, running, open, seen, aborted>>
    BY <1>2, <2>1 DEF ProcessKnown, ProcessEntry
  <2> QED BY <2>1, <2>2, <2>4, <2>5, <2>6, ProcessEntryTypes DEF TypeOK
<1> QED BY <1>1, <1>2

\* Storing data in a stream manager never exceeds its table.
LEMMA OnDataTypes == ASSUME TypeOK, OnData PROVE TypeOK'
<1> DEFINE used == conns[eng.slot].streams
           id   == eng.pkt.stream_id
<1>0. eng.slot \in Slots /\ eng \in Engine /\ conns[eng.slot] \in Entry
  BY DEF TypeOK, Engine
<1>1. eng' \in Engine
  <2>1. \A b \in BOOLEAN : [eng EXCEPT !.pc = "ack", !.accepted = b] \in Engine
    BY <1>0, Zenon DEF Engine
  <2> QED BY <2>1, Zenon DEF OnData
<1>2. conns' \in [Slots -> Entry]
  <2>1. CASE UNCHANGED conns
    BY <2>1 DEF TypeOK
  <2>2. CASE /\ HasStreamSlot(used, id)
             /\ conns' = [conns EXCEPT ![eng.slot].streams = used \cup {id}]
    <3>1. id \in StreamIds \cup {0}
      BY <1>0 DEF Engine, Packet
    <3>2. used \subseteq StreamIds \cup {0} /\ Cardinality(used) <= MaxStreams
      BY <1>0 DEF Entry
    <3>3. IsFiniteSet(used)
      <4>1. IsFiniteSet(StreamIds \cup {0})
        BY FS_AddElement, EngineAssumption
      <4> QED BY <4>1, <3>2, FS_Subset
    <3>4. Cardinality(used \cup {id}) <= MaxStreams
      <4>1. CASE id \in used
        <5>1. used \cup {id} = used
          BY <4>1
        <5> QED BY <5>1, <3>2
      <4>2. CASE id \notin used
        <5>1. Cardinality(used \cup {id}) = Cardinality(used) + 1
          BY <4>2, <3>3, FS_AddElement
        <5>2. Cardinality(used) \in Nat
          BY <3>3, FS_CardinalityType
        <5>3. Cardinality(used) < MaxStreams
          BY <2>2, <4>2 DEF HasStreamSlot
        <5> QED BY <5>1, <5>2, <5>3, EngineAssumption
      <4> QED BY <4>1, <4>2
    <3>5. used \cup {id} \in
              {S \in SUBSET (StreamIds \cup {0}) : Cardinality(S) <= MaxStreams}
      BY <3>1, <3>2, <3>4
    <3> DEFINE e == [conns[eng.slot] EXCEPT !.streams = used \cup {id}]
    <3>6. e \in Entry
      BY <1>0, <3>5, Zenon DEF Entry
    <3>7. conns' = [conns EXCEPT ![eng.slot] = e]
      BY <2>2
    <3> HIDE DEF e
    <3> QED BY <1>0, <3>6, <3>7 DEF TypeOK
  <2> QED BY <2>1, <2>2 DEF OnData
<1> QED BY <1>1, <1>2 DEF OnData, TypeOK

\* The initial state has the types.
LEMMA TypeInit == Init => TypeOK
<1> SUFFICES ASSUME Init PROVE TypeOK
  OBVIOUS
<1>1. {} \in {S \in SUBSET (StreamIds \cup {0}) : Cardinality(S) <= MaxStreams}
  BY FS_EmptySet, EngineAssumption
<1>2. conns \in [Slots -> Entry]
  BY <1>1, EngineAssumption DEF Init, Entry
<1>3. pending \in [PSlots -> Pending]
  BY EngineAssumption DEF Init, Pending
<1>4. thr \in [Threads -> Thread] /\ eng \in Engine
  BY TopType, IdleType DEF Init
<1>5. /\ seen \in [ConnIds -> {"IDLE", "CONNECTING", "CONNECTED", "CLOSED"}]
      /\ balance \in Int /\ aborted \in 0..MaxAborted
  BY EngineAssumption DEF Init
<1>6. running \in BOOLEAN /\ open \in BOOLEAN
  BY DEF Init
<1> QED BY <1>2, <1>3, <1>4, <1>5, <1>6 DEF TypeOK

\* Every step keeps the types.
LEMMA TypeStep == TypeOK /\ [Next]_vars => TypeOK'
<1> SUFFICES ASSUME TypeOK, [Next]_vars PROVE TypeOK'
  OBVIOUS
<1>0. eng \in Engine /\ \A t \in Threads : thr[t] \in Thread
  BY DEF TypeOK
<1>1. CASE EnterRecv
  BY <1>1 DEF EnterRecv, TypeOK, Engine
<1>2. ASSUME NEW kind \in Kinds, NEW pkt \in Datagrams(kind), Receive(pkt)
      PROVE  TypeOK'
  <2>1. pkt \in Packet
    BY EngineAssumption DEF Datagrams, Packet
  <2>2. eng' \in Engine
    BY <1>0, <1>2, <2>1, Zenon DEF Receive, Engine
  <2> QED BY <1>2, <2>2, PendingTypes DEF Receive, TypeOK
<1>3. CASE ReceiveNothing
  BY <1>3, TopType DEF ReceiveNothing, TypeOK
<1>4. CASE ExitLoop
  BY <1>4, TopType DEF ExitLoop, TypeOK, Engine
<1>5. CASE RecvTimeout
  BY <1>5, TopType, PendingTypes, CleanTypes DEF RecvTimeout, TypeOK
<1>6. CASE ProcessRefused
  BY <1>6, TopType, CleanTypes DEF ProcessRefused, TypeOK
<1>7. CASE ProcessNew \/ ProcessKnown
  BY <1>7, ProcessTypes
<1>8. CASE EmitState
  <2>1. eng' \in Engine
    <3>1. [eng EXCEPT !.pc = "find", !.changed = "IDLE"] \in Engine
      BY <1>0, Zenon DEF Engine
    <3> QED BY <1>8, <3>1, TopType DEF EmitState
  <2>2. eng.changed \in {"IDLE", "CONNECTING", "CONNECTED", "CLOSED"}
    BY <1>0 DEF Engine
  <2> QED BY <1>8, <2>1, <2>2 DEF EmitState, TypeOK
<1>9. CASE FindForData
  <2>1. \A s \in Slots : [eng EXCEPT !.pc = "data", !.slot = s] \in Engine
    BY <1>0, Zenon DEF Engine
  <2>2. [eng EXCEPT !.pc = "ack"] \in Engine
    BY <1>0, Zenon DEF Engine
  <2>3. eng' \in Engine
    <3>1. \A s \in FindEntry(conns, eng.pkt.connection_id) : s \in Slots
      BY FindEntryProps
    <3> QED BY <1>9, <2>1, <2>2, <3>1, Zenon DEF FindForData
  <2> QED BY <1>9, <2>3 DEF FindForData, TypeOK
<1>10. CASE OnData
  BY <1>10, OnDataTypes
<1>11. CASE SendAck
  BY <1>11, TopType DEF SendAck, TypeOK
<1>12. ASSUME NEW t \in Senders, NEW id \in ConnIds, NEW pn \in PacketNumbers,
              GetConnection(t, id, pn)
       PROVE  TypeOK'
  <2>1. conns' \in [Slots -> Entry]
    <3>1. \A e \in Entry : [e EXCEPT !.age = 0] \in Entry
      BY EngineAssumption DEF Entry
    <3> QED BY <1>12, <3>1, CleanTypes DEF GetConnection
  <2>2. [pc |-> "send", connection_id |-> id, packet_number |-> pn, slot |-> 1] \in Thread
    BY EngineAssumption DEF Thread, PSlots
  <2>3. thr' \in [Threads -> Thread]
    BY <1>12, <2>2 DEF GetConnection, TypeOK
  <2> QED BY <1>12, <2>1, <2>3, CleanTypes DEF GetConnection, TypeOK
<1>13. ASSUME NEW t \in Senders, SendTo(t) PROVE TypeOK'
  <2>1. t \in Threads /\ [thr[t] EXCEPT !.pc = "scan"] \in Thread
    BY <1>0 DEF Threads, Thread
  <2>2. thr' \in [Threads -> Thread]
    BY <1>13, <2>1, IdleType DEF SendTo, TypeOK
  <2> QED BY <1>13, <2>2 DEF SendTo, TypeOK
<1>14. ASSUME NEW t \in Senders, TrackScan(t) PROVE TypeOK'
  <2>1. t \in Threads
    BY DEF Threads
  <2>2. \A i \in PSlots : [thr[t] EXCEPT !.pc = "claim", !.slot = i] \in Thread
    BY <1>0, <2>1, Zenon DEF Thread
  <2>3. ASSUME NEW i \in PSlots,
               thr' = [thr EXCEPT ![t].pc = "claim", ![t].slot = i]
        PROVE  thr' \in [Threads -> Thread]
    <3>1. thr' = [thr EXCEPT ![t] = [thr[t] EXCEPT !.pc = "claim", !.slot = i]]
      BY <2>1, <2>3 DEF TypeOK
    <3> QED BY <2>1, <2>2, <3>1 DEF TypeOK
  <2>4. thr' \in [Threads -> Thread]
    BY <1>14, <2>3, IdleType DEF TrackScan, Lowest, TypeOK
  <2> QED BY <1>14, <2>4 DEF TrackScan, TypeOK
<1>15. ASSUME NEW t \in Senders, TrackClaim(t) PROVE TypeOK'
  <2>1. t \in Threads /\ [thr[t] EXCEPT !.pc = "fill"] \in Thread /\ thr[t].slot \in PSlots
    BY <1>0 DEF Threads, Thread
  <2>2. thr' \in [Threads -> Thread]
    BY <1>15, <2>1 DEF TrackClaim, TypeOK
  <2>3. [pending[thr[t].slot] EXCEPT !.in_use = TRUE] \in Pending
    BY <2>1, ZenonT(60) DEF TypeOK, Pending
  <2>4. pending' \in [PSlots -> Pending]
    BY <1>15, <2>1, <2>3 DEF TrackClaim, TypeOK
  <2> QED BY <1>15, <2>2, <2>4 DEF TrackClaim, TypeOK
<1>16. ASSUME NEW t \in Senders, TrackFill(t) PROVE TypeOK'
  <2>1. /\ t \in Threads /\ thr[t].slot \in PSlots
        /\ thr[t].connection_id \in ConnIds \cup {0}
        /\ thr[t].packet_number \in PacketNumbers \cup {0}
    BY <1>0 DEF Threads, Thread
  <2>2. 0 \in Nat /\ pending[thr[t].slot] \in Pending
    BY <2>1 DEF TypeOK
  <2>3. \A id \in ConnIds \cup {0}, pn \in PacketNumbers \cup {0} :
            [pending[thr[t].slot] EXCEPT !.connection_id = id, !.packet_number = pn,
                                         !.resent = 0] \in Pending
    BY <2>2, Zenon DEF Pending
  <2>4. pending' \in [PSlots -> Pending]
    BY <1>16, <2>1, <2>3 DEF TrackFill, TypeOK
  <2>5. [thr[t] EXCEPT !.pc = "reset"] \in Thread
    BY <1>0, <2>1 DEF Thread
  <2>6. thr' \in [Threads -> Thread]
    BY <1>16, <2>1, <2>5 DEF TrackFill, TypeOK
  <2> QED BY <1>16, <2>4, <2>6 DEF TrackFill, TypeOK
<1>17. ASSUME NEW t \in Closers, NEW id \in ConnIds, CloseConnection(t, id)
       PROVE  TypeOK'
  <2>1. conns' \in [Slots -> Entry]
    BY <1>17, FreedType DEF CloseConnection, TypeOK
  <2>2. pending' \in [PSlots -> Pending]
    BY <1>17, ZenonT(60) DEF CloseConnection, ClearPending, TypeOK, Pending
  <2>3. [IdleThread EXCEPT !.pc = "emit", !.connection_id = id] \in Thread
    BY IdleType, Zenon DEF Thread
  <2>4. thr' \in [Threads -> Thread]
    BY <1>17, <2>3 DEF CloseConnection, TypeOK
  <2>5. balance' \in Int /\ UNCHANGED <<eng, running, open, seen, aborted>>
    BY <1>17 DEF CloseConnection, TypeOK
  <2> QED BY <2>1, <2>2, <2>4, <2>5 DEF TypeOK
<1>18. ASSUME NEW t \in Closers, EmitClosed(t) PROVE TypeOK'
  BY <1>18, IdleType DEF EmitClosed, TypeOK
<1>19. CASE Stop \/ CloseSocket
  BY <1>19 DEF Stop, CloseSocket, TypeOK
<1>20. CASE Tick
  <2>1. \A e \in Entry : e.age <= ConnectionTimeout => [e EXCEPT !.age = @ + 1] \in Entry
    BY EngineAssumption DEF Entry
  <2>2. \A e \in Pending : e.age < RetransTimeout => [e EXCEPT !.age = @ + 1] \in Pending
    BY EngineAssumption DEF Pending
  <2> QED BY <1>20, <2>1, <2>2 DEF Tick, TypeOK
<1>21. CASE UNCHANGED vars
  BY <1>21 DEF vars, TypeOK
<1>22. ASSUME NEW t \in Senders, TrackReset(t) PROVE TypeOK'
  <2>1. t \in Threads /\ thr[t].slot \in PSlots /\ 0 \in 0..RetransTimeout /\ 0 \in Nat
    BY <1>0, EngineAssumption DEF Threads, Thread
  <2>2. pending[thr[t].slot] \in Pending
    BY <2>1 DEF TypeOK
  <2>3. [pending[thr[t].slot] EXCEPT !.age = 0, !.retries = 0] \in Pending
    BY <2>1, <2>2, Zenon DEF Pending
  <2>4. pending' \in [PSlots -> Pending]
    BY <1>22, <2>1, <2>3 DEF TrackReset, TypeOK
  <2>5. thr' \in [Threads -> Thread]
    BY <1>22, IdleType DEF TrackReset, TypeOK
  <2> QED BY <1>22, <2>4, <2>5 DEF TrackReset, TypeOK
<1> QED BY <1>1, <1>2, <1>3, <1>4, <1>5, <1>6, <1>7, <1>8, <1>9, <1>10, <1>11,
           <1>12, <1>13, <1>14, <1>15, <1>16, <1>17, <1>18, <1>19, <1>20, <1>21, <1>22
        DEF Next, EngineStep

\* Every variable keeps its type: ages stay within what the timeouts tell apart,
\* and no connection gets more streams than its manager has slots, whatever
\* datagrams arrive and however the threads interleave.
THEOREM TypeCorrect == Spec => []TypeOK
  BY TypeInit, TypeStep, PTL DEF Spec

-----------------------------------------------------------------------------
(* One entry for a connection.                                             *)

\* Table c has nothing in use that the connection table does not have.
NothingAdded(c) ==
    \A s \in Slots : c[s].in_use =>
        conns[s].in_use /\ c[s].connection_id = conns[s].connection_id

OneEntryEach(c) ==
    \A s, t \in Slots :
        (c[s].in_use /\ c[t].in_use /\ c[s].connection_id = c[t].connection_id) => s = t

\* Dropping entries, and changing anything but identifiers, keeps it so.
LEMMA NothingAddedKeeps ==
  ASSUME NEW c, UniqueConnection, NothingAdded(c)
  PROVE  OneEntryEach(c)
  BY DEF UniqueConnection, NothingAdded, OneEntryEach, Live

\* The cleanup adds nothing.
LEMMA CleanAddsNothing == ASSUME TypeOK PROVE NothingAdded(CleanConns)
<1> SUFFICES ASSUME NEW s \in Slots, CleanConns[s].in_use
             PROVE  conns[s].in_use /\ CleanConns[s].connection_id = conns[s].connection_id
  BY DEF NothingAdded
<1>1. conns[s] \in Entry
  BY DEF TypeOK
<1>2. ~Freed(conns[s]).in_use
  BY <1>1 DEF Freed, Entry
<1> QED BY <1>2 DEF CleanConns

\* What the flags of a packet make of an entry keeps its identifier, and can
\* only take it out of use.
LEMMA HandledKeeps ==
  ASSUME NEW e \in Entry
  PROVE  Handled(e).connection_id = e.connection_id /\ (Handled(e).in_use => e.in_use)
  BY DEF Handled, Freed, Entry

\* Every step keeps one entry for a connection; the one that adds an entry looks
\* for the identifier first, in the same critical section.
LEMMA UniqueStep ==
  ASSUME TypeOK, UniqueConnection, [Next]_vars
  PROVE  UniqueConnection'
<1> SUFFICES OneEntryEach(conns')
  BY DEF UniqueConnection, OneEntryEach, Live
<1>1. CASE NothingAdded(conns')
  BY <1>1, NothingAddedKeeps
<1>2. CASE conns' = CleanConns
  BY <1>2, CleanAddsNothing, NothingAddedKeeps
<1>3. CASE UNCHANGED conns
  BY <1>1, <1>3 DEF NothingAdded
<1>4. CASE ProcessNew
  <2> DEFINE id == eng.pkt.connection_id
  <2>1. PICK s \in FreeSlot(CleanConns) : ProcessEntry(s, NewEntry, "CONNECTING", TRUE)
    BY <1>4 DEF ProcessNew
  <2>2. s \in Slots
    BY DEF FreeSlot, Lowest
  <2>3. conns' = [CleanConns EXCEPT ![s] = Handled(NewEntry)]
    BY <2>1 DEF ProcessEntry
  <2>4. Handled(NewEntry).connection_id = id
    BY DEF Handled, NewEntry, Freed
  <2>5. \A t \in Slots : CleanConns[t].in_use => CleanConns[t].connection_id # id
    BY <1>4, FindEntryProps DEF ProcessNew
  <2>6. OneEntryEach(CleanConns) /\ CleanConns \in [Slots -> Entry]
    BY CleanAddsNothing, NothingAddedKeeps, CleanTypes
  <2> QED BY <2>2, <2>3, <2>4, <2>5, <2>6 DEF OneEntryEach
<1>5. CASE ProcessKnown
  <2> DEFINE E(s) == [CleanConns[s] EXCEPT !.addr = eng.pkt.addr, !.age = 0]
  <2>1. PICK s \in FindEntry(CleanConns, eng.pkt.connection_id) :
            conns' = [CleanConns EXCEPT ![s] = Handled(E(s))]
    BY <1>5 DEF ProcessKnown, ProcessEntry
  <2>2. s \in Slots /\ CleanConns \in [Slots -> Entry]
    BY FindEntryProps, CleanTypes
  <2>3. E(s).in_use = CleanConns[s].in_use
        /\ E(s).connection_id = CleanConns[s].connection_id
    BY <2>2 DEF Entry
  <2>4. Handled(E(s)).connection_id = E(s).connection_id
        /\ (Handled(E(s)).in_use => E(s).in_use)
    <3>1. CleanConns[s] \in Entry /\ eng.pkt.addr \in Addrs \cup {0}
          /\ 0 \in 0..(ConnectionTimeout + 1)
      BY <2>2, EngineAssumption DEF TypeOK, Engine, Packet
    <3>2. E(s) \in Entry
      BY <3>1, Zenon DEF Entry
    <3> QED BY <3>2, HandledKeeps
  <2> HIDE DEF E
  <2>5. NothingAdded(conns')
    BY <2>1, <2>2, <2>3, <2>4, CleanAddsNothing DEF NothingAdded
  <2> QED BY <2>5, <1>1
<1>6. CASE OnData
  <2>1. eng.slot \in Slots
    BY DEF TypeOK, Engine
  <2>2. \A s \in Slots : conns[s] \in Entry
    BY DEF TypeOK
  <2>3. NothingAdded(conns')
    <3> SUFFICES ASSUME NEW s \in Slots
                 PROVE  /\ conns'[s].in_use = conns[s].in_use
                        /\ conns'[s].connection_id = conns[s].connection_id
      BY DEF NothingAdded
    <3>1. \/ conns'[s] = conns[s]
          \/ \E S : conns'[s] = [conns[s] EXCEPT !.streams = S]
      <4>1. PICK S : conns' = conns \/ conns' = [conns EXCEPT ![eng.slot].streams = S]
        BY <1>6 DEF OnData
      <4>2. conns' = conns \/ conns'[s] = conns[s]
            \/ conns'[s] = [conns[s] EXCEPT !.streams = S]
        BY <2>1, <4>1 DEF TypeOK
      <4> QED BY <4>2
    <3>2. conns[s] \in Entry
      BY <2>2
    <3>3. \A S : /\ [conns[s] EXCEPT !.streams = S].in_use = conns[s].in_use
                 /\ [conns[s] EXCEPT !.streams = S].connection_id
                      = conns[s].connection_id
      BY <3>2 DEF Entry
    <3> QED BY <3>1, <3>3
  <2> QED BY <2>3, <1>1
<1>7. ASSUME NEW t \in Senders, NEW id \in ConnIds, NEW pn \in PacketNumbers,
             GetConnection(t, id, pn)
      PROVE  NothingAdded(conns')
  <2>1. \A e \in Entry : /\ [e EXCEPT !.age = 0].in_use = e.in_use
                         /\ [e EXCEPT !.age = 0].connection_id = e.connection_id
    BY DEF Entry
  <2> QED BY <1>7, <2>1, CleanTypes, CleanAddsNothing DEF GetConnection, NothingAdded
<1>8. ASSUME NEW t \in Closers, NEW id \in ConnIds, CloseConnection(t, id)
      PROVE  NothingAdded(conns')
  <2>1. \A e \in Entry : ~Freed(e).in_use
    BY DEF Freed, Entry
  <2> QED BY <1>8, <2>1 DEF CloseConnection, NothingAdded, TypeOK
<1>9. CASE Tick
  <2>1. \A e \in Entry : /\ [e EXCEPT !.age = @ + 1].in_use = e.in_use
                         /\ [e EXCEPT !.age = @ + 1].connection_id = e.connection_id
    BY DEF Entry
  <2>2. NothingAdded(conns')
    <3> SUFFICES ASSUME NEW s \in Slots
                 PROVE  /\ conns'[s].in_use = conns[s].in_use
                        /\ conns'[s].connection_id = conns[s].connection_id
      BY DEF NothingAdded
    <3>1. conns[s] \in Entry
      BY DEF TypeOK
    <3>2. \/ conns'[s] = conns[s]
          \/ conns'[s] = [conns[s] EXCEPT !.age = @ + 1]
      BY <1>9 DEF Tick
    <3> QED BY <2>1, <3>1, <3>2
  <2> QED BY <2>2, <1>1
<1>10. CASE EngineStep
  BY <1>10, <1>2, <1>3, <1>4, <1>5, <1>6
    DEF EngineStep, EnterRecv, Receive, ReceiveNothing, ExitLoop, RecvTimeout,
        ProcessRefused, EmitState, FindForData, SendAck
<1>11. ASSUME NEW t \in Threads,
              \/ SendTo(t) \/ TrackScan(t) \/ TrackClaim(t) \/ TrackFill(t)
              \/ TrackReset(t) \/ EmitClosed(t)
       PROVE  UNCHANGED conns
  BY <1>11 DEF SendTo, TrackScan, TrackClaim, TrackFill, TrackReset, EmitClosed
<1>12. CASE Stop \/ CloseSocket \/ UNCHANGED vars
  BY <1>12, <1>3 DEF Stop, CloseSocket, vars
<1> QED BY <1>1, <1>3, <1>7, <1>8, <1>9, <1>10, <1>11, <1>12 DEF Next, Threads

\* No two entries in use have the same connection_id, for any number of peers,
\* slots, sending and closing threads: a packet, an ACK or a retransmission for
\* a connection finds the one entry it belongs to.
THEOREM OneEntryPerConnection == Spec => []UniqueConnection
<1>1. Init => UniqueConnection
  BY DEF Init, UniqueConnection, Live
<1> QED BY <1>1, TypeInit, TypeStep, UniqueStep, PTL DEF Spec

-----------------------------------------------------------------------------
(* The bound on retransmissions.                                           *)

\* The senders that have taken slot i and not yet written their packet, and those
\* that have written it and not yet reset the number of retries.
Claimers(i) == {t \in Senders : thr[t].pc = "fill" /\ thr[t].slot = i}
Resetters(i) == {t \in Senders : thr[t].pc = "reset" /\ thr[t].slot = i}

\* How often the timer sends the packet of a slot, if no sender changes the slot, and
\* once less if another sender has first to take it; and how often it was and will be.
Left(e) == (IF e.retries < MaxRetries THEN MaxRetries - 1 - e.retries ELSE 0)
             + (IF e.in_use THEN 1 ELSE 0)
Spent(e) == e.resent + Left(e)

K == Cardinality(Senders)

\* A sender that resets the retries grants MaxRetries - 1 more, one that takes the slot
\* a single one, and with its own packet it ends the count.
RetryInv ==
    \A i \in PSlots :
      Spent(pending[i]) + (MaxRetries - 1) * Cardinality(Resetters(i))
        <= MaxRetries + (MaxRetries - 1) * K + Cardinality(Claimers(i))

\* The senders at a slot can be counted, and are no more than all.
LEMMA TrackersCounted ==
  ASSUME NEW i
  PROVE  /\ K \in Nat
         /\ IsFiniteSet(Claimers(i)) /\ Cardinality(Claimers(i)) \in 0..K
         /\ IsFiniteSet(Resetters(i)) /\ Cardinality(Resetters(i)) \in 0..K
<1>1. IsFiniteSet(Senders)
  BY EngineAssumption
<1>2. Claimers(i) \subseteq Senders /\ Resetters(i) \subseteq Senders
  BY DEF Claimers, Resetters
<1>3. /\ IsFiniteSet(Claimers(i)) /\ Cardinality(Claimers(i)) <= Cardinality(Senders)
      /\ IsFiniteSet(Resetters(i)) /\ Cardinality(Resetters(i)) <= Cardinality(Senders)
  BY <1>1, <1>2, FS_Subset
<1>4. /\ Cardinality(Senders) \in Nat /\ Cardinality(Claimers(i)) \in Nat
      /\ Cardinality(Resetters(i)) \in Nat
  BY <1>1, <1>3, FS_CardinalityType
<1> QED BY <1>3, <1>4 DEF K

\* What is left of a slot is a number.
LEMMA SpentType ==
  ASSUME NEW e \in Pending
  PROVE  /\ e.retries \in Nat /\ e.resent \in Nat /\ e.in_use \in BOOLEAN
         /\ Left(e) \in 0..MaxRetries /\ Spent(e) \in Nat
<1>1. e.retries \in Nat /\ e.resent \in Nat /\ e.in_use \in BOOLEAN
  BY DEF Pending
<1>2. MaxRetries \in Nat /\ MaxRetries > 0
  BY EngineAssumption
<1>3. Left(e) \in 0..MaxRetries
  BY <1>1, <1>2 DEF Left
<1> QED BY <1>1, <1>2, <1>3 DEF Spent

\* A factor in front of a number that is one more, and of numbers in order.
LEMMA Factor ==
  ASSUME NEW m \in Nat, NEW a \in Nat, NEW b \in Nat
  PROVE  /\ m * a \in Nat /\ m * b \in Nat
         /\ b = a + 1 => m * b = m * a + m
         /\ a <= b => m * a <= m * b
<1>1. m * a \in Nat /\ m * b \in Nat
  OBVIOUS
<1>2. b = a + 1 => m * b = m * a + m
  OBVIOUS
<1>3. ASSUME a <= b PROVE m * a <= m * b
  <2> DEFINE d == b - a
  <2>1. d \in Nat /\ b = a + d
    BY <1>3
  <2> HIDE DEF d
  <2>2. m * (a + d) = m * a + m * d
    BY <2>1
  <2>3. m * d \in Nat
    BY <2>1
  <2> QED BY <1>1, <2>1, <2>2, <2>3
<1> QED BY <1>1, <1>2, <1>3

\* The step leaves every sender that has taken a slot where it is, and none takes one.
TrackersStay ==
    \A t \in Senders : thr[t].pc \in {"fill", "reset"} \/ thr'[t].pc \in {"fill", "reset"}
                         => thr'[t] = thr[t]

\* No slot has more left.
RetriesKept == \A i \in PSlots : Spent(pending'[i]) <= Spent(pending[i])

\* Such a step keeps the invariant.
LEMMA RetryKept ==
  ASSUME TypeOK, TypeOK', RetryInv, TrackersStay, RetriesKept
  PROVE  RetryInv'
<1> SUFFICES ASSUME NEW i \in PSlots
             PROVE  Spent(pending'[i]) + (MaxRetries - 1) * Cardinality(Resetters(i)')
                      <= MaxRetries + (MaxRetries - 1) * K + Cardinality(Claimers(i)')
  BY DEF RetryInv, K
<1>1. Claimers(i)' = Claimers(i) /\ Resetters(i)' = Resetters(i)
  BY DEF TrackersStay, Claimers, Resetters
<1>2. Spent(pending'[i]) \in Nat /\ Spent(pending[i]) \in Nat
  BY SpentType DEF TypeOK
<1>3. /\ Spent(pending'[i]) <= Spent(pending[i])
      /\ Spent(pending[i]) + (MaxRetries - 1) * Cardinality(Resetters(i))
        <= MaxRetries + (MaxRetries - 1) * K + Cardinality(Claimers(i))
  BY DEF RetriesKept, RetryInv
<1>4. /\ Cardinality(Resetters(i)) \in Nat /\ Cardinality(Claimers(i)) \in Nat /\ K \in Nat
      /\ MaxRetries - 1 \in Nat /\ MaxRetries \in Nat
  BY TrackersCounted, EngineAssumption
<1>5. (MaxRetries - 1) * Cardinality(Resetters(i)) \in Nat /\ (MaxRetries - 1) * K \in Nat
  BY <1>4, Factor
<1> QED BY <1>1, <1>2, <1>3, <1>4, <1>5

\* A slot that is released has less left, one that is unchanged as much.
LEMMA ReleasedSpent ==
  ASSUME NEW e \in Pending, NEW d, d = e \/ d = [e EXCEPT !.in_use = FALSE]
  PROVE  Spent(d) <= Spent(e)
<1>1. /\ e.retries \in Nat /\ e.resent \in Nat /\ e.in_use \in BOOLEAN
      /\ Left(e) \in 0..MaxRetries /\ Spent(e) \in Nat
  BY SpentType
<1>2. CASE d = e
  BY <1>1, <1>2
<1>3. CASE d = [e EXCEPT !.in_use = FALSE]
  <2>1. d.in_use = FALSE /\ d.retries = e.retries /\ d.resent = e.resent
    BY <1>3 DEF Pending
  <2> QED BY <1>1, <2>1, EngineAssumption DEF Spent, Left
<1> QED BY <1>2, <1>3

\* The cleanup releases slots.
LEMMA ClearReleases ==
  ASSUME NEW p \in [PSlots -> Pending], NEW ids, NEW i \in PSlots
  PROVE  \/ ClearPending(p, ids)[i] = p[i]
         \/ ClearPending(p, ids)[i] = [p[i] EXCEPT !.in_use = FALSE]
  BY DEF ClearPending

\* So no slot has more left.
LEMMA CleanKeepsRetries ==
  ASSUME TypeOK, NEW ids, pending' = ClearPending(pending, ids)
  PROVE  RetriesKept
<1> SUFFICES ASSUME NEW i \in PSlots PROVE Spent(pending'[i]) <= Spent(pending[i])
  BY DEF RetriesKept
<1>1. pending[i] \in Pending /\ pending \in [PSlots -> Pending]
  BY DEF TypeOK
<1>2. pending'[i] = pending[i] \/ pending'[i] = [pending[i] EXCEPT !.in_use = FALSE]
  BY <1>1, ClearReleases
<1> QED BY <1>1, <1>2, ReleasedSpent

\* A packet that is sent again has one less left, and none when it was the last time.
LEMMA RetransmitKeepsRetries ==
  ASSUME TypeOK, NEW c, NEW ok,
         pending' = Retransmit(c, CleanPending({}), ok)
  PROVE  RetriesKept
<1> DEFINE p == CleanPending({})
<1> SUFFICES ASSUME NEW i \in PSlots PROVE Spent(pending'[i]) <= Spent(pending[i])
  BY DEF RetriesKept
<1>1. p[i] \in Pending /\ pending[i] \in Pending
  BY CleanTypes DEF TypeOK
<1>2. p[i] = pending[i] \/ p[i] = [pending[i] EXCEPT !.in_use = FALSE]
  BY ClearReleases DEF TypeOK, CleanPending
<1>3. Spent(p[i]) <= Spent(pending[i])
  BY <1>1, <1>2, ReleasedSpent
<1> HIDE DEF p
<1>4. pending' = Retransmit(c, p, ok)
  BY DEF p
<1>5. Spent(p[i]) \in Nat /\ Spent(pending[i]) \in Nat
  BY <1>1, SpentType
<1>6. CASE pending'[i] = p[i] \/ pending'[i] = [p[i] EXCEPT !.in_use = FALSE]
  <2>1. Spent(pending'[i]) <= Spent(p[i]) /\ pending'[i] \in Pending
    BY <1>1, <1>6, ReleasedSpent DEF Pending
  <2>2. Spent(pending'[i]) \in Nat
    BY <2>1, SpentType
  <2> QED BY <1>3, <1>5, <2>1, <2>2
<1>7. CASE /\ p[i].in_use
           /\ pending'[i] = [p[i] EXCEPT !.age = 0, !.retries = @ + 1, !.resent = @ + 1,
                                         !.in_use = p[i].retries + 1 < MaxRetries]
  <2> DEFINE d == pending'[i]
  <2>1. /\ d.retries = p[i].retries + 1 /\ d.resent = p[i].resent + 1
        /\ d.in_use = (p[i].retries + 1 < MaxRetries)
    BY <1>1, <1>7, Zenon DEF Pending
  <2>2. p[i].retries \in Nat /\ p[i].resent \in Nat /\ p[i].in_use = TRUE
    BY <1>1, <1>7, SpentType
  <2> HIDE DEF d
  <2>3. MaxRetries \in Nat
    BY EngineAssumption
  <2>4. CASE p[i].retries + 1 < MaxRetries
    <3>1. d.in_use = TRUE
      BY <2>1, <2>4
    <3>2. Left(d) = MaxRetries - 1 - (p[i].retries + 1) + 1
      BY <2>1, <2>2, <2>3, <2>4, <3>1 DEF Left
    <3>3. Left(p[i]) = MaxRetries - 1 - p[i].retries + 1
      BY <2>2, <2>3, <2>4 DEF Left
    <3>4. Spent(d) = Spent(p[i])
      BY <2>1, <2>2, <2>3, <3>2, <3>3 DEF Spent
    <3> QED BY <1>3, <3>4 DEF d
  <2>5. CASE ~(p[i].retries + 1 < MaxRetries)
    <3>1. ~d.in_use
      BY <2>1, <2>5
    <3>2. Left(d) = 0
      BY <2>1, <2>2, <2>3, <2>5, <3>1 DEF Left
    <3>3. Left(p[i]) = 1
      BY <2>2, <2>3, <2>5 DEF Left
    <3>4. Spent(d) = Spent(p[i])
      BY <2>1, <2>2, <3>2, <3>3 DEF Spent
    <3> QED BY <1>3, <3>4 DEF d
  <2> QED BY <2>4, <2>5
<1>8. \/ pending'[i] = p[i] \/ pending'[i] = [p[i] EXCEPT !.in_use = FALSE]
      \/ /\ p[i].in_use
         /\ pending'[i] = [p[i] EXCEPT !.age = 0, !.retries = @ + 1, !.resent = @ + 1,
                                       !.in_use = p[i].retries + 1 < MaxRetries]
  BY <1>4, Zenon DEF Retransmit
<1> QED BY <1>6, <1>7, <1>8

\* A sender that takes a slot is one more that has, and the slot has at most one more
\* left.
LEMMA ClaimCounted ==
  ASSUME TypeOK, TypeOK', RetryInv, NEW t \in Senders, TrackClaim(t)
  PROVE  RetryInv'
<1>s. PICK s \in PSlots : s = thr[t].slot
  BY DEF TypeOK, Threads, Thread
<1>0. t \in Threads /\ thr[t] \in Thread /\ thr[t].slot = s /\ thr[t].pc = "claim"
  BY <1>s DEF TypeOK, Threads, TrackClaim
<1>1. thr'[t].pc = "fill" /\ thr'[t].slot = s /\ \A u \in Senders : u # t => thr'[u] = thr[u]
  BY <1>0 DEF TrackClaim, TypeOK, Thread
<1>2. /\ \A i \in PSlots : i # s => pending'[i] = pending[i]
      /\ pending'[s] = [pending[s] EXCEPT !.in_use = TRUE]
  BY <1>0 DEF TrackClaim, TypeOK
<1>3. \A i \in PSlots : Resetters(i)' = Resetters(i)
  BY <1>0, <1>1 DEF Resetters
<1>4. ASSUME NEW i \in PSlots, i # s PROVE Claimers(i)' = Claimers(i)
  BY <1>0, <1>1, <1>4 DEF Claimers
<1>5. Claimers(s)' = Claimers(s) \cup {t} /\ t \notin Claimers(s)
  BY <1>0, <1>1 DEF Claimers
<1>6. Cardinality(Claimers(s)') = Cardinality(Claimers(s)) + 1
  BY <1>5, TrackersCounted, FS_AddElement
<1>7. Spent(pending'[s]) <= Spent(pending[s]) + 1 /\ Spent(pending'[s]) \in Nat
  <2>1. pending[s] \in Pending /\ pending'[s] \in Pending
    BY <1>0 DEF TypeOK
  <2>2. /\ pending'[s].retries = pending[s].retries /\ pending'[s].in_use = TRUE
        /\ pending'[s].resent = pending[s].resent
    BY <1>2, <2>1 DEF Pending
  <2>3. /\ pending[s].retries \in Nat /\ pending[s].resent \in Nat
        /\ Spent(pending'[s]) \in Nat
    BY <2>1, SpentType
  <2> QED BY <2>2, <2>3, EngineAssumption DEF Spent, Left
<1> SUFFICES ASSUME NEW i \in PSlots
             PROVE  Spent(pending'[i]) + (MaxRetries - 1) * Cardinality(Resetters(i)')
                      <= MaxRetries + (MaxRetries - 1) * K + Cardinality(Claimers(i)')
  BY DEF RetryInv, K
<1>8. Spent(pending[i]) + (MaxRetries - 1) * Cardinality(Resetters(i))
        <= MaxRetries + (MaxRetries - 1) * K + Cardinality(Claimers(i))
  BY DEF RetryInv
<1>9. CASE i # s
  BY <1>2, <1>3, <1>4, <1>8, <1>9
<1>10. CASE i = s
  <2>1. /\ Cardinality(Resetters(i)) \in Nat /\ Cardinality(Claimers(i)) \in Nat /\ K \in Nat
        /\ MaxRetries - 1 \in Nat /\ MaxRetries \in Nat
    BY TrackersCounted, EngineAssumption
  <2>2. (MaxRetries - 1) * Cardinality(Resetters(i)) \in Nat /\ (MaxRetries - 1) * K \in Nat
    BY <2>1, Factor
  <2>3. Spent(pending[i]) \in Nat
    BY SpentType DEF TypeOK
  <2> QED BY <1>3, <1>6, <1>7, <1>8, <1>10, <2>1, <2>2, <2>3
<1> QED BY <1>9, <1>10

\* A sender that writes its packet begins a new count.
LEMMA FillCounted ==
  ASSUME TypeOK, TypeOK', RetryInv, NEW t \in Senders, TrackFill(t)
  PROVE  RetryInv'
<1>s. PICK s \in PSlots : s = thr[t].slot
  BY DEF TypeOK, Threads, Thread
<1>0. t \in Threads /\ thr[t] \in Thread /\ thr[t].slot = s /\ thr[t].pc = "fill"
  BY <1>s DEF TypeOK, Threads, TrackFill
<1>1. thr'[t].pc = "reset" /\ thr'[t].slot = s /\ \A u \in Senders : u # t => thr'[u] = thr[u]
  BY <1>0 DEF TrackFill, TypeOK, Thread
<1>2. \A i \in PSlots : i # s => pending'[i] = pending[i]
  BY <1>0 DEF TrackFill, TypeOK
<1>3. pending'[s].resent = 0 /\ pending'[s] \in Pending
  BY <1>0 DEF TrackFill, TypeOK, Pending
<1>4. ASSUME NEW i \in PSlots, i # s
      PROVE  Claimers(i)' = Claimers(i) /\ Resetters(i)' = Resetters(i)
  BY <1>0, <1>1, <1>4 DEF Claimers, Resetters
<1> SUFFICES ASSUME NEW i \in PSlots
             PROVE  Spent(pending'[i]) + (MaxRetries - 1) * Cardinality(Resetters(i)')
                      <= MaxRetries + (MaxRetries - 1) * K + Cardinality(Claimers(i)')
  BY DEF RetryInv, K
<1>5. CASE i # s
  BY <1>2, <1>4, <1>5 DEF RetryInv
<1>6. CASE i = s
  <2>1. IsFiniteSet(Senders) /\ Resetters(i)' \subseteq Senders /\ Claimers(i)' \subseteq Senders
    BY EngineAssumption DEF Resetters, Claimers
  <2>2. /\ Cardinality(Resetters(i)') \in Nat /\ Cardinality(Claimers(i)') \in Nat
        /\ K \in Nat /\ Cardinality(Resetters(i)') <= K
    BY <2>1, FS_Subset, FS_CardinalityType DEF K
  <2>3. MaxRetries - 1 \in Nat /\ MaxRetries \in Nat
    BY EngineAssumption
  <2>4. /\ (MaxRetries - 1) * Cardinality(Resetters(i)') <= (MaxRetries - 1) * K
        /\ (MaxRetries - 1) * Cardinality(Resetters(i)') \in Nat /\ (MaxRetries - 1) * K \in Nat
    BY <2>2, <2>3, Factor
  <2>5. Spent(pending'[i]) \in 0..MaxRetries
    <3>1. Left(pending'[i]) \in 0..MaxRetries
      BY <1>3, <1>6, SpentType
    <3> QED BY <1>3, <1>6, <2>3, <3>1 DEF Spent
  <2> QED BY <2>2, <2>3, <2>4, <2>5
<1> QED BY <1>5, <1>6

\* A sender that resets the retries grants MaxRetries - 1 more, and does so no more.
LEMMA ResetCounted ==
  ASSUME TypeOK, TypeOK', RetryInv, NEW t \in Senders, TrackReset(t)
  PROVE  RetryInv'
<1>s. PICK s \in PSlots : s = thr[t].slot
  BY DEF TypeOK, Threads, Thread
<1>0. t \in Threads /\ thr[t] \in Thread /\ thr[t].slot = s /\ thr[t].pc = "reset"
  BY <1>s DEF TypeOK, Threads, TrackReset
<1>1. thr'[t].pc = "idle" /\ \A u \in Senders : u # t => thr'[u] = thr[u]
  BY <1>0 DEF TrackReset, TypeOK, IdleThread
<1>2. /\ \A i \in PSlots : i # s => pending'[i] = pending[i]
      /\ pending'[s] = [pending[s] EXCEPT !.age = 0, !.retries = 0]
  BY <1>0 DEF TrackReset, TypeOK
<1>3. \A i \in PSlots : Claimers(i)' = Claimers(i)
  BY <1>0, <1>1 DEF Claimers
<1>4. ASSUME NEW i \in PSlots, i # s PROVE Resetters(i)' = Resetters(i)
  BY <1>0, <1>1, <1>4 DEF Resetters
<1>5. Resetters(s)' = Resetters(s) \ {t} /\ t \in Resetters(s)
  BY <1>0, <1>1 DEF Resetters
<1>6. Cardinality(Resetters(s)') = Cardinality(Resetters(s)) - 1
  BY <1>5, TrackersCounted, FS_RemoveElement
<1>7. Spent(pending'[s]) <= Spent(pending[s]) + (MaxRetries - 1) /\ Spent(pending'[s]) \in Nat
  <2>1. pending[s] \in Pending /\ pending'[s] \in Pending
    BY <1>0 DEF TypeOK
  <2>2. /\ pending'[s].retries = 0 /\ pending'[s].in_use = pending[s].in_use
        /\ pending'[s].resent = pending[s].resent
    BY <1>2, <2>1 DEF Pending
  <2>3. /\ pending[s].retries \in Nat /\ pending[s].resent \in Nat
        /\ Spent(pending'[s]) \in Nat
    BY <2>1, SpentType
  <2> QED BY <2>2, <2>3, EngineAssumption DEF Spent, Left
<1> SUFFICES ASSUME NEW i \in PSlots
             PROVE  Spent(pending'[i]) + (MaxRetries - 1) * Cardinality(Resetters(i)')
                      <= MaxRetries + (MaxRetries - 1) * K + Cardinality(Claimers(i)')
  BY DEF RetryInv, K
<1>8. Spent(pending[i]) + (MaxRetries - 1) * Cardinality(Resetters(i))
        <= MaxRetries + (MaxRetries - 1) * K + Cardinality(Claimers(i))
  BY DEF RetryInv
<1>9. CASE i # s
  BY <1>2, <1>3, <1>4, <1>8, <1>9
<1>10. CASE i = s
  <2> DEFINE n == Cardinality(Resetters(i))
             d == Cardinality(Resetters(i)')
             m == MaxRetries - 1
  <2>1. n \in Nat /\ Cardinality(Claimers(i)) \in Nat /\ K \in Nat /\ m \in Nat
    BY TrackersCounted, EngineAssumption
  <2>2. IsFiniteSet(Resetters(i)')
    BY <1>5, <1>10, TrackersCounted, FS_Subset
  <2>3. d \in Nat /\ n = d + 1
    <3>1. d \in Nat
      BY <2>2, FS_CardinalityType
    <3> QED BY <1>6, <1>10, <2>1, <3>1
  <2>4. Spent(pending[i]) \in Nat
    BY SpentType DEF TypeOK
  <2>5. Spent(pending'[i]) <= Spent(pending[i]) + m /\ Spent(pending'[i]) \in Nat
    BY <1>7, <1>10
  <2>6. Spent(pending[i]) + m * n <= MaxRetries + m * K + Cardinality(Claimers(i))
    BY <1>8
  <2>7. Cardinality(Claimers(i)') = Cardinality(Claimers(i))
    BY <1>3
  <2> HIDE DEF n, d, m
  <2>8. m * n = m * d + m /\ m * d \in Nat /\ m * K \in Nat /\ MaxRetries \in Nat
    BY <2>1, <2>3, Factor, EngineAssumption
  <2>9. Spent(pending'[i]) + m * d <= MaxRetries + m * K + Cardinality(Claimers(i)')
    BY <2>1, <2>4, <2>5, <2>6, <2>7, <2>8
  <2> QED BY <2>9 DEF m, d
<1> QED BY <1>9, <1>10

\* Every step keeps the invariant.
LEMMA RetryStep ==
  ASSUME TypeOK, TypeOK', RetryInv, [Next]_vars
  PROVE  RetryInv'
<1>0. /\ \A i \in PSlots : pending[i] \in Pending
      /\ \A t \in Senders : t \in Threads /\ thr[t] \in Thread /\ thr[t].slot \in PSlots
      /\ \A t \in Closers : t \in Threads /\ t \notin Senders
  BY EngineAssumption DEF TypeOK, Threads, Thread
<1>1. CASE UNCHANGED <<pending, thr>>
  <2>1. \A i \in PSlots : Spent(pending[i]) \in Nat
    BY <1>0, SpentType
  <2>2. RetriesKept /\ TrackersStay
    BY <1>1, <2>1 DEF RetriesKept, TrackersStay
  <2> QED BY <2>2, RetryKept
<1>2. ASSUME NEW kind \in Kinds, NEW pkt \in Datagrams(kind), Receive(pkt)
      PROVE  RetryInv'
  <2>1. ASSUME NEW i \in PSlots
        PROVE  pending'[i] = pending[i] \/ pending'[i] = [pending[i] EXCEPT !.in_use = FALSE]
    BY <1>2 DEF Receive, Acked
  <2>2. RetriesKept
    BY <1>0, <2>1, ReleasedSpent DEF RetriesKept
  <2> QED BY <1>2, <2>2, RetryKept DEF Receive, TrackersStay
<1>3. CASE RecvTimeout
  <2>1. RetriesKept
    BY <1>3, RetransmitKeepsRetries DEF RecvTimeout
  <2> QED BY <1>3, <2>1, RetryKept DEF RecvTimeout, TrackersStay
<1>4. CASE ProcessRefused \/ ProcessNew \/ ProcessKnown
  <2>1. RetriesKept /\ UNCHANGED thr
    BY <1>4, CleanKeepsRetries
      DEF ProcessRefused, ProcessNew, ProcessKnown, ProcessEntry, CleanPending
  <2> QED BY <2>1, RetryKept DEF TrackersStay
<1>5. ASSUME NEW t \in Senders, NEW id \in ConnIds, NEW pn \in PacketNumbers,
             GetConnection(t, id, pn)
      PROVE  RetryInv'
  <2>1. RetriesKept
    BY <1>5, CleanKeepsRetries DEF GetConnection, CleanPending
  <2>2. TrackersStay
    BY <1>0, <1>5 DEF GetConnection, TrackersStay, TypeOK
  <2> QED BY <2>1, <2>2, RetryKept
<1>6. ASSUME NEW t \in Senders, SendTo(t) \/ TrackScan(t) PROVE RetryInv'
  <2>1. \A i \in PSlots : Spent(pending[i]) \in Nat
    BY <1>0, SpentType
  <2>2. RetriesKept
    BY <1>6, <2>1 DEF SendTo, TrackScan, RetriesKept
  <2>3. TrackersStay
    <3>1. thr[t].pc \in {"send", "scan"} /\ \A u \in Senders : u # t => thr'[u] = thr[u]
      BY <1>0, <1>6 DEF SendTo, TrackScan, TypeOK
    <3>2. ASSUME SendTo(t) PROVE thr'[t].pc \in {"scan", "idle"}
      BY <1>0, <3>2 DEF SendTo, TypeOK, IdleThread, Thread
    <3>3. ASSUME TrackScan(t) PROVE thr'[t].pc \in {"claim", "idle"}
      <4>1. CASE thr' = [thr EXCEPT ![t] = IdleThread]
        BY <1>0, <4>1 DEF TypeOK, IdleThread
      <4>2. CASE \E i \in Lowest({i \in PSlots : ~pending[i].in_use}) :
                   thr' = [thr EXCEPT ![t].pc = "claim", ![t].slot = i]
        BY <1>0, <4>2 DEF TypeOK, Thread
      <4> QED BY <3>3, <4>1, <4>2 DEF TrackScan
    <3>4. thr'[t].pc \in {"scan", "claim", "idle"}
      BY <1>6, <3>2, <3>3
    <3> QED BY <3>1, <3>4 DEF TrackersStay
  <2> QED BY <2>2, <2>3, RetryKept
<1>7. ASSUME NEW t \in Senders, TrackClaim(t) PROVE RetryInv'
  BY <1>7, ClaimCounted
<1>8. ASSUME NEW t \in Senders, TrackFill(t) PROVE RetryInv'
  BY <1>8, FillCounted
<1>9. ASSUME NEW t \in Senders, TrackReset(t) PROVE RetryInv'
  BY <1>9, ResetCounted
<1>10. ASSUME NEW t \in Closers, NEW id \in ConnIds, CloseConnection(t, id)
      PROVE  RetryInv'
  <2>1. RetriesKept
    BY <1>10, CleanKeepsRetries DEF CloseConnection
  <2>2. TrackersStay
    BY <1>0, <1>10 DEF CloseConnection, TrackersStay, TypeOK, Threads
  <2> QED BY <2>1, <2>2, RetryKept
<1>11. ASSUME NEW t \in Closers, EmitClosed(t) PROVE RetryInv'
  <2>1. \A i \in PSlots : Spent(pending[i]) \in Nat
    BY <1>0, SpentType
  <2>2. RetriesKept
    BY <1>11, <2>1 DEF EmitClosed, RetriesKept
  <2>3. TrackersStay
    BY <1>0, <1>11 DEF EmitClosed, TrackersStay, TypeOK, Threads
  <2> QED BY <2>2, <2>3, RetryKept
<1>12. CASE Tick
  <2>1. ASSUME NEW i \in PSlots PROVE Spent(pending'[i]) <= Spent(pending[i])
    <3>1. /\ pending'[i].retries = pending[i].retries
          /\ pending'[i].resent = pending[i].resent /\ pending'[i].in_use = pending[i].in_use
      BY <1>0, <1>12 DEF Tick, Pending
    <3>2. Spent(pending'[i]) = Spent(pending[i]) /\ Spent(pending[i]) \in Nat
      BY <1>0, <3>1, SpentType DEF Spent, Left
    <3> QED BY <3>2
  <2>2. RetriesKept
    BY <2>1 DEF RetriesKept
  <2> QED BY <1>12, <2>2, RetryKept DEF Tick, TrackersStay
<1>13. CASE Stop \/ CloseSocket \/ UNCHANGED vars
  BY <1>13, <1>1 DEF Stop, CloseSocket, vars
<1>14. CASE EngineStep
  BY <1>14, <1>1, <1>2, <1>3, <1>4
    DEF EngineStep, EnterRecv, ReceiveNothing, ExitLoop, EmitState, FindForData,
        OnData, SendAck
<1> QED BY <1>5, <1>6, <1>7, <1>8, <1>9, <1>10, <1>11, <1>12, <1>13, <1>14 DEF Next

\* A packet is sent again at most QUIC_MAX_RETRIES times for itself and for each thread
\* that sends, for any number of senders that take and write slots without the lock
\* while the timer counts.
THEOREM RetriesBounded == Spec => []RetryBound
<1>1. Init => RetryInv
  <2> SUFFICES ASSUME Init, NEW i \in PSlots
               PROVE  Spent(pending[i]) + (MaxRetries - 1) * Cardinality(Resetters(i))
                        <= MaxRetries + (MaxRetries - 1) * K + Cardinality(Claimers(i))
    BY DEF RetryInv
  <2>1. pending[i].retries = 0 /\ pending[i].resent = 0 /\ pending[i].in_use = FALSE
    BY DEF Init
  <2>2. Spent(pending[i]) = MaxRetries - 1
    BY <2>1, EngineAssumption DEF Spent, Left
  <2>3. Resetters(i) = {}
    BY DEF Init, Resetters, IdleThread, Threads
  <2>4. Cardinality(Resetters(i)) = 0
    BY <2>3, FS_EmptySet
  <2>5. K \in Nat /\ Cardinality(Claimers(i)) \in Nat /\ MaxRetries \in Nat
        /\ MaxRetries - 1 \in Nat
    BY TrackersCounted, EngineAssumption
  <2>6. (MaxRetries - 1) * K \in Nat /\ (MaxRetries - 1) * 0 = 0
    BY <2>5, Factor
  <2> QED BY <2>2, <2>4, <2>5, <2>6
<1>2. TypeOK /\ RetryInv => RetryBound
  <2> SUFFICES ASSUME TypeOK, RetryInv, NEW i \in PSlots
               PROVE  pending[i].resent <= MaxRetries * (Cardinality(Senders) + 1)
    BY DEF RetryBound
  <2>1. pending[i].resent \in Nat /\ Left(pending[i]) \in Nat
    BY SpentType DEF TypeOK
  <2>2. /\ K \in Nat /\ Cardinality(Claimers(i)) \in 0..K
        /\ Cardinality(Resetters(i)) \in Nat
    BY TrackersCounted
  <2>3. MaxRetries \in Nat /\ MaxRetries - 1 \in Nat
    BY EngineAssumption
  <2>4. (MaxRetries - 1) * Cardinality(Resetters(i)) \in Nat /\ (MaxRetries - 1) * K \in Nat
    BY <2>2, <2>3, Factor
  <2>5. pending[i].resent <= MaxRetries + (MaxRetries - 1) * K + K
    BY <2>1, <2>2, <2>3, <2>4 DEF RetryInv, Spent
  <2>6. MaxRetries + (MaxRetries - 1) * K + K = MaxRetries * (K + 1)
    BY <2>2, <2>3
  <2> QED BY <2>5, <2>6 DEF K
<1> QED BY <1>1, <1>2, TypeInit, TypeStep, RetryStep, PTL DEF Spec

-----------------------------------------------------------------------------
(* The metrics.                                                            *)

\* The entries in use can be counted.
LEMMA LiveFinite == ASSUME NEW c PROVE IsFiniteSet(Live(c)) /\ Cardinality(Live(c)) \in Nat
<1>1. IsFiniteSet(Slots)
  BY FS_Interval, EngineAssumption DEF Slots
<1>2. Live(c) \in SUBSET Slots
  BY DEF Live
<1>3. IsFiniteSet(Live(c))
  BY <1>1, <1>2, FS_Subset
<1> QED BY <1>3, FS_CardinalityType

\* The cleanup closes the entries that have expired, and counts them.
LEMMA CleanCounts ==
  ASSUME TypeOK
  PROVE  /\ Live(CleanConns) = Live(conns) \ Expired
         /\ Cardinality(Live(CleanConns)) = Cardinality(Live(conns)) - Cardinality(Expired)
         /\ Cardinality(Expired) \in Nat
<1>1. \A s \in Slots : ~Freed(conns[s]).in_use
  BY DEF TypeOK, Freed, Entry
<1>2. Live(CleanConns) = Live(conns) \ Expired
  BY <1>1 DEF Live, CleanConns
<1>3. Live(conns) \cap Expired = Expired
  BY DEF Expired
<1>4. Expired \in SUBSET Live(conns)
  BY DEF Expired
<1>5. IsFiniteSet(Expired)
  BY <1>4, FS_Subset, LiveFinite
<1>6. Cardinality(Live(conns) \ Expired) = Cardinality(Live(conns)) - Cardinality(Expired)
  BY <1>3, FS_Difference, LiveFinite
<1> QED BY <1>2, <1>5, <1>6, FS_CardinalityType

\* A step that changes no entry's use changes no count.
LEMMA SameCount ==
  ASSUME MetricsBalance, UNCHANGED <<balance, aborted>>,
         \A s \in Slots : conns'[s].in_use = conns[s].in_use
  PROVE  MetricsBalance'
<1>1. Live(conns') = Live(conns)
  BY DEF Live
<1> QED BY <1>1 DEF MetricsBalance

\* A step that closes just the entries that have expired.
LEMMA CleanedCount ==
  ASSUME TypeOK, MetricsBalance, balance' = CleanBalance, UNCHANGED aborted,
         \A s \in Slots : conns'[s].in_use = CleanConns[s].in_use
  PROVE  MetricsBalance'
<1>1. Live(conns') = Live(CleanConns)
  BY DEF Live
<1>2. balance' = balance - Cardinality(Expired) /\ aborted \in Int
  BY DEF CleanBalance, TypeOK
<1> QED BY <1>1, <1>2, CleanCounts, LiveFinite DEF MetricsBalance

\* A packet for the entry e in slot s: which entries are in use then.
LEMMA ProcessedLive ==
  ASSUME TypeOK, NEW s \in Slots, NEW e, e.in_use,
         conns' = [CleanConns EXCEPT ![s] = Handled(e)],
         Handled(e).in_use <=> "CLOSE" \notin eng.pkt.flags
  PROVE  Live(conns') = IF "CLOSE" \in eng.pkt.flags THEN Live(CleanConns) \ {s}
                        ELSE Live(CleanConns) \cup {s}
<1>1. CleanConns \in [Slots -> Entry]
  BY CleanTypes
<1> QED BY <1>1 DEF Live

\* Processing a packet counts the connection it opens or closes; one that does both
\* is counted as closed only, which is what aborted keeps track of.
LEMMA ProcessCount ==
  ASSUME TypeOK, MetricsBalance, ProcessNew \/ ProcessKnown
  PROVE  MetricsBalance'
<1>0. /\ aborted \in Nat /\ balance \in Int /\ CleanBalance = balance - Cardinality(Expired)
  BY EngineAssumption DEF TypeOK, CleanBalance
<1>1. CleanBalance = Cardinality(Live(CleanConns)) - aborted
  BY <1>0, CleanCounts, LiveFinite DEF MetricsBalance
<1>2. CASE ProcessNew
  <2>1. PICK s \in FreeSlot(CleanConns) : ProcessEntry(s, NewEntry, "CONNECTING", TRUE)
    BY <1>2 DEF ProcessNew
  <2>2. s \in Slots /\ s \notin Live(CleanConns)
    BY DEF FreeSlot, Lowest
  <2>3. NewEntry.in_use /\ (Handled(NewEntry).in_use <=> "CLOSE" \notin eng.pkt.flags)
    BY DEF NewEntry, Handled, Freed
  <2>4. Live(conns') = IF "CLOSE" \in eng.pkt.flags THEN Live(CleanConns) \ {s}
                       ELSE Live(CleanConns) \cup {s}
    BY <2>1, <2>2, <2>3, ProcessedLive DEF ProcessEntry
  <2>5. balance' = CleanBalance + (IF "CLOSE" \in eng.pkt.flags THEN -1 ELSE 1)
    BY <2>1 DEF ProcessEntry
  <2>6. aborted' = IF "CLOSE" \in eng.pkt.flags THEN aborted + 1 ELSE aborted
    BY <1>2 DEF ProcessNew
  <2>7. CASE "CLOSE" \in eng.pkt.flags
    <3>1. Live(conns') = Live(CleanConns)
      BY <2>2, <2>4, <2>7
    <3> QED BY <1>0, <1>1, <2>5, <2>6, <2>7, <3>1, LiveFinite DEF MetricsBalance
  <2>8. CASE "CLOSE" \notin eng.pkt.flags
    <3>1. Cardinality(Live(conns')) = Cardinality(Live(CleanConns)) + 1
      BY <2>2, <2>4, <2>8, LiveFinite, FS_AddElement
    <3> QED BY <1>0, <1>1, <2>5, <2>6, <2>8, <3>1, LiveFinite DEF MetricsBalance
  <2> QED BY <2>7, <2>8
<1>3. CASE ProcessKnown
  <2> DEFINE E(s) == [CleanConns[s] EXCEPT !.addr = eng.pkt.addr, !.age = 0]
  <2>1. PICK s \in FindEntry(CleanConns, eng.pkt.connection_id) :
            /\ conns' = [CleanConns EXCEPT ![s] = Handled(E(s))]
            /\ balance' = CleanBalance + (IF "CLOSE" \in eng.pkt.flags THEN -1 ELSE 0)
    BY <1>3 DEF ProcessKnown, ProcessEntry
  <2>2. s \in Slots /\ s \in Live(CleanConns) /\ CleanConns \in [Slots -> Entry]
    BY FindEntryProps, CleanTypes DEF Live
  <2>3. E(s).in_use
    BY <2>2 DEF Entry, Live
  <2>4. Handled(E(s)).in_use <=> "CLOSE" \notin eng.pkt.flags
    BY <2>2 DEF Entry, Live, Handled, Freed
  <2>5. Live(conns') = IF "CLOSE" \in eng.pkt.flags THEN Live(CleanConns) \ {s}
                       ELSE Live(CleanConns) \cup {s}
    <3> DEFINE e == E(s)
    <3>1. e.in_use /\ (Handled(e).in_use <=> "CLOSE" \notin eng.pkt.flags)
          /\ conns' = [CleanConns EXCEPT ![s] = Handled(e)]
      BY <2>1, <2>3, <2>4
    <3> HIDE DEF e
    <3> QED BY <2>2, <3>1, ProcessedLive
  <2>6. aborted' = aborted
    BY <1>3 DEF ProcessKnown
  <2>7. CASE "CLOSE" \in eng.pkt.flags
    <3>1. Cardinality(Live(conns')) = Cardinality(Live(CleanConns)) - 1
      BY <2>2, <2>5, <2>7, LiveFinite, FS_RemoveElement
    <3> QED BY <1>0, <1>1, <2>1, <2>6, <2>7, <3>1, LiveFinite DEF MetricsBalance
  <2>8. CASE "CLOSE" \notin eng.pkt.flags
    <3>1. Live(conns') = Live(CleanConns)
      BY <2>2, <2>5, <2>8
    <3> QED BY <1>0, <1>1, <2>1, <2>6, <2>8, <3>1, LiveFinite DEF MetricsBalance
  <2> QED BY <2>7, <2>8
<1> QED BY <1>2, <1>3

\* Stream data and time change no entry's use.
LEMMA SameUse ==
  ASSUME TypeOK, OnData \/ Tick
  PROVE  \A s \in Slots : /\ conns'[s].in_use = conns[s].in_use
                          /\ conns'[s].connection_id = conns[s].connection_id
                          /\ conns'[s].state = conns[s].state
<1> SUFFICES ASSUME NEW s \in Slots
             PROVE  /\ conns'[s].in_use = conns[s].in_use
                    /\ conns'[s].connection_id = conns[s].connection_id
                    /\ conns'[s].state = conns[s].state
  OBVIOUS
<1>1. conns[s] \in Entry /\ eng.slot \in Slots
  BY DEF TypeOK, Engine
<1>2. CASE OnData
  <2>1. PICK S : conns' = conns \/ conns' = [conns EXCEPT ![eng.slot].streams = S]
    BY <1>2 DEF OnData
  <2>2. conns'[s] = conns[s] \/ conns'[s] = [conns[s] EXCEPT !.streams = S]
    BY <1>1, <2>1 DEF TypeOK
  <2> QED BY <1>1, <2>2 DEF Entry
<1>3. CASE Tick
  <2>1. conns'[s] = conns[s] \/ conns'[s] = [conns[s] EXCEPT !.age = @ + 1]
    BY <1>3 DEF Tick
  <2> QED BY <1>1, <2>1 DEF Entry
<1> QED BY <1>2, <1>3

\* Every step keeps the metrics in balance.
LEMMA BalanceStep ==
  ASSUME TypeOK, MetricsBalance, [Next]_vars
  PROVE  MetricsBalance'
<1>1. CASE UNCHANGED <<conns, balance, aborted>>
  BY <1>1, SameCount
<1>2. CASE OnData \/ Tick
  <2>1. UNCHANGED <<balance, aborted>>
    BY <1>2 DEF OnData, Tick
  <2> QED BY <1>2, <2>1, SameUse, SameCount
<1>3. CASE conns' = CleanConns /\ balance' = CleanBalance /\ UNCHANGED aborted
  BY <1>3, CleanedCount
<1>4. ASSUME NEW t \in Senders, NEW id \in ConnIds, NEW pn \in PacketNumbers,
             GetConnection(t, id, pn)
      PROVE  MetricsBalance'
  <2>1. \A e \in Entry : [e EXCEPT !.age = 0].in_use = e.in_use
    BY DEF Entry
  <2>2. \A s \in Slots : conns'[s].in_use = CleanConns[s].in_use
    BY <1>4, <2>1, CleanTypes DEF GetConnection
  <2>3. balance' = CleanBalance /\ UNCHANGED aborted
    BY <1>4 DEF GetConnection
  <2> QED BY <2>2, <2>3, CleanedCount
<1>5. ASSUME NEW t \in Closers, NEW id \in ConnIds, CloseConnection(t, id)
      PROVE  MetricsBalance'
  <2>1. PICK s \in FindEntry(conns, id) : conns' = [conns EXCEPT ![s] = Freed(@)]
    BY <1>5 DEF CloseConnection
  <2>2. s \in Live(conns) /\ s \in Slots
    BY FindEntryProps DEF Live
  <2>3. ~Freed(conns[s]).in_use
    BY <2>2 DEF TypeOK, Freed, Entry
  <2>4. Live(conns') = Live(conns) \ {s}
    BY <2>1, <2>2, <2>3 DEF Live, TypeOK
  <2>5. Cardinality(Live(conns')) = Cardinality(Live(conns)) - 1
    BY <2>2, <2>4, LiveFinite, FS_RemoveElement, ZenonT(30)
  <2>6. balance' = balance - 1 /\ aborted' = aborted /\ aborted \in Nat
    BY <1>5, EngineAssumption DEF CloseConnection, TypeOK
  <2> QED BY <2>5, <2>6, LiveFinite DEF MetricsBalance
<1>6. CASE EngineStep
  BY <1>1, <1>2, <1>3, <1>6, ProcessCount
    DEF EngineStep, EnterRecv, Receive, ReceiveNothing, ExitLoop, RecvTimeout,
        ProcessRefused, EmitState, FindForData, SendAck
<1>7. ASSUME NEW t \in Threads,
             SendTo(t) \/ TrackScan(t) \/ TrackClaim(t) \/ TrackFill(t)
             \/ TrackReset(t) \/ EmitClosed(t)
      PROVE  UNCHANGED <<conns, balance, aborted>>
  BY <1>7 DEF SendTo, TrackScan, TrackClaim, TrackFill, TrackReset, EmitClosed
<1>8. CASE Stop \/ CloseSocket \/ UNCHANGED vars
  BY <1>1, <1>8 DEF Stop, CloseSocket, vars
<1> QED BY <1>1, <1>2, <1>4, <1>5, <1>6, <1>7, <1>8 DEF Next, Threads

\* connections_opened - connections_closed is the number of connections in use, less
\* those one datagram opened and closed, in whatever order the engine thread, the
\* cleanup of a sender and a closing thread take connections out of the table: none
\* is counted twice, and none is forgotten.
THEOREM MetricsBalanced == Spec => []MetricsBalance
<1>1. Init => MetricsBalance
  <2> SUFFICES ASSUME Init PROVE MetricsBalance
    OBVIOUS
  <2>1. Live(conns) = {}
    BY DEF Init, Live
  <2>2. Cardinality(Live(conns)) = 0
    BY <2>1, FS_EmptySet
  <2>3. balance = 0 /\ aborted = 0
    BY DEF Init
  <2> QED BY <2>2, <2>3 DEF MetricsBalance
<1> QED BY <1>1, TypeInit, TypeStep, BalanceStep, PTL DEF Spec

-----------------------------------------------------------------------------
(* What the state handler is told.                                         *)

\* The connection in slot s and its state can be told, and the handler knows the state
\* or will be told it now.
Reported(s) ==
    /\ conns[s].connection_id \in ConnIds /\ conns[s].state # "IDLE"
    /\ IF eng.pc = "emit" /\ eng.pkt.connection_id = conns[s].connection_id
       THEN \/ eng.changed = conns[s].state
            \/ eng.changed = "IDLE" /\ seen[conns[s].connection_id] = conns[s].state
       ELSE seen[conns[s].connection_id] = conns[s].state

PeerKnown == eng.pc \in {"process", "emit"} => eng.pkt.connection_id \in ConnIds

ReportInv == PeerKnown /\ \A s \in Live(conns) : Reported(s)

\* Table c has nothing in use that the connection table does not have in this state.
StatesKept(c) ==
    \A s \in Slots : c[s].in_use =>
      /\ conns[s].in_use /\ c[s].connection_id = conns[s].connection_id
      /\ c[s].state = conns[s].state

\* The cleanup changes no state of a connection that stays.
LEMMA CleanKeepsStates == ASSUME TypeOK PROVE StatesKept(CleanConns)
<1>1. \A s \in Slots : ~Freed(conns[s]).in_use
  BY DEF TypeOK, Freed, Entry
<1> QED BY <1>1 DEF StatesKept, CleanConns

\* A step that changes no state and tells nothing, while no state is to be told or
\* by another thread.
LEMMA StillReported ==
  ASSUME ReportInv, StatesKept(conns'), UNCHANGED seen,
         \/ UNCHANGED eng
         \/ /\ eng.pc # "emit" /\ eng'.pc # "emit"
            /\ eng'.pc = "process" => eng'.pkt.connection_id \in ConnIds
  PROVE  ReportInv'
<1>1. PeerKnown'
  BY DEF PeerKnown, ReportInv
<1>2. ASSUME NEW s \in Live(conns') PROVE Reported(s)'
  <2>1. /\ s \in Live(conns) /\ conns'[s].connection_id = conns[s].connection_id
        /\ conns'[s].state = conns[s].state
    BY DEF Live, StatesKept
  <2>2. Reported(s)
    BY <2>1 DEF ReportInv
  <2> QED BY <2>1, <2>2 DEF Reported
<1> QED BY <1>1, <1>2 DEF ReportInv, Live

\* A packet for slot s that leaves the connection in state e.state, told being what is
\* to be told so far: the handler will be told the state, or knows it.
LEMMA ProcessReported ==
  ASSUME TypeOK, ReportInv, eng.pc = "process", NEW s \in Slots,
         NEW e \in Entry, e.connection_id = eng.pkt.connection_id, e.state # "IDLE",
         NEW told \in {"IDLE", "CONNECTING", "CONNECTED", "CLOSED"}, NEW created,
         ProcessEntry(s, e, told, created),
         \A t \in Slots \ {s} :
           CleanConns[t].in_use => CleanConns[t].connection_id # eng.pkt.connection_id,
         \/ told = e.state /\ "INITIAL" \in eng.pkt.flags
         \/ told \in {"IDLE", e.state} /\ seen[e.connection_id] = e.state
  PROVE  ReportInv'
<1> DEFINE id == eng.pkt.connection_id
<1>1. /\ conns' = [CleanConns EXCEPT ![s] = Handled(e)] /\ UNCHANGED seen
      /\ eng' = IF ShouldDeliver(e)
                THEN [eng EXCEPT !.pc = "emit", !.changed = StateChanged(e, told)]
                ELSE AtTop
  BY DEF ProcessEntry
<1>2. CleanConns \in [Slots -> Entry] /\ eng \in Engine /\ id \in ConnIds
  BY CleanTypes DEF TypeOK, ReportInv, PeerKnown
<1>3. conns'[s] = Handled(e) /\ \A t \in Slots \ {s} : conns'[t] = CleanConns[t]
  BY <1>1, <1>2
<1>4. Handled(e).connection_id = id
  BY HandledKeeps
<1>5. \/ /\ eng'.pc = "emit" /\ eng'.pkt = eng.pkt /\ eng'.changed = StateChanged(e, told)
      \/ /\ eng'.pc = "top" /\ ~ShouldDeliver(e)
  BY <1>1, <1>2 DEF Engine, AtTop
<1>6. PeerKnown'
  BY <1>2, <1>5 DEF PeerKnown
<1>7. ASSUME NEW t \in Live(conns'), t # s PROVE Reported(t)'
  <2>1. t \in Slots /\ conns'[t] = CleanConns[t] /\ CleanConns[t].in_use
    BY <1>3, <1>7 DEF Live
  <2>2. /\ t \in Live(conns) /\ conns'[t].connection_id = conns[t].connection_id
        /\ conns'[t].state = conns[t].state
    BY <2>1, CleanKeepsStates DEF StatesKept, Live
  <2>3. /\ conns[t].connection_id \in ConnIds /\ conns[t].state # "IDLE"
        /\ seen[conns[t].connection_id] = conns[t].state
    BY <2>2 DEF ReportInv, Reported
  <2>4. conns[t].connection_id # id
    BY <1>7, <2>1, <2>2
  <2> QED BY <1>1, <1>5, <2>2, <2>3, <2>4 DEF Reported
<1>8. ASSUME s \in Live(conns') PROVE Reported(s)'
  <2>1. "CLOSE" \notin eng.pkt.flags
    BY <1>3, <1>8 DEF Live, Handled, Freed, Entry
  <2>2. CASE Establishes(e)
    <3>1. Handled(e).state = "CONNECTED" /\ StateChanged(e, told) = "CONNECTED"
      BY <2>1, <2>2 DEF Handled, StateChanged, Entry
    <3>2. ShouldDeliver(e)
      BY <3>1 DEF ShouldDeliver
    <3> QED BY <1>2, <1>3, <1>4, <1>5, <3>1, <3>2 DEF Reported
  <2>3. CASE ~Establishes(e)
    <3>1. Handled(e) = e /\ StateChanged(e, told) = told
      BY <2>1, <2>3 DEF Handled, StateChanged
    <3>2. CASE eng'.pc = "top"
      <4>1. "INITIAL" \notin eng.pkt.flags
        BY <1>5, <3>2 DEF ShouldDeliver
      <4>2. seen[id] = e.state
        BY <4>1
      <4> QED BY <1>1, <1>2, <1>3, <1>4, <3>1, <3>2, <4>2 DEF Reported
    <3>3. CASE eng'.pc = "emit"
      <4>1. eng'.changed = told /\ eng'.pkt = eng.pkt
        BY <1>5, <3>1, <3>3
      <4>2. told = e.state \/ (told = "IDLE" /\ seen[id] = e.state)
        OBVIOUS
      <4> QED BY <1>1, <1>2, <1>3, <1>4, <3>1, <3>3, <4>1, <4>2 DEF Reported
    <3> QED BY <1>5, <3>2, <3>3
  <2> QED BY <2>2, <2>3
<1> QED BY <1>6, <1>7, <1>8 DEF ReportInv, Live

\* Processing a packet reports what it changes.
LEMMA ProcessReports ==
  ASSUME TypeOK, UniqueConnection, ReportInv, ProcessNew \/ ProcessKnown
  PROVE  ReportInv'
<1> DEFINE id == eng.pkt.connection_id
<1>0. /\ eng.pc = "process" /\ CleanConns \in [Slots -> Entry] /\ eng.pkt \in Packet
  BY CleanTypes DEF ProcessNew, ProcessKnown, TypeOK, Engine
<1>1. CASE ProcessNew
  <2>1. PICK s \in FreeSlot(CleanConns) : ProcessEntry(s, NewEntry, "CONNECTING", TRUE)
    BY <1>1 DEF ProcessNew
  <2>2. s \in Slots
    BY DEF FreeSlot, Lowest
  <2>3. NewEntry \in Entry
    <3>1. {} \in {S \in SUBSET (StreamIds \cup {0}) : Cardinality(S) <= MaxStreams}
      BY FS_EmptySet, EngineAssumption
    <3> QED BY <1>0, <3>1, EngineAssumption DEF NewEntry, Entry, Packet
  <2>4. NewEntry.connection_id = id /\ NewEntry.state = "CONNECTING"
    BY DEF NewEntry
  <2>5. \A t \in Slots \ {s} : CleanConns[t].in_use => CleanConns[t].connection_id # id
    BY <1>1, FindEntryProps DEF ProcessNew
  <2>6. "INITIAL" \in eng.pkt.flags
    BY <1>1 DEF ProcessNew
  <2> QED BY <1>0, <2>1, <2>2, <2>3, <2>4, <2>5, <2>6, ProcessReported
<1>2. CASE ProcessKnown
  <2> DEFINE E(s) == [CleanConns[s] EXCEPT !.addr = eng.pkt.addr, !.age = 0]
             T(s) == IF CleanConns[s].addr # eng.pkt.addr THEN CleanConns[s].state ELSE "IDLE"
  <2>1. PICK s \in FindEntry(CleanConns, id) : ProcessEntry(s, E(s), T(s), FALSE)
    BY <1>2 DEF ProcessKnown
  <2>2. s \in Slots /\ CleanConns[s].in_use /\ CleanConns[s].connection_id = id
    BY FindEntryProps
  <2> DEFINE e == E(s)
             told == T(s)
  <2>3. e \in Entry
    <3>1. CleanConns[s] \in Entry /\ eng.pkt.addr \in Addrs \cup {0}
          /\ 0 \in 0..(ConnectionTimeout + 1)
      BY <1>0, <2>2, EngineAssumption DEF Packet
    <3> QED BY <3>1, Zenon DEF Entry
  <2>4. e.connection_id = id /\ e.state = CleanConns[s].state
    BY <1>0, <2>2 DEF Entry
  <2>5. seen[id] = CleanConns[s].state /\ CleanConns[s].state # "IDLE"
    <3>1. /\ s \in Live(conns) /\ conns[s].connection_id = id
          /\ CleanConns[s].state = conns[s].state
      BY <2>2, CleanKeepsStates DEF StatesKept, Live
    <3> QED BY <1>0, <3>1 DEF ReportInv, Reported
  <2>6. \A t \in Slots \ {s} : CleanConns[t].in_use => CleanConns[t].connection_id # id
    BY <2>2, CleanAddsNothing, NothingAddedKeeps DEF OneEntryEach
  <2>7. /\ told \in {"IDLE", "CONNECTING", "CONNECTED", "CLOSED"}
        /\ told \in {"IDLE", e.state}
    BY <1>0, <2>2, <2>4 DEF Entry
  <2>8. ProcessEntry(s, e, told, FALSE)
    BY <2>1
  <2> HIDE DEF e, told
  <2> QED BY <1>0, <2>2, <2>3, <2>4, <2>5, <2>6, <2>7, <2>8, ProcessReported
<1> QED BY <1>1, <1>2

\* Telling the handler settles what was to be told.
LEMMA EmitReports ==
  ASSUME TypeOK, ReportInv, EmitState
  PROVE  ReportInv'
<1> DEFINE id == eng.pkt.connection_id
<1>1. /\ eng.pc = "emit" /\ conns' = conns /\ id \in ConnIds
      /\ seen' = IF eng.changed = "IDLE" THEN seen ELSE [seen EXCEPT ![id] = eng.changed]
  BY DEF EmitState, ReportInv, PeerKnown
<1>2. eng'.pc \in {"find", "top"}
  BY DEF EmitState, AtTop, TypeOK, Engine
<1>3. ASSUME NEW s \in Live(conns) PROVE Reported(s)'
  <2>1. Reported(s)
    BY DEF ReportInv
  <2>2. seen \in [ConnIds -> {"IDLE", "CONNECTING", "CONNECTED", "CLOSED"}]
    BY DEF TypeOK
  <2>3. seen'[conns[s].connection_id] = conns[s].state
    <3>1. CASE conns[s].connection_id = id
      BY <1>1, <2>1, <2>2, <3>1 DEF Reported
    <3>2. CASE conns[s].connection_id # id
      <4>1. seen[conns[s].connection_id] = conns[s].state
        BY <2>1, <3>2 DEF Reported
      <4>2. conns[s].connection_id \in ConnIds
        BY <2>1 DEF Reported
      <4> QED BY <1>1, <2>2, <3>2, <4>1, <4>2
    <3> QED BY <3>1, <3>2
  <2> QED BY <1>1, <1>2, <2>1, <2>3 DEF Reported
<1> QED BY <1>1, <1>2, <1>3 DEF ReportInv, PeerKnown, Live

\* Every step that no closing thread takes leaves nothing unreported.
LEMMA ReportStep ==
  ASSUME Closers = {}, TypeOK, UniqueConnection, ReportInv, [Next]_vars
  PROVE  ReportInv'
<1>1. ASSUME UNCHANGED conns PROVE StatesKept(conns')
  BY <1>1 DEF StatesKept
<1>2. CASE EnterRecv \/ ReceiveNothing \/ ExitLoop \/ FindForData \/ SendAck
  <2>1. UNCHANGED <<conns, seen>>
    BY <1>2 DEF EnterRecv, ReceiveNothing, ExitLoop, FindForData, SendAck
  <2>2. eng.pc # "emit" /\ eng'.pc \notin {"emit", "process"}
    <3>1. CASE EnterRecv \/ FindForData
      BY <3>1 DEF EnterRecv, FindForData, TypeOK, Engine
    <3>2. CASE ReceiveNothing \/ ExitLoop \/ SendAck
      BY <3>2 DEF ReceiveNothing, ExitLoop, SendAck, AtTop
    <3> QED BY <1>2, <3>1, <3>2
  <2> QED BY <1>1, <2>1, <2>2, StillReported
<1>3. ASSUME NEW kind \in Kinds, NEW pkt \in Datagrams(kind), Receive(pkt) PROVE ReportInv'
  <2>1. UNCHANGED <<conns, seen>> /\ eng.pc # "emit"
    BY <1>3 DEF Receive
  <2>2. eng'.pc = "process" /\ eng'.pkt = pkt
    BY <1>3 DEF Receive, TypeOK, Engine
  <2>3. pkt.connection_id \in ConnIds
    BY DEF Datagrams
  <2> QED BY <1>1, <2>1, <2>2, <2>3, StillReported
<1>4. CASE RecvTimeout \/ ProcessRefused
  <2>1. /\ conns' = CleanConns /\ UNCHANGED seen
        /\ eng.pc # "emit" /\ eng'.pc = "top"
    BY <1>4 DEF RecvTimeout, ProcessRefused, AtTop
  <2> QED BY <2>1, CleanKeepsStates, StillReported
<1>5. CASE OnData
  <2>1. StatesKept(conns')
    BY <1>5, SameUse DEF StatesKept
  <2>2. UNCHANGED seen /\ eng.pc # "emit" /\ eng'.pc \notin {"emit", "process"}
    BY <1>5 DEF OnData, TypeOK, Engine
  <2> QED BY <2>1, <2>2, StillReported
<1>6. CASE ProcessNew \/ ProcessKnown
  BY <1>6, ProcessReports
<1>7. CASE EmitState
  BY <1>7, EmitReports
<1>8. ASSUME NEW t \in Senders, NEW id \in ConnIds, NEW pn \in PacketNumbers,
             GetConnection(t, id, pn)
      PROVE  ReportInv'
  <2>1. \A e \in Entry : /\ [e EXCEPT !.age = 0].in_use = e.in_use
                         /\ [e EXCEPT !.age = 0].connection_id = e.connection_id
                         /\ [e EXCEPT !.age = 0].state = e.state
    BY DEF Entry
  <2>2. StatesKept(conns')
    BY <1>8, <2>1, CleanTypes, CleanKeepsStates DEF GetConnection, StatesKept
  <2> QED BY <1>8, <2>2, StillReported DEF GetConnection
<1>9. ASSUME NEW t \in Senders, SendTo(t) \/ TrackScan(t) \/ TrackClaim(t) \/ TrackFill(t)
                                 \/ TrackReset(t)
      PROVE  ReportInv'
  <2>1. UNCHANGED <<conns, seen, eng>>
    BY <1>9 DEF SendTo, TrackScan, TrackClaim, TrackFill, TrackReset
  <2> QED BY <1>1, <2>1, StillReported
<1>10. CASE Tick
  <2>1. StatesKept(conns')
    BY <1>10, SameUse DEF StatesKept
  <2> QED BY <1>10, <2>1, StillReported DEF Tick
<1>11. CASE Stop \/ CloseSocket \/ UNCHANGED vars
  <2>1. UNCHANGED <<conns, seen, eng>>
    BY <1>11 DEF Stop, CloseSocket, vars
  <2> QED BY <1>1, <2>1, StillReported
<1>12. CASE EngineStep
  BY <1>2, <1>3, <1>4, <1>5, <1>6, <1>7, <1>12 DEF EngineStep
<1> QED BY <1>8, <1>9, <1>10, <1>11, <1>12 DEF Next

\* As long as no thread closes connections beside the engine, the state handler knows
\* the state of every connection in use, except while it is being told: no packet
\* changes a state and is then not delivered, and what expires and opens again under
\* the same identifier is told anew.
THEOREM StatesReported == ASSUME Closers = {} PROVE Spec => []StateReported
<1>1. Init => ReportInv
  BY DEF Init, ReportInv, PeerKnown, Live, AtTop
<1>2. ReportInv => StateReported
  BY DEF ReportInv, Reported, StateReported
<1>3. TypeOK /\ UniqueConnection /\ ReportInv /\ [Next]_vars => ReportInv'
  BY ReportStep
<1> QED BY <1>1, <1>2, <1>3, TypeCorrect, OneEntryPerConnection, PTL DEF Spec

=============================================================================
