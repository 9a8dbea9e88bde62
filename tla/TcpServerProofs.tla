--------------------------- MODULE TcpServerProofs ---------------------------
(***************************************************************************)
(* Theorems about TcpServer, for any number of workers and places, with    *)
(* and without TLS.                                                        *)
(***************************************************************************)
EXTENDS TcpServer, FiniteSetTheorems, TLAPS

\* The workers that exist are finitely many.
LEMMA ActiveFinite == IsFiniteSet(Active) /\ Cardinality(Active) \in Nat
<1>1. Active \subseteq Workers
  BY DEF Active
<1> QED BY <1>1, ServerAssumption, FS_Subset, FS_CardinalityType

\* Starting a worker adds one.
LEMMA SpawnAdds ==
  ASSUME TypeOK, NEW w \in Workers, Spawn(w)
  PROVE  Cardinality(Active') = Cardinality(Active) + 1
<1>1. Active' = Active \cup {w}
  BY DEF Active, Spawn, TypeOK
<1>2. w \notin Active
  BY DEF Active, Spawn
<1> QED BY <1>1, <1>2, ActiveFinite, FS_AddElement

\* A worker that ends takes one away.
LEMMA EndRemoves ==
  ASSUME TypeOK, NEW w \in Workers, worker[w] # "none",
         worker' = [worker EXCEPT ![w] = "none"]
  PROVE  Cardinality(Active') = Cardinality(Active) - 1
<1>1. Active' = Active \ {w}
  BY DEF Active, TypeOK
<1>2. w \in Active
  BY DEF Active
<1> QED BY <1>1, <1>2, ActiveFinite, FS_RemoveElement

\* A step of a worker that does not end keeps them.
LEMMA MoveKeeps ==
  ASSUME TypeOK, NEW w \in Workers, worker[w] # "none", NEW pc, pc # "none",
         worker' = [worker EXCEPT ![w] = pc]
  PROVE  Active' = Active
  BY DEF Active, TypeOK

\* The invariant holds initially.
LEMMA InvInit == Init => ServerInv
<1> SUFFICES ASSUME Init PROVE ServerInv
  OBVIOUS
<1>1. Active = {}
  BY DEF Init, Active
<1>2. Cardinality(Active) = 0
  BY <1>1, FS_EmptySet
<1>3. TypeOK
  <2>1. client_count \in 0..MaxClients /\ up \in 0..Parts /\ leaked \in Nat
    BY ServerAssumption DEF Init, Parts
  <2>2. running \in BOOLEAN /\ listening \in BOOLEAN /\ tls \in BOOLEAN
    BY DEF Init
  <2> QED BY <2>1, <2>2 DEF Init, TypeOK
<1>4. HandshakeNeedsTls
  BY DEF Init, HandshakeNeedsTls
<1> QED BY <1>2, <1>3, <1>4 DEF Init, ServerInv, CountIsExact, MainOrder, InHand

\* A step that moves no worker and counts no failed handshake keeps what only
\* depends on them.
LEMMA SameWorkers ==
  ASSUME UNCHANGED <<worker, tls, leaked>>
  PROVE  Active' = Active /\ (HandshakeNeedsTls => HandshakeNeedsTls')
  BY DEF Active, HandshakeNeedsTls

\* Every step keeps the invariant.
LEMMA InvStep == ServerInv /\ [Next]_vars => ServerInv'
<1> SUFFICES ASSUME ServerInv, [Next]_vars PROVE ServerInv'
  OBVIOUS
<1> USE ServerAssumption, ActiveFinite
<1>0. TypeOK /\ CountIsExact /\ MainOrder /\ HandshakeNeedsTls
  BY DEF ServerInv
<1>1. CASE Accept \/ AcceptFails \/ Admit \/ SpawnFails \/ Uncount
  <2>1. UNCHANGED <<worker, tls, leaked>>
    BY <1>1 DEF Accept, AcceptFails, Admit, SpawnFails, Uncount
  <2>2. Active' = Active /\ HandshakeNeedsTls'
    BY <1>0, <2>1, SameWorkers
  <2>3. TypeOK'
    BY <1>0, <1>1 DEF Accept, AcceptFails, Admit, SpawnFails, Uncount, TypeOK,
                      can_accept, CountIsExact, InHand
  <2>4. CountIsExact'
    BY <1>0, <1>1, <2>1, <2>2 DEF Accept, AcceptFails, Admit, SpawnFails, Uncount,
                                  TypeOK, CountIsExact, InHand
  <2>5. MainOrder'
    BY <1>0, <1>1 DEF Accept, AcceptFails, Admit, SpawnFails, Uncount, MainOrder
  <2> QED BY <2>2, <2>3, <2>4, <2>5 DEF ServerInv
<1>2. ASSUME NEW w \in Workers, Spawn(w) PROVE ServerInv'
  <2>1. Cardinality(Active') = Cardinality(Active) + 1
    BY <1>0, <1>2, SpawnAdds
  <2>2. TypeOK'
    BY <1>0, <1>2 DEF Spawn, TypeOK
  <2>3. CountIsExact' /\ MainOrder'
    BY <1>0, <1>2, <2>1 DEF Spawn, CountIsExact, InHand, MainOrder, TypeOK
  <2>4. HandshakeNeedsTls'
    BY <1>0, <1>2 DEF Spawn, HandshakeNeedsTls, TypeOK
  <2> QED BY <2>2, <2>3, <2>4 DEF ServerInv
<1>3. ASSUME NEW w \in Workers,
             HandshakeDone(w) \/ FrameArrives(w) \/ FrameHandled(w) \/ ReadEnds(w)
      PROVE  ServerInv'
  <2>1. Active' = Active
    BY <1>0, <1>3, MoveKeeps DEF HandshakeDone, FrameArrives, FrameHandled, ReadEnds
  <2>2. TypeOK'
    BY <1>0, <1>3 DEF HandshakeDone, FrameArrives, FrameHandled, ReadEnds, TypeOK
  <2>3. CountIsExact' /\ MainOrder'
    BY <1>0, <1>3, <2>1 DEF HandshakeDone, FrameArrives, FrameHandled, ReadEnds,
                            CountIsExact, InHand, MainOrder
  <2>4. HandshakeNeedsTls'
    BY <1>0, <1>3 DEF HandshakeDone, FrameArrives, FrameHandled, ReadEnds,
                      HandshakeNeedsTls, TypeOK
  <2> QED BY <2>2, <2>3, <2>4 DEF ServerInv
<1>4. ASSUME NEW w \in Workers, HandshakeFails(w) PROVE ServerInv'
  <2>1. Cardinality(Active') = Cardinality(Active) - 1
    BY <1>0, <1>4, EndRemoves DEF HandshakeFails
  <2>2. TypeOK'
    BY <1>0, <1>4 DEF HandshakeFails, TypeOK
  <2>3. tls
    BY <1>0, <1>4 DEF HandshakeFails, HandshakeNeedsTls
  <2>4. CountIsExact' /\ MainOrder'
    BY <1>0, <1>4, <2>1, <2>3 DEF HandshakeFails, CountIsExact, InHand, MainOrder, TypeOK
  <2>5. HandshakeNeedsTls'
    BY <1>4, <2>3 DEF HandshakeFails, HandshakeNeedsTls
  <2> QED BY <2>2, <2>4, <2>5 DEF ServerInv
<1>5. ASSUME NEW w \in Workers, Leave(w) PROVE ServerInv'
  <2>1. Cardinality(Active') = Cardinality(Active) - 1
    BY <1>0, <1>5, EndRemoves DEF Leave
  <2>2. Cardinality(Active') \in Nat
    <3>1. Active' \subseteq Workers
      BY DEF Active
    <3> QED BY <3>1, FS_Subset, FS_CardinalityType
  <2>3. TypeOK'
    BY <1>0, <1>5 DEF Leave, TypeOK
  <2>4. CountIsExact' /\ MainOrder'
    BY <1>0, <1>5, <2>1, <2>2 DEF Leave, CountIsExact, InHand, MainOrder, TypeOK
  <2>5. HandshakeNeedsTls'
    BY <1>0, <1>5 DEF Leave, HandshakeNeedsTls, TypeOK
  <2> QED BY <2>3, <2>4, <2>5 DEF ServerInv
<1>6. CASE RequestStop \/ CloseListener \/ JoinAcceptThread \/ CheckClients
           \/ SpuriousWakeup \/ StartPart \/ StartFails \/ Exit \/ Stopped \/ UNCHANGED vars
  <2> USE <1>6 DEF RequestStop, CloseListener, JoinAcceptThread, CheckClients,
          SpuriousWakeup, StartPart, StartFails, Exit, Stopped, vars
  <2>1. UNCHANGED <<worker, tls, leaked, client_count, acc>>
    OBVIOUS
  <2>2. Active' = Active /\ HandshakeNeedsTls'
    BY <1>0, <2>1, SameWorkers
  <2>3. TypeOK'
    <3>1. running' \in BOOLEAN /\ listening' \in BOOLEAN
      BY <1>0 DEF TypeOK
    <3>2. up' \in 0..Parts
      BY <1>0 DEF TypeOK, Parts
    <3> QED BY <1>0, <2>1, <3>1, <3>2 DEF TypeOK
  <2>4. CountIsExact'
    BY <1>0, <2>1, <2>2 DEF CountIsExact, InHand
  <2>5. MainOrder'
    BY <1>0, <2>1 DEF TypeOK, MainOrder
  <2> QED BY <2>2, <2>3, <2>4, <2>5 DEF ServerInv
<1>7. CASE EnableTls \/ server_start
  <2>1. UNCHANGED <<worker, leaked, client_count, up>> /\ (tls' \/ UNCHANGED tls)
    BY <1>7 DEF EnableTls, server_start
  <2>2. Active' = Active /\ HandshakeNeedsTls'
    BY <1>0, <2>1 DEF Active, HandshakeNeedsTls
  <2>3. TypeOK'
    BY <1>0, <1>7 DEF EnableTls, server_start, TypeOK
  <2>4. CountIsExact'
    BY <1>0, <1>7, <2>1, <2>2 DEF EnableTls, server_start, CountIsExact, InHand, MainOrder
  <2>5. MainOrder'
    BY <1>0, <1>7, <2>1 DEF EnableTls, server_start, MainOrder
  <2> QED BY <2>2, <2>3, <2>4, <2>5 DEF ServerInv
<1>8. CASE Release
  <2>1. client_count = 0 /\ InHand = 0
    BY <1>0, <1>8 DEF Release, MainOrder, InHand
  <2>2. leaked = 0 /\ Cardinality(Active) = 0
    BY <1>0, <2>1 DEF CountIsExact, TypeOK
  <2>3. Active = {}
    BY <2>2, FS_EmptySet
  <2>4. Active' = Active /\ HandshakeNeedsTls'
    BY <1>8, <2>3 DEF Release, Active, HandshakeNeedsTls
  <2>5. TypeOK'
    <3>1. running' \in BOOLEAN /\ listening' \in BOOLEAN /\ tls' \in BOOLEAN
      BY <1>8 DEF Release
    <3>2. up' \in 0..Parts
      BY <1>0, <1>8 DEF Release, TypeOK, Parts
    <3> QED BY <1>0, <1>8, <3>1, <3>2 DEF Release, TypeOK
  <2>6. CountIsExact'
    BY <1>0, <1>8, <2>2, <2>4 DEF Release, CountIsExact, InHand
  <2>7. MainOrder'
    BY <1>0, <1>8 DEF Release, MainOrder
  <2> QED BY <2>4, <2>5, <2>6, <2>7 DEF ServerInv
<1> QED BY <1>1, <1>2, <1>3, <1>4, <1>5, <1>6, <1>7, <1>8 DEF Next

\* The invariant bounds the workers, and leaves none once a part is gone.
LEMMA InvImplies == ServerInv => ClientLimit /\ PartsOutliveUsers
<1> SUFFICES ASSUME ServerInv PROVE ClientLimit /\ PartsOutliveUsers
  OBVIOUS
<1>1. ClientLimit
  BY ActiveFinite, ServerAssumption DEF ServerInv, TypeOK, CountIsExact, InHand, ClientLimit
<1>2. ASSUME up < Parts PROVE Active = {} /\ acc \in {"none", "exited"}
  <2>1. acc \in {"none", "exited"} /\ client_count = 0
    BY <1>2 DEF ServerInv, TypeOK, MainOrder, Parts
  <2>2. Cardinality(Active) = 0
    BY <2>1, ActiveFinite DEF ServerInv, TypeOK, CountIsExact, InHand
  <2>3. Active = {}
    BY <2>2, ActiveFinite, FS_EmptySet
  <2> QED BY <2>1, <2>3
<1> QED BY <1>1, <1>2 DEF PartsOutliveUsers

\* The counters of server_context_t and the phases of main, the accept loop and the
\* workers keep their types; client_count never falls below zero.
THEOREM ServerTypes == Spec => []TypeOK
<1>1. ServerInv => TypeOK
  BY DEF ServerInv
<1> QED BY <1>1, InvInit, InvStep, PTL DEF Spec

\* With or without TLS, and for any number of places, never more than max_clients
\* workers run.
THEOREM NeverTooMany == Spec => []ClientLimit
  BY InvInit, InvStep, InvImplies, PTL DEF Spec

\* For any number of clients, and wherever the start fails: while one of the five
\* parts is missing, at the start or in the clean-up, no thread is left that uses it.
THEOREM NoUseAfterRelease == Spec => []PartsOutliveUsers
  BY InvInit, InvStep, InvImplies, PTL DEF Spec

\* client_count is the number of clients being served or started plus the number
\* of TLS handshakes that ever failed, for any number of places: no interleaving
\* of admissions, failed thread creations and leaving workers loses or gains a
\* place, and a failed handshake always loses exactly one.
THEOREM ExactCount == Spec => []CountIsExact
<1>1. ServerInv => CountIsExact
  BY DEF ServerInv
<1> QED BY <1>1, InvInit, InvStep, PTL DEF Spec
==============================================================================
