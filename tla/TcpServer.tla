------------------------------ MODULE TcpServer ------------------------------
(***************************************************************************)
(* The threaded TCP server (src/server/server.c) and main.c, which starts  *)
(* and stops the whole program: an accept thread that admits at most       *)
(* max_clients clients, one detached client_worker per client, and the     *)
(* main thread. It brings up the database, the QUIC engine, the engine's   *)
(* thread, the WebSocket context and the server, in this order, starts the *)
(* accept thread and, told to stop, clears running, closes the listening   *)
(* socket, joins the accept thread, waits on clients_cv until client_count *)
(* is 0 and takes the parts down in reverse order.                         *)
(*                                                                         *)
(* What happens under ctx->lock is one step. A worker in                   *)
(* websocket_handle_client alternates between reading a frame, which fails *)
(* after five seconds of silence, and handling it.                         *)
(***************************************************************************)
EXTENDS Integers, FiniteSets

CONSTANTS
    Workers,     \* identities for the client_worker threads
    MaxClients   \* ctx->max_clients

ASSUME ServerAssumption ==
    /\ IsFiniteSet(Workers)
    /\ MaxClients \in Nat \ {0}

VARIABLES
    client_count,  \* ctx->client_count
    running,       \* ctx->running
    listening,     \* whether ctx->listen_fd is open
    acc,           \* where the accept thread is
    worker,        \* where each worker is; "none": no such thread
    main,          \* where the main thread is
    up,            \* how many of the five parts are up: the *_initialized of main
    tls,           \* whether server_enable_tls has set ctx->ssl_ctx
    leaked         \* history: the TLS handshakes that failed

vars == <<client_count, running, listening, acc, worker, main, up, tls, leaked>>

\* The database, the QUIC engine, its thread, the WebSocket context, the server.
Parts == 5

\* Workers that exist. Each uses all the parts until it ends.
Active == {w \in Workers : worker[w] # "none"}

TypeOK ==
    /\ client_count \in 0..MaxClients
    /\ running \in BOOLEAN /\ listening \in BOOLEAN
    /\ acc \in {"none", "accept", "admit", "spawn", "uncount", "exited"}
    /\ worker \in [Workers -> {"none", "handshake", "reading", "handling", "leaving"}]
    /\ main \in {"starting", "run", "stopping", "joining", "check", "waiting",
                 "cleanup", "exited"}
    /\ up \in 0..Parts
    /\ tls \in BOOLEAN /\ leaked \in Nat

\* main begins.
Init ==
    /\ client_count = 0
    /\ running = FALSE /\ listening = FALSE
    /\ acc = "none"
    /\ worker = [w \in Workers |-> "none"]
    /\ main = "starting" /\ up = 0
    /\ tls = FALSE /\ leaked = 0

-----------------------------------------------------------------------------
(* The main thread, up to the loop in which it waits for a signal.         *)

\* The next part is initialized; the last one, server_init, opens the socket.
StartPart ==
    /\ main = "starting" /\ up < Parts
    /\ up' = up + 1
    /\ running' = (up' = Parts) /\ listening' = (up' = Parts)
    /\ UNCHANGED <<client_count, acc, worker, main, tls, leaked>>

\* server_enable_tls, if there is a certificate ...
EnableTls ==
    /\ main = "starting" /\ up = Parts /\ ~tls
    /\ tls' = TRUE
    /\ UNCHANGED <<client_count, running, listening, acc, worker, main, up, leaked>>

\* ... and server_start.
server_start ==
    /\ main = "starting" /\ up = Parts
    /\ acc' = "accept"
    /\ main' = "run"
    /\ UNCHANGED <<client_count, running, listening, worker, up, tls, leaked>>

\* Any of these fails, except for websocket_context_init, which cannot: goto cleanup.
StartFails ==
    /\ main = "starting" /\ up # 3
    /\ main' = "cleanup"
    /\ UNCHANGED <<client_count, running, listening, acc, worker, up, tls, leaked>>

-----------------------------------------------------------------------------
(* accept_loop.                                                            *)

\* accept returns a client.
Accept ==
    /\ acc = "accept"
    /\ listening
    /\ acc' = "admit"
    /\ UNCHANGED <<client_count, running, listening, worker, main, up, tls, leaked>>

\* accept fails and running has been cleared; any other failure is a stutter.
AcceptFails ==
    /\ acc = "accept"
    /\ ~running
    /\ acc' = "exited"
    /\ UNCHANGED <<client_count, running, listening, worker, main, up, tls, leaked>>

\* Mutant: one client too many is admitted.
can_accept_OneMore == client_count <= MaxClients

can_accept == client_count < MaxClients

\* The client is counted, or told that the server is busy and closed.
Admit ==
    /\ acc = "admit"
    /\ IF can_accept
       THEN client_count' = client_count + 1 /\ acc' = "spawn"
       ELSE acc' = "accept" /\ UNCHANGED client_count
    /\ UNCHANGED <<running, listening, worker, main, up, tls, leaked>>

\* The worker starts, with the TLS handshake if there is one.
Spawn(w) ==
    /\ acc = "spawn"
    /\ worker[w] = "none"
    /\ worker' = [worker EXCEPT ![w] = IF tls THEN "handshake" ELSE "reading"]
    /\ acc' = "accept"
    /\ UNCHANGED <<client_count, running, listening, main, up, tls, leaked>>

\* Mutant: a client whose thread cannot be created stays counted.
SpawnFails_StaysCounted ==
    /\ acc = "spawn"
    /\ acc' = "accept"
    /\ UNCHANGED <<client_count, running, listening, worker, main, up, tls, leaked>>

\* malloc or pthread_create fails: the client is closed ...
SpawnFails ==
    /\ acc = "spawn"
    /\ acc' = "uncount"
    /\ UNCHANGED <<client_count, running, listening, worker, main, up, tls, leaked>>

\* ... and no longer counted.
Uncount ==
    /\ acc = "uncount"
    /\ client_count' = client_count - 1
    /\ acc' = "accept"
    /\ UNCHANGED <<running, listening, worker, main, up, tls, leaked>>

-----------------------------------------------------------------------------
(* client_worker.                                                          *)

\* SSL_accept succeeds.
HandshakeDone(w) ==
    /\ worker[w] = "handshake"
    /\ worker' = [worker EXCEPT ![w] = "reading"]
    /\ UNCHANGED <<client_count, running, listening, acc, main, up, tls, leaked>>

\* SSL_new or SSL_accept fails: goto done, past the update of client_count.
HandshakeFails(w) ==
    /\ worker[w] = "handshake"
    /\ worker' = [worker EXCEPT ![w] = "none"]
    /\ leaked' = leaked + 1
    /\ UNCHANGED <<client_count, running, listening, acc, main, up, tls>>

\* ws_read_frame returns a frame.
FrameArrives(w) ==
    /\ worker[w] = "reading"
    /\ worker' = [worker EXCEPT ![w] = "handling"]
    /\ UNCHANGED <<client_count, running, listening, acc, main, up, tls, leaked>>

\* The frame is answered; running is not looked at.
FrameHandled(w) ==
    /\ worker[w] = "handling"
    /\ worker' = [worker EXCEPT ![w] = "reading"]
    /\ UNCHANGED <<client_count, running, listening, acc, main, up, tls, leaked>>

\* The request is malformed or answered over HTTP, the peer closes, or five
\* seconds pass in silence: websocket_handle_client returns.
ReadEnds(w) ==
    /\ worker[w] = "reading"
    /\ worker' = [worker EXCEPT ![w] = "leaving"]
    /\ UNCHANGED <<client_count, running, listening, acc, main, up, tls, leaked>>

\* Mutant: the worker leaves without signalling clients_cv.
Leave_NoSignal(w) ==
    /\ worker[w] = "leaving"
    /\ client_count' = IF client_count > 0 THEN client_count - 1 ELSE client_count
    /\ worker' = [worker EXCEPT ![w] = "none"]
    /\ UNCHANGED <<running, listening, acc, main, up, tls, leaked>>

\* Mutant: the worker leaves without giving its place back.
Leave_StaysCounted(w) ==
    /\ worker[w] = "leaving"
    /\ main' = IF main = "waiting" THEN "check" ELSE main
    /\ worker' = [worker EXCEPT ![w] = "none"]
    /\ UNCHANGED <<client_count, running, listening, acc, up, tls, leaked>>

\* The worker gives its place back, signals clients_cv and ends.
Leave(w) ==
    /\ worker[w] = "leaving"
    /\ client_count' = IF client_count > 0 THEN client_count - 1 ELSE client_count
    /\ main' = IF main = "waiting" THEN "check" ELSE main
    /\ worker' = [worker EXCEPT ![w] = "none"]
    /\ UNCHANGED <<running, listening, acc, up, tls, leaked>>

-----------------------------------------------------------------------------
(* The main thread, after the signal: server_request_stop, server_join and *)
(* the clean-up.                                                           *)

RequestStop ==
    /\ main = "run"
    /\ running' = FALSE
    /\ main' = "stopping"
    /\ UNCHANGED <<client_count, listening, acc, worker, up, tls, leaked>>

CloseListener ==
    /\ main = "stopping"
    /\ listening' = FALSE
    /\ main' = "joining"
    /\ UNCHANGED <<client_count, running, acc, worker, up, tls, leaked>>

\* Mutant: the accept thread is not joined first.
JoinAcceptThread_Skipped ==
    /\ main = "joining"
    /\ main' = "check"
    /\ UNCHANGED <<client_count, running, listening, acc, worker, up, tls, leaked>>

\* pthread_join returns.
JoinAcceptThread ==
    /\ main = "joining"
    /\ acc = "exited"
    /\ main' = "check"
    /\ UNCHANGED <<client_count, running, listening, acc, worker, up, tls, leaked>>

\* The loop around pthread_cond_wait; when it ends the clean-up begins.
CheckClients ==
    /\ main = "check"
    /\ main' = IF client_count > 0 THEN "waiting" ELSE "cleanup"
    /\ UNCHANGED <<client_count, running, listening, acc, worker, up, tls, leaked>>

\* pthread_cond_wait may return without a signal.
SpuriousWakeup ==
    /\ main = "waiting"
    /\ main' = "check"
    /\ UNCHANGED <<client_count, running, listening, acc, worker, up, tls, leaked>>

\* The part that came up last is destroyed. The server goes first, with its TLS
\* context. For the engine's thread this is quic_engine_stop and quic_engine_join,
\* which QuicEngine shows to return.
Release ==
    /\ main = "cleanup" /\ up > 0
    /\ up' = up - 1
    /\ running' = FALSE /\ listening' = FALSE /\ tls' = FALSE
    /\ UNCHANGED <<client_count, acc, worker, main, leaked>>

\* main returns.
Exit ==
    /\ main = "cleanup" /\ up = 0
    /\ main' = "exited"
    /\ UNCHANGED <<client_count, running, listening, acc, worker, up, tls, leaked>>

\* The program has ended.
Stopped == main = "exited" /\ UNCHANGED vars

Next ==
    \/ Accept
    \/ AcceptFails
    \/ Admit
    \/ \E w \in Workers : Spawn(w)
    \/ SpawnFails
    \/ Uncount
    \/ \E w \in Workers : HandshakeDone(w)
    \/ \E w \in Workers : HandshakeFails(w)
    \/ \E w \in Workers : FrameArrives(w)
    \/ \E w \in Workers : FrameHandled(w)
    \/ \E w \in Workers : ReadEnds(w)
    \/ \E w \in Workers : Leave(w)
    \/ RequestStop
    \/ CloseListener
    \/ JoinAcceptThread
    \/ CheckClients
    \/ SpuriousWakeup
    \/ StartPart
    \/ EnableTls
    \/ server_start
    \/ StartFails
    \/ Release
    \/ Exit
    \/ Stopped

Spec == Init /\ [][Next]_vars

\* Every thread that can run does. A worker reads what its client sends or, in
\* the absence of that, times out; a TLS handshake has no timeout.
BusySpec ==
    /\ Spec
    /\ WF_vars(AcceptFails) /\ WF_vars(Admit) /\ WF_vars(Uncount)
    /\ WF_vars(SpawnFails \/ \E w \in Workers : Spawn(w))
    /\ \A w \in Workers :
         /\ WF_vars(FrameArrives(w) \/ ReadEnds(w))
         /\ WF_vars(FrameHandled(w))
         /\ WF_vars(Leave(w))
    /\ WF_vars(CloseListener) /\ WF_vars(JoinAcceptThread) /\ WF_vars(CheckClients)
    /\ WF_vars(Release) /\ WF_vars(Exit)

\* In addition no client goes on sending frames for ever: each is silent for
\* five seconds, or closes, some day.
FairSpec == BusySpec /\ \A w \in Workers : SF_vars(ReadEnds(w))

-----------------------------------------------------------------------------
(* Properties.                                                             *)

\* The client the accept thread has counted and not yet given to a worker.
InHand == IF acc \in {"spawn", "uncount"} THEN 1 ELSE 0

\* client_count counts exactly the clients that are being served or started, plus
\* one for each TLS handshake that ever failed, however admissions, failed thread
\* creations and leaving workers interleave. Without TLS the count is exact.
CountIsExact ==
    /\ client_count = Cardinality(Active) + InHand + leaked
    /\ ~tls => leaked = 0

\* Never more than max_clients clients are served at a time.
ClientLimit == Cardinality(Active) <= MaxClients

\* No thread outlives what it uses: as soon as one of the parts is gone, or while
\* one is not there yet, no worker runs, the accept thread has ended or was never
\* started, and none will be started. This holds also when main gives up half way.
PartsOutliveUsers == up < Parts => Active = {} /\ acc \in {"none", "exited"}

\* After RequestStop, and after a part that could not be started, main returns: no
\* wakeup of clients_cv is lost, whichever of the last worker and the waiting main
\* thread comes first. (With TLS a handshake that fails or hangs prevents it.)
ShutdownEnds == (main = "cleanup" \/ (~tls /\ main = "stopping")) ~> main = "exited"

\* The server is not full for ever: clients that leave, and clients whose thread
\* could not be created, give their place back.
PlaceIsFreed == []<>(tls \/ client_count < MaxClients)

\* With nobody connected the next client is admitted, also after plain HTTP
\* requests on the TLS port ("the server works normally", README.md).
IdleServerAdmits == (Active = {} /\ acc = "admit") => can_accept

\* Where the main thread is tells whether the accept thread runs.
MainOrder ==
    /\ main = "starting" => acc = "none"
    /\ main \in {"check", "waiting"} => acc = "exited"
    /\ main \in {"cleanup", "exited"} => acc \in {"none", "exited"}
    /\ main \in {"run", "stopping", "joining", "check", "waiting"} => up = Parts
    /\ main \in {"cleanup", "exited"} => client_count = 0
    /\ acc = "none" => client_count = 0

\* Without TLS no worker is in a handshake.
HandshakeNeedsTls == ~tls => \A w \in Workers : worker[w] # "handshake"

\* The inductive invariant behind ClientLimit, PartsOutliveUsers and CountIsExact.
ServerInv == TypeOK /\ CountIsExact /\ MainOrder /\ HandshakeNeedsTls
=============================================================================
