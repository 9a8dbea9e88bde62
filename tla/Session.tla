------------------------------- MODULE Session -------------------------------
(***************************************************************************)
(* Login sessions (src/auth/session.c over the sessions table of           *)
(* src/db/database.c), used by the HTTP requests and WebSocket handshakes  *)
(* that the client workers serve concurrently. Every statement is a        *)
(* transaction of its own on the one SQLite connection, so a request is a  *)
(* sequence of steps, one per statement, and requests interleave between   *)
(* them. The table survives a crash of the server, requests do not.        *)
(***************************************************************************)
EXTENDS Integers

CONSTANTS
    Sids,      \* session identifiers that session_generate_id may return
    Users,     \* users that can log in
    Nobody,    \* no user
    Requests,  \* requests served at the same time
    TTL,       \* SESSION_TTL_SECONDS, in ticks of the clock
    DbFails,   \* whether a statement may fail (disk full, locked, ...)
    Crashes    \* whether the server may be killed and started again

ASSUME SessionAssumption ==
    /\ Nobody \notin Users
    /\ TTL \in Nat \ {0}
    /\ DbFails \in BOOLEAN
    /\ Crashes \in BOOLEAN

VARIABLES
    rows,    \* table sessions: by session_id
    req,     \* the request each worker is serving
    issued,  \* history: the user each identifier was issued to
    loggedOut, \* history: identifiers whose logout was answered
    expired, \* history: identifiers whose row reached its expires_at
    harmed   \* history: identifiers whose row a failed or lost INSERT cost

vars == <<rows, req, issued, loggedOut, expired, harmed>>

\* A row, time is what is left to expires_at: at 0 the row has expired.
Row == [present : BOOLEAN, user : Users \cup {Nobody}, time : 0..TTL]

\* pc of a request: before which statement of session_validate_and_extend it is;
\* result is what its last call returned.
Request == [pc : {"idle", "purge", "delete", "create"}, sid : Sids,
            user : Users \cup {Nobody}, result : {"none", "ok", "refused"}]

TypeOK ==
    /\ rows \in [Sids -> Row]
    /\ req \in [Requests -> Request]
    /\ issued \in [Sids -> Users \cup {Nobody}]
    /\ loggedOut \subseteq Sids
    /\ expired \subseteq Sids
    /\ harmed \subseteq Sids

NoRow == [present |-> FALSE, user |-> Nobody, time |-> 0]

Init ==
    /\ rows = [s \in Sids |-> NoRow]
    /\ \E s \in Sids : req = [r \in Requests |->
            [pc |-> "idle", sid |-> s, user |-> Nobody, result |-> "none"]]
    /\ issued = [s \in Sids |-> Nobody]
    /\ loggedOut = {}
    /\ expired = {}
    /\ harmed = {}

Answer(r, sid, user, result) ==
    req' = [req EXCEPT ![r] = [pc |-> "idle", sid |-> sid, user |-> user,
                               result |-> result]]

Refuse(r) == Answer(r, req[r].sid, Nobody, "refused")

-----------------------------------------------------------------------------
\* session_login with the right password, and the end of a sign-up: the row is
\* created under an identifier never used before (128 random bits).
Login(r, s, u) ==
    /\ req[r].pc = "idle"
    /\ issued[s] = Nobody
    /\ rows' = [rows EXCEPT ![s] = [present |-> TRUE, user |-> u, time |-> TTL]]
    /\ issued' = [issued EXCEPT ![s] = u]
    /\ Answer(r, s, u, "ok")
    /\ UNCHANGED <<loggedOut, expired, harmed>>

\* session_validate_and_extend: db_get_session finds a row that has not expired.
Get(r, s) ==
    /\ req[r].pc = "idle"
    /\ issued[s] # Nobody
    /\ IF rows[s].present /\ rows[s].time > 0
       THEN req' = [req EXCEPT ![r] = [pc |-> "purge", sid |-> s,
                                       user |-> rows[s].user, result |-> "none"]]
       ELSE Answer(r, s, Nobody, "refused")
    /\ UNCHANGED <<rows, issued, loggedOut, expired, harmed>>

\* db_get_session fails.
GetFails(r, s) ==
    /\ DbFails
    /\ req[r].pc = "idle"
    /\ issued[s] # Nobody
    /\ Answer(r, s, Nobody, "refused")
    /\ UNCHANGED <<rows, issued, loggedOut, expired, harmed>>

\* db_delete_expired_sessions.
Purge(r) ==
    /\ req[r].pc = "purge"
    /\ \/ /\ rows' = [s \in Sids |-> IF rows[s].time = 0 THEN NoRow ELSE rows[s]]
          /\ req' = [req EXCEPT ![r].pc = "delete"]
       \/ DbFails /\ Refuse(r) /\ UNCHANGED rows
    /\ UNCHANGED <<issued, loggedOut, expired, harmed>>

\* db_delete_session; its result is not looked at.
Delete(r) ==
    /\ req[r].pc = "delete"
    /\ \/ rows' = [rows EXCEPT ![req[r].sid] = NoRow]
       \/ DbFails /\ UNCHANGED rows
    /\ req' = [req EXCEPT ![r].pc = "create"]
    /\ UNCHANGED <<issued, loggedOut, expired, harmed>>

\* Mutant: the user read by db_get_session is not carried over.
Inserted_NoUser(r) == [present |-> TRUE, user |-> Nobody, time |-> TTL]

\* Mutant: the new lifetime is added to a remainder of the old one.
Inserted_AddsTime(r) == [present |-> TRUE, user |-> req[r].user, time |-> TTL + 1]

\* The row db_create_session inserts.
Inserted(r) == [present |-> TRUE, user |-> req[r].user, time |-> TTL]

\* Mutant: an INSERT that finds the identifier taken removes the row.
Create_ReplaceLosesRow(r) ==
    /\ req[r].pc = "create"
    /\ LET s == req[r].sid
       IN \/ /\ ~rows[s].present
             /\ rows' = [rows EXCEPT ![s] = Inserted(r)]
             /\ Answer(r, s, req[r].user, "ok")
             /\ UNCHANGED harmed
          \/ /\ rows[s].present
             /\ rows' = [rows EXCEPT ![s] = NoRow]
             /\ Refuse(r) /\ UNCHANGED harmed
          \/ /\ DbFails /\ ~rows[s].present
             /\ harmed' = harmed \cup {s}
             /\ Refuse(r) /\ UNCHANGED rows
    /\ UNCHANGED <<issued, loggedOut, expired>>

\* db_create_session. session_id is UNIQUE: the INSERT fails when another request
\* has put the row back first.
Create(r) ==
    /\ req[r].pc = "create"
    /\ LET s == req[r].sid
       IN \/ /\ ~rows[s].present
             /\ rows' = [rows EXCEPT ![s] = Inserted(r)]
             /\ Answer(r, s, req[r].user, "ok")
             /\ UNCHANGED harmed
          \/ /\ rows[s].present
             /\ Refuse(r) /\ UNCHANGED <<rows, harmed>>
          \/ /\ DbFails /\ ~rows[s].present
             /\ harmed' = harmed \cup {s}
             /\ Refuse(r) /\ UNCHANGED rows
    /\ UNCHANGED <<issued, loggedOut, expired>>

\* handle_logout: the row is deleted and the client told so in either case.
Logout(r, s) ==
    /\ req[r].pc = "idle"
    /\ issued[s] # Nobody
    /\ \/ rows' = [rows EXCEPT ![s] = NoRow]
       \/ DbFails /\ UNCHANGED rows
    /\ loggedOut' = loggedOut \cup {s}
    /\ Answer(r, s, Nobody, "ok")
    /\ UNCHANGED <<issued, expired, harmed>>

\* Time passes.
Tick ==
    /\ rows' = [s \in Sids |-> IF rows[s].time > 0
                               THEN [rows[s] EXCEPT !.time = @ - 1] ELSE rows[s]]
    /\ expired' = expired \cup {s \in Sids : rows[s].time = 1}
    /\ UNCHANGED <<req, issued, loggedOut, harmed>>

\* The server is killed: requests are gone, the table is not.
Crash ==
    /\ Crashes
    /\ harmed' = harmed \cup
            {req[r].sid : r \in {q \in Requests : req[q].pc = "create"
                                    /\ ~rows[req[q].sid].present}}
    /\ req' = [r \in Requests |-> [req[r] EXCEPT !.pc = "idle", !.user = Nobody,
                                                 !.result = "none"]]
    /\ UNCHANGED <<rows, issued, loggedOut, expired>>

Next ==
    \/ \E r \in Requests, s \in Sids, u \in Users : Login(r, s, u)
    \/ \E r \in Requests, s \in Sids : Get(r, s)
    \/ \E r \in Requests, s \in Sids : GetFails(r, s)
    \/ \E r \in Requests : Purge(r)
    \/ \E r \in Requests : Delete(r)
    \/ \E r \in Requests : Create(r)
    \/ \E r \in Requests, s \in Sids : Logout(r, s)
    \/ Tick
    \/ Crash

Spec == Init /\ [][Next]_vars

-----------------------------------------------------------------------------
(* Properties.                                                             *)

\* A row always belongs to the user its identifier was issued to, and a request
\* works for that user from db_get_session to its answer, whatever is deleted
\* and inserted again in between, by it or by others.
OwnerKept ==
    /\ \A s \in Sids : rows[s].present => rows[s].user = issued[s]
    /\ \A r \in Requests : req[r].pc # "idle" =>
            req[r].user = issued[req[r].sid] /\ req[r].user # Nobody

\* Sessions that are over: logged out, or expired.
Ended == loggedOut \cup expired

Creating(s) == \E r \in Requests : req[r].pc = "create" /\ req[r].sid = s

\* Requests that extend one session at the same time do not lose it: unless it
\* was logged out, ran out or lost its row to a failed INSERT or a crash, its
\* row is there or a request is about to put it there.
SurvivesRaces ==
    \A s \in Sids : (issued[s] # Nobody /\ s \notin Ended \cup harmed)
                        => rows[s].present \/ Creating(s)

\* A row at its expires_at is known to have expired.
ExpiredKnown == \A s \in Sids : (rows[s].present /\ rows[s].time = 0) => s \in expired

\* The inductive invariant behind SurvivesRaces.
SessionInv == TypeOK /\ OwnerKept /\ ExpiredKnown /\ SurvivesRaces

\* A session that was logged out is gone ("session still present after logout",
\* tests/auth_session_test.c).
LogoutIsFinal ==
    \A s \in loggedOut : ~rows[s].present

\* A session that was neither logged out nor ran out is in the table, also after
\* a restart ("restored after a restart", docs/SRSv1.md, FR-AUTH-06).
RestartRestores ==
    \A s \in Sids : (issued[s] # Nobody /\ s \notin Ended)
                        => rows[s].present \/ Creating(s)

\* A request with a session that is not over is not refused ("API access by
\* session", docs/DEVELOPMENT_PLANv1.md).
ValidIsServed ==
    \A r \in Requests : req[r].result = "refused" => req[r].sid \in Ended
=============================================================================
