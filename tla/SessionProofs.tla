---------------------------- MODULE SessionProofs ----------------------------
(***************************************************************************)
(* Theorems about Session, for any number of sessions, users and           *)
(* concurrent requests, with failing statements and crashes.               *)
(***************************************************************************)
EXTENDS Session, TLAPS

\* The rows and requests the actions write have the types.
LEMMA RecordTypes ==
  /\ NoRow \in Row
  /\ \A u \in Users : [present |-> TRUE, user |-> u, time |-> TTL] \in Row
  /\ \A s \in Sids, u \in Users \cup {Nobody}, x \in {"none", "ok", "refused"},
        pc \in {"idle", "purge", "delete", "create"} :
        [pc |-> pc, sid |-> s, user |-> u, result |-> x] \in Request
  BY SessionAssumption DEF NoRow, Row, Request

\* An answer leaves a request of the right type, and the others as they are.
LEMMA AnswerProps ==
  ASSUME TypeOK, NEW r \in Requests, NEW s \in Sids, NEW u \in Users \cup {Nobody},
         NEW x \in {"none", "ok", "refused"}, Answer(r, s, u, x)
  PROVE  /\ req' \in [Requests -> Request]
         /\ req'[r].pc = "idle"
         /\ \A q \in Requests : q # r => req'[q] = req[q]
  BY RecordTypes DEF TypeOK, Answer

\* Every step keeps the types.
LEMMA TypeStep == TypeOK /\ [Next]_vars => TypeOK'
<1> SUFFICES ASSUME TypeOK, [Next]_vars PROVE TypeOK'
  OBVIOUS
<1> USE RecordTypes
<1>0. \A r \in Requests : /\ req[r] \in Request /\ req[r].sid \in Sids
                          /\ req[r].user \in Users \cup {Nobody}
  BY DEF TypeOK, Request
<1>1. ASSUME NEW r \in Requests, NEW s \in Sids, NEW u \in Users, Login(r, s, u)
      PROVE  TypeOK'
  BY <1>1, AnswerProps DEF Login, TypeOK
<1>2. ASSUME NEW r \in Requests, NEW s \in Sids, Get(r, s) PROVE TypeOK'
  <2>1. rows[s].user \in Users \cup {Nobody}
    BY DEF TypeOK, Row
  <2>2. req' \in [Requests -> Request]
    BY <1>2, <2>1, AnswerProps, ZenonT(60) DEF Get, TypeOK
  <2> QED BY <1>2, <2>2 DEF Get, TypeOK
<1>10. ASSUME NEW r \in Requests, NEW s \in Sids, GetFails(r, s) PROVE TypeOK'
  BY <1>10, AnswerProps DEF GetFails, TypeOK
<1>3. ASSUME NEW r \in Requests, Purge(r) PROVE TypeOK'
  <2>1. [req[r] EXCEPT !.pc = "delete"] \in Request
    BY <1>0 DEF Request
  <2>2. req' \in [Requests -> Request]
    BY <1>0, <1>3, <2>1, AnswerProps DEF Purge, Refuse, TypeOK
  <2>3. rows' \in [Sids -> Row]
    BY <1>3 DEF Purge, TypeOK
  <2> QED BY <1>3, <2>2, <2>3 DEF Purge, TypeOK
<1>4. ASSUME NEW r \in Requests, Delete(r) PROVE TypeOK'
  <2>1. [req[r] EXCEPT !.pc = "create"] \in Request
    BY <1>0 DEF Request
  <2> QED BY <1>4, <2>1 DEF Delete, TypeOK
<1>5. ASSUME NEW r \in Requests, Create(r) PROVE TypeOK'
  <2>1. Inserted(r) \in Row
    BY <1>0, SessionAssumption DEF Inserted, Row
  <2>2. req' \in [Requests -> Request]
    BY <1>0, <1>5, AnswerProps DEF Create, Refuse
  <2>3. rows' \in [Sids -> Row] /\ harmed' \subseteq Sids
    BY <1>0, <1>5, <2>1 DEF Create, TypeOK
  <2>4. UNCHANGED <<issued, loggedOut, expired>>
    BY <1>5 DEF Create
  <2> QED BY <2>2, <2>3, <2>4 DEF TypeOK
<1>6. ASSUME NEW r \in Requests, NEW s \in Sids, Logout(r, s) PROVE TypeOK'
  BY <1>6, AnswerProps DEF Logout, TypeOK
<1>7. CASE Tick
  <2>1. \A e \in Row : e.time > 0 => [e EXCEPT !.time = @ - 1] \in Row
    BY SessionAssumption DEF Row
  <2> QED BY <1>7, <2>1 DEF Tick, TypeOK
<1>8. CASE Crash
  <2>1. \A r \in Requests : [req[r] EXCEPT !.pc = "idle", !.user = Nobody,
                                           !.result = "none"] \in Request
    <3>1. "idle" \in {"idle", "purge", "delete", "create"}
          /\ "none" \in {"none", "ok", "refused"} /\ Nobody \in Users \cup {Nobody}
      OBVIOUS
    <3>2. \A e \in Request : \A pc \in {"idle", "purge", "delete", "create"} :
          \A x \in {"none", "ok", "refused"} : \A u \in Users \cup {Nobody} :
            [e EXCEPT !.pc = pc, !.user = u, !.result = x] \in Request
      BY ZenonT(60) DEF Request
    <3> QED BY <1>0, <3>1, <3>2, Zenon
  <2>2. req' \in [Requests -> Request]
    BY <1>8, <2>1, Zenon DEF Crash
  <2>3. harmed' \subseteq Sids
    BY <1>0, <1>8 DEF Crash, TypeOK
  <2> QED BY <1>8, <2>2, <2>3 DEF Crash, TypeOK
<1>9. CASE UNCHANGED vars
  BY <1>9 DEF vars, TypeOK
<1> QED BY <1>1, <1>2, <1>3, <1>4, <1>5, <1>6, <1>7, <1>8, <1>9, <1>10 DEF Next

\* The initial state satisfies the invariant.
LEMMA InitHolds == Init => SessionInv
<1> SUFFICES ASSUME Init PROVE SessionInv
  OBVIOUS
<1>1. TypeOK
  BY RecordTypes DEF Init, TypeOK
<1>2. OwnerKept
  BY DEF Init, OwnerKept, NoRow
<1>3. SurvivesRaces /\ ExpiredKnown
  BY DEF Init, SurvivesRaces, ExpiredKnown, NoRow
<1> QED BY <1>1, <1>2, <1>3 DEF SessionInv

-----------------------------------------------------------------------------
(* The owner of a session.                                                 *)

\* No request and no row changes hands.
Kept ==
    /\ \A q \in Requests : req'[q].pc # "idle" =>
         req[q].pc # "idle" /\ req'[q].user = req[q].user /\ req'[q].sid = req[q].sid
    /\ \A s \in Sids : rows'[s].present => rows[s].present /\ rows'[s].user = rows[s].user

\* Such a step keeps the owners.
LEMMA KeptKeepsOwner ==
  ASSUME OwnerKept, Kept, UNCHANGED issued
  PROVE  OwnerKept'
  BY DEF OwnerKept, Kept

\* Every step keeps the owner: the user read by db_get_session is the one the
\* identifier was issued to, and identifiers are issued once.
LEMMA OwnerStep ==
  ASSUME TypeOK, OwnerKept, [Next]_vars
  PROVE  OwnerKept'
<1>0. /\ \A r \in Requests : req[r] \in Request /\ req[r].sid \in Sids
                             /\ req[r].user \in Users \cup {Nobody}
      /\ \A s \in Sids : rows[s] \in Row
      /\ ~NoRow.present
  BY DEF TypeOK, Request, NoRow
<1>1. ASSUME NEW r \in Requests, NEW s \in Sids, NEW u \in Users, Login(r, s, u)
      PROVE  OwnerKept'
  <2>1. req'[r].pc = "idle" /\ \A q \in Requests : q # r => req'[q] = req[q]
    BY <1>1, AnswerProps DEF Login
  <2>2. ASSUME NEW t \in Sids, rows'[t].present PROVE rows'[t].user = issued'[t]
    BY <1>1, <2>2 DEF Login, TypeOK, OwnerKept
  <2>3. ASSUME NEW q \in Requests, req'[q].pc # "idle"
        PROVE  req'[q].user = issued'[req'[q].sid] /\ req'[q].user # Nobody
    <3>1. req'[q] = req[q] /\ req[q].user = issued[req[q].sid] /\ req[q].user # Nobody
      BY <2>1, <2>3 DEF OwnerKept
    <3>2. req[q].sid # s
      BY <1>1, <3>1 DEF Login
    <3> QED BY <1>1, <3>1, <3>2 DEF Login, TypeOK
  <2> QED BY <2>2, <2>3 DEF OwnerKept
<1>2. ASSUME NEW r \in Requests, NEW s \in Sids, Get(r, s) PROVE OwnerKept'
  <2>1. \A q \in Requests : q # r => req'[q] = req[q]
    BY <1>2 DEF Get, Answer, TypeOK
  <2>2. \/ req'[r].pc = "idle"
        \/ req'[r].user = issued[s] /\ req'[r].sid = s /\ issued[s] # Nobody
    BY <1>2 DEF Get, Answer, TypeOK, OwnerKept
  <2> QED BY <1>2, <2>1, <2>2 DEF Get, OwnerKept
<1>10. ASSUME NEW r \in Requests, NEW s \in Sids, GetFails(r, s) PROVE OwnerKept'
  <2>1. Kept
    BY <1>0, <1>10 DEF GetFails, Answer, Kept, TypeOK, Request
  <2> QED BY <1>10, <2>1, KeptKeepsOwner DEF GetFails
<1>3. ASSUME NEW r \in Requests, Purge(r) PROVE OwnerKept'
  <2>1. Kept
    BY <1>0, <1>3 DEF Purge, Refuse, Answer, Kept, TypeOK, Request
  <2> QED BY <1>3, <2>1, KeptKeepsOwner DEF Purge
<1>4. ASSUME NEW r \in Requests, Delete(r) PROVE OwnerKept'
  <2>1. Kept
    BY <1>0, <1>4 DEF Delete, Kept, TypeOK, Request
  <2> QED BY <1>4, <2>1, KeptKeepsOwner DEF Delete
<1>5. ASSUME NEW r \in Requests, Create(r) PROVE OwnerKept'
  <2>1. req'[r].pc = "idle" /\ \A q \in Requests : q # r => req'[q] = req[q]
    BY <1>0, <1>5, AnswerProps DEF Create, Refuse
  <2>2. Inserted(r).user = issued[req[r].sid]
    BY <1>5 DEF Create, Inserted, OwnerKept
  <2>3. rows' = rows \/ rows' = [rows EXCEPT ![req[r].sid] = Inserted(r)]
    BY <1>5 DEF Create
  <2>4. UNCHANGED issued
    BY <1>5 DEF Create
  <2>5. \A s \in Sids : rows'[s].present => rows'[s].user = issued'[s]
    BY <1>0, <2>2, <2>3, <2>4 DEF OwnerKept, TypeOK
  <2> QED BY <2>1, <2>4, <2>5 DEF OwnerKept
<1>6. ASSUME NEW r \in Requests, NEW s \in Sids, Logout(r, s) PROVE OwnerKept'
  <2>1. Kept
    BY <1>0, <1>6 DEF Logout, Answer, Kept, TypeOK, Request
  <2> QED BY <1>6, <2>1, KeptKeepsOwner DEF Logout
<1>7. CASE Tick
  <2>1. \A e \in Row : /\ [e EXCEPT !.time = @ - 1].present = e.present
                       /\ [e EXCEPT !.time = @ - 1].user = e.user
    BY DEF Row
  <2>2. \A s \in Sids : rows'[s] = rows[s] \/ rows'[s] = [rows[s] EXCEPT !.time = @ - 1]
    BY <1>7 DEF Tick
  <2>3. Kept
    BY <1>0, <1>7, <2>1, <2>2 DEF Tick, Kept
  <2> QED BY <1>7, <2>3, KeptKeepsOwner DEF Tick
<1>8. CASE Crash
  <2>1. \A r \in Requests : req'[r].pc = "idle"
    BY <1>0, <1>8, Zenon DEF Crash, Request
  <2>2. Kept
    BY <1>8, <2>1 DEF Crash, Kept
  <2> QED BY <1>8, <2>2, KeptKeepsOwner DEF Crash
<1>9. CASE UNCHANGED vars
  BY <1>9 DEF vars, OwnerKept
<1> QED BY <1>1, <1>2, <1>3, <1>4, <1>5, <1>6, <1>7, <1>8, <1>9, <1>10 DEF Next

\* For any number of sessions and concurrent requests, failing statements and
\* crashes included, a session is never used for another user than the one who
\* logged in with it.
THEOREM OwnerNeverChanges == Spec => []OwnerKept
<1>1. SessionInv => TypeOK /\ OwnerKept
  BY DEF SessionInv
<1>2. TypeOK /\ OwnerKept /\ [Next]_vars => OwnerKept'
  BY OwnerStep
<1> QED BY <1>1, <1>2, InitHolds, TypeStep, PTL DEF Spec

-----------------------------------------------------------------------------
(* Sessions that are extended concurrently.                                *)

\* No session loses its row or the request that will put it back, and what is
\* known of the sessions that ended is not forgotten.
RowsKept ==
    /\ UNCHANGED issued
    /\ loggedOut \subseteq loggedOut' /\ expired \subseteq expired'
    /\ harmed \subseteq harmed'
    /\ \A s \in Sids : (rows[s].present \/ Creating(s)) =>
          \/ rows'[s].present \/ Creating(s)'
          \/ s \in loggedOut' \cup expired' \cup harmed'

\* Such a step loses no session.
LEMMA RowsKeptSurvives ==
  ASSUME SurvivesRaces, RowsKept
  PROVE  SurvivesRaces'
  BY DEF SurvivesRaces, RowsKept, Ended

\* Every step keeps the sessions and the knowledge of what has expired.
LEMMA SurvivalStep ==
  ASSUME TypeOK, ExpiredKnown, SurvivesRaces, [Next]_vars
  PROVE  ExpiredKnown' /\ SurvivesRaces'
<1>0. /\ \A r \in Requests : req[r] \in Request /\ req[r].sid \in Sids
                             /\ req[r].user \in Users \cup {Nobody}
      /\ \A s \in Sids : rows[s] \in Row
      /\ ~NoRow.present
  BY DEF TypeOK, Request, NoRow
<1>1. ASSUME NEW r \in Requests, NEW s \in Sids, NEW u \in Users, Login(r, s, u)
      PROVE  ExpiredKnown' /\ SurvivesRaces'
  <2>1. \A q \in Requests : q # r => req'[q] = req[q]
    BY <1>1, AnswerProps DEF Login
  <2>2. \A t \in Sids : Creating(t) => Creating(t)'
    BY <1>1, <2>1 DEF Login, Creating
  <2>3. rows'[s].present /\ rows'[s].time = TTL /\ \A t \in Sids : t # s => rows'[t] = rows[t]
    BY <1>1 DEF Login, TypeOK
  <2>4. \A t \in Sids : t # s => issued'[t] = issued[t]
    BY <1>1 DEF Login, TypeOK
  <2>5. UNCHANGED <<loggedOut, expired, harmed>>
    BY <1>1 DEF Login
  <2>6. ExpiredKnown'
    BY <2>3, <2>5, SessionAssumption DEF ExpiredKnown
  <2>7. SurvivesRaces'
    BY <2>2, <2>3, <2>4, <2>5 DEF SurvivesRaces, Ended
  <2> QED BY <2>6, <2>7
<1>2. ASSUME NEW r \in Requests, NEW s \in Sids, Get(r, s) \/ GetFails(r, s)
      PROVE  ExpiredKnown' /\ SurvivesRaces'
  <2>1. req[r].pc = "idle" /\ \A q \in Requests : q # r => req'[q] = req[q]
    BY <1>2 DEF Get, GetFails, Answer, TypeOK
  <2>2. \A t \in Sids : Creating(t) => Creating(t)'
    BY <2>1 DEF Creating
  <2>3. UNCHANGED <<rows, issued, loggedOut, expired, harmed>>
    BY <1>2 DEF Get, GetFails
  <2>4. RowsKept
    BY <2>2, <2>3 DEF RowsKept
  <2> QED BY <2>3, <2>4, RowsKeptSurvives DEF ExpiredKnown
<1>3. ASSUME NEW r \in Requests, Purge(r) PROVE ExpiredKnown' /\ SurvivesRaces'
  <2>1. req[r].pc = "purge" /\ \A q \in Requests : q # r => req'[q] = req[q]
    BY <1>3 DEF Purge, Refuse, Answer, TypeOK
  <2>2. \A t \in Sids : Creating(t) => Creating(t)'
    BY <2>1 DEF Creating
  <2>3. UNCHANGED <<issued, loggedOut, expired, harmed>>
    BY <1>3 DEF Purge
  <2>4. \A t \in Sids : rows'[t] = rows[t] \/ (rows[t].time = 0 /\ rows'[t] = NoRow)
    BY <1>3 DEF Purge
  <2>5. RowsKept
    BY <2>2, <2>3, <2>4 DEF RowsKept, ExpiredKnown
  <2>6. ExpiredKnown'
    BY <1>0, <2>3, <2>4 DEF ExpiredKnown
  <2> QED BY <2>5, <2>6, RowsKeptSurvives
<1>4. ASSUME NEW r \in Requests, Delete(r) PROVE ExpiredKnown' /\ SurvivesRaces'
  <2>1. /\ req[r].pc = "delete" /\ req'[r].pc = "create" /\ req'[r].sid = req[r].sid
        /\ \A q \in Requests : q # r => req'[q] = req[q]
    BY <1>0, <1>4 DEF Delete, TypeOK, Request
  <2>2. \A t \in Sids : Creating(t) => Creating(t)'
    BY <2>1 DEF Creating
  <2>3. UNCHANGED <<issued, loggedOut, expired, harmed>>
    BY <1>4 DEF Delete
  <2>4. \A t \in Sids : rows'[t] = rows[t] \/ (t = req[r].sid /\ rows'[t] = NoRow)
    BY <1>0, <1>4 DEF Delete, TypeOK
  <2>5. Creating(req[r].sid)'
    BY <2>1 DEF Creating
  <2>6. RowsKept
    BY <2>1, <2>2, <2>3, <2>4, <2>5 DEF RowsKept, Creating
  <2>7. ExpiredKnown'
    BY <1>0, <2>3, <2>4 DEF ExpiredKnown
  <2> QED BY <2>6, <2>7, RowsKeptSurvives
<1>5. ASSUME NEW r \in Requests, Create(r) PROVE ExpiredKnown' /\ SurvivesRaces'
  <2>1. \A q \in Requests : q # r => req'[q] = req[q]
    BY <1>0, <1>5, AnswerProps DEF Create, Refuse
  <2>2. \A t \in Sids : (t # req[r].sid /\ Creating(t)) => Creating(t)'
    BY <2>1 DEF Creating
  <2>3. UNCHANGED <<issued, loggedOut, expired>> /\ harmed \subseteq harmed'
    BY <1>5 DEF Create
  <2>4. Inserted(r).present /\ Inserted(r).time = TTL
    BY DEF Inserted
  <2>5. \A t \in Sids : rows'[t] = rows[t] \/ (t = req[r].sid /\ rows'[t] = Inserted(r))
    BY <1>0, <1>5 DEF Create, TypeOK
  <2>6. rows'[req[r].sid].present \/ req[r].sid \in harmed'
    BY <1>0, <1>5, <2>4 DEF Create, TypeOK
  <2>7. RowsKept
    BY <2>2, <2>3, <2>4, <2>5, <2>6 DEF RowsKept
  <2>8. ExpiredKnown'
    BY <2>3, <2>4, <2>5, SessionAssumption DEF ExpiredKnown
  <2> QED BY <2>7, <2>8, RowsKeptSurvives
<1>6. ASSUME NEW r \in Requests, NEW s \in Sids, Logout(r, s)
      PROVE  ExpiredKnown' /\ SurvivesRaces'
  <2>1. req[r].pc = "idle" /\ \A q \in Requests : q # r => req'[q] = req[q]
    BY <1>6, AnswerProps DEF Logout
  <2>2. \A t \in Sids : Creating(t) => Creating(t)'
    BY <2>1 DEF Creating
  <2>3. UNCHANGED <<issued, expired, harmed>> /\ loggedOut' = loggedOut \cup {s}
    BY <1>6 DEF Logout
  <2>4. \A t \in Sids : rows'[t] = rows[t] \/ (t = s /\ rows'[t] = NoRow)
    BY <1>6 DEF Logout, TypeOK
  <2>5. RowsKept
    BY <2>2, <2>3, <2>4 DEF RowsKept
  <2>6. ExpiredKnown'
    BY <1>0, <2>3, <2>4 DEF ExpiredKnown
  <2> QED BY <2>5, <2>6, RowsKeptSurvives
<1>7. CASE Tick
  <2>1. \A e \in Row : e.time \in 0..TTL
            /\ [e EXCEPT !.time = @ - 1].present = e.present
            /\ [e EXCEPT !.time = @ - 1].time = e.time - 1
    BY DEF Row
  <2>2. \A t \in Sids :
          \/ rows[t].time > 0 /\ rows'[t] = [rows[t] EXCEPT !.time = @ - 1]
          \/ ~(rows[t].time > 0) /\ rows'[t] = rows[t]
    BY <1>7 DEF Tick
  <2>3. UNCHANGED <<req, issued, loggedOut, harmed>>
        /\ expired' = expired \cup {t \in Sids : rows[t].time = 1}
    BY <1>7 DEF Tick
  <2>4. \A t \in Sids : rows'[t].present = rows[t].present
    BY <1>0, <2>1, <2>2
  <2>5. RowsKept
    BY <2>3, <2>4 DEF RowsKept, Creating
  <2>6. ExpiredKnown'
    <3>1. SUFFICES ASSUME NEW t \in Sids, rows'[t].present, rows'[t].time = 0
                   PROVE  t \in expired'
      BY DEF ExpiredKnown
    <3>2. rows[t].present
      BY <2>4, <3>1
    <3>3. rows[t].time = 1 \/ rows[t].time = 0
      <4>1. rows[t].time \in Int
        BY <1>0, <2>1, SessionAssumption
      <4>2. CASE rows'[t].time = rows[t].time - 1
        BY <3>1, <4>1, <4>2
      <4>3. CASE rows'[t].time = rows[t].time
        BY <3>1, <4>3
      <4> QED BY <1>0, <2>1, <2>2, <4>2, <4>3
    <3> QED BY <2>3, <3>2, <3>3 DEF ExpiredKnown
  <2> QED BY <2>5, <2>6, RowsKeptSurvives
<1>8. CASE Crash
  <2>1. UNCHANGED <<rows, issued, loggedOut, expired>> /\ harmed \subseteq harmed'
    BY <1>8 DEF Crash
  <2>2. \A t \in Sids : (Creating(t) /\ ~rows[t].present) => t \in harmed'
    BY <1>8 DEF Crash, Creating
  <2>3. RowsKept
    BY <2>1, <2>2 DEF RowsKept
  <2> QED BY <2>1, <2>3, RowsKeptSurvives DEF ExpiredKnown
<1>9. CASE UNCHANGED vars
  BY <1>9 DEF vars, ExpiredKnown, SurvivesRaces, Ended, Creating
<1> QED BY <1>1, <1>2, <1>3, <1>4, <1>5, <1>6, <1>7, <1>8, <1>9 DEF Next

\* The rows of the session table and the requests under way keep their types, for
\* any number of sessions, users and requests.
THEOREM SessionTypes == Spec => []TypeOK
<1>1. SessionInv => TypeOK
  BY DEF SessionInv
<1> QED BY <1>1, InitHolds, TypeStep, PTL DEF Spec

\* Any number of requests may extend the same session at the same time without
\* losing it: the DELETE and the INSERT of session_validate_and_extend, though
\* not atomic, always leave the row or somebody who is about to insert it.
THEOREM RacesLoseNothing == Spec => []SurvivesRaces
<1>1. SessionInv => TypeOK /\ ExpiredKnown /\ SurvivesRaces
  BY DEF SessionInv
<1>2. TypeOK /\ ExpiredKnown /\ SurvivesRaces /\ [Next]_vars
        => ExpiredKnown' /\ SurvivesRaces'
  BY SurvivalStep
<1> QED BY <1>1, <1>2, InitHolds, TypeStep, PTL DEF Spec
==============================================================================
