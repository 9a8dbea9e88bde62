-------------------------- MODULE VideoStoreProofs --------------------------
(***************************************************************************)
(* Proofs about VideoStore. The invariants say which request made which    *)
(* row, file and directory, and hold through every interleaving of         *)
(* uploads, deletions, failures and crashes.                               *)
(***************************************************************************)
EXTENDS VideoStore, TLAPS

Makers == Requests \cup {"old"}
UserNames == Names \cup {"old"}
Rows == [name : 0..MaxClock, seg : BOOLEAN, edited : BOOLEAN, by : Makers]
Dirs == [of : Makers \cup {"torn"}, complete : BOOLEAN]
Local == [pc : Places, name : 0..MaxClock, id : Nat, mine : Nat, row : Rows,
          user : UserNames]

ReqType == req \in [Requests -> Local]
CounterType ==
    /\ next_id \in [videos : Nat \ {0}, users : Nat \ {0}, sessions : Nat \ {0},
                    watch : Nat \ {0}]
    /\ last_rowid \in Nat /\ clock \in 1..MaxClock /\ crashes \in 0..MaxCrashes
VideosType == videos \in [DOMAIN videos -> Rows] /\ DOMAIN videos \subseteq 1..(next_id.videos - 1)
UsersType == users \in [DOMAIN users -> UserNames] /\ DOMAIN users \subseteq 1..(next_id.users - 1)
DiskType ==
    /\ files \in [DOMAIN files -> Makers \cup {"torn"}] /\ DOMAIN files \subseteq 0..MaxClock
    /\ thumbs \subseteq 0..MaxClock
    /\ segments \in [DOMAIN segments -> Dirs]

Types == ReqType /\ CounterType /\ VideosType /\ UsersType /\ DiskType

-----------------------------------------------------------------------------
(* Helpers.                                                                *)

\* A table or directory with one entry.
LEMMA PutSingle ==
    ASSUME NEW T, NEW k, NEW x \in T
    PROVE  /\ Put(<<>>, k, x) \in [{k} -> T] /\ DOMAIN Put(<<>>, k, x) = {k}
           /\ Put(<<>>, k, x)[k] = x
<1>1. DOMAIN <<>> = {}
  OBVIOUS
<1>2. Put(<<>>, k, x) = [i \in {k} |-> x]
  BY <1>1 DEF Put
<1> QED
  BY <1>2

-----------------------------------------------------------------------------
(* What each action does to the requests.                                  *)

\* Request r goes from one of the places from to one of the places to; the others
\* stay where they are.
Moves(r, from, to) ==
    /\ req[r].pc \in from /\ req'[r].pc \in to
    /\ \A s \in Requests \ {r} : req'[s] = req[s]

\* The file it wrote, the id it works with, the row it inserted and the row it read
\* stay the same.
KeepsName(r) == req'[r].name = req[r].name
KeepsId(r) == req'[r].id = req[r].id
KeepsMine(r) == req'[r].mine = req[r].mine
KeepsRow(r) == req'[r].row = req[r].row
Keeps(r) == KeepsName(r) /\ KeepsId(r) /\ KeepsMine(r) /\ KeepsRow(r)

\* A request gets new locals.
LEMMA ReqBecomes ==
    ASSUME ReqType, NEW r \in Requests, NEW x \in Local, req' = [req EXCEPT ![r] = x]
    PROVE  /\ ReqType' /\ req'[r] = x /\ req[r] \in Local
           /\ \A s \in Requests \ {r} : req'[s] = req[s]
  BY DEF ReqType

\* Only the place changes.
LEMMA MovedGoto ==
    ASSUME ReqType, NEW r \in Requests, NEW pc \in Places, Goto(r, pc)
    PROVE  /\ ReqType' /\ Moves(r, {req[r].pc}, {pc}) /\ Keeps(r)
           /\ req'[r].user = req[r].user
  BY DEF ReqType, Local, Goto, Moves, Keeps, KeepsName, KeepsId, KeepsMine, KeepsRow

\* An upload gets the name of its files.
LEMMA MovedName ==
    ASSUME ReqType, NEW r \in Requests, NEW pc \in Places, NEW n \in 0..MaxClock,
           req' = [req EXCEPT ![r].pc = pc, ![r].name = n]
    PROVE  /\ ReqType' /\ Moves(r, {req[r].pc}, {pc}) /\ req'[r].name = n
           /\ KeepsId(r) /\ KeepsMine(r) /\ KeepsRow(r)
           /\ req'[r].user = req[r].user
<1> DEFINE x == [req[r] EXCEPT !.pc = pc, !.name = n]
<1>1. x \in Local
  BY DEF ReqType, Local
<1>2. req' = [req EXCEPT ![r] = x]
  BY DEF ReqType
<1>3. /\ x.pc = pc /\ x.name = n /\ x.id = req[r].id /\ x.mine = req[r].mine
      /\ x.row = req[r].row /\ x.user = req[r].user
  BY DEF ReqType, Local
<1> HIDE DEF x
<1> QED
  BY <1>1, <1>2, <1>3, ReqBecomes DEF Moves, KeepsId, KeepsMine, KeepsRow

\* A request has inserted a row.
LEMMA MovedMine ==
    ASSUME ReqType, NEW r \in Requests, NEW pc \in Places, NEW v \in Nat,
           req' = [req EXCEPT ![r].pc = pc, ![r].mine = v]
    PROVE  /\ ReqType' /\ Moves(r, {req[r].pc}, {pc}) /\ req'[r].mine = v
           /\ KeepsName(r) /\ KeepsId(r) /\ KeepsRow(r)
           /\ req'[r].user = req[r].user
<1> DEFINE x == [req[r] EXCEPT !.pc = pc, !.mine = v]
<1>1. x \in Local
  BY DEF ReqType, Local
<1>2. req' = [req EXCEPT ![r] = x]
  BY DEF ReqType
<1>3. /\ x.pc = pc /\ x.name = req[r].name /\ x.id = req[r].id /\ x.mine = v
      /\ x.row = req[r].row /\ x.user = req[r].user
  BY DEF ReqType, Local
<1> HIDE DEF x
<1> QED
  BY <1>1, <1>2, <1>3, ReqBecomes DEF Moves, KeepsName, KeepsId, KeepsRow

\* A request has read the id of the last INSERT.
LEMMA MovedId ==
    ASSUME ReqType, NEW r \in Requests, NEW pc \in Places, NEW v \in Nat,
           req' = [req EXCEPT ![r].pc = pc, ![r].id = v]
    PROVE  /\ ReqType' /\ Moves(r, {req[r].pc}, {pc}) /\ req'[r].id = v
           /\ KeepsName(r) /\ KeepsMine(r) /\ KeepsRow(r)
           /\ req'[r].user = req[r].user
<1> DEFINE x == [req[r] EXCEPT !.pc = pc, !.id = v]
<1>1. x \in Local
  BY DEF ReqType, Local
<1>2. req' = [req EXCEPT ![r] = x]
  BY DEF ReqType
<1>3. /\ x.pc = pc /\ x.name = req[r].name /\ x.id = v /\ x.mine = req[r].mine
      /\ x.row = req[r].row /\ x.user = req[r].user
  BY DEF ReqType, Local
<1> HIDE DEF x
<1> QED
  BY <1>1, <1>2, <1>3, ReqBecomes DEF Moves, KeepsName, KeepsMine, KeepsRow

\* A request has a user name.
LEMMA MovedUser ==
    ASSUME ReqType, NEW r \in Requests, NEW pc \in Places, NEW u \in UserNames,
           \/ req' = [req EXCEPT ![r].pc = pc, ![r].user = u]
           \/ req' = [req EXCEPT ![r].user = u, ![r].pc = pc]
    PROVE  /\ ReqType' /\ Moves(r, {req[r].pc}, {pc}) /\ Keeps(r) /\ req'[r].user = u
<1> DEFINE x == [req[r] EXCEPT !.pc = pc, !.user = u]
<1>1. x \in Local
  BY ZenonT(30) DEF ReqType, Local
<1>2. req' = [req EXCEPT ![r] = x]
  BY DEF ReqType, Local
<1>3. /\ x.pc = pc /\ x.name = req[r].name /\ x.id = req[r].id /\ x.mine = req[r].mine
      /\ x.row = req[r].row /\ x.user = u
  BY DEF ReqType, Local
<1> HIDE DEF x
<1> QED
  BY <1>1, <1>2, <1>3, ReqBecomes
     DEF Moves, Keeps, KeepsName, KeepsId, KeepsMine, KeepsRow

\* Places of requests that neither upload nor delete, or do not yet.
Aside == {"idle", "write", "lookup", "login", "auth", "select", "update", "watch",
          "newuser", "userid", "session"}

\* What requests do that concern no video or file.
AsideEffect(r) ==
    /\ Moves(r, Aside, Aside \cup {"done"}) /\ KeepsName(r) /\ KeepsRow(r)
    /\ UNCHANGED <<videos, files, thumbs, segments, clock, crashes, clashed, ignored,
                   leftNames, leftDirs>>
    /\ next_id'.videos = next_id.videos /\ misread \subseteq misread'

\* An INSERT into another table.
LEMMA InsertedElsewhere ==
    ASSUME CounterType, NEW t \in {"users", "sessions", "watch"}, Inserted(t)
    PROVE  /\ next_id'.videos = next_id.videos /\ next_id'[t] = next_id[t] + 1
           /\ next_id' \in [videos : Nat \ {0}, users : Nat \ {0}, sessions : Nat \ {0},
                            watch : Nat \ {0}]
           /\ t # "users" => next_id'.users = next_id.users
           /\ last_rowid' = next_id[t] /\ last_rowid' \in Nat /\ next_id[t] \in Nat
<1>1. CASE t = "users"
  BY <1>1 DEF CounterType, Inserted
<1>2. CASE t = "sessions"
  BY <1>2 DEF CounterType, Inserted
<1>3. CASE t = "watch"
  BY <1>3 DEF CounterType, Inserted
<1> QED
  BY <1>1, <1>2, <1>3

\* The places a request can be taken to.
LEMMA ManyPlaces == Aside \cup {"done", "thumb", "insert", "rowid", "script", "segment",
                        "unlink", "path", "delete", "unlinkrow", "removedir"} \subseteq Places
  BY DEF Aside, Places

\* Routing, refusals and answers.
LEMMA AsideGoto ==
    ASSUME Types, NEW r \in Requests,
           \/ http_api_handle(r) \/ Refused(r) \/ is_admin_user(r) \/ UploadRefused(r)
           \/ CreateUserFails(r) \/ CreateSession(r) \/ WatchUpdate(r)
    PROVE  /\ AsideEffect(r) /\ ReqType' /\ CounterType' /\ KeepsId(r) /\ KeepsMine(r)
           /\ next_id'.users = next_id.users /\ users' = users /\ misread' = misread
           /\ req'[r].user = req[r].user
<1>1. PICK pc \in Aside \cup {"done"} : Goto(r, pc) /\ req[r].pc \in Aside
  <2>1. CASE http_api_handle(r)
    BY <2>1 DEF http_api_handle, Handlers, At, Aside
  <2>2. CASE is_admin_user(r)
    BY <2>2 DEF is_admin_user, At, Aside
  <2>3. CASE Refused(r) \/ UploadRefused(r) \/ CreateUserFails(r)
    BY <2>3 DEF Refused, UploadRefused, CreateUserFails, At, Aside
  <2>4. CASE CreateSession(r) \/ WatchUpdate(r)
    BY <2>4 DEF CreateSession, WatchUpdate, At, Aside
  <2> QED
    BY <2>1, <2>2, <2>3, <2>4
<1>2. pc \in Places
  BY ManyPlaces
<1>3. /\ ReqType' /\ Moves(r, {req[r].pc}, {pc}) /\ Keeps(r)
      /\ req'[r].user = req[r].user
  BY <1>1, <1>2, MovedGoto DEF Types
<1>4. Moves(r, Aside, Aside \cup {"done"})
  BY <1>1, <1>3 DEF Moves
<1>5. /\ UNCHANGED <<videos, files, thumbs, segments, clock, crashes, clashed, ignored,
                     leftNames, leftDirs, users, misread>>
  BY DEF http_api_handle, Refused, is_admin_user, UploadRefused, CreateUserFails,
         CreateSession, WatchUpdate, db, disk, hist
<1>6. \/ UNCHANGED <<next_id, last_rowid>> \/ Inserted("sessions") \/ Inserted("watch")
  BY DEF http_api_handle, Refused, is_admin_user, UploadRefused, CreateUserFails,
         CreateSession, WatchUpdate, db_upsert_watch_history, db
<1>7. /\ CounterType' /\ next_id'.videos = next_id.videos
      /\ next_id'.users = next_id.users
  <2>1. CASE UNCHANGED <<next_id, last_rowid>>
    BY <1>5, <2>1 DEF Types, CounterType
  <2>2. CASE Inserted("sessions") \/ Inserted("watch")
    BY <1>5, <2>2, InsertedElsewhere DEF Types, CounterType
  <2> QED
    BY <1>6, <2>1, <2>2
<1> QED
  BY <1>3, <1>4, <1>5, <1>7 DEF AsideEffect, Keeps

\* Signup and login.
LEMMA AsideUsers ==
    ASSUME Types, NEW r \in Requests,
           LookupName(r) \/ CreateUser(r) \/ UserRowid(r) \/ Login(r)
    PROVE  AsideEffect(r) /\ ReqType' /\ CounterType'
<1>0. /\ UNCHANGED <<videos, files, thumbs, segments, clock, crashes, clashed, ignored,
                     leftNames, leftDirs>>
      /\ misread \subseteq misread'
  BY DEF LookupName, CreateUser, UserRowid, Login, db, disk, hist
<1>1. CASE LookupName(r)
  <2>1. PICK name \in Names, pc \in {"done", "newuser"} :
          req' = [req EXCEPT ![r].user = name, ![r].pc = pc]
    BY <1>1 DEF LookupName
  <2>2. pc \in Places /\ name \in UserNames
    BY <2>1, ManyPlaces DEF Aside, UserNames
  <2>3. /\ ReqType' /\ Moves(r, {req[r].pc}, {pc}) /\ KeepsName(r) /\ KeepsRow(r)
    BY <2>1, <2>2, MovedUser DEF Types, Keeps
  <2>4. req[r].pc = "lookup" /\ UNCHANGED <<next_id, last_rowid>>
    BY <1>1 DEF LookupName, At, db
  <2> QED
    BY <1>0, <2>3, <2>4 DEF AsideEffect, Moves, Aside, Types, CounterType
<1>2. CASE CreateUser(r)
  <2>1. /\ req' = [req EXCEPT ![r].pc = "userid", ![r].mine = next_id.users]
        /\ req[r].pc = "newuser" /\ Inserted("users")
    BY <1>2 DEF CreateUser, At
  <2>2. /\ next_id'.videos = next_id.videos /\ CounterType' /\ next_id.users \in Nat
    BY <1>0, <2>1, InsertedElsewhere DEF Types, CounterType
  <2>3. /\ ReqType' /\ Moves(r, {req[r].pc}, {"userid"}) /\ KeepsName(r) /\ KeepsRow(r)
    BY <2>1, <2>2, ManyPlaces, MovedMine DEF Types, Aside
  <2> QED
    BY <1>0, <2>1, <2>2, <2>3 DEF AsideEffect, Moves, Aside
<1>3. CASE UserRowid(r)
  <2>1. /\ req' = [req EXCEPT ![r].pc = "session", ![r].id = last_rowid]
        /\ req[r].pc = "userid" /\ UNCHANGED <<next_id, last_rowid>> /\ last_rowid \in Nat
    BY <1>3 DEF UserRowid, At, db, Types, CounterType
  <2>2. /\ ReqType' /\ Moves(r, {req[r].pc}, {"session"}) /\ KeepsName(r) /\ KeepsRow(r)
    BY <2>1, ManyPlaces, MovedId DEF Types, Aside
  <2> QED
    BY <1>0, <2>1, <2>2 DEF AsideEffect, Moves, Aside, Types, CounterType
<1>4. CASE Login(r)
  <2>1. PICK u \in DOMAIN users : /\ req' = [req EXCEPT ![r].pc = "done", ![r].user = users[u]]
                                  /\ req[r].pc = "login" /\ Inserted("sessions")
    BY <1>4 DEF Login, At
  <2>2. users[u] \in UserNames
    BY DEF Types, UsersType
  <2>3. /\ ReqType' /\ Moves(r, {req[r].pc}, {"done"}) /\ KeepsName(r) /\ KeepsRow(r)
    BY <2>1, <2>2, ManyPlaces, MovedUser DEF Types, Keeps
  <2>4. /\ next_id'.videos = next_id.videos /\ CounterType'
    BY <1>0, <2>1, InsertedElsewhere DEF Types, CounterType
  <2> QED
    BY <1>0, <2>1, <2>3, <2>4 DEF AsideEffect, Moves, Aside
<1> QED
  BY <1>1, <1>2, <1>3, <1>4

\* The steps of an upload and of a deletion that only go on.
LEMMA MovedOn ==
    ASSUME Types, NEW r \in Requests
    PROVE  /\ Thumbnail(r) => ReqType' /\ Moves(r, {"thumb"}, {"insert"}) /\ Keeps(r)
           /\ InsertVideoFails(r) => ReqType' /\ Moves(r, {"insert"}, {"done"}) /\ Keeps(r)
           /\ ScriptStarts(r) => ReqType' /\ Moves(r, {"script"}, {"segment"}) /\ Keeps(r)
           /\ ScriptSucceeds(r) => ReqType' /\ Moves(r, {"segment"}, {"path"}) /\ Keeps(r)
           /\ ScriptFails(r) => ReqType' /\ Moves(r, {"segment"}, {"unlink"}) /\ Keeps(r)
           /\ UnlinkUpload(r) => ReqType' /\ Moves(r, {"unlink"}, {"done"}) /\ Keeps(r)
           /\ SetSegmentPath(r) => ReqType' /\ Moves(r, {"path"}, {"done"}) /\ Keeps(r)
           /\ DeleteRow(r) => ReqType' /\ Moves(r, {"delete"}, {"unlinkrow"}) /\ Keeps(r)
           /\ UnlinkRow(r) => ReqType' /\ Moves(r, {"unlinkrow"}, {"removedir"}) /\ Keeps(r)
           /\ RemoveDir(r) => ReqType' /\ Moves(r, {"removedir"}, {"done"}) /\ Keeps(r)
           /\ RemoveDirFails(r) => ReqType' /\ Moves(r, {"removedir"}, {"done"}) /\ Keeps(r)
           /\ UpdateVideo(r) => ReqType' /\ Moves(r, {"update"}, {"done"}) /\ Keeps(r)
<1>1. ASSUME NEW from, NEW pc, pc \in Places, At(r, from), Goto(r, pc)
      PROVE  ReqType' /\ Moves(r, {from}, {pc}) /\ Keeps(r)
  BY <1>1, MovedGoto DEF Types, At
<1>2. {"insert", "done", "segment", "path", "unlink", "unlinkrow", "removedir"} \subseteq Places
  BY ManyPlaces
<1>3. /\ Thumbnail(r) => ReqType' /\ Moves(r, {"thumb"}, {"insert"}) /\ Keeps(r)
      /\ InsertVideoFails(r) => ReqType' /\ Moves(r, {"insert"}, {"done"}) /\ Keeps(r)
      /\ ScriptStarts(r) => ReqType' /\ Moves(r, {"script"}, {"segment"}) /\ Keeps(r)
      /\ ScriptSucceeds(r) => ReqType' /\ Moves(r, {"segment"}, {"path"}) /\ Keeps(r)
  BY <1>1, <1>2 DEF Thumbnail, InsertVideoFails, ScriptStarts, ScriptSucceeds
<1>4. /\ ScriptFails(r) => ReqType' /\ Moves(r, {"segment"}, {"unlink"}) /\ Keeps(r)
      /\ UnlinkUpload(r) => ReqType' /\ Moves(r, {"unlink"}, {"done"}) /\ Keeps(r)
      /\ SetSegmentPath(r) => ReqType' /\ Moves(r, {"path"}, {"done"}) /\ Keeps(r)
      /\ DeleteRow(r) => ReqType' /\ Moves(r, {"delete"}, {"unlinkrow"}) /\ Keeps(r)
  BY <1>1, <1>2 DEF ScriptFails, UnlinkUpload, SetSegmentPath, DeleteRow
<1>5. /\ UnlinkRow(r) => ReqType' /\ Moves(r, {"unlinkrow"}, {"removedir"}) /\ Keeps(r)
      /\ RemoveDir(r) => ReqType' /\ Moves(r, {"removedir"}, {"done"}) /\ Keeps(r)
      /\ RemoveDirFails(r) => ReqType' /\ Moves(r, {"removedir"}, {"done"}) /\ Keeps(r)
      /\ UpdateVideo(r) => ReqType' /\ Moves(r, {"update"}, {"done"}) /\ Keeps(r)
  BY <1>1, <1>2 DEF UnlinkRow, RemoveDir, RemoveDirFails, UpdateVideo
<1> QED
  BY <1>3, <1>4, <1>5

\* The steps that read or assign a name, an id or a row.
LEMMA MovedAssign ==
    ASSUME Types, NEW r \in Requests
    PROVE  /\ WriteFile(r) => /\ ReqType' /\ Moves(r, {"write"}, {"thumb", "done"})
                              /\ req'[r].name = clock
                              /\ KeepsId(r) /\ KeepsMine(r) /\ KeepsRow(r)
           /\ InsertVideo(r) => /\ ReqType' /\ Moves(r, {"insert"}, {"rowid"})
                                /\ req'[r].mine = next_id.videos
                                /\ KeepsName(r) /\ KeepsId(r) /\ KeepsRow(r)
           /\ VideoRowid(r) => /\ ReqType' /\ Moves(r, {"rowid"}, {"script"})
                               /\ req'[r].id = last_rowid
                               /\ KeepsName(r) /\ KeepsMine(r) /\ KeepsRow(r)
           /\ SelectVideo(r) => /\ ReqType' /\ Moves(r, {"select"}, {"delete"})
                                /\ req'[r].id \in DOMAIN videos
                                /\ req'[r].row = videos[req'[r].id]
                                /\ KeepsName(r) /\ KeepsMine(r)
<1>1. ASSUME WriteFile(r)
      PROVE  /\ ReqType' /\ Moves(r, {"write"}, {"thumb", "done"}) /\ req'[r].name = clock
             /\ KeepsId(r) /\ KeepsMine(r) /\ KeepsRow(r)
  <2>1. PICK pc \in {"thumb", "done"} :
          req' = [req EXCEPT ![r].pc = pc, ![r].name = clock] /\ req[r].pc = "write"
    BY <1>1 DEF WriteFile, At
  <2>2. clock \in 0..MaxClock /\ pc \in Places
    BY StoreAssumption, ManyPlaces DEF Types, CounterType
  <2>3. /\ ReqType' /\ Moves(r, {req[r].pc}, {pc}) /\ req'[r].name = clock
        /\ KeepsId(r) /\ KeepsMine(r) /\ KeepsRow(r)
    BY <2>1, <2>2, MovedName DEF Types
  <2> QED
    BY <2>1, <2>3 DEF Moves
<1>2. ASSUME InsertVideo(r)
      PROVE  /\ ReqType' /\ Moves(r, {"insert"}, {"rowid"})
             /\ req'[r].mine = next_id.videos
             /\ KeepsName(r) /\ KeepsId(r) /\ KeepsRow(r)
  <2>1. /\ req' = [req EXCEPT ![r].pc = "rowid", ![r].mine = next_id.videos]
        /\ req[r].pc = "insert" /\ next_id.videos \in Nat /\ "rowid" \in Places
    BY <1>2, ManyPlaces DEF InsertVideo, At, Types, CounterType
  <2> QED
    BY <2>1, MovedMine DEF Types
<1>3. ASSUME VideoRowid(r)
      PROVE  /\ ReqType' /\ Moves(r, {"rowid"}, {"script"})
             /\ req'[r].id = last_rowid
             /\ KeepsName(r) /\ KeepsMine(r) /\ KeepsRow(r)
  <2>1. /\ req' = [req EXCEPT ![r].pc = "script", ![r].id = last_rowid]
        /\ req[r].pc = "rowid" /\ last_rowid \in Nat /\ "script" \in Places
    BY <1>3, ManyPlaces DEF VideoRowid, At, Types, CounterType
  <2> QED
    BY <2>1, MovedId DEF Types
<1>4. ASSUME SelectVideo(r)
      PROVE  /\ ReqType' /\ Moves(r, {"select"}, {"delete"})
             /\ req'[r].id \in DOMAIN videos /\ req'[r].row = videos[req'[r].id]
             /\ KeepsName(r) /\ KeepsMine(r)
  <2>1. PICK v \in DOMAIN videos :
          /\ req' = [req EXCEPT ![r].pc = "delete", ![r].id = v, ![r].row = videos[v]]
          /\ req[r].pc = "select"
    BY <1>4 DEF SelectVideo, At
  <2>2. v \in Nat /\ videos[v] \in Rows /\ "delete" \in Places
    <3>1. v \in 1..(next_id.videos - 1)
      BY DEF Types, VideosType
    <3> QED
      BY <3>1, ManyPlaces DEF Types, VideosType, CounterType
  <2>3. /\ ReqType' /\ Moves(r, {req[r].pc}, {"delete"})
        /\ req'[r].id = v /\ req'[r].row = videos[v]
        /\ KeepsName(r) /\ KeepsMine(r)
    <3> DEFINE x == [req[r] EXCEPT !.pc = "delete", !.id = v, !.row = videos[v]]
    <3>1. x \in Local
      BY <2>2 DEF Types, ReqType, Local
    <3>2. req' = [req EXCEPT ![r] = x]
      BY <2>1 DEF Types, ReqType
    <3>3. /\ x.pc = "delete" /\ x.name = req[r].name /\ x.id = v
          /\ x.mine = req[r].mine /\ x.row = videos[v]
      BY DEF Types, ReqType, Local
    <3> HIDE DEF x
    <3> QED
      BY <3>1, <3>2, <3>3, ReqBecomes DEF Types, Moves, KeepsName, KeepsMine
  <2> QED
    BY <2>1, <2>3
<1> QED
  BY <1>1, <1>2, <1>3, <1>4

\* A crash ends the requests in progress.
LEMMA MovedCrash ==
    ASSUME Types, Crash
    PROVE  /\ ReqType'
           /\ \A r \in Requests : /\ Keeps(r) /\ req'[r].user = req[r].user
                                  /\ r \in Busy => req'[r].pc = "done"
                                  /\ r \notin Busy => req'[r] = req[r]
                                                      /\ req[r].pc \in {"idle", "done"}
<1>1. "done" \in Places
  BY ManyPlaces
<1>2. req' = [r \in Requests |-> IF r \in Busy THEN [req[r] EXCEPT !.pc = "done"] ELSE req[r]]
  BY DEF Crash
<1>3. req \in [Requests -> Local]
  BY DEF Types, ReqType
<1>4. ASSUME NEW r \in Requests
      PROVE  /\ req'[r] \in Local /\ Keeps(r) /\ req'[r].user = req[r].user
             /\ r \in Busy => req'[r].pc = "done"
             /\ r \notin Busy => req'[r] = req[r] /\ req[r].pc \in {"idle", "done"}
  <2>1. CASE r \in Busy
    <3>1. req'[r] = [req[r] EXCEPT !.pc = "done"]
      BY <1>2, <2>1
    <3> QED
      BY <1>1, <1>3, <2>1, <3>1
         DEF Local, Keeps, KeepsName, KeepsId, KeepsMine, KeepsRow
  <2>2. CASE r \notin Busy
    <3>1. req'[r] = req[r]
      BY <1>2, <2>2
    <3> QED
      BY <1>3, <2>2, <3>1 DEF Busy, Keeps, KeepsName, KeepsId, KeepsMine, KeepsRow
  <2> QED
    BY <2>1, <2>2
<1>5. ReqType'
  BY <1>2, <1>4 DEF ReqType
<1> QED
  BY <1>4, <1>5

-----------------------------------------------------------------------------
(* Types.                                                                  *)

\* A deletion of a row, or its failure.
LEMMA Deleted ==
    ASSUME VideosType, NEW v, db_delete_video_by_id(v), next_id'.videos = next_id.videos
    PROVE  /\ VideosType' /\ DOMAIN videos' \subseteq DOMAIN videos
           /\ ignored \subseteq ignored'
           /\ \A x \in DOMAIN videos' : videos'[x] = videos[x]
           /\ DOMAIN videos \ {v} \subseteq DOMAIN videos'
           /\ v \notin DOMAIN videos' \ ignored'
<1>1. CASE videos' = Drop(videos, {v}) /\ ignored' = ignored
  <2>1. /\ DOMAIN videos' = DOMAIN videos \ {v}
        /\ \A x \in DOMAIN videos \ {v} : videos'[x] = videos[x]
        /\ videos' \in [DOMAIN videos \ {v} -> Rows]
    BY <1>1 DEF VideosType, Drop
  <2> QED
    BY <1>1, <2>1 DEF VideosType
<1>2. CASE videos' = videos /\ ignored' = ignored \cup {v}
  BY <1>2 DEF VideosType
<1> QED
  BY <1>1, <1>2 DEF db_delete_video_by_id

\* Setting segment_path of a row, or its failure.
LEMMA PathSet ==
    ASSUME VideosType, NEW v, db_update_video_segment_path(v),
           next_id'.videos = next_id.videos
    PROVE  /\ VideosType' /\ DOMAIN videos' = DOMAIN videos /\ ignored \subseteq ignored'
           /\ \A x \in DOMAIN videos : /\ videos'[x].by = videos[x].by
                                       /\ videos'[x].name = videos[x].name
                                       /\ x # v => videos'[x] = videos[x]
           /\ v \in DOMAIN videos \ ignored' => videos'[v].seg = TRUE
<1>1. CASE /\ videos' = [x \in DOMAIN videos |->
                           IF x = v THEN [videos[x] EXCEPT !.seg = TRUE] ELSE videos[x]]
           /\ ignored' = ignored
  <2>1. DOMAIN videos' = DOMAIN videos
    BY <1>1
  <2>2. ASSUME NEW x \in DOMAIN videos
        PROVE  /\ videos'[x] \in Rows
               /\ videos'[x].by = videos[x].by /\ videos'[x].name = videos[x].name
               /\ x # v => videos'[x] = videos[x]
               /\ x = v => videos'[x].seg = TRUE
    <3>1. videos[x] \in Rows
      BY DEF VideosType
    <3>2. videos'[x] = IF x = v THEN [videos[x] EXCEPT !.seg = TRUE] ELSE videos[x]
      BY <1>1
    <3> QED
      BY <3>1, <3>2 DEF Rows
  <2>3. videos' \in [DOMAIN videos -> Rows]
    BY <1>1, <2>2
  <2> QED
    BY <1>1, <2>1, <2>2, <2>3 DEF VideosType
<1>2. CASE videos' = videos /\ ignored' = ignored \cup {v}
  BY <1>2 DEF VideosType
<1> QED
  BY <1>1, <1>2 DEF db_update_video_segment_path

\* Editing a row.
LEMMA Edited ==
    ASSUME VideosType, NEW v \in DOMAIN videos, db_update_video_metadata(v),
           next_id'.videos = next_id.videos
    PROVE  /\ VideosType' /\ DOMAIN videos' = DOMAIN videos
           /\ \A x \in DOMAIN videos : /\ videos'[x].by = videos[x].by
                                       /\ videos'[x].name = videos[x].name
                                       /\ videos'[x].seg = videos[x].seg
<1>1. videos' = [videos EXCEPT ![v] = [videos[v] EXCEPT !.edited = TRUE]]
  BY DEF db_update_video_metadata, VideosType
<1>2. [videos[v] EXCEPT !.edited = TRUE] \in Rows
  BY DEF VideosType, Rows
<1>3. DOMAIN videos' = DOMAIN videos /\ videos' \in [DOMAIN videos -> Rows]
  BY <1>1, <1>2 DEF VideosType
<1>4. ASSUME NEW x \in DOMAIN videos
      PROVE  /\ videos'[x].by = videos[x].by /\ videos'[x].name = videos[x].name
             /\ videos'[x].seg = videos[x].seg
  BY <1>1 DEF VideosType, Rows
<1> QED
  BY <1>3, <1>4 DEF VideosType

\* A new row has an id that no row ever had.
LEMMA RowInserted ==
    ASSUME Types, NEW r \in Requests, InsertVideo(r)
    PROVE  /\ VideosType' /\ CounterType' /\ next_id.videos \in Nat \ {0}
           /\ next_id'.videos = next_id.videos + 1 /\ next_id'.users = next_id.users
           /\ next_id.videos \notin DOMAIN videos
           /\ DOMAIN videos' = DOMAIN videos \cup {next_id.videos}
           /\ videos'[next_id.videos] = Row(req[r].name, FALSE, FALSE, r)
           /\ \A x \in DOMAIN videos : videos'[x] = videos[x]
<1> DEFINE id == next_id.videos
           row == Row(req[r].name, FALSE, FALSE, r)
<1>1. /\ videos' = Put(videos, id, row) /\ Inserted("videos")
      /\ UNCHANGED <<clock, crashes>>
  BY DEF InsertVideo
<1>2. row \in Rows
  BY DEF Row, Rows, Makers, Types, ReqType, Local
<1>3. /\ id \in Nat \ {0} /\ next_id'.videos = id + 1 /\ next_id'.users = next_id.users
      /\ CounterType'
  BY <1>1 DEF Inserted, Types, CounterType
<1>4. id \notin DOMAIN videos
  BY <1>3 DEF Types, VideosType
<1> HIDE DEF id, row
<1>5. /\ DOMAIN videos' = DOMAIN videos \cup {id} /\ videos'[id] = row
      /\ \A x \in DOMAIN videos : videos'[x] = videos[x]
      /\ videos' \in [DOMAIN videos \cup {id} -> Rows]
  <2>1. videos \in [DOMAIN videos -> Rows]
    BY DEF Types, VideosType
  <2>2. /\ DOMAIN videos' = DOMAIN videos \cup {id} /\ videos'[id] = row
        /\ \A x \in DOMAIN videos : videos'[x] = videos[x]
    BY <1>1, <1>4 DEF Put
  <2>3. videos' \in [DOMAIN videos \cup {id} -> Rows]
    BY <1>1, <1>2, <2>1 DEF Put
  <2> QED
    BY <2>2, <2>3
<1>6. DOMAIN videos' \subseteq 1..(next_id'.videos - 1)
  <2>1. DOMAIN videos \subseteq 1..(id - 1)
    BY DEF Types, VideosType, id
  <2> QED
    BY <1>3, <1>5, <2>1
<1>7. VideosType'
  BY <1>5, <1>6 DEF VideosType
<1> QED
  BY <1>3, <1>4, <1>5, <1>7 DEF id, row

\* unlink removes the files of one name or leaves them, and what it leaves is noted.
LEMMA Unlinked ==
    ASSUME NEW n, unlink_files(n)
    PROVE  /\ files' = Drop(files, {n}) \/ files' = files
           /\ DOMAIN files' \subseteq DOMAIN files /\ thumbs' \subseteq thumbs
           /\ leftNames \subseteq leftNames'
           /\ n \in DOMAIN files' \cup thumbs' => n \in leftNames'
<1>1. PICK gone \in SUBSET {"video", "thumb"} :
        /\ files' = IF "video" \in gone THEN Drop(files, {n}) ELSE files
        /\ thumbs' = IF "thumb" \in gone THEN thumbs \ {n} ELSE thumbs
        /\ leftNames' = IF n \in DOMAIN files' \cup thumbs'
                        THEN leftNames \cup {n} ELSE leftNames
  BY DEF unlink_files
<1>2. DOMAIN Drop(files, {n}) \subseteq DOMAIN files
  BY DEF Drop
<1> QED
  BY <1>1, <1>2

\* Steps that insert nothing leave the counters alone.
LEMMA CountersSame ==
    ASSUME CounterType, UNCHANGED <<next_id, last_rowid, clock, crashes>>
    PROVE  CounterType'
  BY DEF CounterType

\* What a file or a directory becomes has the right type.
LEMMA DiskStep ==
    ASSUME Types, NEW r \in Requests,
           \/ WriteFile(r) \/ Thumbnail(r) \/ InsertVideoFails(r) \/ ScriptStarts(r)
           \/ ScriptSucceeds(r) \/ UnlinkUpload(r) \/ UnlinkRow(r) \/ RemoveDir(r)
           \/ RemoveDirFails(r)
    PROVE  DiskType'
<1> USE DEF DiskType
<1>0. /\ DiskType /\ req[r] \in Local /\ req[r].name \in 0..MaxClock
      /\ clock \in 0..MaxClock
  BY StoreAssumption DEF Types, ReqType, Local, CounterType
<1>1. CASE WriteFile(r)
  <2>1. PICK x \in {r, "torn"} : files' = Put(files, clock, x)
    BY <1>1 DEF WriteFile
  <2>2. x \in Makers \cup {"torn"}
    BY DEF Makers
  <2>3. /\ files' \in [DOMAIN files \cup {clock} -> Makers \cup {"torn"}]
        /\ DOMAIN files' = DOMAIN files \cup {clock}
    BY <1>0, <2>1, <2>2 DEF Put
  <2>4. UNCHANGED <<thumbs, segments>>
    BY <1>1 DEF WriteFile
  <2> QED
    BY <1>0, <2>3, <2>4
<1>2. CASE Thumbnail(r)
  BY <1>0, <1>2 DEF Thumbnail
<1>3. CASE InsertVideoFails(r) \/ UnlinkUpload(r) \/ UnlinkRow(r)
  <2>1. PICK n : unlink_files(n) /\ segments' = segments
    BY <1>3 DEF InsertVideoFails, UnlinkUpload, UnlinkRow
  <2>2. thumbs' \subseteq thumbs /\ (files' = Drop(files, {n}) \/ files' = files)
    BY <2>1, Unlinked
  <2>3. CASE files' = Drop(files, {n})
    <3>1. /\ files' \in [DOMAIN files \ {n} -> Makers \cup {"torn"}]
          /\ DOMAIN files' = DOMAIN files \ {n}
      BY <1>0, <2>3 DEF Drop
    <3> QED
      BY <1>0, <2>1, <2>2, <3>1
  <2>4. CASE files' = files
    BY <1>0, <2>1, <2>2, <2>4
  <2> QED
    BY <2>2, <2>3, <2>4
<1>4. CASE ScriptStarts(r)
  <2>1. PICK x \in Dirs : segments' = Put(segments, req[r].id, x)
    <3> DEFINE x == Dir(IF req[r].name \in DOMAIN files THEN files[req[r].name] ELSE "torn", FALSE)
    <3>1. x \in Dirs
      BY <1>0 DEF Dir, Dirs
    <3>2. segments' = Put(segments, req[r].id, x)
      BY <1>4 DEF ScriptStarts
    <3> HIDE DEF x
    <3> QED
      BY <3>1, <3>2
  <2>2. /\ segments' \in [DOMAIN segments \cup {req[r].id} -> Dirs]
        /\ DOMAIN segments' = DOMAIN segments \cup {req[r].id}
    BY <1>0, <2>1 DEF Put
  <2> QED
    BY <1>0, <1>4, <2>2 DEF ScriptStarts
<1>5. CASE ScriptSucceeds(r)
  <2> DEFINE id == req[r].id
             x == Dir(IF segments[id].of = files[req[r].name] THEN segments[id].of ELSE "torn",
                      TRUE)
  <2>1. id \in DOMAIN segments /\ segments' = [segments EXCEPT ![id] = x]
    BY <1>5 DEF ScriptSucceeds
  <2>2. x \in Dirs
    BY <1>0, <2>1 DEF Dir, Dirs
  <2> HIDE DEF x
  <2> QED
    BY <1>0, <1>5, <2>1, <2>2, ZenonT(30) DEF ScriptSucceeds
<1>6. CASE RemoveDir(r)
  <2>1. PICK K : segments' = Drop(segments, K) /\ UNCHANGED <<files, thumbs>>
    BY <1>6 DEF RemoveDir
  <2>2. /\ segments' \in [DOMAIN segments \ K -> Dirs]
        /\ DOMAIN segments' = DOMAIN segments \ K
    BY <1>0, <2>1 DEF Drop
  <2> QED
    BY <1>0, <2>1, <2>2
<1>7. CASE RemoveDirFails(r)
  <2>1. PICK v \in SUBSET {req[r].id} :
          /\ segments' = [x \in DOMAIN segments |->
                            IF x \in v THEN Dir(segments[x].of, FALSE) ELSE segments[x]]
          /\ UNCHANGED <<files, thumbs>>
    BY <1>7 DEF RemoveDirFails
  <2>2. \A x \in DOMAIN segments : segments[x] \in Dirs /\ Dir(segments[x].of, FALSE) \in Dirs
    BY <1>0 DEF Dir, Dirs
  <2>3. segments' \in [DOMAIN segments -> Dirs] /\ DOMAIN segments' = DOMAIN segments
    BY <2>1, <2>2
  <2> QED
    BY <1>0, <2>1, <2>3
<1> QED
  BY <1>1, <1>2, <1>3, <1>4, <1>5, <1>6, <1>7

\* Every step keeps the types.
LEMMA TypesStep == Types /\ [Next]_vars => Types'
<1> SUFFICES ASSUME Types, [Next]_vars PROVE Types'
  OBVIOUS
<1>1. ASSUME NEW r \in Requests,
             \/ http_api_handle(r) \/ Refused(r) \/ is_admin_user(r) \/ UploadRefused(r)
             \/ CreateUserFails(r) \/ CreateSession(r) \/ WatchUpdate(r)
      PROVE  Types'
  BY <1>1, AsideGoto DEF Types, AsideEffect, VideosType, UsersType, DiskType
<1>2. ASSUME NEW r \in Requests, LookupName(r) \/ UserRowid(r) \/ Login(r) PROVE Types'
  <2>1. AsideEffect(r) /\ ReqType' /\ CounterType'
    BY <1>2, AsideUsers
  <2>2. users' = users /\ next_id'.users = next_id.users
    <3>1. CASE LookupName(r) \/ UserRowid(r)
      BY <3>1 DEF LookupName, UserRowid, db
    <3>2. CASE Login(r)
      BY <3>2, InsertedElsewhere DEF Login, Types
    <3> QED
      BY <1>2, <3>1, <3>2
  <2> QED
    BY <2>1, <2>2 DEF Types, AsideEffect, VideosType, UsersType, DiskType
<1>3. ASSUME NEW r \in Requests, CreateUser(r) PROVE Types'
  <2>1. AsideEffect(r) /\ ReqType' /\ CounterType'
    BY <1>3, AsideUsers
  <2> DEFINE id == next_id.users
  <2>2. users' = Put(users, id, req[r].user) /\ Inserted("users")
    BY <1>3 DEF CreateUser
  <2>3. next_id'.users = id + 1 /\ id \in Nat \ {0}
    BY <2>2 DEF Inserted, Types, CounterType
  <2>4. req[r].user \in UserNames /\ DOMAIN users \subseteq 1..(id - 1)
    BY DEF Types, ReqType, Local, UsersType
  <2> HIDE DEF id
  <2>5. users' \in [DOMAIN users \cup {id} -> UserNames] /\ DOMAIN users' = DOMAIN users \cup {id}
    BY <2>2, <2>4 DEF Types, UsersType, Put
  <2>6. UsersType'
    BY <2>3, <2>4, <2>5 DEF UsersType
  <2> QED
    BY <2>1, <2>6 DEF Types, AsideEffect, VideosType, DiskType
<1>4. ASSUME NEW r \in Requests,
             \/ WriteFile(r) \/ Thumbnail(r) \/ InsertVideoFails(r) \/ ScriptStarts(r)
             \/ ScriptSucceeds(r) \/ UnlinkUpload(r) \/ UnlinkRow(r) \/ RemoveDir(r)
             \/ RemoveDirFails(r)
      PROVE  Types'
  <2>1. ReqType' /\ DiskType'
    BY <1>4, MovedOn, MovedAssign, DiskStep
  <2>2. UNCHANGED <<videos, users, next_id, last_rowid, clock, crashes>>
    BY <1>4 DEF WriteFile, Thumbnail, InsertVideoFails, ScriptStarts, ScriptSucceeds,
                UnlinkUpload, UnlinkRow, RemoveDir, RemoveDirFails, db
  <2> QED
    BY <2>1, <2>2, CountersSame DEF Types, VideosType, UsersType
<1>5. ASSUME NEW r \in Requests, ScriptFails(r) \/ DeleteRow(r) PROVE Types'
  <2>1. /\ UNCHANGED <<users, next_id, last_rowid, clock, crashes, disk>>
        /\ db_delete_video_by_id(req[r].id) /\ ReqType'
    BY <1>5, MovedOn DEF ScriptFails, DeleteRow
  <2>2. VideosType'
    BY <2>1, Deleted DEF Types
  <2> QED
    BY <2>1, <2>2, CountersSame DEF Types, UsersType, DiskType, disk
<1>6. ASSUME NEW r \in Requests, SetSegmentPath(r) \/ UpdateVideo(r) PROVE Types'
  <2>1. UNCHANGED <<users, next_id, last_rowid, clock, crashes, disk>> /\ ReqType'
    BY <1>6, MovedOn DEF SetSegmentPath, UpdateVideo
  <2>2. VideosType'
    BY <1>6, <2>1, PathSet, Edited DEF Types, SetSegmentPath, UpdateVideo
  <2> QED
    BY <2>1, <2>2, CountersSame DEF Types, UsersType, DiskType, disk
<1>7. ASSUME NEW r \in Requests, InsertVideo(r) PROVE Types'
  <2>1. ReqType' /\ VideosType' /\ CounterType' /\ next_id'.users = next_id.users
    BY <1>7, MovedAssign, RowInserted
  <2>2. UNCHANGED <<users, disk>>
    BY <1>7 DEF InsertVideo
  <2> QED
    BY <2>1, <2>2 DEF Types, UsersType, DiskType, disk
<1>8. ASSUME NEW r \in Requests, VideoRowid(r) \/ SelectVideo(r) PROVE Types'
  <2>1. ReqType'
    BY <1>8, MovedAssign
  <2>2. UNCHANGED <<db, disk, clock, crashes>>
    BY <1>8 DEF VideoRowid, SelectVideo
  <2> QED
    BY <2>1, <2>2, CountersSame DEF Types, VideosType, UsersType, DiskType, db, disk
<1>9. CASE Tick
  <2>1. clock' \in 1..MaxClock
    BY <1>9, StoreAssumption DEF Tick, Types, CounterType
  <2> QED
    BY <1>9, <2>1 DEF Tick, Types, ReqType, CounterType, VideosType, UsersType, DiskType,
                      db, disk
<1>10. CASE Crash
  <2>1. ReqType'
    BY <1>10, MovedCrash
  <2>2. crashes' \in 0..MaxCrashes
    BY <1>10, StoreAssumption DEF Crash, Types, CounterType
  <2> QED
    BY <1>10, <2>1, <2>2 DEF Crash, Types, CounterType, VideosType, UsersType, DiskType,
                             db, disk
<1>11. CASE UNCHANGED vars \/ Finished
  BY <1>11 DEF vars, Finished, Types, ReqType, CounterType, VideosType, UsersType, DiskType
<1> QED
  BY <1>1, <1>2, <1>3, <1>4, <1>5, <1>6, <1>7, <1>8, <1>9, <1>10, <1>11 DEF Next

\* The types hold at first.
LEMMA TypesInit == Init => Types
<1> SUFFICES ASSUME Init PROVE Types
  OBVIOUS
<1>2. 0 \in 0..MaxClock /\ 1 \in 1..MaxClock /\ 0 \in 0..MaxCrashes
  BY StoreAssumption
<1>3. Row(0, TRUE, FALSE, "old") \in Rows /\ Row(0, FALSE, FALSE, "old") \in Rows
  BY <1>2 DEF Row, Rows, Makers
<1>4. VideosType
  <2>1. videos \in [{1} -> Rows] /\ DOMAIN videos = {1} /\ next_id.videos = 2
    BY <1>3, PutSingle DEF Init
  <2> QED
    BY <2>1 DEF VideosType
<1>5. UsersType
  <2>1. users \in [{1} -> UserNames] /\ DOMAIN users = {1} /\ next_id.users = 2
    <3>1. "old" \in UserNames
      BY DEF UserNames
    <3> QED
      BY <3>1, PutSingle DEF Init
  <2> QED
    BY <2>1 DEF UsersType
<1>6. DiskType
  <2>1. files \in [{0} -> Makers \cup {"torn"}] /\ DOMAIN files = {0}
    <3>1. "old" \in Makers \cup {"torn"}
      BY DEF Makers
    <3> QED
      BY <3>1, PutSingle DEF Init
  <2>2. Dir("old", TRUE) \in Dirs
    BY DEF Dir, Dirs, Makers
  <2>3. segments \in [{1} -> Dirs] /\ DOMAIN segments = {1}
    BY <2>2, PutSingle DEF Init
  <2> QED
    BY <1>2, <2>1, <2>3 DEF Init, DiskType
<1>7. CounterType
  BY <1>2 DEF Init, CounterType
<1>8. Idle \in Local
  BY <1>2, <1>3, ManyPlaces DEF Idle, Local, UserNames, Aside
<1>9. ReqType
  BY <1>8 DEF Init, ReqType
<1> QED
  BY <1>4, <1>5, <1>6, <1>7, <1>9 DEF Types

\* The types always hold.
LEMMA TypesAlways == Spec => []Types
  BY TypesInit, TypesStep, PTL DEF Spec

\* The tables, files and requests are always what they should be: ids are below the
\* counters of their tables, and files are named after a second of the clock.
THEOREM StoreTypes == Spec => []TypeOK
<1>1. Types => TypeOK
  <2> SUFFICES ASSUME Types PROVE TypeOK
    OBVIOUS
  <2>1. \A r \in Requests : req[r].pc \in Places
    BY DEF Types, ReqType, Local
  <2> QED
    BY <2>1 DEF Types, VideosType, UsersType, DiskType, CounterType, TypeOK
<1> QED
  BY <1>1, TypesAlways, PTL

-----------------------------------------------------------------------------
(* Watch history.                                                          *)

\* A deletion takes the history of the video with it, and nothing else is deleted.
LEMMA HistoryStep == Types /\ HistoryRefers /\ [Next]_vars => HistoryRefers'
<1> SUFFICES ASSUME Types, HistoryRefers, [Next]_vars PROVE HistoryRefers'
  OBVIOUS
<1>1. ASSUME watch' = watch, DOMAIN users \subseteq DOMAIN users',
             DOMAIN videos \subseteq DOMAIN videos'
      PROVE  HistoryRefers'
  BY <1>1 DEF HistoryRefers
<1>2. ASSUME NEW r \in Requests,
             \/ http_api_handle(r) \/ Refused(r) \/ is_admin_user(r) \/ UploadRefused(r)
             \/ WriteFile(r) \/ Thumbnail(r) \/ InsertVideoFails(r) \/ VideoRowid(r)
             \/ ScriptStarts(r) \/ ScriptSucceeds(r) \/ UnlinkUpload(r) \/ SelectVideo(r)
             \/ UnlinkRow(r) \/ RemoveDir(r) \/ LookupName(r) \/ CreateUserFails(r)
             \/ UserRowid(r) \/ CreateSession(r) \/ Login(r) \/ RemoveDirFails(r)
      PROVE  HistoryRefers'
  <2>1. UNCHANGED <<videos, users, watch>>
    <3>1. CASE http_api_handle(r) \/ Refused(r) \/ is_admin_user(r) \/ UploadRefused(r)
      BY <3>1 DEF http_api_handle, Refused, is_admin_user, UploadRefused, db
    <3>2. CASE WriteFile(r) \/ Thumbnail(r) \/ InsertVideoFails(r) \/ VideoRowid(r)
               \/ ScriptStarts(r) \/ ScriptSucceeds(r) \/ UnlinkUpload(r) \/ SelectVideo(r)
      BY <3>2 DEF WriteFile, Thumbnail, InsertVideoFails, VideoRowid, ScriptStarts,
                  ScriptSucceeds, UnlinkUpload, SelectVideo, db
    <3>3. CASE UnlinkRow(r) \/ RemoveDir(r) \/ LookupName(r) \/ CreateUserFails(r)
               \/ UserRowid(r) \/ CreateSession(r) \/ Login(r) \/ RemoveDirFails(r)
      BY <3>3 DEF UnlinkRow, RemoveDir, RemoveDirFails, LookupName, CreateUserFails, UserRowid,
                  CreateSession, Login, db
    <3> QED
      BY <1>2, <3>1, <3>2, <3>3
  <2> QED
    BY <1>1, <2>1
<1>3. ASSUME NEW r \in Requests, InsertVideo(r) PROVE HistoryRefers'
  BY <1>1, <1>3, RowInserted DEF InsertVideo
<1>4. ASSUME NEW r \in Requests, CreateUser(r) PROVE HistoryRefers'
  <2>1. DOMAIN users \subseteq DOMAIN users'
    BY <1>4 DEF CreateUser, Put
  <2> QED
    BY <1>1, <1>4, <2>1 DEF CreateUser
<1>5. ASSUME NEW r \in Requests, SetSegmentPath(r) \/ UpdateVideo(r) PROVE HistoryRefers'
  <2>1. UNCHANGED <<users, watch, next_id>>
    BY <1>5 DEF SetSegmentPath, UpdateVideo
  <2>2. DOMAIN videos' = DOMAIN videos
    BY <1>5, <2>1, PathSet, Edited DEF Types, SetSegmentPath, UpdateVideo
  <2> QED
    BY <1>1, <2>1, <2>2
<1>6. ASSUME NEW r \in Requests, ScriptFails(r) \/ DeleteRow(r) PROVE HistoryRefers'
  <2>1. db_delete_video_by_id(req[r].id) /\ users' = users
    BY <1>6 DEF ScriptFails, DeleteRow
  <2>2. CASE /\ videos' = Drop(videos, {req[r].id})
             /\ watch' = {h \in watch : h[2] # req[r].id}
    BY <2>1, <2>2 DEF Drop, HistoryRefers
  <2>3. CASE UNCHANGED <<videos, watch>>
    BY <1>1, <2>1, <2>3
  <2> QED
    BY <2>1, <2>2, <2>3 DEF db_delete_video_by_id
<1>7. ASSUME NEW r \in Requests, WatchUpdate(r) PROVE HistoryRefers'
  <2>1. PICK u \in DOMAIN users, v \in DOMAIN videos : watch' = watch \cup {<<u, v>>}
    BY <1>7 DEF WatchUpdate, db_upsert_watch_history
  <2>2. UNCHANGED <<videos, users>>
    BY <1>7 DEF WatchUpdate
  <2> QED
    BY <2>1, <2>2 DEF HistoryRefers
<1>8. CASE Tick \/ Crash \/ UNCHANGED vars \/ Finished
  BY <1>1, <1>8 DEF Tick, Crash, vars, Finished, db
<1> QED
  BY <1>2, <1>3, <1>4, <1>5, <1>6, <1>7, <1>8 DEF Next

\* Watch history refers to users and videos that exist, whatever is deleted while it
\* is watched.
THEOREM HistoryKept == Spec => []HistoryRefers
<1>1. Init => HistoryRefers
  BY DEF Init, HistoryRefers
<1> QED
  BY <1>1, HistoryStep, TypesAlways, PTL DEF Spec

-----------------------------------------------------------------------------
(* Signups.                                                                *)

\* A signup that inserted its user works for that user; the session it gets is for
\* the id it read.
SignupOwns(r) ==
    /\ req[r].pc \in {"userid", "session"} =>
         req[r].mine \in DOMAIN users /\ users[req[r].mine] = req[r].user
    /\ req[r].pc = "session" /\ r \notin misread => req[r].id = req[r].mine
    /\ r \in DOMAIN sessions =>
         /\ req[r].pc = "done" /\ sessions[r] \in DOMAIN users
         /\ r \notin misread => users[sessions[r]] = req[r].user

UserInv ==
    /\ \A u, x \in DOMAIN users : users[u] = users[x] => u = x
    /\ DOMAIN sessions \subseteq Requests
    /\ \A r \in Requests : SignupOwns(r)

\* Users are only added; a request that keeps its signup keeps its session.
LEMMA SignupKept ==
    ASSUME NEW s \in Requests, SignupOwns(s), req'[s] = req[s],
           DOMAIN users \subseteq DOMAIN users',
           \A u \in DOMAIN users : users'[u] = users[u],
           s \in DOMAIN sessions' => s \in DOMAIN sessions /\ sessions'[s] = sessions[s],
           misread \subseteq misread'
    PROVE  SignupOwns(s)'
  BY DEF SignupOwns

\* A step that adds no user and no session, of a request that is at no signup then.
LEMMA SignupQuiet ==
    ASSUME UserInv, NEW r \in Requests, NEW from, NEW to, Moves(r, from, to),
           "done" \notin from, to \cap {"userid", "session"} = {},
           UNCHANGED <<users, sessions>>, misread \subseteq misread'
    PROVE  UserInv'
<1>1. ASSUME NEW s \in Requests \ {r} PROVE SignupOwns(s)'
  BY <1>1, SignupKept DEF Moves, UserInv
<1>2. SignupOwns(r)'
  <2>1. r \notin DOMAIN sessions
    BY DEF Moves, UserInv, SignupOwns
  <2> QED
    BY <2>1 DEF SignupOwns, Moves
<1> QED
  BY <1>1, <1>2 DEF UserInv

\* Every step keeps signups apart.
LEMMA UserStep == Types /\ UserInv /\ [Next]_vars => UserInv'
<1> SUFFICES ASSUME Types, UserInv, [Next]_vars PROVE UserInv'
  OBVIOUS
<1>1. ASSUME NEW r \in Requests,
             \/ http_api_handle(r) \/ Refused(r) \/ is_admin_user(r) \/ UploadRefused(r)
             \/ CreateUserFails(r) \/ WatchUpdate(r)
      PROVE  UserInv'
  <2>1. UNCHANGED <<users, sessions, misread>>
    BY <1>1 DEF http_api_handle, Refused, is_admin_user, UploadRefused, CreateUserFails,
                WatchUpdate, db, hist
  <2>2. Moves(r, Aside, Places \ {"userid", "session"})
    <3>1. Moves(r, Aside, Aside \cup {"done"})
      BY <1>1, AsideGoto DEF AsideEffect
    <3>2. PICK pc \in Places \ {"userid", "session"} : Goto(r, pc)
      BY <1>1 DEF http_api_handle, Refused, is_admin_user, UploadRefused, CreateUserFails,
                  WatchUpdate, Handlers, Places
    <3>3. req'[r].pc = pc
      BY <3>2, MovedGoto DEF Types, Moves
    <3> QED
      BY <3>1, <3>2, <3>3 DEF Moves
  <2> QED
    BY <2>1, <2>2, SignupQuiet DEF Aside
<1>2. ASSUME NEW r \in Requests,
             \/ WriteFile(r) \/ Thumbnail(r) \/ InsertVideo(r) \/ InsertVideoFails(r)
             \/ VideoRowid(r) \/ ScriptStarts(r) \/ ScriptSucceeds(r) \/ ScriptFails(r)
             \/ UnlinkUpload(r) \/ SetSegmentPath(r) \/ SelectVideo(r) \/ DeleteRow(r)
             \/ UnlinkRow(r) \/ RemoveDir(r) \/ RemoveDirFails(r) \/ UpdateVideo(r)
      PROVE  UserInv'
  <2>1. UNCHANGED <<users, sessions>> /\ misread \subseteq misread'
    <3>1. CASE WriteFile(r) \/ Thumbnail(r) \/ InsertVideo(r) \/ InsertVideoFails(r)
               \/ VideoRowid(r) \/ ScriptStarts(r) \/ ScriptSucceeds(r)
      BY <3>1 DEF WriteFile, Thumbnail, InsertVideo, InsertVideoFails, VideoRowid,
                  ScriptStarts, ScriptSucceeds, db, hist
    <3>2. CASE ScriptFails(r) \/ UnlinkUpload(r) \/ SetSegmentPath(r) \/ SelectVideo(r)
               \/ DeleteRow(r) \/ UnlinkRow(r) \/ RemoveDir(r) \/ RemoveDirFails(r)
               \/ UpdateVideo(r)
      BY <3>2 DEF ScriptFails, UnlinkUpload, SetSegmentPath, SelectVideo, DeleteRow,
                  UnlinkRow, RemoveDir, RemoveDirFails, UpdateVideo, db, hist
    <3> QED
      BY <1>2, <3>1, <3>2
  <2>2. Moves(r, Places \ {"done"}, Places \ {"userid", "session"})
    BY <1>2, MovedOn, MovedAssign DEF Moves, Places
  <2> QED
    BY <2>1, <2>2, SignupQuiet
<1>3. ASSUME NEW r \in Requests, LookupName(r) PROVE UserInv'
  <2>1. Moves(r, Aside, Aside \cup {"done"})
    BY <1>3, AsideUsers DEF AsideEffect
  <2>2. PICK name \in Names, pc \in {"done", "newuser"} :
          req' = [req EXCEPT ![r].user = name, ![r].pc = pc]
    BY <1>3 DEF LookupName
  <2>3. req'[r].pc = pc
    BY <2>2 DEF Types, ReqType, Local
  <2>4. Moves(r, Aside, {"done", "newuser"})
    BY <2>1, <2>3 DEF Moves
  <2>5. UNCHANGED <<users, sessions, misread>>
    BY <1>3 DEF LookupName, db, hist
  <2> QED
    BY <2>4, <2>5, SignupQuiet DEF Aside
<1>4. ASSUME NEW r \in Requests, CreateUser(r) PROVE UserInv'
  <2> DEFINE id == next_id.users
  <2>1. /\ req' = [req EXCEPT ![r].pc = "userid", ![r].mine = id]
        /\ req[r].pc = "newuser" /\ ~Taken(req[r].user)
        /\ users' = Put(users, id, req[r].user) /\ UNCHANGED <<sessions, misread>>
        /\ id \in Nat /\ "userid" \in Places
    BY <1>4, ManyPlaces DEF CreateUser, At, Types, CounterType, hist, Aside
  <2>2. id \notin DOMAIN users
    BY DEF Types, UsersType, CounterType
  <2> HIDE DEF id
  <2>3. /\ DOMAIN users' = DOMAIN users \cup {id} /\ users'[id] = req[r].user
        /\ \A u \in DOMAIN users : users'[u] = users[u]
    BY <2>1, <2>2 DEF Put
  <2>4. \A u \in DOMAIN users : users[u] # req[r].user
    BY <2>1 DEF Taken
  <2>5. \A u, x \in DOMAIN users' : users'[u] = users'[x] => u = x
    BY <2>3, <2>4 DEF UserInv
  <2>6. /\ Moves(r, {"newuser"}, {"userid"}) /\ req'[r].mine = id
        /\ req'[r].user = req[r].user
    BY <2>1, MovedMine DEF Types
  <2>7. SignupOwns(r)'
    <3>1. r \notin DOMAIN sessions
      BY <2>1 DEF UserInv, SignupOwns
    <3> QED
      BY <2>1, <2>3, <2>6, <3>1 DEF SignupOwns, Moves
  <2>8. ASSUME NEW s \in Requests \ {r} PROVE SignupOwns(s)'
    BY <2>1, <2>3, <2>6, <2>8, SignupKept DEF Moves, UserInv
  <2> QED
    BY <2>1, <2>5, <2>7, <2>8 DEF UserInv
<1>5. ASSUME NEW r \in Requests, UserRowid(r) PROVE UserInv'
  <2>1. /\ req' = [req EXCEPT ![r].pc = "session", ![r].id = last_rowid]
        /\ req[r].pc = "userid" /\ UNCHANGED <<users, sessions>>
        /\ misread' = IF last_rowid = req[r].mine THEN misread ELSE misread \cup {r}
        /\ last_rowid \in Nat /\ "session" \in Places
    BY <1>5, ManyPlaces DEF UserRowid, At, db, Types, CounterType, Aside
  <2>2. /\ Moves(r, {"userid"}, {"session"}) /\ req'[r].id = last_rowid
        /\ req'[r].mine = req[r].mine /\ req'[r].user = req[r].user
    BY <2>1, MovedId DEF Types, KeepsMine
  <2>3. SignupOwns(r)'
    <3>1. SignupOwns(r)
      BY DEF UserInv
    <3> QED
      BY <2>1, <2>2, <3>1 DEF SignupOwns, Moves
  <2>4. ASSUME NEW s \in Requests \ {r} PROVE SignupOwns(s)'
    BY <2>1, <2>2, <2>4, SignupKept DEF Moves, UserInv
  <2> QED
    BY <2>1, <2>3, <2>4 DEF UserInv
<1>6. ASSUME NEW r \in Requests, CreateSession(r) PROVE UserInv'
  <2>1. /\ Goto(r, "done") /\ req[r].pc = "session" /\ "done" \in Places
        /\ UNCHANGED <<users, misread>>
    BY <1>6, ManyPlaces DEF CreateSession, At, hist
  <2>2. Moves(r, {"session"}, {"done"}) /\ Keeps(r) /\ req'[r].user = req[r].user
    BY <2>1, MovedGoto DEF Types
  <2>3. CASE req[r].id \in DOMAIN users /\ sessions' = Put(sessions, r, req[r].id)
    <3>1. /\ DOMAIN sessions' = DOMAIN sessions \cup {r} /\ sessions'[r] = req[r].id
          /\ \A s \in DOMAIN sessions : s # r => sessions'[s] = sessions[s]
      BY <2>3 DEF Put
    <3>2. SignupOwns(r)'
      <4>1. SignupOwns(r)
        BY DEF UserInv
      <4> QED
        BY <2>1, <2>2, <2>3, <3>1, <4>1 DEF SignupOwns, Moves
    <3>3. ASSUME NEW s \in Requests \ {r} PROVE SignupOwns(s)'
      BY <2>1, <2>2, <3>1, <3>3, SignupKept DEF Moves, UserInv
    <3> QED
      BY <2>1, <3>1, <3>2, <3>3 DEF UserInv
  <2>4. CASE sessions' = sessions
    BY <2>1, <2>2, <2>4, SignupQuiet
  <2> QED
    BY <1>6, <2>3, <2>4 DEF CreateSession
<1>7. ASSUME NEW r \in Requests, Login(r) PROVE UserInv'
  <2>1. PICK u \in DOMAIN users :
          /\ req' = [req EXCEPT ![r].pc = "done", ![r].user = users[u]]
          /\ req[r].pc = "login" /\ sessions' = Put(sessions, r, u)
          /\ UNCHANGED <<users, misread>>
    BY <1>7 DEF Login, At, hist
  <2>2. /\ Moves(r, {"login"}, {"done"}) /\ req'[r].user = users[u]
    <3>1. users[u] \in UserNames /\ "done" \in Places
      BY ManyPlaces DEF Types, UsersType
    <3> QED
      BY <2>1, <3>1, MovedUser DEF Types
  <2>3. /\ DOMAIN sessions' = DOMAIN sessions \cup {r} /\ sessions'[r] = u
        /\ \A s \in DOMAIN sessions : s # r => sessions'[s] = sessions[s]
    BY <2>1 DEF Put
  <2>4. SignupOwns(r)'
    BY <2>1, <2>2, <2>3 DEF SignupOwns, Moves
  <2>5. ASSUME NEW s \in Requests \ {r} PROVE SignupOwns(s)'
    BY <2>1, <2>2, <2>3, <2>5, SignupKept DEF Moves, UserInv
  <2> QED
    BY <2>1, <2>3, <2>4, <2>5 DEF UserInv
<1>8. CASE Crash
  <2>1. UNCHANGED <<users, sessions, misread>>
    BY <1>8 DEF Crash, db
  <2>2. ASSUME NEW r \in Requests PROVE SignupOwns(r)'
    <3>1. SignupOwns(r)
      BY DEF UserInv
    <3>2. CASE r \in Busy
      <4>1. req'[r].pc = "done" /\ r \notin DOMAIN sessions
        BY <1>8, <3>1, <3>2, MovedCrash DEF SignupOwns, Busy
      <4> QED
        BY <2>1, <4>1 DEF SignupOwns
    <3>3. CASE r \notin Busy
      <4>1. req'[r] = req[r]
        BY <1>8, <3>3, MovedCrash
      <4> QED
        BY <2>1, <3>1, <4>1 DEF SignupOwns
    <3> QED
      BY <3>2, <3>3
  <2> QED
    BY <2>1, <2>2 DEF UserInv
<1>9. CASE Tick \/ UNCHANGED vars \/ Finished
  <2>1. UNCHANGED <<users, sessions, misread, req>>
    BY <1>9 DEF Tick, vars, Finished, db, hist
  <2> QED
    BY <2>1 DEF UserInv, SignupOwns
<1> QED
  BY <1>1, <1>2, <1>3, <1>4, <1>5, <1>6, <1>7, <1>8, <1>9 DEF Next

\* However signups under one name interleave, one creates the user, and it gets that
\* user's session unless it took the id of another INSERT for its own.
THEOREM SignupExclusive == Spec => []SignupIsExclusive
<1>1. Init => UserInv
  <2> SUFFICES ASSUME Init PROVE UserInv
    OBVIOUS
  <2>1. DOMAIN users = {1}
    <3>1. "old" \in UserNames
      BY DEF UserNames
    <3> QED
      BY <3>1, PutSingle DEF Init
  <2>2. DOMAIN sessions = {} /\ \A r \in Requests : req[r].pc = "idle"
    BY DEF Init, Idle
  <2> QED
    BY <2>1, <2>2 DEF UserInv, SignupOwns
<1>2. UserInv => SignupIsExclusive
  BY DEF UserInv, SignupOwns, SignupIsExclusive
<1> QED
  BY <1>1, <1>2, UserStep, TypesAlways, PTL DEF Spec

-----------------------------------------------------------------------------
(* Who made what.                                                          *)

\* Places of an upload that has inserted its row, and those with what comes after.
Uploading == {"rowid", "script", "segment", "path"}
Inserting == Uploading \cup {"unlink"}
After == Inserting \cup {"done"}

\* s is the upload that made row v with files named n.
Made(s, v, n) ==
    \/ s = "old" /\ v = 1 /\ n = 0
    \/ /\ s \in Requests /\ req[s].pc \in After
       /\ req[s].mine = v /\ req[s].name = n /\ n >= 1

\* The rows that no failed statement left behind.
Live == DOMAIN videos \ ignored

RowsMade == \A v \in DOMAIN videos : Made(videos[v].by, v, videos[v].name)

\* An upload that inserted a row works with that row, unless it misread its id. It
\* removes its files when the row is gone.
UploadOwns(r) ==
    req[r].pc \in Inserting =>
      /\ req[r].mine \in 1..(next_id.videos - 1) /\ req[r].name >= 1
      /\ req[r].mine \in DOMAIN videos => videos[req[r].mine].by = r
      /\ r \notin misread /\ req[r].pc # "rowid" => req[r].id = req[r].mine
      /\ r \notin misread /\ req[r].pc = "unlink" => req[r].mine \notin Live

\* A deletion works with a copy of the row. It removes the files when the row is
\* gone, and the id is never given again.
DeleteOwns(r) ==
    req[r].pc \in {"delete", "unlinkrow", "removedir"} =>
      /\ req[r].id \in 1..(next_id.videos - 1)
      /\ Made(req[r].row.by, req[r].id, req[r].row.name)
      /\ req[r].id \in DOMAIN videos =>
           /\ videos[req[r].id].by = req[r].row.by
           /\ videos[req[r].id].name = req[r].row.name
      /\ req[r].pc # "delete" => req[r].id \notin Live

\* Without a clash every upload has a name of its own.
NamesApart ==
    clashed = {} => \A q, r \in Requests :
      req[q].name = req[r].name => q = r \/ req[q].name = 0

HasName(r) == req[r].pc \in {"thumb", "insert"} => req[r].name >= 1

OwnInv ==
    /\ RowsMade /\ NamesApart
    /\ \A r \in Requests : UploadOwns(r) /\ DeleteOwns(r) /\ HasName(r)

\* What every step does to rows that exist, to uploads that are that far, and to
\* the history.
RowsAge ==
    /\ next_id.videos <= next_id'.videos
    /\ \A v \in 1..(next_id.videos - 1) : v \in DOMAIN videos' =>
         /\ v \in DOMAIN videos
         /\ videos'[v].by = videos[v].by /\ videos'[v].name = videos[v].name
    /\ misread \subseteq misread' /\ clashed \subseteq clashed' /\ ignored \subseteq ignored'

AfterStays ==
    \A s \in Requests : req[s].pc \in After =>
      req'[s].pc \in After /\ req'[s].mine = req[s].mine /\ req'[s].name = req[s].name

\* No new row: what a step does that inserts none.
NoNewRow ==
    /\ DOMAIN videos' \subseteq DOMAIN videos /\ next_id'.videos = next_id.videos
    /\ \A v \in DOMAIN videos' : videos'[v].by = videos[v].by
                                 /\ videos'[v].name = videos[v].name

\* Steps other than an INSERT into videos.
LEMMA NoNewRowStep ==
    ASSUME Types, NEW r \in Requests,
           \/ WriteFile(r) \/ Thumbnail(r) \/ InsertVideoFails(r) \/ VideoRowid(r)
           \/ ScriptStarts(r) \/ ScriptSucceeds(r) \/ ScriptFails(r) \/ UnlinkUpload(r)
           \/ SetSegmentPath(r) \/ SelectVideo(r) \/ DeleteRow(r) \/ UnlinkRow(r)
           \/ RemoveDir(r) \/ RemoveDirFails(r) \/ UpdateVideo(r)
    PROVE  /\ NoNewRow
           /\ misread \subseteq misread' /\ clashed \subseteq clashed'
           /\ ignored \subseteq ignored'
<1>1. CASE \/ WriteFile(r) \/ Thumbnail(r) \/ InsertVideoFails(r) \/ VideoRowid(r)
           \/ ScriptStarts(r) \/ ScriptSucceeds(r) \/ UnlinkUpload(r) \/ SelectVideo(r)
           \/ UnlinkRow(r) \/ RemoveDir(r) \/ RemoveDirFails(r)
  <2>1. /\ UNCHANGED <<videos, next_id>> /\ misread \subseteq misread'
        /\ clashed \subseteq clashed' /\ ignored \subseteq ignored'
    BY <1>1 DEF WriteFile, Thumbnail, InsertVideoFails, VideoRowid, ScriptStarts,
                ScriptSucceeds, UnlinkUpload, SelectVideo, UnlinkRow, RemoveDir,
                RemoveDirFails, db, hist
  <2> QED
    BY <2>1 DEF NoNewRow
<1>2. CASE ScriptFails(r) \/ DeleteRow(r)
  <2>1. db_delete_video_by_id(req[r].id) /\ UNCHANGED <<next_id, misread, clashed>>
    BY <1>2 DEF ScriptFails, DeleteRow
  <2> QED
    BY <2>1, Deleted DEF Types, NoNewRow
<1>3. CASE SetSegmentPath(r)
  <2>1. db_update_video_segment_path(req[r].id) /\ UNCHANGED <<next_id, misread, clashed>>
    BY <1>3 DEF SetSegmentPath
  <2> QED
    BY <2>1, PathSet DEF Types, NoNewRow
<1>4. CASE UpdateVideo(r)
  <2>1. PICK v \in DOMAIN videos : db_update_video_metadata(v) /\ UNCHANGED <<next_id, hist>>
    BY <1>4 DEF UpdateVideo
  <2> QED
    BY <2>1, Edited DEF Types, NoNewRow, hist
<1> QED
  BY <1>1, <1>2, <1>3, <1>4

\* The steps aside, all together.
AsideStep(r) ==
    \/ http_api_handle(r) \/ Refused(r) \/ is_admin_user(r) \/ UploadRefused(r)
    \/ LookupName(r) \/ CreateUser(r) \/ CreateUserFails(r) \/ UserRowid(r)
    \/ CreateSession(r) \/ Login(r) \/ WatchUpdate(r)

\* The steps of uploads and deletions.
VideoStep(r) ==
    \/ WriteFile(r) \/ Thumbnail(r) \/ InsertVideo(r) \/ InsertVideoFails(r)
    \/ VideoRowid(r) \/ ScriptStarts(r) \/ ScriptSucceeds(r) \/ ScriptFails(r)
    \/ UnlinkUpload(r) \/ SetSegmentPath(r) \/ SelectVideo(r) \/ DeleteRow(r)
    \/ UnlinkRow(r) \/ RemoveDir(r) \/ RemoveDirFails(r) \/ UpdateVideo(r)

\* What the steps aside do.
LEMMA AsideDoes ==
    ASSUME Types, NEW r \in Requests, AsideStep(r)
    PROVE  AsideEffect(r)
  BY AsideGoto, AsideUsers DEF AsideStep

\* Every step is one of these.
LEMMA NextSteps ==
    [Next]_vars => \/ \E r \in Requests : AsideStep(r) \/ VideoStep(r)
                   \/ Tick \/ Crash \/ UNCHANGED vars
  BY DEF Next, AsideStep, VideoStep, Finished

\* What a tick or a step of nobody leaves alone.
LEMMA Idling ==
    ASSUME Tick \/ UNCHANGED vars
    PROVE  UNCHANGED <<videos, next_id, req, files, thumbs, segments, crashes, misread,
                       clashed, ignored, leftNames, leftDirs>>
  BY DEF Tick, vars, db, disk, hist

\* Rows age.
LEMMA RowsAgeStep == Types /\ [Next]_vars => RowsAge
<1> SUFFICES ASSUME Types, [Next]_vars PROVE RowsAge
  OBVIOUS
<1>1. next_id.videos \in Nat
  BY DEF Types, CounterType
<1>2. ASSUME NoNewRow, misread \subseteq misread', clashed \subseteq clashed',
             ignored \subseteq ignored'
      PROVE  RowsAge
  BY <1>1, <1>2 DEF NoNewRow, RowsAge
<1>3. ASSUME NEW r \in Requests, AsideStep(r) PROVE RowsAge
  <2>1. AsideEffect(r)
    BY <1>3, AsideDoes
  <2> QED
    BY <1>2, <2>1 DEF AsideEffect, NoNewRow
<1>4. ASSUME NEW r \in Requests, InsertVideo(r) PROVE RowsAge
  <2>1. /\ next_id'.videos = next_id.videos + 1
        /\ DOMAIN videos' = DOMAIN videos \cup {next_id.videos}
        /\ \A x \in DOMAIN videos : videos'[x] = videos[x]
    BY <1>4, RowInserted
  <2>2. UNCHANGED <<misread, clashed, ignored>>
    BY <1>4 DEF InsertVideo, hist
  <2> QED
    BY <1>1, <2>1, <2>2 DEF RowsAge
<1>5. ASSUME NEW r \in Requests, VideoStep(r), ~InsertVideo(r) PROVE RowsAge
  BY <1>2, <1>5, NoNewRowStep DEF VideoStep
<1>6. CASE Tick \/ UNCHANGED vars
  BY <1>2, <1>6, Idling DEF NoNewRow
<1>7. CASE Crash
  <2>1. UNCHANGED <<videos, next_id, misread, clashed, ignored>>
    BY <1>7 DEF Crash, db
  <2> QED
    BY <1>2, <2>1 DEF NoNewRow
<1> QED
  BY <1>3, <1>4, <1>5, <1>6, <1>7, NextSteps

\* An upload that is done stays done, one that has its row keeps it.
LEMMA AfterStep == Types /\ [Next]_vars => AfterStays
<1> SUFFICES ASSUME Types, [Next]_vars PROVE AfterStays
  OBVIOUS
<1>1. ASSUME NEW r \in Requests, NEW from, NEW to, Moves(r, from, to),
             \/ from \cap After = {}
             \/ to \subseteq After /\ KeepsMine(r) /\ KeepsName(r)
      PROVE  AfterStays
  BY <1>1 DEF AfterStays, Moves, KeepsMine, KeepsName
<1>2. ASSUME NEW r \in Requests, AsideStep(r) PROVE AfterStays
  <2>1. Moves(r, Aside, Aside \cup {"done"})
    BY <1>2, AsideDoes DEF AsideEffect
  <2> QED
    BY <1>1, <2>1 DEF Aside, After, Inserting, Uploading
<1>3. ASSUME NEW r \in Requests,
             \/ WriteFile(r) \/ Thumbnail(r) \/ InsertVideo(r) \/ InsertVideoFails(r)
             \/ SelectVideo(r) \/ DeleteRow(r) \/ UnlinkRow(r) \/ RemoveDir(r)
             \/ RemoveDirFails(r) \/ UpdateVideo(r)
      PROVE  AfterStays
  <2>1. Moves(r, {"write", "thumb", "insert", "select", "delete", "unlinkrow", "removedir",
                  "update"}, Places)
    BY <1>3, MovedOn, MovedAssign DEF Moves, Places
  <2> QED
    BY <1>1, <2>1 DEF After, Inserting, Uploading
<1>4. ASSUME NEW r \in Requests,
             \/ VideoRowid(r) \/ ScriptStarts(r) \/ ScriptSucceeds(r) \/ ScriptFails(r)
             \/ UnlinkUpload(r) \/ SetSegmentPath(r)
      PROVE  AfterStays
  <2>1. /\ Moves(r, Places, {"script", "segment", "path", "unlink", "done"})
        /\ KeepsMine(r) /\ KeepsName(r)
    BY <1>4, MovedOn, MovedAssign DEF Moves, Places, Keeps
  <2> QED
    BY <1>1, <2>1 DEF After, Inserting, Uploading
<1>5. CASE Tick \/ UNCHANGED vars
  BY <1>5, Idling DEF AfterStays
<1>6. CASE Crash
  BY <1>6, MovedCrash DEF AfterStays, After, Keeps, KeepsMine, KeepsName
<1> QED
  BY <1>2, <1>3, <1>4, <1>5, <1>6, NextSteps DEF VideoStep

\* What a request owns that takes no step.
LEMMA OwnsKept ==
    ASSUME AfterStays, RowsAge, next_id.videos \in Nat, next_id'.videos \in Nat,
           NEW s \in Requests, req'[s] = req[s], UploadOwns(s), DeleteOwns(s)
    PROVE  UploadOwns(s)' /\ DeleteOwns(s)'
<1>1. UploadOwns(s)'
  <2> SUFFICES ASSUME req[s].pc \in Inserting PROVE UploadOwns(s)'
    BY DEF UploadOwns
  <2>1. req[s].mine \in 1..(next_id.videos - 1)
    BY DEF UploadOwns
  <2>2. req[s].mine \in 1..(next_id'.videos - 1)
    BY <2>1 DEF RowsAge
  <2>3. req[s].mine \in DOMAIN videos' =>
          /\ req[s].mine \in DOMAIN videos
          /\ videos'[req[s].mine].by = videos[req[s].mine].by
    BY <2>1 DEF RowsAge
  <2>4. req[s].mine \notin Live => req[s].mine \notin Live'
    BY <2>3 DEF Live, RowsAge
  <2>5. s \notin misread' => s \notin misread
    BY DEF RowsAge
  <2> QED
    BY <2>2, <2>3, <2>4, <2>5 DEF UploadOwns
<1>2. DeleteOwns(s)'
  <2> SUFFICES ASSUME req[s].pc \in {"delete", "unlinkrow", "removedir"}
               PROVE  DeleteOwns(s)'
    BY DEF DeleteOwns
  <2>1. /\ req[s].id \in 1..(next_id.videos - 1)
        /\ Made(req[s].row.by, req[s].id, req[s].row.name)
    BY DEF DeleteOwns
  <2>2. req[s].id \in 1..(next_id'.videos - 1)
    BY <2>1 DEF RowsAge
  <2>3. req[s].id \in DOMAIN videos' =>
          /\ req[s].id \in DOMAIN videos
          /\ videos'[req[s].id].by = videos[req[s].id].by
          /\ videos'[req[s].id].name = videos[req[s].id].name
    BY <2>1 DEF RowsAge
  <2>4. req[s].id \notin Live => req[s].id \notin Live'
    BY <2>3 DEF Live, RowsAge
  <2>5. Made(req[s].row.by, req[s].id, req[s].row.name)'
    BY <2>1 DEF AfterStays, Made
  <2> QED
    BY <2>2, <2>3, <2>4, <2>5 DEF DeleteOwns
<1> QED
  BY <1>1, <1>2

\* A step that leaves the mover's ownership in order leaves everyone's in order.
LEMMA OwnByRequest ==
    ASSUME Types, OwnInv, AfterStays, RowsAge, next_id'.videos \in Nat,
           NEW r \in Requests, NEW from, NEW to, Moves(r, from, to), KeepsName(r),
           DOMAIN videos' \subseteq DOMAIN videos,
           UploadOwns(r)', DeleteOwns(r)', HasName(r)'
    PROVE  OwnInv'
<1>1. next_id.videos \in Nat
  BY DEF Types, CounterType
<1>2. \A s \in Requests \ {r} : req'[s] = req[s]
  BY DEF Moves
<1>3. ASSUME NEW s \in Requests \ {r} PROVE UploadOwns(s)' /\ DeleteOwns(s)' /\ HasName(s)'
  <2>1. req'[s] = req[s] /\ UploadOwns(s) /\ DeleteOwns(s) /\ HasName(s)
    BY <1>2 DEF OwnInv
  <2>2. HasName(s)'
    BY <2>1 DEF HasName
  <2> QED
    BY <1>1, <2>1, <2>2, OwnsKept
<1>4. RowsMade'
  <2> SUFFICES ASSUME NEW v \in DOMAIN videos'
               PROVE  Made(videos[v].by, v, videos[v].name)'
    BY DEF RowsMade
  <2>1. v \in 1..(next_id.videos - 1) /\ Made(videos[v].by, v, videos[v].name)
    BY DEF Types, VideosType, OwnInv, RowsMade
  <2>2. videos'[v].by = videos[v].by /\ videos'[v].name = videos[v].name
    BY <2>1 DEF RowsAge
  <2> QED
    BY <2>1, <2>2 DEF AfterStays, Made
<1>5. NamesApart'
  <2>1. \A s \in Requests : req'[s].name = req[s].name
    BY <1>2 DEF KeepsName
  <2>2. clashed' = {} => clashed = {}
    BY DEF RowsAge
  <2> QED
    BY <2>1, <2>2 DEF OwnInv, NamesApart
<1> QED
  BY <1>3, <1>4, <1>5 DEF OwnInv

\* What an upload owns when it goes on.
LEMMA UploadGoesOn ==
    ASSUME AfterStays, RowsAge, next_id.videos \in Nat, next_id'.videos \in Nat,
           NEW s \in Requests, UploadOwns(s), req[s].pc \in Inserting,
           KeepsName(s), KeepsMine(s), KeepsId(s), req[s].pc # "rowid",
           s \notin misread' /\ req'[s].pc = "unlink" => req[s].mine \notin Live'
    PROVE  UploadOwns(s)'
<1>1. /\ req[s].mine \in 1..(next_id.videos - 1) /\ req[s].name >= 1
      /\ req[s].mine \in DOMAIN videos => videos[req[s].mine].by = s
      /\ s \notin misread => req[s].id = req[s].mine
  BY DEF UploadOwns
<1>2. req[s].mine \in 1..(next_id'.videos - 1)
  BY <1>1 DEF RowsAge
<1>3. req[s].mine \in DOMAIN videos' => videos'[req[s].mine].by = s
  BY <1>1 DEF RowsAge
<1>4. s \notin misread' => s \notin misread
  BY DEF RowsAge
<1> QED
  BY <1>1, <1>2, <1>3, <1>4 DEF UploadOwns, KeepsName, KeepsMine, KeepsId

\* What a deletion owns when it goes on.
LEMMA DeleteGoesOn ==
    ASSUME AfterStays, RowsAge, next_id.videos \in Nat, next_id'.videos \in Nat,
           NEW s \in Requests, DeleteOwns(s),
           req[s].pc \in {"delete", "unlinkrow", "removedir"},
           KeepsRow(s), KeepsId(s), req[s].id \notin Live'
    PROVE  DeleteOwns(s)'
<1>1. /\ req[s].id \in 1..(next_id.videos - 1)
      /\ Made(req[s].row.by, req[s].id, req[s].row.name)
      /\ req[s].id \in DOMAIN videos =>
           /\ videos[req[s].id].by = req[s].row.by
           /\ videos[req[s].id].name = req[s].row.name
  BY DEF DeleteOwns
<1>2. req[s].id \in 1..(next_id'.videos - 1)
  BY <1>1 DEF RowsAge
<1>3. req[s].id \in DOMAIN videos' =>
        /\ videos'[req[s].id].by = req[s].row.by
        /\ videos'[req[s].id].name = req[s].row.name
  BY <1>1 DEF RowsAge
<1>4. Made(req[s].row.by, req[s].id, req[s].row.name)'
  BY <1>1 DEF AfterStays, Made, KeepsRow, KeepsId
<1> QED
  BY <1>2, <1>3, <1>4 DEF DeleteOwns, KeepsRow, KeepsId

\* Writing the file gives the upload its name.
LEMMA OwnWrite ==
    ASSUME Types, OwnInv, AfterStays, RowsAge, NEW r \in Requests, WriteFile(r)
    PROVE  OwnInv'
<1>1. Moves(r, {"write"}, {"thumb", "done"}) /\ req'[r].name = clock
  BY MovedAssign
<1>2. UNCHANGED <<videos, next_id, ignored>> /\ clock \in Nat /\ clock >= 1
  BY StoreAssumption DEF WriteFile, db, Types, CounterType
<1>3. next_id.videos \in Nat
  BY DEF Types, CounterType
<1>4. \A s \in Requests \ {r} : req'[s] = req[s]
  BY <1>1 DEF Moves
<1>5. ASSUME NEW s \in Requests PROVE UploadOwns(s)' /\ DeleteOwns(s)' /\ HasName(s)'
  <2>1. CASE s = r
    BY <1>1, <1>2, <2>1
       DEF Moves, UploadOwns, DeleteOwns, HasName, Inserting, Uploading
  <2>2. CASE s # r
    <3>1. req'[s] = req[s] /\ UploadOwns(s) /\ DeleteOwns(s) /\ HasName(s)
      BY <1>4, <2>2 DEF OwnInv
    <3>2. HasName(s)'
      BY <3>1 DEF HasName
    <3>3. next_id'.videos \in Nat
      BY <1>2, <1>3
    <3> QED
      BY <1>3, <3>1, <3>2, <3>3, OwnsKept
  <2> QED
    BY <2>1, <2>2
<1>6. RowsMade'
  <2> SUFFICES ASSUME NEW v \in DOMAIN videos PROVE Made(videos[v].by, v, videos[v].name)'
    BY <1>2 DEF RowsMade
  <2>1. Made(videos[v].by, v, videos[v].name)
    BY DEF OwnInv, RowsMade
  <2> QED
    BY <1>2, <2>1 DEF AfterStays, Made
<1>7. NamesApart'
  <2> SUFFICES ASSUME clashed' = {} PROVE NamesApart'
    BY DEF NamesApart
  <2>1. clashed = {} /\ \A q \in Requests : req[q].name # clock
    BY DEF WriteFile
  <2> QED
    BY <1>1, <1>4, <2>1 DEF OwnInv, NamesApart
<1> QED
  BY <1>5, <1>6, <1>7 DEF OwnInv

\* The INSERT gives the upload its row.
LEMMA OwnInsert ==
    ASSUME Types, OwnInv, AfterStays, RowsAge, NEW r \in Requests, InsertVideo(r)
    PROVE  OwnInv'
<1> DEFINE id == next_id.videos
<1>1. /\ Moves(r, {"insert"}, {"rowid"}) /\ req'[r].mine = id /\ KeepsName(r)
  BY MovedAssign
<1>2. /\ id \in Nat \ {0} /\ next_id'.videos = id + 1
      /\ DOMAIN videos' = DOMAIN videos \cup {id}
      /\ videos'[id] = Row(req[r].name, FALSE, FALSE, r)
      /\ \A x \in DOMAIN videos : videos'[x] = videos[x]
  BY RowInserted
<1>3. videos'[id].by = r /\ videos'[id].name = req[r].name
  BY <1>2 DEF Row
<1>4. req[r].name >= 1 /\ clashed' = clashed
  BY <1>1 DEF OwnInv, HasName, Moves, InsertVideo, hist
<1>5. \A s \in Requests \ {r} : req'[s] = req[s]
  BY <1>1 DEF Moves
<1>6. ASSUME NEW s \in Requests PROVE UploadOwns(s)' /\ DeleteOwns(s)' /\ HasName(s)'
  <2>1. CASE s = r
    <3>1. id \in 1..(next_id'.videos - 1)
      BY <1>2
    <3>2. UploadOwns(r)'
      BY <1>1, <1>3, <1>4, <3>1 DEF UploadOwns, Moves, KeepsName
    <3>3. DeleteOwns(r)' /\ HasName(r)'
      BY <1>1 DEF DeleteOwns, HasName, Moves
    <3> QED
      BY <2>1, <3>2, <3>3
  <2>2. CASE s # r
    <3>1. req'[s] = req[s] /\ UploadOwns(s) /\ DeleteOwns(s) /\ HasName(s)
      BY <1>5, <2>2 DEF OwnInv
    <3>2. HasName(s)'
      BY <3>1 DEF HasName
    <3>3. next_id'.videos \in Nat /\ next_id.videos \in Nat
      BY <1>2
    <3> QED
      BY <3>1, <3>2, <3>3, OwnsKept
  <2> QED
    BY <2>1, <2>2
<1>7. RowsMade'
  <2> SUFFICES ASSUME NEW v \in DOMAIN videos' PROVE Made(videos[v].by, v, videos[v].name)'
    BY DEF RowsMade
  <2>1. CASE v = id
    BY <1>1, <1>3, <1>4, <2>1
       DEF Made, Moves, KeepsName, After, Inserting, Uploading
  <2>2. CASE v # id
    <3>1. Made(videos[v].by, v, videos[v].name) /\ videos'[v] = videos[v]
      BY <1>2, <2>2 DEF OwnInv, RowsMade
    <3> QED
      BY <3>1 DEF AfterStays, Made
  <2> QED
    BY <2>1, <2>2
<1>8. NamesApart'
  <2>1. \A s \in Requests : req'[s].name = req[s].name
    BY <1>1, <1>5 DEF KeepsName
  <2> QED
    BY <1>4, <2>1 DEF OwnInv, NamesApart
<1> QED
  BY <1>6, <1>7, <1>8 DEF OwnInv

\* Every step keeps ownership in order.
LEMMA OwnStep == Types /\ OwnInv /\ [Next]_vars => OwnInv'
<1> SUFFICES ASSUME Types, OwnInv, [Next]_vars PROVE OwnInv'
  OBVIOUS
<1>0. /\ AfterStays /\ RowsAge /\ next_id.videos \in Nat /\ next_id'.videos \in Nat
  BY AfterStep, RowsAgeStep, TypesStep DEF Types, CounterType
<1>1. ASSUME NEW r \in Requests, AsideStep(r) PROVE OwnInv'
  <2>1. /\ Moves(r, Aside, Aside \cup {"done"}) /\ KeepsName(r) /\ videos' = videos
    BY <1>1, AsideDoes DEF AsideEffect
  <2>2. UploadOwns(r)' /\ DeleteOwns(r)' /\ HasName(r)'
    BY <2>1 DEF Moves, UploadOwns, DeleteOwns, HasName, Aside, Inserting, Uploading
  <2> QED
    BY <1>0, <2>1, <2>2, OwnByRequest
<1>2. ASSUME NEW r \in Requests,
             \/ InsertVideoFails(r) \/ UnlinkUpload(r) \/ SetSegmentPath(r)
             \/ RemoveDir(r) \/ RemoveDirFails(r) \/ UpdateVideo(r)
      PROVE  OwnInv'
  <2>1. Moves(r, Places, {"done"}) /\ KeepsName(r)
    BY <1>2, MovedOn DEF Moves, Places, Keeps
  <2>2. DOMAIN videos' \subseteq DOMAIN videos
    BY <1>2, NoNewRowStep DEF NoNewRow
  <2>3. UploadOwns(r)' /\ DeleteOwns(r)' /\ HasName(r)'
    BY <2>1 DEF Moves, UploadOwns, DeleteOwns, HasName, Inserting, Uploading
  <2> QED
    BY <1>0, <2>1, <2>2, <2>3, OwnByRequest
<1>3. ASSUME NEW r \in Requests, WriteFile(r) \/ InsertVideo(r) PROVE OwnInv'
  BY <1>0, <1>3, OwnWrite, OwnInsert
<1>4. ASSUME NEW r \in Requests, Thumbnail(r) PROVE OwnInv'
  <2>1. Moves(r, {"thumb"}, {"insert"}) /\ KeepsName(r)
    BY <1>4, MovedOn DEF Keeps
  <2>2. DOMAIN videos' \subseteq DOMAIN videos
    BY <1>4, NoNewRowStep DEF NoNewRow
  <2>3. UploadOwns(r)' /\ DeleteOwns(r)'
    BY <2>1 DEF Moves, UploadOwns, DeleteOwns, Inserting, Uploading
  <2>4. HasName(r)'
    BY <2>1 DEF Moves, HasName, KeepsName, OwnInv
  <2> QED
    BY <1>0, <2>1, <2>2, <2>3, <2>4, OwnByRequest
<1>5. ASSUME NEW r \in Requests, VideoRowid(r) PROVE OwnInv'
  <2>1. /\ Moves(r, {"rowid"}, {"script"}) /\ req'[r].id = last_rowid
        /\ KeepsName(r) /\ KeepsMine(r)
    BY <1>5, MovedAssign
  <2>2. /\ misread' = IF last_rowid = req[r].mine THEN misread ELSE misread \cup {r}
        /\ UNCHANGED <<videos, next_id, ignored>>
    BY <1>5 DEF VideoRowid, db
  <2>3. UploadOwns(r)'
    <3>1. UploadOwns(r) /\ req[r].pc = "rowid"
      BY <2>1 DEF OwnInv, Moves
    <3>2. r \notin misread' => req'[r].id = req'[r].mine
      BY <2>1, <2>2 DEF KeepsMine
    <3> QED
      BY <2>1, <2>2, <3>1, <3>2
         DEF UploadOwns, Moves, KeepsName, KeepsMine, Inserting, Uploading
  <2>4. DeleteOwns(r)' /\ HasName(r)'
    BY <2>1 DEF Moves, DeleteOwns, HasName
  <2> QED
    BY <1>0, <2>1, <2>2, <2>3, <2>4, OwnByRequest
<1>6. ASSUME NEW r \in Requests, ScriptStarts(r) \/ ScriptSucceeds(r) \/ ScriptFails(r)
      PROVE  OwnInv'
  <2>1. Moves(r, {"script", "segment"}, {"segment", "path", "unlink"}) /\ Keeps(r)
    BY <1>6, MovedOn DEF Moves
  <2>2. DOMAIN videos' \subseteq DOMAIN videos
    BY <1>6, NoNewRowStep DEF NoNewRow
  <2>3. UploadOwns(r) /\ req[r].pc \in Inserting /\ req[r].pc # "rowid"
    BY <2>1 DEF OwnInv, Moves, Inserting, Uploading
  <2>4. r \notin misread' /\ req'[r].pc = "unlink" => req[r].mine \notin Live'
    <3> SUFFICES ASSUME r \notin misread', req'[r].pc = "unlink"
                 PROVE  req[r].mine \notin Live'
      OBVIOUS
    <3>1. ScriptFails(r)
      BY <1>6, MovedOn DEF Moves
    <3>2. db_delete_video_by_id(req[r].id) /\ next_id' = next_id
      BY <3>1 DEF ScriptFails
    <3>3. req[r].id = req[r].mine
      BY <1>0, <2>3 DEF UploadOwns, RowsAge
    <3> QED
      BY <3>2, <3>3, Deleted DEF Types, Live
  <2>5. UploadOwns(r)'
    BY <1>0, <2>1, <2>3, <2>4, UploadGoesOn DEF Keeps
  <2>6. DeleteOwns(r)' /\ HasName(r)'
    BY <2>1 DEF Moves, DeleteOwns, HasName
  <2> QED
    BY <1>0, <2>1, <2>2, <2>5, <2>6, OwnByRequest DEF Keeps
<1>7. ASSUME NEW r \in Requests, SelectVideo(r) PROVE OwnInv'
  <2>1. /\ Moves(r, {"select"}, {"delete"}) /\ req'[r].id \in DOMAIN videos
        /\ req'[r].row = videos[req'[r].id] /\ KeepsName(r) /\ KeepsMine(r)
    BY <1>7, MovedAssign
  <2>2. UNCHANGED <<videos, next_id>>
    BY <1>7 DEF SelectVideo, db
  <2>3. PICK v \in DOMAIN videos : req'[r].id = v /\ req'[r].row = videos[v]
    BY <2>1
  <2>4. v \in 1..(next_id.videos - 1) /\ Made(videos[v].by, v, videos[v].name)
    BY DEF OwnInv, RowsMade, Types, VideosType
  <2>5. Made(req[r].row.by, req[r].id, req[r].row.name)'
    BY <1>0, <2>3, <2>4 DEF AfterStays, Made
  <2>6. DeleteOwns(r)'
    BY <2>1, <2>2, <2>3, <2>4, <2>5 DEF DeleteOwns, Moves
  <2>7. UploadOwns(r)' /\ HasName(r)'
    BY <2>1 DEF Moves, UploadOwns, HasName, Inserting, Uploading
  <2> QED
    BY <1>0, <2>1, <2>2, <2>6, <2>7, OwnByRequest
<1>8. ASSUME NEW r \in Requests, DeleteRow(r) \/ UnlinkRow(r) PROVE OwnInv'
  <2>1. Moves(r, {"delete", "unlinkrow"}, {"unlinkrow", "removedir"}) /\ Keeps(r)
    BY <1>8, MovedOn DEF Moves
  <2>2. DOMAIN videos' \subseteq DOMAIN videos
    BY <1>8, NoNewRowStep DEF NoNewRow
  <2>3. DeleteOwns(r)
    BY DEF OwnInv
  <2>4. req[r].id \notin Live'
    <3>1. CASE DeleteRow(r)
      <4>1. db_delete_video_by_id(req[r].id) /\ next_id' = next_id
        BY <3>1 DEF DeleteRow
      <4> QED
        BY <4>1, Deleted DEF Types, Live
    <3>2. CASE UnlinkRow(r)
      <4>1. req[r].pc = "unlinkrow" /\ UNCHANGED <<videos, ignored>>
        BY <3>2 DEF UnlinkRow, At, db
      <4> QED
        BY <2>3, <4>1 DEF DeleteOwns, Live
    <3> QED
      BY <1>8, <3>1, <3>2
  <2>5. DeleteOwns(r)'
    BY <1>0, <2>1, <2>3, <2>4, DeleteGoesOn DEF Keeps, Moves
  <2>6. UploadOwns(r)' /\ HasName(r)'
    BY <2>1 DEF Moves, UploadOwns, HasName, Inserting, Uploading
  <2> QED
    BY <1>0, <2>1, <2>2, <2>5, <2>6, OwnByRequest DEF Keeps
<1>9. CASE Crash
  <2>1. UNCHANGED <<videos, next_id, misread, clashed, ignored>>
    BY <1>9 DEF Crash, db
  <2>2. \A s \in Requests : /\ req'[s].pc \in {"idle", "done"}
                            /\ req'[s].name = req[s].name
    BY <1>9, MovedCrash DEF Keeps, KeepsName
  <2>3. \A s \in Requests : UploadOwns(s)' /\ DeleteOwns(s)' /\ HasName(s)'
    BY <2>2 DEF UploadOwns, DeleteOwns, HasName, Inserting, Uploading
  <2>4. RowsMade'
    <3> SUFFICES ASSUME NEW v \in DOMAIN videos PROVE Made(videos[v].by, v, videos[v].name)'
      BY <2>1 DEF RowsMade
    <3>1. Made(videos[v].by, v, videos[v].name)
      BY DEF OwnInv, RowsMade
    <3> QED
      BY <1>0, <2>1, <3>1 DEF AfterStays, Made
  <2>5. NamesApart'
    BY <2>1, <2>2 DEF OwnInv, NamesApart
  <2> QED
    BY <2>3, <2>4, <2>5 DEF OwnInv
<1>10. CASE Tick \/ UNCHANGED vars
  <2>1. UNCHANGED <<videos, next_id, req, misread, clashed, ignored>>
    BY <1>10, Idling
  <2> QED
    BY <2>1 DEF OwnInv, RowsMade, NamesApart, UploadOwns, DeleteOwns, HasName, Made, Live
<1> QED
  BY <1>1, <1>2, <1>3, <1>4, <1>5, <1>6, <1>7, <1>8, <1>9, <1>10, NextSteps DEF VideoStep

\* What Init says of the one video from before.
LEMMA FirstVideo ==
    ASSUME Init
    PROVE  /\ DOMAIN videos = {1} /\ videos[1] = Row(0, TRUE, FALSE, "old")
           /\ DOMAIN files = {0} /\ files[0] = "old"
           /\ DOMAIN segments = {1} /\ segments[1] = Dir("old", TRUE)
           /\ \A r \in Requests : req[r].pc = "idle" /\ req[r].name = 0
<1>1. DOMAIN videos = {1} /\ videos[1] = Row(0, TRUE, FALSE, "old")
  BY PutSingle DEF Init
<1>2. DOMAIN files = {0} /\ files[0] = "old"
  BY PutSingle DEF Init
<1>3. DOMAIN segments = {1} /\ segments[1] = Dir("old", TRUE)
  BY PutSingle DEF Init
<1> QED
  BY <1>1, <1>2, <1>3 DEF Init, Idle

\* Ownership is in order at first.
LEMMA OwnInit == Init => OwnInv
<1> SUFFICES ASSUME Init PROVE OwnInv
  OBVIOUS
<1>1. RowsMade
  BY FirstVideo DEF RowsMade, Made, Row
<1> QED
  BY <1>1, FirstVideo
     DEF OwnInv, NamesApart, UploadOwns, DeleteOwns, HasName, Inserting, Uploading

\* Ownership is always in order.
LEMMA OwnAlways == Spec => []OwnInv
  BY OwnInit, OwnStep, TypesAlways, PTL DEF Spec

-----------------------------------------------------------------------------
(* The file of a row.                                                      *)

\* File n holds what s uploaded.
FileOf(n, s) == n \in DOMAIN files /\ files[n] = s

\* As long as names and ids are not mixed up, a row has its file, and an upload that
\* is about to insert its row has it already.
FileInv ==
    Orderly =>
      /\ \A v \in Live : FileOf(videos[v].name, videos[v].by)
      /\ \A r \in Requests : req[r].pc \in {"thumb", "insert"} => FileOf(req[r].name, r)

\* The step does no harm to file n.
FileStays(n) == n \in DOMAIN files => n \in DOMAIN files' /\ files'[n] = files[n]

\* A name belongs to one upload and one row.
LEMMA SameMaker ==
    ASSUME Types, OwnInv, clashed = {}, NEW s, NEW t, NEW v, NEW w, NEW n, Made(s, v, n), Made(t, w, n)
    PROVE  s = t /\ v = w
<1>1. CASE s = "old" /\ n = 0 /\ v = 1
  BY <1>1 DEF Made
<1>2. CASE s \in Requests /\ req[s].mine = v /\ req[s].name = n /\ n >= 1
  <2>1. t \in Requests /\ req[t].mine = w /\ req[t].name = n
    BY <1>2 DEF Made
  <2>2. n # 0
    BY <1>2
  <2> QED
    BY <1>2, <2>1, <2>2 DEF OwnInv, NamesApart
<1> QED
  BY <1>1, <1>2 DEF Made

\* Order can be lost but does not come back; a live row was live before.
LEMMA LiveBefore ==
    ASSUME Types, RowsAge, DOMAIN videos' \subseteq DOMAIN videos
    PROVE  /\ Orderly' => Orderly
           /\ \A v \in Live' : /\ v \in Live /\ videos'[v].by = videos[v].by
                               /\ videos'[v].name = videos[v].name
<1>1. Orderly' => Orderly
  BY DEF Orderly, RowsAge
<1>2. ASSUME NEW v \in Live'
      PROVE  /\ v \in Live /\ videos'[v].by = videos[v].by
             /\ videos'[v].name = videos[v].name
  <2>1. v \in DOMAIN videos' /\ v \notin ignored' /\ v \in 1..(next_id.videos - 1)
    BY DEF Live, Types, VideosType
  <2> QED
    BY <2>1 DEF RowsAge, Live
<1> QED
  BY <1>1, <1>2

\* A step that inserts no row and harms no file that is needed.
LEMMA FilesKept ==
    ASSUME Types, RowsAge, FileInv, DOMAIN videos' \subseteq DOMAIN videos,
           Orderly' =>
             /\ \A v \in Live' : FileStays(videos[v].name)
             /\ \A s \in Requests : req'[s].pc \in {"thumb", "insert"} =>
                  /\ req[s].pc \in {"thumb", "insert"} /\ KeepsName(s)
                  /\ FileStays(req[s].name)
    PROVE  FileInv'
<1> SUFFICES ASSUME Orderly'
             PROVE  /\ \A v \in Live' : FileOf(videos[v].name, videos[v].by)'
                    /\ \A s \in Requests : req'[s].pc \in {"thumb", "insert"} =>
                         FileOf(req[s].name, s)'
  BY DEF FileInv
<1>1. Orderly
  BY LiveBefore
<1>2. ASSUME NEW v \in Live' PROVE FileOf(videos[v].name, videos[v].by)'
  <2>1. /\ v \in Live /\ videos'[v].by = videos[v].by /\ videos'[v].name = videos[v].name
    BY <1>2, LiveBefore
  <2>2. FileStays(videos[v].name) /\ FileOf(videos[v].name, videos[v].by)
    BY <1>1, <2>1 DEF FileInv
  <2> QED
    BY <2>1, <2>2 DEF FileStays, FileOf
<1>3. ASSUME NEW s \in Requests, req'[s].pc \in {"thumb", "insert"}
      PROVE  FileOf(req[s].name, s)'
  BY <1>1, <1>3 DEF FileInv, FileStays, FileOf, KeepsName
<1> QED
  BY <1>2, <1>3

\* The files of a name are removed, or unlink fails: no live row and no upload needs
\* them.
LEMMA FilesDropped ==
    ASSUME Types, OwnInv, RowsAge, FileInv, NEW r \in Requests, NEW n,
           NEW from, NEW to, Moves(r, from, to), to \cap {"thumb", "insert"} = {},
           files' = Drop(files, {n}) \/ files' = files, DOMAIN videos' \subseteq DOMAIN videos,
           Orderly => /\ \A v \in Live : videos[v].name # n
                      /\ \A s \in Requests \ {r} :
                           req[s].pc \in {"thumb", "insert"} => req[s].name # n
    PROVE  FileInv'
<1>1. \A k : k # n => FileStays(k)
  BY DEF FileStays, Drop
<1>2. ASSUME Orderly', NEW v \in Live' PROVE FileStays(videos[v].name)
  <2>1. v \in Live /\ Orderly
    BY <1>2, LiveBefore
  <2> QED
    BY <1>1, <2>1
<1>3. ASSUME Orderly', NEW s \in Requests, req'[s].pc \in {"thumb", "insert"}
      PROVE  /\ req[s].pc \in {"thumb", "insert"} /\ KeepsName(s)
             /\ FileStays(req[s].name)
  <2>1. s # r /\ Orderly
    BY <1>3, LiveBefore DEF Moves
  <2>2. req'[s] = req[s]
    BY <2>1 DEF Moves
  <2> QED
    BY <1>1, <1>3, <2>1, <2>2 DEF KeepsName
<1> QED
  BY <1>2, <1>3, FilesKept

\* Whoever removes files has removed the row before.
LEMMA NobodyNeeds ==
    ASSUME Types, OwnInv, Orderly, NEW r \in Requests
    PROVE  /\ InsertVideoFails(r) \/ UnlinkUpload(r) =>
                /\ \A v \in Live : videos[v].name # req[r].name
                /\ \A s \in Requests \ {r} :
                     req[s].pc \in {"thumb", "insert"} => req[s].name # req[r].name
           /\ UnlinkRow(r) =>
                /\ \A v \in Live : videos[v].name # req[r].row.name
                /\ \A s \in Requests \ {r} :
                     req[s].pc \in {"thumb", "insert"} => req[s].name # req[r].row.name
<1>0. /\ misread = {} /\ clashed = {} /\ UploadOwns(r) /\ DeleteOwns(r) /\ HasName(r)
  BY DEF Orderly, OwnInv
<1>1. ASSUME InsertVideoFails(r) \/ UnlinkUpload(r)
      PROVE  /\ \A v \in Live : videos[v].name # req[r].name
             /\ \A s \in Requests \ {r} :
                  req[s].pc \in {"thumb", "insert"} => req[s].name # req[r].name
  <2>1. req[r].pc \in {"insert", "unlink"}
    BY <1>1 DEF InsertVideoFails, UnlinkUpload, At
  <2>2. req[r].name >= 1 /\ req[r].name # 0
    BY <1>0, <2>1 DEF UploadOwns, HasName, Inserting
  <2>3. ASSUME NEW v \in Live, videos[v].name = req[r].name PROVE FALSE
    <3>1. Made(videos[v].by, v, req[r].name)
      BY <2>3 DEF OwnInv, RowsMade, Live
    <3>2. /\ videos[v].by \in Requests /\ req[videos[v].by].pc \in After
          /\ req[videos[v].by].mine = v /\ req[videos[v].by].name = req[r].name
      BY <2>2, <3>1 DEF Made
    <3>3. videos[v].by = r
      BY <1>0, <2>2, <3>2 DEF OwnInv, NamesApart
    <3>4. req[r].pc = "unlink"
      BY <2>1, <3>2, <3>3 DEF After, Inserting, Uploading
    <3> QED
      BY <1>0, <2>3, <3>2, <3>3, <3>4 DEF UploadOwns, Inserting
  <2>4. \A s \in Requests \ {r} :
          req[s].pc \in {"thumb", "insert"} => req[s].name # req[r].name
    BY <1>0, <2>2 DEF OwnInv, NamesApart
  <2> QED
    BY <2>3, <2>4
<1>2. ASSUME UnlinkRow(r)
      PROVE  /\ \A v \in Live : videos[v].name # req[r].row.name
             /\ \A s \in Requests \ {r} :
                  req[s].pc \in {"thumb", "insert"} => req[s].name # req[r].row.name
  <2> DEFINE n == req[r].row.name
             by == req[r].row.by
             id == req[r].id
  <2>1. Made(by, id, n) /\ id \notin Live
    BY <1>0, <1>2 DEF UnlinkRow, At, DeleteOwns
  <2> HIDE DEF n, by, id
  <2>2. ASSUME NEW v \in Live, videos[v].name = n PROVE FALSE
    <3>1. Made(videos[v].by, v, n)
      BY <2>2 DEF OwnInv, RowsMade, Live
    <3> DEFINE s == videos[v].by
    <3> HIDE DEF s
    <3>2. Made(s, v, n)
      BY <3>1 DEF s
    <3>3. v = id
      BY <1>0, <2>1, <3>2, SameMaker
    <3> QED
      BY <2>1, <2>2, <3>3
  <2>3. ASSUME NEW s \in Requests \ {r}, req[s].pc \in {"thumb", "insert"}, req[s].name = n
        PROVE  FALSE
    <3>1. n >= 1 /\ n # 0
      BY <2>3 DEF OwnInv, HasName
    <3>2. by \in Requests /\ req[by].pc \in After /\ req[by].name = n
      BY <2>1, <3>1 DEF Made
    <3>3. by = s
      BY <1>0, <2>3, <3>1, <3>2 DEF OwnInv, NamesApart
    <3> QED
      BY <2>3, <3>2, <3>3 DEF After, Inserting, Uploading
  <2> QED
    BY <2>2, <2>3 DEF n
<1> QED
  BY <1>1, <1>2

\* Steps that touch no file. Only Thumbnail goes to the INSERT, from a place where
\* the upload has its file.
LEMMA FilesAlone ==
    ASSUME Types, RowsAge, FileInv, files' = files,
           DOMAIN videos' \subseteq DOMAIN videos,
           \A s \in Requests : req'[s].pc \in {"thumb", "insert"} =>
             req[s].pc \in {"thumb", "insert"} /\ KeepsName(s)
    PROVE  FileInv'
<1>1. \A k : FileStays(k)
  BY DEF FileStays
<1> QED
  BY <1>1, FilesKept

\* Every step keeps the files that rows and uploads need.
LEMMA FileStep == Types /\ OwnInv /\ FileInv /\ [Next]_vars => FileInv'
<1> SUFFICES ASSUME Types, OwnInv, FileInv, [Next]_vars PROVE FileInv'
  OBVIOUS
<1>0. RowsAge
  BY RowsAgeStep
<1>1. ASSUME NEW r \in Requests, AsideStep(r) PROVE FileInv'
  <2>1. Moves(r, Aside, Aside \cup {"done"}) /\ UNCHANGED <<videos, files>>
    BY <1>1, AsideDoes DEF AsideEffect
  <2>2. \A s \in Requests : req'[s].pc \in {"thumb", "insert"} =>
          req[s].pc \in {"thumb", "insert"} /\ KeepsName(s)
    BY <2>1 DEF Moves, Aside, KeepsName
  <2> QED
    BY <1>0, <2>1, <2>2, FilesAlone
<1>2. ASSUME NEW r \in Requests,
             \/ Thumbnail(r) \/ VideoRowid(r) \/ ScriptStarts(r) \/ ScriptSucceeds(r)
             \/ ScriptFails(r) \/ SetSegmentPath(r) \/ SelectVideo(r) \/ DeleteRow(r)
             \/ RemoveDir(r) \/ RemoveDirFails(r) \/ UpdateVideo(r)
      PROVE  FileInv'
  <2>1. files' = files
    BY <1>2 DEF Thumbnail, VideoRowid, ScriptStarts, ScriptSucceeds, ScriptFails,
                SetSegmentPath, SelectVideo, DeleteRow, RemoveDir, RemoveDirFails,
                UpdateVideo, disk
  <2>2. DOMAIN videos' \subseteq DOMAIN videos
    BY <1>2, NoNewRowStep DEF NoNewRow
  <2>3. CASE Thumbnail(r)
    <3>1. Moves(r, {"thumb"}, {"insert"}) /\ KeepsName(r)
      BY <2>3, MovedOn DEF Keeps
    <3>2. \A s \in Requests : req'[s].pc \in {"thumb", "insert"} =>
            req[s].pc \in {"thumb", "insert"} /\ KeepsName(s)
      BY <3>1 DEF Moves, KeepsName
    <3> QED
      BY <1>0, <2>1, <2>2, <3>2, FilesAlone
  <2>4. CASE ~Thumbnail(r)
    <3>1. Moves(r, Places, Places \ {"thumb", "insert"})
      BY <1>2, <2>4, MovedOn, MovedAssign DEF Moves, Places
    <3>2. \A s \in Requests : req'[s].pc \in {"thumb", "insert"} =>
            req[s].pc \in {"thumb", "insert"} /\ KeepsName(s)
      BY <3>1 DEF Moves, KeepsName
    <3> QED
      BY <1>0, <2>1, <2>2, <3>2, FilesAlone
  <2> QED
    BY <2>3, <2>4
<1>3. ASSUME NEW r \in Requests, WriteFile(r) PROVE FileInv'
  <2> SUFFICES ASSUME Orderly' PROVE FileInv'
    BY DEF FileInv
  <2>1. /\ Moves(r, {"write"}, {"thumb", "done"}) /\ req'[r].name = clock
    BY <1>3, MovedAssign
  <2>2. PICK whole \in BOOLEAN :
          /\ files' = Put(files, clock, IF whole THEN r ELSE "torn")
          /\ req' = [req EXCEPT ![r].pc = IF whole THEN "thumb" ELSE "done", ![r].name = clock]
    BY <1>3 DEF WriteFile
  <2>3. clock \notin DOMAIN files /\ UNCHANGED <<videos, ignored>>
    BY <1>3 DEF WriteFile, Orderly, db
  <2>4. Orderly
    BY <1>0 DEF Orderly, RowsAge
  <2>5. \A k \in DOMAIN files : k \in DOMAIN files' /\ files'[k] = files[k]
    BY <2>2, <2>3 DEF Put
  <2>6. \A v \in Live' : FileOf(videos[v].name, videos[v].by)'
    BY <2>3, <2>4, <2>5 DEF FileInv, FileOf, Live
  <2>7. ASSUME NEW s \in Requests, req'[s].pc \in {"thumb", "insert"}
        PROVE  FileOf(req[s].name, s)'
    <3>1. CASE s = r
      <4>1. req'[r].pc = IF whole THEN "thumb" ELSE "done"
        BY <2>2 DEF Types, ReqType, Local
      <4>2. whole
        BY <2>7, <3>1, <4>1
      <4>3. clock \in DOMAIN files' /\ files'[clock] = r
        BY <2>2, <4>2 DEF Put
      <4> QED
        BY <2>1, <3>1, <4>3 DEF FileOf
    <3>2. CASE s # r
      <4>1. req'[s] = req[s]
        BY <2>1, <3>2 DEF Moves
      <4>2. FileOf(req[s].name, s)
        BY <2>4, <2>7, <4>1 DEF FileInv
      <4> QED
        BY <2>5, <4>1, <4>2 DEF FileOf
    <3> QED
      BY <3>1, <3>2
  <2> QED
    BY <2>6, <2>7 DEF FileInv
<1>4. ASSUME NEW r \in Requests, InsertVideo(r) PROVE FileInv'
  <2> DEFINE id == next_id.videos
  <2> SUFFICES ASSUME Orderly' PROVE FileInv'
    BY DEF FileInv
  <2>1. Moves(r, {"insert"}, {"rowid"})
    BY <1>4, MovedAssign
  <2>2. /\ DOMAIN videos' = DOMAIN videos \cup {id}
        /\ videos'[id] = Row(req[r].name, FALSE, FALSE, r)
        /\ \A x \in DOMAIN videos : videos'[x] = videos[x]
    BY <1>4, RowInserted
  <2>3. UNCHANGED <<files, ignored>>
    BY <1>4 DEF InsertVideo, disk, hist
  <2>4. Orderly
    BY <1>0 DEF Orderly, RowsAge
  <2>5. FileOf(req[r].name, r)
    BY <2>1, <2>4 DEF FileInv, Moves
  <2>6. ASSUME NEW v \in Live' PROVE FileOf(videos[v].name, videos[v].by)'
    <3>1. CASE v = id
      BY <2>2, <2>3, <2>5, <3>1 DEF Row, FileOf
    <3>2. CASE v # id
      <4>1. v \in Live /\ videos'[v] = videos[v]
        BY <2>2, <2>3, <3>2 DEF Live
      <4> QED
        BY <2>3, <2>4, <4>1 DEF FileInv, FileOf
    <3> QED
      BY <3>1, <3>2
  <2>7. \A s \in Requests : req'[s].pc \in {"thumb", "insert"} => FileOf(req[s].name, s)'
    BY <2>1, <2>3, <2>4 DEF FileInv, FileOf, Moves
  <2> QED
    BY <2>6, <2>7 DEF FileInv
<1>5. ASSUME NEW r \in Requests, InsertVideoFails(r) \/ UnlinkUpload(r) PROVE FileInv'
  <2> DEFINE n == req[r].name
  <2>1. /\ unlink_files(n) /\ Moves(r, Places, {"done"})
        /\ DOMAIN videos' \subseteq DOMAIN videos
    BY <1>5, MovedOn, NoNewRowStep
       DEF InsertVideoFails, UnlinkUpload, Moves, Places, NoNewRow
  <2>2. Orderly => /\ \A v \in Live : videos[v].name # n
                   /\ \A s \in Requests \ {r} :
                        req[s].pc \in {"thumb", "insert"} => req[s].name # n
    BY <1>5, NobodyNeeds
  <2> HIDE DEF n
  <2> QED
    BY <1>0, <2>1, <2>2, Unlinked, FilesDropped
<1>6. ASSUME NEW r \in Requests, UnlinkRow(r) PROVE FileInv'
  <2> DEFINE n == req[r].row.name
  <2>1. /\ unlink_files(n) /\ Moves(r, Places, {"removedir"})
        /\ DOMAIN videos' \subseteq DOMAIN videos
    BY <1>6, MovedOn, NoNewRowStep DEF UnlinkRow, Moves, Places, NoNewRow
  <2>2. Orderly => /\ \A v \in Live : videos[v].name # n
                   /\ \A s \in Requests \ {r} :
                        req[s].pc \in {"thumb", "insert"} => req[s].name # n
    BY <1>6, NobodyNeeds
  <2> HIDE DEF n
  <2> QED
    BY <1>0, <2>1, <2>2, Unlinked, FilesDropped
<1>7. CASE Crash
  <2>1. UNCHANGED <<videos, files>>
    BY <1>7 DEF Crash, db, disk
  <2>2. \A s \in Requests : req'[s].pc \notin {"thumb", "insert"}
    BY <1>7, MovedCrash
  <2> QED
    BY <1>0, <2>1, <2>2, FilesAlone
<1>8. CASE Tick \/ UNCHANGED vars
  BY <1>0, <1>8, Idling, FilesAlone DEF KeepsName
<1> QED
  BY <1>1, <1>2, <1>3, <1>4, <1>5, <1>6, <1>7, <1>8, NextSteps DEF VideoStep

\* The files are there at first.
LEMMA FileInit == Init => FileInv
  BY FirstVideo DEF FileInv, FileOf, Live, Row

\* The files are always with their rows.
LEMMA FileAlways == Spec => []FileInv
  BY FileInit, FileStep, TypesAlways, OwnAlways, PTL DEF Spec

\* The file of every row exists and holds what was uploaded, through every
\* interleaving of uploads, failures, deletions and crashes, as long as no two
\* uploads share a second and no id was misread.
THEOREM FileKept == Spec => []RowHasFile
<1>1. FileInv => RowHasFile
  BY DEF FileInv, FileOf, Live, RowHasFile
<1> QED
  BY <1>1, FileAlways, PTL

-----------------------------------------------------------------------------
(* The segments of a row.                                                  *)

\* The directory of row v is complete and was made from the row's own file.
SegOf(v) ==
    videos[v].seg => v \in DOMAIN segments /\ segments[v] = Dir(videos[v].by, TRUE)

\* The row of an upload in progress has no segment_path; what the script made so far
\* is made from the upload's file.
UploadSeg(r) ==
    req[r].pc \in Uploading /\ req[r].mine \in Live =>
      /\ ~videos[req[r].mine].seg
      /\ req[r].pc \in {"segment", "path"} =>
           /\ req[r].mine \in DOMAIN segments
           /\ segments[req[r].mine] = Dir(r, req[r].pc = "path")

SegInv ==
    Orderly => (\A v \in Live : SegOf(v)) /\ (\A r \in Requests : UploadSeg(r))

\* The step does no harm to directory v.
DirStays(v) ==
    v \in DOMAIN segments => v \in DOMAIN segments' /\ segments'[v] = segments[v]

\* The row of an upload in progress is its own, has its name, and its file is there.
LEMMA OwnRow ==
    ASSUME Types, OwnInv, NEW r \in Requests, req[r].pc \in Uploading,
           req[r].mine \in Live
    PROVE  /\ videos[req[r].mine].by = r /\ videos[req[r].mine].name = req[r].name
           /\ Orderly /\ req[r].pc # "rowid" => req[r].id = req[r].mine
           /\ Orderly /\ FileInv => FileOf(req[r].name, r)
<1> DEFINE v == req[r].mine
<1>1. v \in DOMAIN videos /\ UploadOwns(r)
  BY DEF Live, OwnInv
<1>2. videos[v].by = r /\ (Orderly /\ req[r].pc # "rowid" => req[r].id = v)
  BY <1>1 DEF UploadOwns, Inserting, Orderly
<1>3. Made(videos[v].by, v, videos[v].name)
  BY <1>1 DEF OwnInv, RowsMade
<1>4. videos[v].name = req[r].name
  BY <1>2, <1>3, StoreAssumption DEF Made
<1>5. Orderly /\ FileInv => FileOf(videos[v].name, videos[v].by)
  BY DEF FileInv
<1> QED
  BY <1>2, <1>4, <1>5

\* No two uploads in progress have the same live row.
LEMMA RowsApart ==
    ASSUME Types, OwnInv, NEW r \in Requests, NEW s \in Requests,
           req[r].pc \in Uploading, req[s].pc \in Uploading,
           req[s].mine = req[r].mine, req[r].mine \in Live
    PROVE  s = r
<1>1. videos[req[r].mine].by = r /\ videos[req[s].mine].by = s
  BY OwnRow
<1> QED
  BY <1>1

\* A step that inserts no row, sets no segment_path and harms no directory in use.
LEMMA SegKept ==
    ASSUME Types, RowsAge, SegInv, DOMAIN videos' \subseteq DOMAIN videos,
           Orderly' => \A v \in Live' : DirStays(v) /\ videos'[v].seg = videos[v].seg,
           \A s \in Requests : req'[s].pc \in Uploading =>
             /\ req[s].pc \in Uploading /\ KeepsMine(s)
             /\ req'[s].pc \in {"segment", "path"} => req'[s].pc = req[s].pc
    PROVE  SegInv'
<1> SUFFICES ASSUME Orderly'
             PROVE  (\A v \in Live' : SegOf(v)') /\ (\A s \in Requests : UploadSeg(s)')
  BY DEF SegInv
<1>1. Orderly
  BY LiveBefore
<1>2. ASSUME NEW v \in Live' PROVE SegOf(v)'
  <2>1. v \in Live /\ videos'[v].by = videos[v].by /\ DirStays(v)
        /\ videos'[v].seg = videos[v].seg
    BY <1>2, LiveBefore
  <2>2. SegOf(v)
    BY <1>1, <2>1 DEF SegInv
  <2> QED
    BY <2>1, <2>2 DEF SegOf, DirStays
<1>3. ASSUME NEW s \in Requests PROVE UploadSeg(s)'
  <2> SUFFICES ASSUME req'[s].pc \in Uploading, req'[s].mine \in Live' PROVE UploadSeg(s)'
    BY DEF UploadSeg
  <2> DEFINE v == req[s].mine
  <2>1. /\ req[s].pc \in Uploading /\ req'[s].mine = v
        /\ req'[s].pc \in {"segment", "path"} => req'[s].pc = req[s].pc
    BY DEF KeepsMine
  <2>2. v \in Live /\ DirStays(v) /\ videos'[v].seg = videos[v].seg
    BY <2>1, LiveBefore
  <2>3. UploadSeg(s)
    BY <1>1 DEF SegInv
  <2> QED
    BY <2>1, <2>2, <2>3 DEF UploadSeg, DirStays
<1> QED
  BY <1>2, <1>3

\* The row is inserted without a segment_path.
LEMMA SegInsert ==
    ASSUME Types, OwnInv, RowsAge, SegInv, NEW r \in Requests, InsertVideo(r)
    PROVE  SegInv'
<1> DEFINE id == next_id.videos
<1> SUFFICES ASSUME Orderly' PROVE SegInv'
  BY DEF SegInv
<1>0. Orderly
  BY DEF Orderly, RowsAge
<1>1. Moves(r, {"insert"}, {"rowid"}) /\ req'[r].mine = id
  BY MovedAssign
<1>2. /\ DOMAIN videos' = DOMAIN videos \cup {id} /\ id \in Nat
      /\ videos'[id] = Row(req[r].name, FALSE, FALSE, r)
      /\ \A x \in DOMAIN videos : videos'[x] = videos[x]
  BY RowInserted
<1>3. UNCHANGED <<segments, ignored>>
  BY DEF InsertVideo, disk, hist
<1>4. ~videos'[id].seg
  BY <1>2 DEF Row
<1>5. ASSUME NEW v \in Live' PROVE SegOf(v)'
  <2>1. CASE v = id
    BY <1>4, <2>1 DEF SegOf
  <2>2. CASE v # id
    <3>1. v \in Live /\ videos'[v] = videos[v]
      BY <1>2, <1>3, <2>2 DEF Live
    <3> QED
      BY <1>0, <1>3, <3>1 DEF SegInv, SegOf
  <2> QED
    BY <2>1, <2>2
<1>6. ASSUME NEW s \in Requests PROVE UploadSeg(s)'
  <2>1. CASE s = r
    BY <1>1, <1>4, <2>1 DEF UploadSeg, Moves
  <2>2. CASE s # r
    <3>1. req'[s] = req[s] /\ UploadSeg(s) /\ UploadOwns(s)
      BY <1>0, <1>1, <2>2 DEF Moves, SegInv, OwnInv
    <3> SUFFICES ASSUME req[s].pc \in Uploading, req[s].mine \in Live' PROVE UploadSeg(s)'
      BY <3>1 DEF UploadSeg
    <3>2. req[s].mine \in 1..(id - 1)
      BY <3>1 DEF UploadOwns, Inserting
    <3>3. req[s].mine # id
      BY <1>2, <3>2
    <3>4. req[s].mine \in Live /\ videos'[req[s].mine] = videos[req[s].mine]
      BY <1>2, <1>3, <3>3 DEF Live
    <3> QED
      BY <1>3, <3>1, <3>4 DEF UploadSeg
  <2> QED
    BY <2>1, <2>2
<1> QED
  BY <1>5, <1>6 DEF SegInv

\* The script writes to the directory of the upload's own row.
LEMMA SegScript ==
    ASSUME Types, OwnInv, FileInv, RowsAge, SegInv, NEW r \in Requests,
           ScriptStarts(r) \/ ScriptSucceeds(r)
    PROVE  SegInv'
<1> SUFFICES ASSUME Orderly' PROVE SegInv'
  BY DEF SegInv
<1>0. Orderly /\ UploadOwns(r) /\ UploadSeg(r)
  BY DEF Orderly, RowsAge, OwnInv, SegInv
<1>1. /\ Moves(r, {"script", "segment"}, {"segment", "path"}) /\ Keeps(r)
      /\ UNCHANGED <<videos, files, ignored>>
  BY MovedOn DEF ScriptStarts, ScriptSucceeds, Moves, db, hist
<1> DEFINE id == req[r].id
           name == req[r].name
<1>2. id = req[r].mine /\ req[r].pc \in Uploading
  BY <1>0, <1>1 DEF UploadOwns, Inserting, Uploading, Orderly, Moves
<1>3. id \in Live => name \in DOMAIN files /\ files[name] = r /\ videos[id].by = r
  BY <1>0, <1>2, OwnRow DEF FileOf
<1>4. /\ id \in DOMAIN segments'
      /\ \A v \in DOMAIN segments : v # id => v \in DOMAIN segments' /\ segments'[v] = segments[v]
      /\ id \in Live => segments'[id] = Dir(r, req'[r].pc = "path")
  <2>1. CASE ScriptStarts(r)
    <3>1. /\ segments' = Put(segments, id, Dir(IF name \in DOMAIN files THEN files[name] ELSE "torn", FALSE))
          /\ req'[r].pc = "segment"
      BY <2>1, MovedOn DEF ScriptStarts, Moves
    <3> HIDE DEF id, name
    <3> QED
      BY <1>3, <3>1 DEF Put
  <2>2. CASE ScriptSucceeds(r)
    <3>1. /\ segments' = [segments EXCEPT ![id] =
                            Dir(IF segments[id].of = files[name] THEN segments[id].of ELSE "torn", TRUE)]
          /\ id \in DOMAIN segments /\ req'[r].pc = "path" /\ req[r].pc = "segment"
      BY <2>2, MovedOn DEF ScriptSucceeds, Moves
    <3>2. id \in Live => segments[id] = Dir(r, FALSE)
      BY <1>0, <1>2, <3>1 DEF UploadSeg
    <3>3. id \in Live => segments[id].of = r
      BY <3>2 DEF Dir
    <3> HIDE DEF id, name
    <3> QED
      BY <1>3, <3>1, <3>3
  <2> QED
    BY <2>1, <2>2
<1> HIDE DEF id, name
<1>5. ASSUME NEW v \in Live' PROVE SegOf(v)'
  <2>1. v \in Live /\ SegOf(v)
    BY <1>0, <1>1, <1>5 DEF Live, SegInv
  <2>2. CASE v = id
    <3>1. ~videos[v].seg
      BY <1>0, <1>2, <2>1, <2>2 DEF UploadSeg
    <3> QED
      BY <1>1, <3>1 DEF SegOf
  <2>3. CASE v # id
    BY <1>1, <1>4, <2>1, <2>3 DEF SegOf
  <2> QED
    BY <2>2, <2>3
<1>6. ASSUME NEW s \in Requests PROVE UploadSeg(s)'
  <2>1. CASE s = r
    <3> SUFFICES ASSUME req'[r].mine \in Live' PROVE UploadSeg(r)'
      BY <2>1 DEF UploadSeg
    <3>1. req'[r].mine = id /\ id \in Live
      BY <1>1, <1>2 DEF Keeps, KeepsMine, Live
    <3>2. ~videos[id].seg
      BY <1>0, <1>2, <3>1 DEF UploadSeg
    <3> QED
      BY <1>1, <1>4, <2>1, <3>1, <3>2 DEF UploadSeg
  <2>2. CASE s # r
    <3>1. req'[s] = req[s] /\ UploadSeg(s)
      BY <1>0, <1>1, <2>2 DEF Moves, SegInv
    <3> SUFFICES ASSUME req[s].pc \in Uploading, req[s].mine \in Live PROVE UploadSeg(s)'
      BY <1>1, <3>1 DEF UploadSeg, Live
    <3>2. req[s].mine # id
      BY <1>2, <2>2, RowsApart
    <3> QED
      BY <1>1, <1>4, <3>1, <3>2 DEF UploadSeg
  <2> QED
    BY <2>1, <2>2
<1> QED
  BY <1>5, <1>6 DEF SegInv

\* segment_path is set when the directory is complete.
LEMMA SegSet ==
    ASSUME Types, OwnInv, RowsAge, SegInv, NEW r \in Requests, SetSegmentPath(r)
    PROVE  SegInv'
<1> SUFFICES ASSUME Orderly' PROVE SegInv'
  BY DEF SegInv
<1> DEFINE id == req[r].id
<1>0. Orderly /\ UploadOwns(r) /\ UploadSeg(r)
  BY DEF Orderly, RowsAge, OwnInv, SegInv
<1>1. Moves(r, {"path"}, {"done"})
  BY MovedOn
<1>2. id = req[r].mine /\ req[r].pc \in Uploading /\ req[r].pc = "path"
  BY <1>0, <1>1 DEF UploadOwns, Inserting, Uploading, Orderly, Moves
<1>3. db_update_video_segment_path(id) /\ UNCHANGED <<next_id, segments>>
  BY DEF SetSegmentPath, disk
<1>4. /\ DOMAIN videos' = DOMAIN videos /\ ignored \subseteq ignored'
      /\ \A x \in DOMAIN videos : /\ videos'[x].by = videos[x].by
                                  /\ x # id => videos'[x] = videos[x]
  <2>1. VideosType /\ next_id'.videos = next_id.videos
    BY <1>3 DEF Types
  <2>2. db_update_video_segment_path(req[r].id)
    BY DEF SetSegmentPath
  <2>3. DOMAIN videos' = DOMAIN videos /\ ignored \subseteq ignored'
    BY <2>1, <2>2, PathSet
  <2>4. \A x \in DOMAIN videos : videos'[x].by = videos[x].by
    BY <2>1, <2>2, PathSet
  <2>5. \A x \in DOMAIN videos : x # req[r].id => videos'[x] = videos[x]
    BY <2>2 DEF db_update_video_segment_path
  <2> QED
    BY <2>3, <2>4, <2>5
<1> HIDE DEF id
<1>5. ASSUME NEW v \in Live' PROVE SegOf(v)'
  <2>1. v \in Live /\ SegOf(v) /\ videos'[v].by = videos[v].by
    BY <1>0, <1>4, <1>5 DEF Live, SegInv
  <2>2. CASE v = id
    <3>1. v \in DOMAIN segments /\ segments[v] = Dir(r, TRUE)
      BY <1>0, <1>2, <2>1, <2>2 DEF UploadSeg
    <3>2. videos[v].by = r
      BY <1>2, <2>1, <2>2, OwnRow
    <3> QED
      BY <1>3, <2>1, <3>1, <3>2 DEF SegOf
  <2>3. CASE v # id
    BY <1>3, <1>4, <2>1, <2>3 DEF SegOf, Live
  <2> QED
    BY <2>2, <2>3
<1>6. ASSUME NEW s \in Requests PROVE UploadSeg(s)'
  <2>1. CASE s = r
    BY <1>1, <2>1 DEF UploadSeg, Moves, Uploading
  <2>2. CASE s # r
    <3>1. req'[s] = req[s] /\ UploadSeg(s)
      BY <1>0, <1>1, <2>2 DEF Moves, SegInv
    <3> SUFFICES ASSUME req[s].pc \in Uploading, req[s].mine \in Live' PROVE UploadSeg(s)'
      BY <3>1 DEF UploadSeg
    <3>2. req[s].mine \in Live
      BY <1>4 DEF Live
    <3>3. req[s].mine # id
      BY <1>2, <2>2, <3>2, RowsApart
    <3>4. videos'[req[s].mine] = videos[req[s].mine]
      BY <1>4, <3>2, <3>3 DEF Live
    <3> QED
      BY <1>3, <3>1, <3>2, <3>4 DEF UploadSeg
  <2> QED
    BY <2>1, <2>2
<1> QED
  BY <1>5, <1>6 DEF SegInv

\* Every step keeps rows and directories together.
LEMMA SegStep == Types /\ OwnInv /\ FileInv /\ SegInv /\ [Next]_vars => SegInv'
<1> SUFFICES ASSUME Types, OwnInv, FileInv, SegInv, [Next]_vars PROVE SegInv'
  OBVIOUS
<1>0. RowsAge
  BY RowsAgeStep
<1>1. ASSUME NEW r \in Requests, NEW from, NEW to, Moves(r, from, to),
             \/ to \cap Uploading = {}
             \/ from = {"rowid"} /\ to = {"script"} /\ KeepsMine(r)
      PROVE  \A s \in Requests : req'[s].pc \in Uploading =>
               /\ req[s].pc \in Uploading /\ KeepsMine(s)
               /\ req'[s].pc \in {"segment", "path"} => req'[s].pc = req[s].pc
  BY <1>1 DEF Moves, KeepsMine, Uploading
<1>2. ASSUME UNCHANGED <<videos, segments>>,
             \A s \in Requests : req'[s].pc \in Uploading =>
               /\ req[s].pc \in Uploading /\ KeepsMine(s)
               /\ req'[s].pc \in {"segment", "path"} => req'[s].pc = req[s].pc
      PROVE  SegInv'
  <2>1. \A v \in Live' : DirStays(v) /\ videos'[v].seg = videos[v].seg
    BY <1>2 DEF DirStays
  <2> QED
    BY <1>0, <1>2, <2>1, SegKept
<1>3. ASSUME NEW r \in Requests, AsideStep(r) PROVE SegInv'
  <2>1. Moves(r, Aside, Aside \cup {"done"}) /\ UNCHANGED <<videos, segments>>
    BY <1>3, AsideDoes DEF AsideEffect
  <2>2. (Aside \cup {"done"}) \cap Uploading = {}
    BY DEF Aside, Uploading
  <2>3. \A s \in Requests : req'[s].pc \in Uploading =>
          /\ req[s].pc \in Uploading /\ KeepsMine(s)
          /\ req'[s].pc \in {"segment", "path"} => req'[s].pc = req[s].pc
    BY <1>1, <2>1, <2>2
  <2> QED
    BY <1>2, <2>1, <2>3
<1>4. ASSUME NEW r \in Requests,
             \/ WriteFile(r) \/ Thumbnail(r) \/ InsertVideoFails(r) \/ UnlinkUpload(r)
             \/ SelectVideo(r) \/ UnlinkRow(r)
      PROVE  SegInv'
  <2>1. UNCHANGED <<videos, segments>>
    BY <1>4 DEF WriteFile, Thumbnail, InsertVideoFails, UnlinkUpload, SelectVideo,
                UnlinkRow, db, disk
  <2>2. Moves(r, Places, Places \ Uploading)
    BY <1>4, MovedOn, MovedAssign DEF Moves, Places, Uploading
  <2>3. \A s \in Requests : req'[s].pc \in Uploading =>
          /\ req[s].pc \in Uploading /\ KeepsMine(s)
          /\ req'[s].pc \in {"segment", "path"} => req'[s].pc = req[s].pc
    BY <2>2 DEF Moves, KeepsMine
  <2> QED
    BY <1>2, <2>1, <2>3
<1>5. ASSUME NEW r \in Requests, VideoRowid(r) PROVE SegInv'
  <2>1. UNCHANGED <<videos, segments>>
    BY <1>5 DEF VideoRowid, db, disk
  <2>2. Moves(r, {"rowid"}, {"script"}) /\ KeepsMine(r)
    BY <1>5, MovedAssign
  <2>3. \A s \in Requests : req'[s].pc \in Uploading =>
          /\ req[s].pc \in Uploading /\ KeepsMine(s)
          /\ req'[s].pc \in {"segment", "path"} => req'[s].pc = req[s].pc
    BY <2>2 DEF Moves, KeepsMine, Uploading
  <2> QED
    BY <1>2, <2>1, <2>3
<1>6. ASSUME NEW r \in Requests, InsertVideo(r) PROVE SegInv'
  BY <1>0, <1>6, SegInsert
<1>7. ASSUME NEW r \in Requests, ScriptStarts(r) \/ ScriptSucceeds(r) PROVE SegInv'
  BY <1>0, <1>7, SegScript
<1>8. ASSUME NEW r \in Requests, SetSegmentPath(r) PROVE SegInv'
  BY <1>0, <1>8, SegSet
<1>9. ASSUME NEW r \in Requests, ScriptFails(r) \/ DeleteRow(r) \/ UpdateVideo(r) PROVE SegInv'
  <2>1. segments' = segments
    BY <1>9 DEF ScriptFails, DeleteRow, UpdateVideo, disk
  <2>2. Moves(r, Places, Places \ Uploading)
    BY <1>9, MovedOn DEF Moves, Places, Uploading
  <2>3. \A s \in Requests : req'[s].pc \in Uploading =>
          /\ req[s].pc \in Uploading /\ KeepsMine(s)
          /\ req'[s].pc \in {"segment", "path"} => req'[s].pc = req[s].pc
    BY <2>2 DEF Moves, KeepsMine
  <2>4. /\ DOMAIN videos' \subseteq DOMAIN videos
        /\ \A v \in DOMAIN videos' : videos'[v].seg = videos[v].seg
    <3>1. CASE ScriptFails(r) \/ DeleteRow(r)
      <4>1. db_delete_video_by_id(req[r].id) /\ next_id' = next_id
        BY <3>1 DEF ScriptFails, DeleteRow
      <4> QED
        BY <4>1, Deleted DEF Types
    <3>2. CASE UpdateVideo(r)
      <4>1. PICK v \in DOMAIN videos : db_update_video_metadata(v) /\ next_id' = next_id
        BY <3>2 DEF UpdateVideo
      <4> QED
        BY <4>1, Edited DEF Types
    <3> QED
      BY <1>9, <3>1, <3>2
  <2>5. \A v \in Live' : DirStays(v) /\ videos'[v].seg = videos[v].seg
    BY <2>1, <2>4 DEF DirStays, Live
  <2> QED
    BY <1>0, <2>3, <2>4, <2>5, SegKept
<1>10. ASSUME NEW r \in Requests, RemoveDir(r) \/ RemoveDirFails(r) PROVE SegInv'
  <2> DEFINE id == req[r].id
  <2>1. UNCHANGED <<videos, ignored>>
    BY <1>10 DEF RemoveDir, RemoveDirFails, db, hist
  <2>2. Moves(r, {"removedir"}, {"done"})
    BY <1>10, MovedOn
  <2>3. id \notin Live
    BY <2>2 DEF Moves, OwnInv, DeleteOwns
  <2>4. \A v : v # id => DirStays(v)
    <3>1. CASE RemoveDir(r)
      BY <3>1 DEF RemoveDir, DirStays, Drop
    <3>2. CASE RemoveDirFails(r)
      BY <3>2 DEF RemoveDirFails, DirStays
    <3> QED
      BY <1>10, <3>1, <3>2
  <2> HIDE DEF id
  <2>5. \A v \in Live' : DirStays(v) /\ videos'[v].seg = videos[v].seg
    BY <2>1, <2>3, <2>4 DEF Live
  <2>6. \A s \in Requests : req'[s].pc \in Uploading =>
          /\ req[s].pc \in Uploading /\ KeepsMine(s)
          /\ req'[s].pc \in {"segment", "path"} => req'[s].pc = req[s].pc
    BY <2>2 DEF Moves, KeepsMine, Uploading
  <2> QED
    BY <1>0, <2>1, <2>5, <2>6, SegKept
<1>11. CASE Crash
  <2>1. UNCHANGED <<videos, segments>>
    BY <1>11 DEF Crash, db, disk
  <2>2. \A s \in Requests : req'[s].pc \notin Uploading
    BY <1>11, MovedCrash DEF Uploading
  <2> QED
    BY <1>2, <2>1, <2>2
<1>12. CASE Tick \/ UNCHANGED vars
  BY <1>2, <1>12, Idling DEF KeepsMine
<1> QED
  BY <1>3, <1>4, <1>5, <1>6, <1>7, <1>8, <1>9, <1>10, <1>11, <1>12, NextSteps DEF VideoStep

\* The first video is segmented, and nobody uploads.
LEMMA SegInit == Init => SegInv
<1> SUFFICES ASSUME Init PROVE SegInv
  OBVIOUS
<1>1. \A v \in Live : SegOf(v)
  <2>1. /\ DOMAIN videos = {1} /\ 1 \in DOMAIN segments
        /\ segments[1] = Dir("old", TRUE)
    BY FirstVideo
  <2>2. videos[1].by = "old"
    BY FirstVideo DEF Row
  <2> QED
    BY <2>1, <2>2 DEF SegOf, Live
<1>2. \A r \in Requests : UploadSeg(r)
  BY FirstVideo DEF UploadSeg, Uploading
<1> QED
  BY <1>1, <1>2 DEF SegInv

\* The segments are always with their rows.
LEMMA SegAlways == Spec => []SegInv
  BY SegInit, SegStep, TypesAlways, OwnAlways, FileAlways, PTL DEF Spec

\* A row with a segment_path has a complete set of segments made from the file of its
\* own upload: segmenting takes long, and whatever is uploaded, deleted, failing or
\* crashing meanwhile, the path is set for that directory only.
THEOREM SegmentsOwn == Spec => []SegmentsAreOwn
<1>1. SegInv => SegmentsAreOwn
  BY DEF SegInv, SegOf, Live, SegmentsAreOwn
<1> QED
  BY <1>1, SegAlways, PTL

-----------------------------------------------------------------------------
(* Rows settle.                                                            *)

\* Somebody will still set the segment_path of row v or delete the row.
Settles(v) ==
    videos[v].seg \/ (videos[v].by \in Requests /\ req[videos[v].by].pc \in Uploading)

SettleInv == Orderly /\ crashes = 0 => \A v \in Live : Settles(v)

\* A step of r that inserts no row and takes back no segment_path, and after which
\* the row of r is settled if it was r that settled it.
LEMMA SettleKept ==
    ASSUME Types, OwnInv, RowsAge, SettleInv, crashes' = crashes,
           DOMAIN videos' \subseteq DOMAIN videos,
           \A v \in Live' : videos[v].seg => videos'[v].seg,
           NEW r \in Requests, NEW from, NEW to, Moves(r, from, to),
           Orderly /\ req[r].pc \in Uploading /\ req'[r].pc \notin Uploading =>
             (req[r].mine \in Live' => videos'[req[r].mine].seg)
    PROVE  SettleInv'
<1> SUFFICES ASSUME Orderly', crashes' = 0, NEW v \in Live' PROVE Settles(v)'
  BY DEF SettleInv
<1>1. /\ v \in Live /\ Orderly /\ videos'[v].by = videos[v].by
  BY LiveBefore
<1>2. Settles(v)
  BY <1>1 DEF SettleInv
<1>3. CASE videos[v].seg
  BY <1>3 DEF Settles
<1>4. CASE videos[v].by \in Requests /\ req[videos[v].by].pc \in Uploading
  <2>1. CASE videos[v].by # r
    BY <1>1, <1>4, <2>1 DEF Settles, Moves
  <2>2. CASE videos[v].by = r
    <3>1. req[r].mine = v
      <4>1. Made(videos[v].by, v, videos[v].name)
        BY <1>1 DEF OwnInv, RowsMade, Live
      <4> QED
        BY <2>2, <4>1, StoreAssumption DEF Made
    <3> QED
      BY <1>1, <1>4, <2>2, <3>1 DEF Settles
  <2> QED
    BY <2>1, <2>2
<1> QED
  BY <1>2, <1>3, <1>4 DEF Settles

\* Every step settles a row, or leaves somebody to do it.
LEMMA SettleStep == Types /\ OwnInv /\ SettleInv /\ [Next]_vars => SettleInv'
<1> SUFFICES ASSUME Types, OwnInv, SettleInv, [Next]_vars PROVE SettleInv'
  OBVIOUS
<1>0. RowsAge
  BY RowsAgeStep
<1>1. ASSUME NEW r \in Requests, AsideStep(r) PROVE SettleInv'
  <2>1. Moves(r, Aside, Aside \cup {"done"}) /\ UNCHANGED <<videos, crashes>>
    BY <1>1, AsideDoes DEF AsideEffect
  <2>2. req[r].pc \notin Uploading
    BY <2>1 DEF Moves, Aside, Uploading
  <2> QED
    BY <1>0, <2>1, <2>2, SettleKept
<1>2. ASSUME NEW r \in Requests,
             \/ WriteFile(r) \/ Thumbnail(r) \/ InsertVideoFails(r) \/ UnlinkUpload(r)
             \/ SelectVideo(r) \/ UnlinkRow(r) \/ RemoveDir(r) \/ RemoveDirFails(r)
             \/ VideoRowid(r) \/ ScriptStarts(r) \/ ScriptSucceeds(r)
      PROVE  SettleInv'
  <2>1. UNCHANGED <<videos, crashes>>
    BY <1>2 DEF WriteFile, Thumbnail, InsertVideoFails, UnlinkUpload, SelectVideo,
                UnlinkRow, RemoveDir, RemoveDirFails, VideoRowid, ScriptStarts,
                ScriptSucceeds, db
  <2>2. /\ Moves(r, Places, Places)
        /\ req[r].pc \notin Uploading \/ req'[r].pc \in Uploading
    BY <1>2, MovedOn, MovedAssign DEF Moves, Places, Uploading
  <2> QED
    BY <1>0, <2>1, <2>2, SettleKept
<1>3. ASSUME NEW r \in Requests, DeleteRow(r) \/ UpdateVideo(r) PROVE SettleInv'
  <2>1. crashes' = crashes
    BY <1>3 DEF DeleteRow, UpdateVideo
  <2>2. Moves(r, Places, Places) /\ req[r].pc \notin Uploading
    BY <1>3, MovedOn DEF Moves, Places, Uploading
  <2>3. /\ DOMAIN videos' \subseteq DOMAIN videos
        /\ \A v \in DOMAIN videos' : videos'[v].seg = videos[v].seg
    <3>1. CASE DeleteRow(r)
      <4>1. db_delete_video_by_id(req[r].id) /\ next_id' = next_id
        BY <3>1 DEF DeleteRow
      <4> QED
        BY <4>1, Deleted DEF Types
    <3>2. CASE UpdateVideo(r)
      <4>1. PICK v \in DOMAIN videos : db_update_video_metadata(v) /\ next_id' = next_id
        BY <3>2 DEF UpdateVideo
      <4> QED
        BY <4>1, Edited DEF Types
    <3> QED
      BY <1>3, <3>1, <3>2
  <2>4. \A v \in Live' : videos[v].seg => videos'[v].seg
    BY <2>3 DEF Live
  <2> QED
    BY <1>0, <2>1, <2>2, <2>3, <2>4, SettleKept
<1>4. ASSUME NEW r \in Requests, ScriptFails(r) PROVE SettleInv'
  <2>1. Moves(r, {"segment"}, {"unlink"}) /\ crashes' = crashes
    BY <1>4, MovedOn DEF ScriptFails
  <2>2. db_delete_video_by_id(req[r].id) /\ next_id' = next_id
    BY <1>4 DEF ScriptFails
  <2>3. /\ DOMAIN videos' \subseteq DOMAIN videos
        /\ \A v \in DOMAIN videos' : videos'[v] = videos[v]
        /\ req[r].id \notin Live'
    BY <2>2, Deleted DEF Types, Live
  <2>4. Orderly => req[r].id = req[r].mine
    BY <2>1 DEF OwnInv, UploadOwns, Moves, Inserting, Uploading, Orderly
  <2>5. \A v \in Live' : videos[v].seg => videos'[v].seg
    BY <2>3 DEF Live
  <2> QED
    BY <1>0, <2>1, <2>3, <2>4, <2>5, SettleKept
<1>5. ASSUME NEW r \in Requests, SetSegmentPath(r) PROVE SettleInv'
  <2>1. Moves(r, {"path"}, {"done"}) /\ crashes' = crashes
    BY <1>5, MovedOn DEF SetSegmentPath
  <2>2. db_update_video_segment_path(req[r].id) /\ next_id' = next_id
    BY <1>5 DEF SetSegmentPath
  <2>3. DOMAIN videos' = DOMAIN videos
    BY <2>2, PathSet DEF Types
  <2>4. \A v \in DOMAIN videos : v # req[r].id => videos'[v] = videos[v]
    BY <2>2 DEF db_update_video_segment_path
  <2>5. req[r].id \in Live' => videos'[req[r].id].seg
    BY <2>2, <2>3, PathSet DEF Types, Live
  <2>6. \A v \in Live' : videos[v].seg => videos'[v].seg
    BY <2>3, <2>4, <2>5 DEF Live
  <2>7. Orderly => req[r].id = req[r].mine
    BY <2>1 DEF OwnInv, UploadOwns, Moves, Inserting, Uploading, Orderly
  <2> QED
    BY <1>0, <2>1, <2>3, <2>5, <2>6, <2>7, SettleKept
<1>6. ASSUME NEW r \in Requests, InsertVideo(r) PROVE SettleInv'
  <2> DEFINE id == next_id.videos
  <2> SUFFICES ASSUME Orderly', crashes' = 0, NEW v \in Live' PROVE Settles(v)'
    BY DEF SettleInv
  <2>1. Moves(r, {"insert"}, {"rowid"})
    BY <1>6, MovedAssign
  <2>2. /\ DOMAIN videos' = DOMAIN videos \cup {id}
        /\ videos'[id] = Row(req[r].name, FALSE, FALSE, r)
        /\ \A x \in DOMAIN videos : videos'[x] = videos[x]
    BY <1>6, RowInserted
  <2>3. UNCHANGED <<crashes, ignored>> /\ Orderly
    BY <1>0, <1>6 DEF InsertVideo, hist, Orderly, RowsAge
  <2>4. CASE v = id
    <3>1. videos'[v].by = r
      BY <2>2, <2>4 DEF Row
    <3> QED
      BY <2>1, <3>1 DEF Settles, Moves, Uploading
  <2>5. CASE v # id
    <3>1. v \in Live /\ videos'[v] = videos[v]
      BY <2>2, <2>3, <2>5 DEF Live
    <3>2. Settles(v)
      BY <2>3, <3>1 DEF SettleInv
    <3>3. req[r].pc \notin Uploading /\ \A s \in Requests \ {r} : req'[s] = req[s]
      BY <2>1 DEF Moves, Uploading
    <3> QED
      BY <3>1, <3>2, <3>3 DEF Settles
  <2> QED
    BY <2>4, <2>5
<1>7. CASE Crash
  <2>1. crashes' # 0
    BY <1>7, StoreAssumption DEF Crash, Types, CounterType
  <2> QED
    BY <2>1 DEF SettleInv
<1>8. CASE Tick \/ UNCHANGED vars
  <2>1. UNCHANGED <<videos, req, crashes, misread, clashed, ignored>>
    BY <1>8, Idling
  <2> QED
    BY <2>1 DEF SettleInv, Settles, Live, Orderly
<1> QED
  BY <1>1, <1>2, <1>3, <1>4, <1>5, <1>6, <1>7, <1>8, NextSteps DEF VideoStep

\* Without a crash a row has its segment_path, or the upload that made it is still at
\* work: no interleaving leaves a video that is listed and will never play.
THEOREM Settled == Spec => []RowsSettle
<1>1. Init => SettleInv
  <2> SUFFICES ASSUME Init PROVE SettleInv
    OBVIOUS
  <2>1. DOMAIN videos = {1} /\ videos[1].seg
    BY FirstVideo DEF Row
  <2> QED
    BY <2>1 DEF SettleInv, Settles, Live
<1>2. Types /\ OwnInv /\ SettleInv => RowsSettle
  <2> SUFFICES ASSUME Types, OwnInv, SettleInv, Orderly, crashes = 0, NEW v \in Live,
                      ~videos[v].seg
               PROVE  \E r \in Busy : req[r].mine = v
    BY DEF RowsSettle, Live
  <2> DEFINE r == videos[v].by
  <2>1. r \in Requests /\ req[r].pc \in Uploading
    BY DEF SettleInv, Settles
  <2>2. Made(r, v, videos[v].name)
    BY DEF OwnInv, RowsMade, Live
  <2>3. req[r].mine = v
    BY <2>1, <2>2, StoreAssumption DEF Made
  <2>4. r \in Busy
    BY <2>1 DEF Busy, Uploading
  <2> QED
    BY <2>3, <2>4
<1>3. Spec => []SettleInv
  BY <1>1, SettleStep, TypesAlways, OwnAlways, PTL DEF Spec
<1> QED
  BY <1>2, <1>3, TypesAlways, OwnAlways, PTL

-----------------------------------------------------------------------------
(* What is left behind.                                                    *)

\* Request r will insert the row of the files named n, or remove the files.
NameHeld(r, n) ==
    \/ req[r].pc \in {"thumb", "insert", "unlink"} /\ req[r].name = n
    \/ req[r].pc = "unlinkrow" /\ req[r].row.name = n

\* Request r is making, or about to remove, the directory v.
DirHeld(r, v) ==
    req[r].pc \in {"segment", "path", "unlinkrow", "removedir"} /\ req[r].id = v

NameKnown(n) ==
    \/ n \in leftNames \/ \E v \in DOMAIN videos : videos[v].name = n
    \/ \E r \in Requests : NameHeld(r, n)

DirKnown(v) == v \in DOMAIN videos \cup leftDirs \/ \E r \in Requests : DirHeld(r, v)

LeftInv ==
    Orderly => /\ \A n \in DOMAIN files \cup thumbs : NameKnown(n)
               /\ \A v \in DOMAIN segments : DirKnown(v)

\* A step of r: what is new on the disk is known, rows that go are known otherwise,
\* and what r held and gives up is gone from the disk or known otherwise.
LEMMA LeftKept ==
    ASSUME RowsAge, LeftInv, NEW r \in Requests, NEW from, NEW to, Moves(r, from, to),
           leftNames \subseteq leftNames', leftDirs \subseteq leftDirs',
           Orderly =>
             /\ \A n \in DOMAIN files' \cup thumbs' :
                  n \in DOMAIN files \cup thumbs \/ NameKnown(n)'
             /\ \A v \in DOMAIN segments' : v \in DOMAIN segments \/ DirKnown(v)'
             /\ \A v \in DOMAIN videos :
                  \/ v \in DOMAIN videos' /\ videos'[v].name = videos[v].name
                  \/ DirKnown(v)' /\ \A n : n = videos[v].name => NameKnown(n)'
             /\ \A n \in DOMAIN files' \cup thumbs' : NameHeld(r, n) => NameKnown(n)'
             /\ \A v \in DOMAIN segments' : DirHeld(r, v) => DirKnown(v)'
    PROVE  LeftInv'
<1> SUFFICES ASSUME Orderly'
             PROVE  /\ \A n \in DOMAIN files' \cup thumbs' : NameKnown(n)'
                    /\ \A v \in DOMAIN segments' : DirKnown(v)'
  BY DEF LeftInv
<1>0. Orderly
  BY DEF Orderly, RowsAge
<1>1. ASSUME NEW n \in DOMAIN files' \cup thumbs', ~NameKnown(n)' PROVE FALSE
  <2>1. n \in DOMAIN files \cup thumbs
    BY <1>0, <1>1
  <2>2. NameKnown(n)
    BY <1>0, <2>1 DEF LeftInv
  <2>3. n \notin leftNames
    BY <1>1 DEF NameKnown
  <2>4. ASSUME NEW v \in DOMAIN videos, videos[v].name = n PROVE FALSE
    BY <1>0, <1>1, <2>4 DEF NameKnown
  <2>5. ASSUME NEW s \in Requests, NameHeld(s, n) PROVE FALSE
    <3>1. s # r
      BY <1>0, <1>1, <2>5
    <3>2. NameHeld(s, n)'
      BY <2>5, <3>1 DEF NameHeld, Moves
    <3> QED
      BY <1>1, <3>2 DEF NameKnown
  <2> QED
    BY <2>2, <2>3, <2>4, <2>5 DEF NameKnown
<1>2. ASSUME NEW v \in DOMAIN segments', ~DirKnown(v)' PROVE FALSE
  <2>1. DirKnown(v)
    BY <1>0, <1>2 DEF LeftInv
  <2>2. v \notin leftDirs /\ v \notin DOMAIN videos
    BY <1>0, <1>2 DEF DirKnown
  <2>3. ASSUME NEW s \in Requests, DirHeld(s, v) PROVE FALSE
    <3>1. s # r
      BY <1>0, <1>2, <2>3
    <3>2. DirHeld(s, v)'
      BY <2>3, <3>1 DEF DirHeld, Moves
    <3> QED
      BY <1>2, <3>2 DEF DirKnown
  <2> QED
    BY <2>1, <2>2, <2>3 DEF DirKnown
<1> QED
  BY <1>1, <1>2

\* The request that holds something makes it known.
LEMMA HeldKnown ==
    ASSUME NEW r \in Requests
    PROVE  /\ \A n : NameHeld(r, n)' => NameKnown(n)'
           /\ \A v : DirHeld(r, v)' => DirKnown(v)'
  BY DEF NameKnown, DirKnown

\* Steps that change neither the disk nor the names of the rows, of a request that
\* holds nothing.
LEMMA LeftAlone ==
    ASSUME RowsAge, LeftInv, NEW r \in Requests, NEW from, NEW to, Moves(r, from, to),
           from \cap {"thumb", "insert", "unlink", "unlinkrow", "segment", "path",
                      "removedir"} = {},
           UNCHANGED <<files, thumbs, segments, leftNames, leftDirs>>,
           DOMAIN videos \subseteq DOMAIN videos',
           \A v \in DOMAIN videos : videos'[v].name = videos[v].name
    PROVE  LeftInv'
<1>1. \A n : ~NameHeld(r, n) /\ ~DirHeld(r, n)
  BY DEF NameHeld, DirHeld, Moves
<1> QED
  BY <1>1, LeftKept

\* The steps of an upload before it has a row.
LEMMA LeftBefore ==
    ASSUME Types, RowsAge, LeftInv, NEW r \in Requests,
           WriteFile(r) \/ Thumbnail(r) \/ InsertVideoFails(r)
    PROVE  LeftInv'
<1>0. /\ UNCHANGED <<videos, segments, leftDirs>> /\ leftNames \subseteq leftNames'
  BY Unlinked DEF WriteFile, Thumbnail, InsertVideoFails, db, hist
<1>1. CASE WriteFile(r)
  <2>1. PICK whole \in BOOLEAN :
          /\ files' = Put(files, clock, IF whole THEN r ELSE "torn")
          /\ req' = [req EXCEPT ![r].pc = IF whole THEN "thumb" ELSE "done", ![r].name = clock]
          /\ leftNames' = IF whole THEN leftNames ELSE leftNames \cup {clock}
          /\ thumbs' = thumbs
    BY <1>1 DEF WriteFile
  <2>2. Moves(r, {"write"}, {"thumb", "done"}) /\ req'[r].name = clock
    BY <1>1, MovedAssign
  <2>3. req'[r].pc = IF whole THEN "thumb" ELSE "done"
    BY <2>1 DEF Types, ReqType, Local
  <2>4. DOMAIN files' = DOMAIN files \cup {clock}
    BY <2>1 DEF Put
  <2>5. \A n \in DOMAIN files' \cup thumbs' : n \in DOMAIN files \cup thumbs \/ NameKnown(n)'
    <3>1. ASSUME NEW n, n = clock PROVE NameKnown(n)'
      <4>1. NameHeld(r, n)' \/ n \in leftNames'
        BY <2>1, <2>2, <2>3, <3>1 DEF NameHeld
      <4> QED
        BY <4>1, HeldKnown DEF NameKnown
    <3> QED
      BY <2>1, <2>4, <3>1
  <2>6. \A n : ~NameHeld(r, n) /\ ~DirHeld(r, n)
    BY <2>2 DEF NameHeld, DirHeld, Moves
  <2> QED
    BY <1>0, <2>2, <2>5, <2>6, LeftKept
<1>2. CASE Thumbnail(r)
  <2>1. Moves(r, {"thumb"}, {"insert"}) /\ KeepsName(r)
    BY <1>2, MovedOn DEF Keeps
  <2>2. files' = files /\ thumbs' \subseteq thumbs \cup {req[r].name}
    BY <1>2 DEF Thumbnail
  <2>3. \A n : n = req[r].name => NameHeld(r, n)'
    BY <2>1 DEF NameHeld, Moves, KeepsName
  <2>4. \A n : n = req[r].name => NameKnown(n)'
    BY <2>3, HeldKnown
  <2>5. \A n : /\ NameHeld(r, n) => n = req[r].name
               /\ ~DirHeld(r, n)
    BY <2>1 DEF NameHeld, DirHeld, Moves
  <2> QED
    BY <1>0, <2>1, <2>2, <2>4, <2>5, LeftKept
<1>3. CASE InsertVideoFails(r)
  <2>1. Moves(r, {"insert"}, {"done"})
    BY <1>3, MovedOn
  <2>2. /\ DOMAIN files' \subseteq DOMAIN files /\ thumbs' \subseteq thumbs
        /\ req[r].name \in DOMAIN files' \cup thumbs' => req[r].name \in leftNames'
    BY <1>3, Unlinked DEF InsertVideoFails
  <2>3. \A n : /\ NameHeld(r, n) => n = req[r].name
               /\ ~DirHeld(r, n)
    BY <2>1 DEF NameHeld, DirHeld, Moves
  <2> QED
    BY <1>0, <2>1, <2>2, <2>3, LeftKept DEF NameKnown
<1> QED
  BY <1>1, <1>2, <1>3

\* The steps of an upload that has a row.
LEMMA LeftUpload ==
    ASSUME Types, OwnInv, RowsAge, LeftInv, NEW r \in Requests,
           \/ InsertVideo(r) \/ ScriptStarts(r) \/ ScriptSucceeds(r) \/ ScriptFails(r)
           \/ UnlinkUpload(r) \/ SetSegmentPath(r)
    PROVE  LeftInv'
<1>0. leftNames \subseteq leftNames' /\ leftDirs \subseteq leftDirs'
  BY Unlinked DEF InsertVideo, ScriptStarts, ScriptSucceeds, ScriptFails, UnlinkUpload,
         SetSegmentPath, hist
<1>1. CASE InsertVideo(r)
  <2> DEFINE id == next_id.videos
  <2>1. Moves(r, {"insert"}, {"rowid"})
    BY <1>1, MovedAssign
  <2>2. /\ DOMAIN videos' = DOMAIN videos \cup {id}
        /\ videos'[id] = Row(req[r].name, FALSE, FALSE, r)
        /\ \A x \in DOMAIN videos : videos'[x] = videos[x]
    BY <1>1, RowInserted
  <2>3. UNCHANGED <<files, thumbs, segments>>
    BY <1>1 DEF InsertVideo, disk
  <2>4. \A n : n = req[r].name => NameKnown(n)'
    <3>1. videos'[id].name = req[r].name /\ id \in DOMAIN videos'
      BY <2>2 DEF Row
    <3> HIDE DEF id
    <3> QED
      BY <3>1 DEF NameKnown
  <2>5. \A n : /\ NameHeld(r, n) => n = req[r].name
               /\ ~DirHeld(r, n)
    BY <2>1 DEF NameHeld, DirHeld, Moves
  <2> HIDE DEF id
  <2> QED
    BY <1>0, <2>1, <2>2, <2>3, <2>4, <2>5, LeftKept
<1>2. CASE ScriptStarts(r) \/ ScriptSucceeds(r)
  <2>1. Moves(r, {"script", "segment"}, {"segment", "path"}) /\ Keeps(r)
    BY <1>2, MovedOn DEF Moves
  <2>2. DOMAIN segments' \subseteq DOMAIN segments \cup {req[r].id}
    BY <1>2 DEF ScriptStarts, ScriptSucceeds, Put
  <2>3. UNCHANGED <<videos, files, thumbs>>
    BY <1>2 DEF ScriptStarts, ScriptSucceeds, db
  <2>4. \A v : v = req[r].id => DirHeld(r, v)'
    BY <2>1 DEF DirHeld, Moves, Keeps, KeepsId
  <2>5. \A v : v = req[r].id => DirKnown(v)'
    BY <2>4, HeldKnown
  <2>6. \A n : /\ DirHeld(r, n) => n = req[r].id
               /\ ~NameHeld(r, n)
    BY <2>1 DEF NameHeld, DirHeld, Moves
  <2> QED
    BY <1>0, <2>1, <2>2, <2>3, <2>5, <2>6, LeftKept
<1>3. CASE ScriptFails(r)
  <2> DEFINE id == req[r].id
  <2>1. Moves(r, {"segment"}, {"unlink"}) /\ Keeps(r)
    BY <1>3, MovedOn
  <2>2. UNCHANGED <<files, thumbs, segments>> /\ id \in leftDirs'
    BY <1>3 DEF ScriptFails, disk
  <2>3. \A v \in DOMAIN videos : v # id => v \in DOMAIN videos' /\ videos'[v] = videos[v]
    BY <1>3 DEF ScriptFails, db_delete_video_by_id, Drop
  <2>4. ASSUME Orderly, id \in DOMAIN videos PROVE videos[id].name = req[r].name
    <3>1. id = req[r].mine /\ videos[id].by = r
      BY <2>1, <2>4 DEF OwnInv, UploadOwns, Moves, Inserting, Uploading, Orderly
    <3>2. Made(videos[id].by, id, videos[id].name)
      BY <2>4 DEF OwnInv, RowsMade
    <3> QED
      BY <3>1, <3>2, StoreAssumption DEF Made
  <2>5. \A n : n = req[r].name => NameKnown(n)'
    <3>1. \A n : n = req[r].name => NameHeld(r, n)'
      BY <2>1 DEF NameHeld, Moves, Keeps, KeepsName
    <3> QED
      BY <3>1, HeldKnown
  <2>6. \A v : v = id => DirKnown(v)'
    BY <2>2 DEF DirKnown
  <2>7. \A n : /\ DirHeld(r, n) => n = id
               /\ ~NameHeld(r, n)
    BY <2>1 DEF NameHeld, DirHeld, Moves
  <2>8. ASSUME Orderly, NEW v \in DOMAIN videos
        PROVE  \/ v \in DOMAIN videos' /\ videos'[v].name = videos[v].name
               \/ DirKnown(v)' /\ \A n : n = videos[v].name => NameKnown(n)'
    <3>1. CASE v # id
      BY <2>3, <3>1
    <3>2. CASE v = id
      BY <2>4, <2>5, <2>6, <2>8, <3>2
    <3> QED
      BY <3>1, <3>2
  <2> HIDE DEF id
  <2> QED
    BY <1>0, <2>1, <2>2, <2>6, <2>7, <2>8, LeftKept
<1>4. CASE UnlinkUpload(r)
  <2>1. Moves(r, {"unlink"}, {"done"}) /\ UNCHANGED <<videos, segments>>
    BY <1>4, MovedOn DEF UnlinkUpload, db
  <2>2. /\ DOMAIN files' \subseteq DOMAIN files /\ thumbs' \subseteq thumbs
        /\ req[r].name \in DOMAIN files' \cup thumbs' => req[r].name \in leftNames'
    BY <1>4, Unlinked DEF UnlinkUpload
  <2>3. \A n : /\ NameHeld(r, n) => n = req[r].name
               /\ ~DirHeld(r, n)
    BY <2>1 DEF NameHeld, DirHeld, Moves
  <2> QED
    BY <1>0, <2>1, <2>2, <2>3, LeftKept DEF NameKnown
<1>5. CASE SetSegmentPath(r)
  <2>1. Moves(r, {"path"}, {"done"})
    BY <1>5, MovedOn
  <2>2. UNCHANGED <<files, thumbs, segments, next_id>>
    BY <1>5 DEF SetSegmentPath, disk
  <2>3. DOMAIN videos' = DOMAIN videos /\ \A v \in DOMAIN videos : videos'[v].name = videos[v].name
    BY <1>5, <2>2, PathSet DEF SetSegmentPath, Types
  <2>4. req[r].id \in DOMAIN videos' \cup leftDirs'
    BY <1>5, <2>3 DEF SetSegmentPath
  <2>5. \A v : v = req[r].id => DirKnown(v)'
    BY <2>4 DEF DirKnown
  <2>6. \A n : /\ DirHeld(r, n) => n = req[r].id
               /\ ~NameHeld(r, n)
    BY <2>1 DEF NameHeld, DirHeld, Moves
  <2> QED
    BY <1>0, <2>1, <2>2, <2>3, <2>5, <2>6, LeftKept
<1> QED
  BY <1>1, <1>2, <1>3, <1>4, <1>5

\* The steps of a deletion.
LEMMA LeftDelete ==
    ASSUME Types, OwnInv, RowsAge, LeftInv, NEW r \in Requests,
           DeleteRow(r) \/ UnlinkRow(r) \/ RemoveDir(r) \/ RemoveDirFails(r)
    PROVE  LeftInv'
<1> DEFINE id == req[r].id
           name == req[r].row.name
<1>0. leftNames \subseteq leftNames' /\ leftDirs \subseteq leftDirs'
  BY Unlinked DEF DeleteRow, UnlinkRow, RemoveDir, RemoveDirFails, hist
<1>1. CASE DeleteRow(r)
  <2>1. Moves(r, {"delete"}, {"unlinkrow"}) /\ Keeps(r)
    BY <1>1, MovedOn
  <2>2. UNCHANGED <<files, thumbs, segments>>
    BY <1>1 DEF DeleteRow, disk
  <2>3. \A v \in DOMAIN videos : v # id => v \in DOMAIN videos' /\ videos'[v] = videos[v]
    BY <1>1 DEF DeleteRow, db_delete_video_by_id, Drop
  <2>4. id \in DOMAIN videos => videos[id].name = name
    BY <2>1 DEF OwnInv, DeleteOwns, Moves
  <2>5. \A n : n = name => NameHeld(r, n)'
    BY <2>1 DEF NameHeld, Moves, Keeps, KeepsRow
  <2>6. \A v : v = id => DirHeld(r, v)'
    BY <2>1 DEF DirHeld, Moves, Keeps, KeepsId
  <2>7. \A n : ~DirHeld(r, n) /\ ~NameHeld(r, n)
    BY <2>1 DEF NameHeld, DirHeld, Moves
  <2>8. ASSUME NEW v \in DOMAIN videos
        PROVE  \/ v \in DOMAIN videos' /\ videos'[v].name = videos[v].name
               \/ DirKnown(v)' /\ \A n : n = videos[v].name => NameKnown(n)'
    <3>1. CASE v # id
      BY <2>3, <3>1
    <3>2. CASE v = id
      <4>1. DirKnown(v)'
        BY <2>6, <3>2, HeldKnown
      <4>2. \A n : n = videos[v].name => NameKnown(n)'
        BY <2>4, <2>5, <3>2, HeldKnown
      <4> QED
        BY <4>1, <4>2
    <3> QED
      BY <3>1, <3>2
  <2> QED
    BY <1>0, <2>1, <2>2, <2>7, <2>8, LeftKept
<1>2. CASE UnlinkRow(r)
  <2>1. /\ Moves(r, {"unlinkrow"}, {"removedir"}) /\ Keeps(r)
        /\ UNCHANGED <<videos, segments>>
    BY <1>2, MovedOn DEF UnlinkRow, db
  <2>2. /\ DOMAIN files' \subseteq DOMAIN files /\ thumbs' \subseteq thumbs
        /\ name \in DOMAIN files' \cup thumbs' => name \in leftNames'
    BY <1>2, Unlinked DEF UnlinkRow
  <2>3. \A n : NameHeld(r, n) => n = name
    BY <2>1 DEF NameHeld, Moves
  <2>4. \A v : DirHeld(r, v) => DirHeld(r, v)'
    BY <2>1 DEF DirHeld, Moves, Keeps, KeepsId
  <2>5. \A v : DirHeld(r, v) => DirKnown(v)'
    BY <2>4, HeldKnown
  <2> QED
    BY <1>0, <2>1, <2>2, <2>3, <2>5, LeftKept DEF NameKnown
<1>3. CASE RemoveDir(r) \/ RemoveDirFails(r)
  <2>1. Moves(r, {"removedir"}, {"done"}) /\ UNCHANGED <<videos, files, thumbs>>
    BY <1>3, MovedOn DEF RemoveDir, RemoveDirFails, db
  <2>2. \/ DOMAIN segments' = DOMAIN segments \ {id}
        \/ DOMAIN segments' = DOMAIN segments /\ id \in leftDirs'
    BY <1>3 DEF RemoveDir, RemoveDirFails, Drop
  <2>3. \A n : /\ DirHeld(r, n) => n = id
               /\ ~NameHeld(r, n)
    BY <2>1 DEF NameHeld, DirHeld, Moves
  <2>4. \A v \in DOMAIN segments' : DirHeld(r, v) => DirKnown(v)'
    BY <2>2, <2>3 DEF DirKnown
  <2>5. DOMAIN segments' \subseteq DOMAIN segments
    BY <2>2
  <2> QED
    BY <1>0, <2>1, <2>3, <2>4, <2>5, LeftKept
<1> QED
  BY <1>1, <1>2, <1>3

\* After a crash, what a request held is what it left behind.
LEMMA LeftCrash ==
    ASSUME Types, RowsAge, LeftInv, Crash
    PROVE  LeftInv'
<1> SUFFICES ASSUME Orderly'
             PROVE  /\ \A n \in DOMAIN files' \cup thumbs' : NameKnown(n)'
                    /\ \A v \in DOMAIN segments' : DirKnown(v)'
  BY DEF LeftInv
<1>0. Orderly /\ UNCHANGED <<videos, files, thumbs, segments>>
  BY DEF Orderly, RowsAge, Crash, db, disk
<1>1. /\ leftNames' = leftNames \cup {req[r].name : r \in Busy} \cup {req[r].row.name : r \in Busy}
      /\ leftDirs' = leftDirs \cup {req[r].id : r \in Busy}
  BY DEF Crash
<1>2. ASSUME NEW n \in DOMAIN files' \cup thumbs' PROVE NameKnown(n)'
  <2>1. NameKnown(n)
    BY <1>0 DEF LeftInv
  <2>2. ASSUME NEW s \in Requests, NameHeld(s, n) PROVE n \in leftNames'
    <3>1. s \in Busy /\ (req[s].name = n \/ req[s].row.name = n)
      BY <2>2 DEF Busy, NameHeld
    <3> QED
      BY <1>1, <3>1
  <2> QED
    BY <1>0, <1>1, <2>1, <2>2 DEF NameKnown
<1>3. ASSUME NEW v \in DOMAIN segments' PROVE DirKnown(v)'
  <2>1. DirKnown(v)
    BY <1>0 DEF LeftInv
  <2>2. ASSUME NEW s \in Requests, DirHeld(s, v) PROVE v \in leftDirs'
    <3>1. s \in Busy /\ req[s].id = v
      BY <2>2 DEF Busy, DirHeld
    <3> QED
      BY <1>1, <3>1
  <2> QED
    BY <1>0, <1>1, <2>1, <2>2 DEF DirKnown
<1> QED
  BY <1>2, <1>3

\* Every step accounts for what it leaves.
LEMMA LeftStep == Types /\ OwnInv /\ LeftInv /\ [Next]_vars => LeftInv'
<1> SUFFICES ASSUME Types, OwnInv, LeftInv, [Next]_vars PROVE LeftInv'
  OBVIOUS
<1>0. RowsAge
  BY RowsAgeStep
<1>1. ASSUME NEW r \in Requests, AsideStep(r) PROVE LeftInv'
  <2>1. /\ Moves(r, Aside, Aside \cup {"done"})
        /\ UNCHANGED <<videos, files, thumbs, segments, leftNames, leftDirs>>
    BY <1>1, AsideDoes DEF AsideEffect
  <2>2. Aside \cap {"thumb", "insert", "unlink", "unlinkrow", "segment", "path",
                    "removedir"} = {}
    BY DEF Aside
  <2> QED
    BY <1>0, <2>1, <2>2, LeftAlone
<1>2. ASSUME NEW r \in Requests, VideoRowid(r) \/ SelectVideo(r) \/ UpdateVideo(r)
      PROVE  LeftInv'
  <2>1. Moves(r, {"rowid", "select", "update"}, Places)
    BY <1>2, MovedAssign, MovedOn DEF Moves, Places
  <2>2. UNCHANGED <<files, thumbs, segments, leftNames, leftDirs>>
    BY <1>2 DEF VideoRowid, SelectVideo, UpdateVideo, disk, hist
  <2>3. /\ DOMAIN videos' = DOMAIN videos
        /\ \A v \in DOMAIN videos : videos'[v].name = videos[v].name
    <3>1. CASE VideoRowid(r) \/ SelectVideo(r)
      BY <3>1 DEF VideoRowid, SelectVideo, db
    <3>2. CASE UpdateVideo(r)
      <4>1. PICK v \in DOMAIN videos : db_update_video_metadata(v) /\ next_id' = next_id
        BY <3>2 DEF UpdateVideo
      <4> QED
        BY <4>1, Edited DEF Types
    <3> QED
      BY <1>2, <3>1, <3>2
  <2> QED
    BY <1>0, <2>1, <2>2, <2>3, LeftAlone
<1>3. ASSUME NEW r \in Requests, WriteFile(r) \/ Thumbnail(r) \/ InsertVideoFails(r)
      PROVE  LeftInv'
  BY <1>0, <1>3, LeftBefore
<1>4. ASSUME NEW r \in Requests,
             \/ InsertVideo(r) \/ ScriptStarts(r) \/ ScriptSucceeds(r) \/ ScriptFails(r)
             \/ UnlinkUpload(r) \/ SetSegmentPath(r)
      PROVE  LeftInv'
  BY <1>0, <1>4, LeftUpload
<1>5. ASSUME NEW r \in Requests,
             DeleteRow(r) \/ UnlinkRow(r) \/ RemoveDir(r) \/ RemoveDirFails(r)
      PROVE  LeftInv'
  BY <1>0, <1>5, LeftDelete
<1>6. CASE Crash
  BY <1>0, <1>6, LeftCrash
<1>7. CASE Tick \/ UNCHANGED vars
  <2>1. UNCHANGED <<videos, req, files, thumbs, segments, misread, clashed, leftNames, leftDirs>>
    BY <1>7, Idling
  <2> QED
    BY <2>1 DEF LeftInv, Orderly, NameKnown, DirKnown, NameHeld, DirHeld
<1> QED
  BY <1>1, <1>2, <1>3, <1>4, <1>5, <1>6, <1>7, NextSteps DEF VideoStep

\* Files and directories without a row are in the hands of a request, or were left in
\* one of the ways the code is known to leave them; the disk leaks in no other way.
THEOREM NothingElseLeft == Spec => []NothingElseIsLeft
<1>1. Init => LeftInv
  <2> SUFFICES ASSUME Init PROVE LeftInv
    OBVIOUS
  <2>1. DOMAIN videos = {1} /\ DOMAIN files = {0} /\ DOMAIN segments = {1}
    BY FirstVideo
  <2>2. videos[1].name = 0 /\ thumbs = {0}
    BY FirstVideo DEF Row, Init
  <2> QED
    BY <2>1, <2>2 DEF LeftInv, NameKnown, DirKnown
<1>2. LeftInv => NothingElseIsLeft
  <2> SUFFICES ASSUME LeftInv, Orderly PROVE NothingElseIsLeft
    BY DEF NothingElseIsLeft
  <2>1. ASSUME NEW n, NEW r \in Requests, NameHeld(r, n)
        PROVE  r \in Busy /\ n \in {req[r].name, req[r].row.name}
    BY <2>1 DEF NameHeld, Busy
  <2>2. ASSUME NEW v, NEW r \in Requests, DirHeld(r, v) PROVE v \in {req[s].id : s \in Busy}
    <3>1. r \in Busy /\ req[r].id = v
      BY <2>2 DEF DirHeld, Busy
    <3> QED
      BY <3>1
  <2>3. \A n \in DOMAIN files \cup thumbs :
          \/ n \in leftNames
          \/ \E v \in DOMAIN videos : videos[v].name = n
          \/ \E r \in Busy : n \in {req[r].name, req[r].row.name}
    BY <2>1 DEF LeftInv, NameKnown
  <2>4. \A v \in DOMAIN segments :
          v \in DOMAIN videos \cup leftDirs \cup {req[r].id : r \in Busy}
    BY <2>2 DEF LeftInv, DirKnown
  <2> QED
    BY <2>3, <2>4 DEF NothingElseIsLeft
<1>3. Spec => []LeftInv
  BY <1>1, LeftStep, TypesAlways, OwnAlways, PTL DEF Spec
<1> QED
  BY <1>2, <1>3, PTL

=============================================================================
