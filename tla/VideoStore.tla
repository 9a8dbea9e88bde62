----------------------------- MODULE VideoStore -----------------------------
(***************************************************************************)
(* The video store: the tables videos, users, sessions and watch_history   *)
(* (src/db/database.c), the files below data/ (src/server/upload.c), and   *)
(* the requests of src/http/api.c and websocket.c that change them.        *)
(*                                                                         *)
(* Each request is served by a worker of its own. A statement of SQLite, a *)
(* file operation and a call of a program are steps; nothing makes several *)
(* of them one. All workers use one database connection, so                *)
(* sqlite3_last_insert_rowid tells of the last INSERT of any of them. The  *)
(* files of an upload are named after the second it is received in.        *)
(***************************************************************************)
EXTENDS Integers, FiniteSets

CONSTANTS
    Requests,    \* the requests, each made once
    Names,       \* the user names that sign up
    MaxClock,    \* bound: seconds in which uploads are received
    MaxCrashes   \* bound: crashes

ASSUME StoreAssumption ==
    /\ MaxClock \in Nat \ {0} /\ MaxCrashes \in Nat
    /\ "old" \notin Requests /\ "torn" \notin Requests

VARIABLES
    videos,        \* the table videos: id -> row
    users,         \* the table users: id -> user name
    sessions,      \* the sessions signup and login created: request -> user id
    watch,         \* watch_history: pairs <<user id, video id>>
    next_id,       \* table -> next AUTOINCREMENT id, never used before
    last_rowid,    \* sqlite3_last_insert_rowid of the connection
    files,         \* data/videos: name -> the upload that wrote it; "torn" when that failed
    thumbs,        \* data/thumbs: names
    segments,      \* data/segments: id -> what is in the directory
    clock,         \* time(NULL)
    req,           \* request -> where it is, and its locals
    crashes,       \* crashes so far
    misread,       \* history: requests that took another row's id for theirs
    clashed,       \* history: names that two uploads wrote
    ignored,       \* history: videos of which a failed statement went unnoticed
    leftNames,     \* history: names whose files a request left behind
    leftDirs       \* history: ids whose segments a request left behind

db == <<videos, users, sessions, watch, next_id, last_rowid>>
disk == <<files, thumbs, segments>>
hist == <<misread, clashed, ignored, leftNames, leftDirs>>
vars == <<videos, users, sessions, watch, next_id, last_rowid, files, thumbs,
          segments, clock, req, crashes, misread, clashed, ignored, leftNames,
          leftDirs>>

Put(f, k, x) == [i \in DOMAIN f \cup {k} |-> IF i = k THEN x ELSE f[i]]
Drop(f, K) == [i \in DOMAIN f \ K |-> f[i]]

\* A row: the name of its files, whether segment_path is set, whether the title was
\* edited, and (history) the upload that made it.
Row(name, seg, edited, by) == [name |-> name, seg |-> seg, edited |-> edited, by |-> by]

\* A segment directory: the upload it was made from, and whether it is complete.
Dir(of, complete) == [of |-> of, complete |-> complete]

\* Locals of a request: the name of its files, the row id it works with, the row it
\* really inserted (history), the row it read, and the user name.
Idle == [pc |-> "idle", name |-> 0, id |-> 0, mine |-> 0,
         row |-> Row(0, FALSE, FALSE, "old"), user |-> "old"]

\* One video and one user from before, segmented and registered.
Init ==
    /\ videos = Put(<<>>, 1, Row(0, TRUE, FALSE, "old"))
    /\ users = Put(<<>>, 1, "old")
    /\ sessions = <<>> /\ watch = {}
    /\ next_id = [videos |-> 2, users |-> 2, sessions |-> 1, watch |-> 1]
    /\ last_rowid = 0
    /\ files = Put(<<>>, 0, "old")
    /\ thumbs = {0}
    /\ segments = Put(<<>>, 1, Dir("old", TRUE))
    /\ clock = 1
    /\ req = [r \in Requests |-> Idle]
    /\ crashes = 0
    /\ misread = {} /\ clashed = {} /\ ignored = {} /\ leftNames = {} /\ leftDirs = {}

At(r, pc) == req[r].pc = pc
Goto(r, pc) == req' = [req EXCEPT ![r].pc = pc]

\* Mutant: the id is not used up.
Inserted_SameIdAgain(t) == last_rowid' = next_id[t] /\ UNCHANGED next_id

\* A successful INSERT into table t: its id, and what becomes of the counters.
Inserted(t) ==
    /\ last_rowid' = next_id[t]
    /\ next_id' = [next_id EXCEPT ![t] = @ + 1]

\* Mutant: foreign keys are not enforced.
db_delete_video_by_id_NoCascade(v) ==
    /\ videos' = Drop(videos, {v})
    /\ UNCHANGED <<watch, ignored>>

\* DELETE FROM videos WHERE id = v, with the cascade to watch_history; or it fails,
\* and no caller looks.
db_delete_video_by_id(v) ==
    \/ /\ videos' = Drop(videos, {v})
       /\ watch' = {h \in watch : h[2] # v}
       /\ UNCHANGED ignored
    \/ ignored' = ignored \cup {v} /\ UNCHANGED <<videos, watch>>

\* UPDATE videos SET segment_path; or it fails, and its caller does not look.
db_update_video_segment_path(v) ==
    \/ /\ videos' = [x \in DOMAIN videos |->
                       IF x = v THEN [videos[x] EXCEPT !.seg = TRUE] ELSE videos[x]]
       /\ UNCHANGED ignored
    \/ ignored' = ignored \cup {v} /\ UNCHANGED videos

\* UPDATE videos SET title, description.
db_update_video_metadata(v) == videos' = [videos EXCEPT ![v].edited = TRUE]

\* INSERT INTO watch_history ... ON CONFLICT DO UPDATE: a new pair is an INSERT.
db_upsert_watch_history(u, v) ==
    /\ watch' = watch \cup {<<u, v>>}
    /\ IF <<u, v>> \in watch THEN UNCHANGED <<next_id, last_rowid>> ELSE Inserted("watch")

\* unlink of the video file and of the thumbnail: each fails by itself, and no caller
\* looks.
unlink_files(name) ==
    \E gone \in SUBSET {"video", "thumb"} :
      /\ files' = IF "video" \in gone THEN Drop(files, {name}) ELSE files
      /\ thumbs' = IF "thumb" \in gone THEN thumbs \ {name} ELSE thumbs
      /\ leftNames' = IF name \in DOMAIN files' \cup thumbs'
                      THEN leftNames \cup {name} ELSE leftNames

\* db_get_user_by_username finds a row.
Taken(name) == \E u \in DOMAIN users : users[u] = name

-----------------------------------------------------------------------------
(* http_api_handle: the path of the request decides what is done.          *)

\* Where the handlers begin; those for administrators, and a WebSocket connection,
\* with the session of the request.
Handlers == {"write", "lookup", "login", "auth"}

\* The body is read and handed on ...
http_api_handle(r) ==
    \E pc \in Handlers :
      /\ At(r, "idle")
      /\ Goto(r, pc)
      /\ UNCHANGED <<db, disk, clock, crashes, hist>>

\* ... or the handler refuses it: the method, a field or the session is missing or
\* wrong, there is no such row, a checked statement fails.
Refused(r) ==
    /\ req[r].pc \in {"lookup", "login", "auth", "select", "update", "watch"}
    /\ Goto(r, "done")
    /\ UNCHANGED <<db, disk, clock, crashes, hist>>

\* is_admin_user: session_validate_and_extend inserts the row of the session again.
\* A list of the videos only reads them.
is_admin_user(r) ==
    \E pc \in {"select", "update", "watch", "done"} :
      /\ At(r, "auth")
      /\ Inserted("sessions")
      /\ Goto(r, pc)
      /\ UNCHANGED <<videos, users, sessions, watch, disk, clock, crashes, hist>>

-----------------------------------------------------------------------------
(* handle_upload_request.                                                  *)

\* There is no multipart body with a file in it, or no directory to put it.
UploadRefused(r) ==
    /\ At(r, "write")
    /\ Goto(r, "done")
    /\ UNCHANGED <<db, disk, clock, crashes, hist>>

\* write_file replaces what the name held. When fwrite fails the file stays, cut short;
\* whether fclose could write the rest nobody looks, and files does not tell.
WriteFile(r) ==
    \E whole \in BOOLEAN :
      /\ At(r, "write")
      /\ files' = Put(files, clock, IF whole THEN r ELSE "torn")
      /\ req' = [req EXCEPT ![r].pc = IF whole THEN "thumb" ELSE "done", ![r].name = clock]
      /\ clashed' = IF clock \in DOMAIN files \/ \E q \in Requests : req[q].name = clock
                    THEN clashed \cup {clock} ELSE clashed
      /\ leftNames' = IF whole THEN leftNames ELSE leftNames \cup {clock}
      /\ UNCHANGED <<db, thumbs, segments, clock, crashes, misread, ignored, leftDirs>>

\* ffmpeg extracts the thumbnail, or fails; nobody looks.
Thumbnail(r) ==
    \E made \in BOOLEAN :
      /\ At(r, "thumb")
      /\ thumbs' = IF made THEN thumbs \cup {req[r].name} ELSE thumbs
      /\ Goto(r, "insert")
      /\ UNCHANGED <<db, files, segments, clock, crashes, hist>>

\* Mutant: without AUTOINCREMENT the id of a deleted row is given again.
InsertVideo_IdReused(r) ==
    LET id == IF next_id.videos - 1 \in DOMAIN videos THEN next_id.videos
              ELSE next_id.videos - 1
    IN /\ At(r, "insert")
       /\ videos' = Put(videos, id, Row(req[r].name, FALSE, FALSE, r))
       /\ last_rowid' = id
       /\ next_id' = [next_id EXCEPT !.videos = id + 1]
       /\ req' = [req EXCEPT ![r].pc = "rowid", ![r].mine = id]
       /\ UNCHANGED <<users, sessions, watch, disk, clock, crashes, hist>>

\* db_create_video, the INSERT: segment_path is NULL for now.
InsertVideo(r) ==
    /\ At(r, "insert")
    /\ videos' = Put(videos, next_id.videos, Row(req[r].name, FALSE, FALSE, r))
    /\ Inserted("videos")
    /\ req' = [req EXCEPT ![r].pc = "rowid", ![r].mine = next_id.videos]
    /\ UNCHANGED <<users, sessions, watch, disk, clock, crashes, hist>>

\* The INSERT fails: the files are removed.
InsertVideoFails(r) ==
    /\ At(r, "insert")
    /\ unlink_files(req[r].name)
    /\ Goto(r, "done")
    /\ UNCHANGED <<db, segments, clock, crashes, misread, clashed, ignored, leftDirs>>

\* db_create_video, the second call: sqlite3_last_insert_rowid.
VideoRowid(r) ==
    /\ At(r, "rowid")
    /\ req' = [req EXCEPT ![r].pc = "script", ![r].id = last_rowid]
    /\ misread' = IF last_rowid = req[r].mine THEN misread ELSE misread \cup {r}
    /\ UNCHANGED <<db, disk, clock, crashes, clashed, ignored, leftNames, leftDirs>>

\* segment_video.sh begins: the directory is emptied and filled from the file.
ScriptStarts(r) ==
    /\ At(r, "script")
    /\ segments' = Put(segments, req[r].id,
         Dir(IF req[r].name \in DOMAIN files THEN files[req[r].name] ELSE "torn", FALSE))
    /\ Goto(r, "segment")
    /\ UNCHANGED <<db, files, thumbs, clock, crashes, hist>>

\* The script ends well: the file was there to the end, and so was the directory.
ScriptSucceeds(r) ==
    LET id == req[r].id
    IN /\ At(r, "segment")
       /\ req[r].name \in DOMAIN files /\ id \in DOMAIN segments
       /\ segments' = [segments EXCEPT ![id] = Dir(
            IF segments[id].of = files[req[r].name] THEN segments[id].of ELSE "torn", TRUE)]
       /\ Goto(r, "path")
       /\ UNCHANGED <<db, files, thumbs, clock, crashes, hist>>

\* Mutant: the row stays.
ScriptFails_RowStays(r) ==
    /\ At(r, "segment")
    /\ leftDirs' = leftDirs \cup {req[r].id}
    /\ Goto(r, "unlink")
    /\ UNCHANGED <<db, disk, clock, crashes, misread, clashed, ignored, leftNames>>

\* The script fails: what it wrote stays; first the row goes ...
ScriptFails(r) ==
    /\ At(r, "segment")
    /\ db_delete_video_by_id(req[r].id)
    /\ leftDirs' = leftDirs \cup {req[r].id}
    /\ Goto(r, "unlink")
    /\ UNCHANGED <<users, sessions, next_id, last_rowid, disk, clock, crashes,
                   misread, clashed, leftNames>>

\* ... then the files.
UnlinkUpload(r) ==
    /\ At(r, "unlink")
    /\ unlink_files(req[r].name)
    /\ Goto(r, "done")
    /\ UNCHANGED <<db, segments, clock, crashes, misread, clashed, ignored, leftDirs>>

\* segment_path is set, if there still is such a row; then the answer.
SetSegmentPath(r) ==
    /\ At(r, "path")
    /\ db_update_video_segment_path(req[r].id)
    /\ leftDirs' = IF req[r].id \in DOMAIN videos THEN leftDirs ELSE leftDirs \cup {req[r].id}
    /\ Goto(r, "done")
    /\ UNCHANGED <<users, sessions, watch, next_id, last_rowid, disk, clock, crashes,
                   misread, clashed, leftNames>>

-----------------------------------------------------------------------------
(* handle_admin_delete and handle_admin_update.                            *)

\* db_get_video_by_id: the row is copied.
SelectVideo(r) ==
    \E v \in DOMAIN videos :
      /\ At(r, "select")
      /\ req' = [req EXCEPT ![r].pc = "delete", ![r].id = v, ![r].row = videos[v]]
      /\ UNCHANGED <<db, disk, clock, crashes, hist>>

\* Mutant: the files go before the row.
DeleteRow_FilesFirst(r) ==
    /\ At(r, "delete")
    /\ files' = Drop(files, {req[r].row.name})
    /\ thumbs' = thumbs \ {req[r].row.name}
    /\ Goto(r, "unlinkrow")
    /\ UNCHANGED <<db, segments, clock, crashes, hist>>

DeleteRow(r) ==
    /\ At(r, "delete")
    /\ db_delete_video_by_id(req[r].id)
    /\ Goto(r, "unlinkrow")
    /\ UNCHANGED <<users, sessions, next_id, last_rowid, disk, clock, crashes,
                   misread, clashed, leftNames, leftDirs>>

UnlinkRow(r) ==
    /\ At(r, "unlinkrow")
    /\ unlink_files(req[r].row.name)
    /\ Goto(r, "removedir")
    /\ UNCHANGED <<db, segments, clock, crashes, misread, clashed, ignored, leftDirs>>

\* Mutant: the segments are forgotten.
RemoveDir_Forgotten(r) ==
    /\ At(r, "removedir")
    /\ Goto(r, "done")
    /\ UNCHANGED <<db, disk, clock, crashes, hist>>

\* rm -rf, if the copied row had a segment_path.
RemoveDir(r) ==
    /\ At(r, "removedir") /\ req[r].row.seg
    /\ segments' = Drop(segments, {req[r].id})
    /\ Goto(r, "done")
    /\ UNCHANGED <<db, files, thumbs, clock, crashes, hist>>

\* There is no segment_path, or rm fails, perhaps half way, which nobody looks at.
RemoveDirFails(r) ==
    \E v \in SUBSET {req[r].id} :
      /\ At(r, "removedir") /\ (~req[r].row.seg => v = {})
      /\ segments' = [x \in DOMAIN segments |->
                        IF x \in v THEN Dir(segments[x].of, FALSE) ELSE segments[x]]
      /\ leftDirs' = leftDirs \cup {req[r].id}
      /\ Goto(r, "done")
      /\ UNCHANGED <<db, files, thumbs, clock, crashes, misread, clashed, ignored, leftNames>>

UpdateVideo(r) ==
    \E v \in DOMAIN videos :
      /\ At(r, "update")
      /\ db_update_video_metadata(v)
      /\ Goto(r, "done")
      /\ UNCHANGED <<users, sessions, watch, next_id, last_rowid, disk, clock, crashes, hist>>

-----------------------------------------------------------------------------
(* handle_signup, handle_login, and WATCH_UPDATE of the WebSocket.         *)

\* A name that is taken is refused.
LookupName(r) ==
    \E name \in Names :
      /\ At(r, "lookup")
      /\ req' = [req EXCEPT ![r].user = name,
           ![r].pc = IF Taken(name) THEN "done" ELSE "newuser"]
      /\ UNCHANGED <<db, disk, clock, crashes, hist>>

\* Mutant: nothing makes user names unique.
CreateUser_NotUnique(r) ==
    /\ At(r, "newuser")
    /\ users' = Put(users, next_id.users, req[r].user)
    /\ Inserted("users")
    /\ req' = [req EXCEPT ![r].pc = "userid", ![r].mine = next_id.users]
    /\ UNCHANGED <<videos, sessions, watch, disk, clock, crashes, hist>>

\* db_create_user, the INSERT; username is UNIQUE.
CreateUser(r) ==
    /\ At(r, "newuser")
    /\ ~Taken(req[r].user)
    /\ users' = Put(users, next_id.users, req[r].user)
    /\ Inserted("users")
    /\ req' = [req EXCEPT ![r].pc = "userid", ![r].mine = next_id.users]
    /\ UNCHANGED <<videos, sessions, watch, disk, clock, crashes, hist>>

\* The password cannot be hashed or the INSERT fails.
CreateUserFails(r) ==
    /\ At(r, "newuser")
    /\ Goto(r, "done")
    /\ UNCHANGED <<db, disk, clock, crashes, hist>>

\* db_create_user, the second call: sqlite3_last_insert_rowid.
UserRowid(r) ==
    /\ At(r, "userid")
    /\ req' = [req EXCEPT ![r].pc = "session", ![r].id = last_rowid]
    /\ misread' = IF last_rowid = req[r].mine THEN misread ELSE misread \cup {r}
    /\ UNCHANGED <<db, disk, clock, crashes, clashed, ignored, leftNames, leftDirs>>

\* db_create_session for the user id that was read, which must exist; or it fails.
CreateSession(r) ==
    /\ At(r, "session")
    /\ \/ /\ req[r].id \in DOMAIN users
          /\ sessions' = Put(sessions, r, req[r].id)
          /\ Inserted("sessions")
       \/ UNCHANGED <<sessions, next_id, last_rowid>>
    /\ Goto(r, "done")
    /\ UNCHANGED <<videos, users, watch, disk, clock, crashes, hist>>

\* session_login creates a session; Session models the table.
Login(r) ==
    \E u \in DOMAIN users :
      /\ At(r, "login")
      /\ sessions' = Put(sessions, r, u) /\ Inserted("sessions")
      /\ req' = [req EXCEPT ![r].pc = "done", ![r].user = users[u]]
      /\ UNCHANGED <<videos, users, watch, disk, clock, crashes, hist>>

\* Both foreign keys must exist.
WatchUpdate(r) ==
    \E u \in DOMAIN users, v \in DOMAIN videos :
      /\ At(r, "watch")
      /\ db_upsert_watch_history(u, v)
      /\ Goto(r, "done")
      /\ UNCHANGED <<videos, users, sessions, disk, clock, crashes, hist>>

-----------------------------------------------------------------------------
Tick ==
    /\ clock < MaxClock
    /\ clock' = clock + 1
    /\ UNCHANGED <<db, disk, req, crashes, hist>>

\* Requests that have begun and not ended.
Busy == {r \in Requests : req[r].pc \notin {"idle", "done"}}

\* The server is killed and started again: requests are gone, tables and files stay.
Crash ==
    /\ crashes < MaxCrashes /\ Busy # {}
    /\ crashes' = crashes + 1
    /\ req' = [r \in Requests |-> IF r \in Busy THEN [req[r] EXCEPT !.pc = "done"] ELSE req[r]]
    /\ leftNames' = leftNames \cup {req[r].name : r \in Busy} \cup {req[r].row.name : r \in Busy}
    /\ leftDirs' = leftDirs \cup {req[r].id : r \in Busy}
    /\ UNCHANGED <<db, disk, clock, misread, clashed, ignored>>

Finished == (\A r \in Requests : At(r, "done")) /\ UNCHANGED vars

Next ==
    \/ \E r \in Requests :
         \/ http_api_handle(r) \/ Refused(r) \/ is_admin_user(r)
         \/ UploadRefused(r) \/ WriteFile(r) \/ Thumbnail(r) \/ InsertVideo(r) \/ InsertVideoFails(r)
         \/ VideoRowid(r) \/ ScriptStarts(r) \/ ScriptSucceeds(r) \/ ScriptFails(r)
         \/ UnlinkUpload(r) \/ SetSegmentPath(r)
         \/ SelectVideo(r) \/ DeleteRow(r) \/ UnlinkRow(r) \/ RemoveDir(r) \/ RemoveDirFails(r)
         \/ UpdateVideo(r)
         \/ LookupName(r) \/ CreateUser(r) \/ CreateUserFails(r) \/ UserRowid(r)
         \/ CreateSession(r) \/ Login(r) \/ WatchUpdate(r)
    \/ Tick \/ Crash \/ Finished

Spec == Init /\ [][Next]_vars

-----------------------------------------------------------------------------
(* Properties.                                                             *)

Places == {"idle", "write", "thumb", "insert", "rowid", "script", "segment", "unlink",
           "path", "select", "delete", "unlinkrow", "removedir", "update", "lookup",
           "newuser", "userid", "session", "login", "auth", "watch", "done"}

TypeOK ==
    /\ \A r \in Requests : req[r].pc \in Places
    /\ DOMAIN videos \subseteq 1..(next_id.videos - 1)
    /\ DOMAIN users \subseteq 1..(next_id.users - 1)
    /\ DOMAIN files \cup thumbs \subseteq 0..MaxClock
    /\ last_rowid \in Nat /\ crashes \in 0..MaxCrashes

\* No request has taken another's row id, and no two uploads share a name: what the
\* following properties assume. The code ensures neither.
Orderly == misread = {} /\ clashed = {}

\* A row with a segment_path has a complete set of segments, made from the file of
\* its own upload, whatever is deleted, fails or crashes beside it. (A DELETE that
\* fails unnoticed leaves a row whose files are gone.)
SegmentsAreOwn ==
    Orderly => \A v \in DOMAIN videos \ ignored : videos[v].seg =>
                 v \in DOMAIN segments /\ segments[v] = Dir(videos[v].by, TRUE)

\* The file of every row exists and is the one its own upload wrote, all of it as far
\* as write_file can tell: a failed upload and a deletion remove the row before the
\* file.
RowHasFile ==
    Orderly => \A v \in DOMAIN videos \ ignored :
                 videos[v].name \in DOMAIN files /\ files[videos[v].name] = videos[v].by

\* Without a crash a row gets its segment_path, or goes again: there is always a
\* request that has still to do it.
RowsSettle ==
    Orderly /\ crashes = 0 =>
      \A v \in DOMAIN videos \ ignored : videos[v].seg \/ \E r \in Busy : req[r].mine = v

\* Files and segments without a row belong to a request in progress, or to one of
\* the cases in which the code leaves them: a write that failed, a segmentation that
\* failed, a deletion during the upload, an unlink or rm that failed, a crash.
NothingElseIsLeft ==
    Orderly =>
      /\ \A n \in DOMAIN files \cup thumbs :
           \/ n \in leftNames
           \/ \E v \in DOMAIN videos : videos[v].name = n
           \/ \E r \in Busy : n \in {req[r].name, req[r].row.name}
      /\ \A v \in DOMAIN segments :
           v \in DOMAIN videos \cup leftDirs \cup {req[r].id : r \in Busy}

\* Watch history refers to users and videos that exist, also when a video is deleted
\* while it is watched.
HistoryRefers == \A h \in watch : h[1] \in DOMAIN users /\ h[2] \in DOMAIN videos

\* Of several signups under one name, at most one creates the user; and the session
\* given to it is that user's, unless the request misread its row id.
SignupIsExclusive ==
    /\ \A u, x \in DOMAIN users : users[u] = users[x] => u = x
    /\ \A r \in DOMAIN sessions \ misread : users[sessions[r]] = req[r].user

\* The session given at signup is the new user's, as the test of db_create_user
\* expects of the id it returns.
SessionIsOwn == \A r \in DOMAIN sessions : users[sessions[r]] = req[r].user

\* The file of every row holds what was uploaded, also when two uploads are received
\* within one second. They write the same file, so the row of the first shows, and
\* its deletion removes, the second.
FileIsOwn ==
    misread = {} => \A v \in DOMAIN videos \ ignored :
      videos[v].name \in DOMAIN files /\ files[videos[v].name] = videos[v].by

\* A video nobody deletes keeps its row and its segments. An upload that misread its
\* id segments, and on failure deletes, another video.
OldVideoStays ==
    (\A r \in Requests : ~req[r].row.seg) =>
      1 \in DOMAIN videos /\ segments[1] = Dir("old", TRUE)

\* Every segment directory belongs to a row once no request is in progress.
NoOrphanSegments == Busy = {} => DOMAIN segments \subseteq DOMAIN videos
=============================================================================
