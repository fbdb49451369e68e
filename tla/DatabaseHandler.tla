--------------------------- MODULE DatabaseHandler ---------------------------
(***************************************************************************)
(* The DatabaseHandler class: every session thread owns one, with a        *)
(* connection of its own to PDSProject.db, and all of them share the       *)
(* static mutex m.  A method is modelled statement by statement: a SELECT  *)
(* is stepped and then finalized, a write changes the connection's cache,  *)
(* is committed, and is written to the file.  Between two of these steps   *)
(* any other session may take its own.                                     *)
(*                                                                         *)
(* The caller may invoke any method at any time; it passes to addChecksum  *)
(* and addVersion the blob number its last call returned, as every handler *)
(* of ConnectionHandler.cpp does.                                          *)
(***************************************************************************)
EXTENDS Naturals, FiniteSets, SqliteFile

CONSTANTS
    User,        \* user names
    UserOf,      \* UserOf[c]: the user whose client session c is
    File,        \* a path and a file name
    Checksum,    \* SHA1 digests
    Null,        \* NULL in a column, nobody in the mutex
    MaxTime,     \* bound: the seconds the clock may reach
    Stamp,       \* Stamp[t]: rank of getTimestamp()'s text at second t among texts
    MaxBlob,     \* bound: the highest blob number
    Registered,  \* users already in USERS when the server starts
    LoggedIn,    \* sessions whose logIn came before the instance starts
    Methods      \* Methods[c]: the methods the client of c causes to be called

Time == 1 .. MaxTime
Blob == 0 .. MaxBlob
Stamps == {Stamp[t] : t \in Time}

ASSUME SessionAssumption == UserOf \in [Session -> User] /\ Null \notin Session
ASSUME TimeAssumption == MaxTime \in Nat \ {0} /\ Stamp \in [Time -> Nat]
ASSUME BlobAssumption == MaxBlob \in Nat /\ Null \notin Nat
ASSUME ChecksumAssumption == Null \notin Checksum
ASSUME UsersAssumption ==
    /\ Registered \subseteq User
    /\ LoggedIn \subseteq Session /\ \A c \in LoggedIn : UserOf[c] \in Registered

VARIABLES
    mutex,       \* the session that owns m
    now,         \* the clock, in seconds
    at,          \* at[c]: the statement the running method of c is at
    open,        \* open[c]: that SELECT was stepped and not yet finalized
    method,      \* method[c]: the running or last method
    file,        \* file[c]: its path and fileName
    sum,         \* sum[c]: the checksum it is given
    found,       \* found[c]: what its last SELECT answered
    got,         \* got[c]: the blob number the session holds
    stamp,       \* stamp[c]: the lastModified its last SELECT read
    listing,     \* listing[c]: the files the last listing returned
    answer,      \* answer[c]: how the last method ended
    logged       \* logged[c]: the session is authenticated

callVars == <<method, file, sum>>
resultVars == <<found, got, stamp, listing>>
vars == <<db, work, lock, inTxn, stuck, mutex, now, at, open, method, file, sum,
          found, got, stamp, listing, answer, logged>>

-----------------------------------------------------------------------------
(* The tables.                                                             *)

Version == [user : User, file : File, stamp : Stamps,
            blob : Blob \cup {Null}, checksum : Checksum \cup {Null}]

Content == [users : SUBSET User, files : SUBSET (User \X File),
            versions : SUBSET Version]

RowsOf(v, u, f) == {r \in v : r.user = u /\ r.file = f}

\* lastModified = (SELECT MAX(lastModified) ...): the text order decides.
Last(rows) == {r \in rows : \A q \in rows : q.stamp <= r.stamp}

WithBlob(rows) == {r \in rows : r.blob # Null}

\* Mutants of IsNextBlob: MAX without + 1, COUNT in the place of MAX + 1.
MaxAgain(v, u, n) ==
    LET rows == WithBlob({r \in v : r.user = u})
    IN  IF rows = {} THEN n = 0
        ELSE (\E r \in rows : n = r.blob) /\ \A r \in rows : r.blob <= n

CountIsNext(v, u, n) == n = Cardinality({r \in v : r.user = u})

\* COUNT = 0 gives 0, else MAX(Blob) + 1; MAX over NULLs reads as 0.
IsNextBlob(v, u, n) ==
    LET rows == {r \in v : r.user = u}
    IN  /\ rows = {} => n = 0
        /\ rows # {} /\ WithBlob(rows) = {} => n = 1
        /\ WithBlob(rows) # {} =>
              /\ \E r \in WithBlob(rows) : n = r.blob + 1
              /\ \A r \in WithBlob(rows) : r.blob < n

\* PRIMARY KEY (lastModified, Username, name, path)
KeyFree(v, u, f, s) == \A r \in RowsOf(v, u, f) : r.stamp # s

AddFile(d, u, f) == [d EXCEPT !.files = @ \cup {<<u, f>>}]

\* Mutant of AddRow: the number of the blob is not bound.
UnboundBlob(d, u, f, s, b) ==
    [d EXCEPT !.versions = @ \cup
        {[user |-> u, file |-> f, stamp |-> s, blob |-> Null, checksum |-> Null]}]

AddRow(d, u, f, s, b) ==
    [d EXCEPT !.versions = @ \cup
        {[user |-> u, file |-> f, stamp |-> s, blob |-> b, checksum |-> Null]}]

\* Mutant of DropFile: the DELETE of FILES is missing.
DropVersions(d, u, f) == [d EXCEPT !.versions = @ \ RowsOf(@, u, f)]

DropFile(d, u, f) ==
    [d EXCEPT !.versions = @ \ RowsOf(@, u, f), !.files = @ \ {<<u, f>>}]

\* Mutants of SetChecksum: two parameters bound in the wrong order, and a WHERE
\* without the user.
SwappedBinds(d, u, b, s) ==
    [d EXCEPT !.versions =
        {IF r.user = u /\ r.blob = b THEN [r EXCEPT !.checksum = b] ELSE r : r \in @}]

SetForAll(d, u, b, s) ==
    [d EXCEPT !.versions = {IF r.blob = b THEN [r EXCEPT !.checksum = s] ELSE r : r \in @}]

\* UPDATE VERSIONS SET checksum = s WHERE Blob = b AND username = u
SetChecksum(d, u, b, s) ==
    [d EXCEPT !.versions =
        {IF r.user = u /\ r.blob = b THEN [r EXCEPT !.checksum = s] ELSE r : r \in @}]

AddUser(d, u) == [d EXCEPT !.users = @ \cup {u}]

\* getUserFolder's WHERE clause, and getDeletedFiles'.
FolderRows(v, u) == {r \in WithBlob(v) : r.user = u /\ r \in Last(RowsOf(v, u, r.file))}
DeletedRows(v, u) == {r \in v : /\ r.user = u /\ r.blob = Null
                                /\ r \in Last(RowsOf(v, u, r.file))}

\* Mutant of IsDeleted: any deletion counts, not the last row only.
EverDeleted(v, u, f) == \E r \in RowsOf(v, u, f) : r.blob = Null

IsDeleted(v, u, f) == WithBlob(Last(RowsOf(v, u, f))) = {}

-----------------------------------------------------------------------------
(* The methods, by where they begin and how they go on.                    *)

AllMethods == {"existsFile", "createFileForUser", "createNewBlobForFile",
    "deleteFile", "addVersion", "removeFile", "addChecksum", "registerUser",
    "logUser", "getPath", "getBlob", "getLastBlob", "getLastVersion",
    "getBlobVersion", "getUserFolder", "getDeletedFiles", "getFileVersions"}

ASSUME MethodsAssumption == Methods \in [Session -> SUBSET AllMethods]

Statements == {"salt", "exists", "deleted", "select", "lock", "count", "body",
               "commit", "write"}
Answers == {"ok", "throws", "absent"}

\* Methods that take the blob number or the file of the session's last call.
Chained == {"addVersion", "addChecksum", "getLastVersion", "getBlobVersion"}
\* Methods without a file argument.
Unnamed == {"addChecksum", "getBlobVersion", "registerUser", "logUser",
            "getPath", "getUserFolder", "getDeletedFiles"}

First(m) ==
    CASE m \in {"createFileForUser", "addChecksum"} -> "lock"
      [] m = "registerUser" -> "body"
      [] m = "logUser" -> "salt"
      [] m \in {"getPath", "getUserFolder", "getDeletedFiles", "getLastVersion",
                "getBlobVersion"} -> "select"
      [] OTHER -> "exists"

\* Mutant of AfterExists: a writing method does not look at the answer.
GoOnAnyway(m, yes) ==
    CASE m \in {"createNewBlobForFile", "addVersion", "removeFile"} -> "lock"
      [] m = "existsFile" -> IF yes THEN "ok" ELSE "absent"
      [] m = "createFileForUser" -> IF yes THEN "throws" ELSE "body"
      [] m \in {"deleteFile", "getBlob"} -> "deleted"
      [] OTHER -> "select"

AfterExists(m, yes) ==
    CASE m = "existsFile" -> IF yes THEN "ok" ELSE "absent"
      [] m = "createFileForUser" -> IF yes THEN "throws" ELSE "body"
      [] m \in {"createNewBlobForFile", "addVersion", "removeFile"} ->
            IF yes THEN "lock" ELSE "throws"
      [] m = "deleteFile" -> IF yes THEN "deleted" ELSE "throws"
      [] m = "getBlob" -> IF yes THEN "deleted" ELSE "absent"
      [] m = "getLastBlob" -> IF yes THEN "select" ELSE "absent"
      [] OTHER -> IF yes THEN "select" ELSE "throws"

AfterDeleted(m, yes) ==
    IF m = "getBlob" THEN (IF yes THEN "absent" ELSE "select")
                     ELSE (IF yes THEN "throws" ELSE "lock")

AfterLock(m) ==
    CASE m = "createFileForUser" -> "exists"
      [] m = "createNewBlobForFile" -> "count"
      [] OTHER -> "body"

\* A NULL column handed to std::string ends the process.
AfterSelect(m, yes) ==
    CASE yes -> "ok"
      [] ~yes /\ m \in {"getLastVersion", "getUserFolder"} -> "abort"
      [] ~yes /\ m = "logUser" -> "absent"
      [] OTHER -> "throws"

\* The listings and logUser do not look at the error code.
AfterBusySelect(m) ==
    CASE m \in {"getUserFolder", "getDeletedFiles", "getFileVersions"} -> "ok"
      [] m = "logUser" -> "absent"
      [] OTHER -> "throws"

\* Go on to statement s, or return: the lock_guard lets m go, and the handlers
\* logIn and signIn note who is authenticated.
GoTo(c, s) ==
    /\ at' = [at EXCEPT ![c] = IF s \in Answers THEN "idle" ELSE s]
    /\ answer' = [answer EXCEPT ![c] = IF s \in Answers THEN s ELSE @]
    /\ mutex' = IF s \in Answers /\ mutex = c THEN Null ELSE mutex
    /\ logged' = [logged EXCEPT ![c] =
            CASE s \in Answers /\ method[c] = "logUser" -> s = "ok"
              [] s \in Answers /\ method[c] = "registerUser" -> @ \/ s = "ok"
              [] OTHER -> @]

Stay == UNCHANGED <<at, answer, mutex, logged>>

-----------------------------------------------------------------------------
Init ==
    /\ FileInit([users |-> Registered, files |-> {}, versions |-> {}])
    /\ mutex = Null
    /\ now = 1
    /\ at = [c \in Session |-> "idle"]
    /\ open = [c \in Session |-> FALSE]
    /\ method = [c \in Session |-> "existsFile"]
    /\ file \in [Session -> File]
    /\ found = [c \in Session |-> FALSE]
    /\ sum = [c \in Session |-> Null]
    /\ got = [c \in Session |-> Null]
    /\ stamp = [c \in Session |-> Null]
    /\ listing = [c \in Session |-> {}]
    /\ answer = [c \in Session |-> "ok"]
    /\ logged = [c \in Session |-> c \in LoggedIn]

Call(c, m, f, s) ==
    /\ at[c] = "idle"
    /\ m \in Methods[c]
    /\ m \in {"logUser", "registerUser"} \/ logged[c]
    /\ m \in Chained => got[c] # Null
    /\ m \in Chained \cup Unnamed => f = file[c]
    /\ method' = [method EXCEPT ![c] = m]
    /\ file' = [file EXCEPT ![c] = f]
    /\ sum' = [sum EXCEPT ![c] = IF m = "addChecksum" THEN s ELSE Null]
    /\ at' = [at EXCEPT ![c] = First(m)]
    /\ found' = [found EXCEPT ![c] = FALSE]
    /\ got' = [got EXCEPT ![c] = IF m \in Chained THEN @ ELSE Null]
    /\ stamp' = [stamp EXCEPT ![c] = Null]
    /\ listing' = [listing EXCEPT ![c] = {}]
    /\ UNCHANGED <<fileVars, mutex, now, open, answer, logged>>

\* lock_guard<mutex> lg(m)
Lock(c) ==
    /\ at[c] = "lock"
    /\ mutex = Null
    /\ mutex' = c
    /\ at' = [at EXCEPT ![c] = AfterLock(method[c])]
    /\ UNCHANGED <<fileVars, now, open, callVars, resultVars, answer, logged>>

-----------------------------------------------------------------------------
(* SELECTs.  Step(c, s) steps the SELECT statement s is about.             *)

Step(c, s) ==
    /\ at[c] = s /\ ~open[c]
    /\ StartRead(c)
    /\ open' = [open EXCEPT ![c] = TRUE]
    /\ Stay
    /\ UNCHANGED <<now, callVars>>

\* Mutant of Finalize: the statement is never finalized.
KeepOpen(c, s, next) ==
    /\ at[c] = s /\ open[c]
    /\ UNCHANGED fileVars
    /\ open' = [open EXCEPT ![c] = FALSE]
    /\ found' = [found EXCEPT ![c] = @ /\ s = "salt"]
    /\ GoTo(c, next)
    /\ UNCHANGED <<now, callVars, got, stamp, listing>>

\* The row has been read: finalize and go on, unless reading it ended the process.
Finalize(c, s, next) ==
    /\ at[c] = s /\ open[c]
    /\ IF next = "abort" THEN UNCHANGED fileVars ELSE EndRead(c)
    /\ open' = [open EXCEPT ![c] = FALSE]
    /\ found' = [found EXCEPT ![c] = @ /\ s = "salt"]
    /\ GoTo(c, next)
    /\ UNCHANGED <<now, callVars, got, stamp, listing>>

\* Mutant of Busy: a statement that gets SQLITE_BUSY is tried again.
TryAgain(c, s, next) ==
    /\ at[c] = s /\ ~open[c]
    /\ ~MayRead(c)
    /\ Stay
    /\ UNCHANGED <<fileVars, now, open, callVars, resultVars>>

Busy(c, s, next) ==
    /\ at[c] = s /\ ~open[c]
    /\ ~MayRead(c)
    /\ GoTo(c, next)
    /\ UNCHANGED <<fileVars, now, open, callVars, resultVars>>

Answered(c, yes) ==
    /\ found' = [found EXCEPT ![c] = yes]
    /\ UNCHANGED <<got, stamp, listing>>

\* logUser reads the salt first; without it the digests differ.
ReadSalt(c) ==
    \/ Step(c, "salt") /\ Answered(c, UserOf[c] \in View(c).users)
    \/ Finalize(c, "salt", "select")
    \/ Busy(c, "salt", "select")

ExistsFile(c) ==
    \/ Step(c, "exists") /\ Answered(c, <<UserOf[c], file[c]>> \in View(c).files)
    \/ Finalize(c, "exists", AfterExists(method[c], found[c]))
    \/ Busy(c, "exists", AfterExists(method[c], FALSE))

CheckDeleted(c) ==
    \/ Step(c, "deleted") /\ Answered(c, IsDeleted(View(c).versions, UserOf[c], file[c]))
    \/ Finalize(c, "deleted", AfterDeleted(method[c], found[c]))
    \/ Busy(c, "deleted", "throws")

\* The last SELECT of each reading method.
LogUser(c) ==
    \E right \in BOOLEAN :
        Answered(c, found[c] /\ right /\ UserOf[c] \in View(c).users)

\* Without a row there is no path.
GetPath(c) == Answered(c, UserOf[c] \in View(c).users)

\* The client names the version by its date; a NULL Blob reads as 0.
GetBlob(c) ==
    \/ \E r \in RowsOf(View(c).versions, UserOf[c], file[c]) :
          /\ got' = [got EXCEPT ![c] = IF r.blob = Null THEN 0 ELSE r.blob]
          /\ found' = [found EXCEPT ![c] = TRUE]
          /\ UNCHANGED <<stamp, listing>>
    \/ Answered(c, FALSE)

GetLastBlob(c) ==
    LET rows == WithBlob(RowsOf(View(c).versions, UserOf[c], file[c]))
    IN  \/ \E r \in Last(rows) :
              /\ got' = [got EXCEPT ![c] = r.blob]
              /\ found' = [found EXCEPT ![c] = TRUE]
              /\ UNCHANGED <<stamp, listing>>
        \/ rows = {} /\ Answered(c, FALSE)

\* The lastModified of one of the rows; of any of them when there are several.
ReadStamp(c, rows) ==
    \/ \E r \in rows :
          /\ stamp' = [stamp EXCEPT ![c] = r.stamp]
          /\ found' = [found EXCEPT ![c] = TRUE]
          /\ UNCHANGED <<got, listing>>
    \/ rows = {} /\ Answered(c, FALSE)

GetLastVersion(c) ==
    ReadStamp(c, Last(RowsOf(View(c).versions, UserOf[c], file[c])))

GetBlobVersion(c) ==
    ReadStamp(c, {r \in View(c).versions : r.user = UserOf[c] /\ r.blob = got[c]})

\* A row without a checksum cannot be turned into text.
GetUserFolder(c) ==
    LET rows == FolderRows(View(c).versions, UserOf[c])
    IN  /\ found' = [found EXCEPT ![c] = \A r \in rows : r.checksum # Null]
        /\ listing' = [listing EXCEPT ![c] = {r.file : r \in rows}]
        /\ UNCHANGED <<got, stamp>>

GetDeletedFiles(c) ==
    /\ found' = [found EXCEPT ![c] = TRUE]
    /\ listing' = [listing EXCEPT ![c] =
            {r.file : r \in DeletedRows(View(c).versions, UserOf[c])}]
    /\ UNCHANGED <<got, stamp>>

Select(c) ==
    \/ /\ Step(c, "select")
       /\ CASE method[c] = "logUser" -> LogUser(c)
            [] method[c] = "getPath" -> GetPath(c)
            [] method[c] = "getBlob" -> GetBlob(c)
            [] method[c] = "getLastBlob" -> GetLastBlob(c)
            [] method[c] = "getLastVersion" -> GetLastVersion(c)
            [] method[c] = "getBlobVersion" -> GetBlobVersion(c)
            [] method[c] = "getUserFolder" -> GetUserFolder(c)
            [] method[c] = "getDeletedFiles" -> GetDeletedFiles(c)
            [] OTHER -> Answered(c, TRUE)      \* getFileVersions
    \/ Finalize(c, "select", AfterSelect(method[c], found[c]))
    \/ Busy(c, "select", AfterBusySelect(method[c]))

-----------------------------------------------------------------------------
(* Writes: the statements that change the cache, then COMMIT, then the     *)
(* file.                                                                   *)

AtBody(c, m) == at[c] = "body" /\ method[c] = m

\* createNewBlobForFile: BEGIN (its result is not looked at) and the SELECTs
\* that number the blob, which take the SHARED lock.
CountBlobs(c) ==
    /\ at[c] = "count"
    /\ \/ BeginRead(c) /\ GoTo(c, "body")
       \/ ~MayRead(c) /\ Rollback(c) /\ GoTo(c, "throws")
    /\ UNCHANGED <<now, open, callVars, resultVars>>

\* The INSERT of a numbered version, in a transaction; ok says whether the keys
\* are free.
InsertBlob(c, d, ok) ==
    \/ /\ ~MayWrite(c) \/ ~ok
       /\ Rollback(c)
       /\ GoTo(c, "throws")
       /\ UNCHANGED got
    \/ /\ ok
       /\ \E n \in Blob :
             /\ IsNextBlob(d.versions, UserOf[c], n)
             /\ Reserve(c, AddRow(d, UserOf[c], file[c], Stamp[now], n), TRUE)
             /\ got' = [got EXCEPT ![c] = n]
       /\ GoTo(c, "commit")

\* BEGIN fails inside a transaction an earlier method left open.
CreateFileForUser(c) ==
    LET d == View(c)
        f == <<UserOf[c], file[c]>>
    IN  /\ AtBody(c, "createFileForUser")
        /\ \/ inTxn[c] /\ GoTo(c, "throws") /\ UNCHANGED <<fileVars, got>>
           \/ /\ ~inTxn[c]
              /\ InsertBlob(c, AddFile(d, UserOf[c], file[c]),
                    f \notin d.files /\ KeyFree(d.versions, UserOf[c], file[c], Stamp[now]))
        /\ UNCHANGED <<now, open, callVars, found, stamp, listing>>

CreateNewBlobForFile(c) ==
    /\ AtBody(c, "createNewBlobForFile")
    /\ InsertBlob(c, View(c), KeyFree(View(c).versions, UserOf[c], file[c], Stamp[now]))
    /\ UNCHANGED <<now, open, callVars, found, stamp, listing>>

\* BEGIN, DELETE FROM VERSIONS, DELETE FROM FILES.
RemoveFile(c) ==
    /\ AtBody(c, "removeFile")
    /\ \/ Reserve(c, DropFile(View(c), UserOf[c], file[c]), TRUE) /\ GoTo(c, "commit")
       \/ ~MayWrite(c) /\ Rollback(c) /\ GoTo(c, "throws")
    /\ UNCHANGED <<now, open, callVars, resultVars>>

\* One statement outside BEGIN: it commits itself, unless a transaction was left
\* open or a write statement left active.
Autocommit(c, content, ok) ==
    \/ /\ ok
       /\ Reserve(c, content, inTxn[c])
       /\ GoTo(c, IF inTxn[c] \/ stuck[c] THEN "ok" ELSE "commit")
    \/ /\ MayWrite(c) /\ ~ok
       /\ IF stuck[c] THEN Reserve(c, View(c), inTxn[c]) ELSE UNCHANGED fileVars
       /\ GoTo(c, "throws")

AutocommitBusy(c) == ~MayWrite(c) /\ UNCHANGED fileVars /\ GoTo(c, "throws")

\* Both take the time from getTimestamp(); deleteFile leaves Blob NULL.
AddRowNow(c, b) ==
    \/ Autocommit(c, AddRow(View(c), UserOf[c], file[c], Stamp[now], b),
            KeyFree(View(c).versions, UserOf[c], file[c], Stamp[now]))
    \/ AutocommitBusy(c)

DeleteFile(c) ==
    /\ AtBody(c, "deleteFile")
    /\ AddRowNow(c, Null)
    /\ UNCHANGED <<now, open, callVars, resultVars>>

AddVersion(c) ==
    /\ AtBody(c, "addVersion")
    /\ AddRowNow(c, got[c])
    /\ UNCHANGED <<now, open, callVars, resultVars>>

AddChecksum(c) ==
    /\ AtBody(c, "addChecksum")
    /\ \/ Autocommit(c, SetChecksum(View(c), UserOf[c], got[c], sum[c]), TRUE)
       \/ AutocommitBusy(c)
    /\ UNCHANGED <<now, open, callVars, resultVars>>

\* No mutex, and the statement is never finalized.
RegisterUser(c) ==
    /\ AtBody(c, "registerUser")
    /\ \/ Autocommit(c, AddUser(View(c), UserOf[c]), UserOf[c] \notin View(c).users)
       \/ LeaveActive(c) /\ GoTo(c, "throws")
    /\ UNCHANGED <<now, open, callVars, resultVars>>

\* createFileForUser sleeps and tries again; createNewBlobForFile and removeFile
\* return as if the COMMIT had succeeded; a single statement reports the error.
Commit(c) ==
    /\ at[c] = "commit"
    /\ \/ TakeExclusive(c) /\ GoTo(c, "write")
       \/ CommitNothing(c) /\ GoTo(c, "ok")
       \/ method[c] = "createFileForUser" /\ BlockedCommit(c) /\ Stay
       \/ /\ method[c] \in {"createNewBlobForFile", "removeFile"}
          /\ BlockedCommit(c) /\ GoTo(c, "ok")
       \/ /\ method[c] \in {"deleteFile", "addVersion", "addChecksum", "registerUser"}
          /\ ~MayCommit(c) /\ Rollback(c) /\ GoTo(c, "throws")
    /\ UNCHANGED <<now, open, callVars, resultVars>>

Write(c) ==
    /\ at[c] = "write"
    /\ WriteFile(c)
    /\ GoTo(c, "ok")
    /\ UNCHANGED <<now, open, callVars, resultVars>>

-----------------------------------------------------------------------------
(* The thread, the process and the clock.                                  *)

\* The thread ends between two methods; its DatabaseHandler is never deleted, so
\* the connection stays open with whatever lock it holds.
Leave(c) ==
    /\ at[c] = "idle"
    /\ at' = [at EXCEPT ![c] = "gone"]
    /\ UNCHANGED <<fileVars, mutex, now, open, callVars, resultVars, answer, logged>>

\* The process dies, killed or by an access violation, and is started again:
\* every client has a new session.
Crash ==
    /\ FileCrash
    /\ mutex' = Null
    /\ at' = [c \in Session |-> "idle"]
    /\ open' = [c \in Session |-> FALSE]
    /\ found' = [c \in Session |-> FALSE]
    /\ got' = [c \in Session |-> Null]
    /\ stamp' = [c \in Session |-> Null]
    /\ listing' = [c \in Session |-> {}]
    /\ answer' = [c \in Session |-> "ok"]
    /\ logged' = [c \in Session |-> c \in LoggedIn]
    /\ UNCHANGED <<now, callVars>>

Tick ==
    /\ now < MaxTime
    /\ now' = now + 1
    /\ UNCHANGED <<fileVars, mutex, at, open, callVars, resultVars, answer, logged>>

\* One statement of the method session c is in.
Running(c) ==
    \/ Lock(c)
    \/ ReadSalt(c) \/ ExistsFile(c) \/ CheckDeleted(c) \/ Select(c)
    \/ CountBlobs(c)
    \/ CreateFileForUser(c) \/ CreateNewBlobForFile(c) \/ RemoveFile(c)
    \/ DeleteFile(c) \/ AddVersion(c) \/ AddChecksum(c) \/ RegisterUser(c)
    \/ Commit(c) \/ Write(c)

Next ==
    \/ \E c \in Session :
          \/ \E m \in AllMethods, f \in File, s \in Checksum : Call(c, m, f, s)
          \/ Running(c)
          \/ Leave(c)
    \/ Crash
    \/ Tick

Spec == Init /\ [][Next]_vars

\* The system schedules every thread, and ends a process that faulted.
FairSpec ==
    /\ Spec
    /\ \A c \in Session : WF_vars(Running(c))
    /\ WF_vars(Crash /\ \E c \in Session : at[c] = "abort")

-----------------------------------------------------------------------------
(* Properties.                                                             *)

TypeOK ==
    /\ db \in Content /\ work \in Content
    /\ lock \in [Session -> Locks]
    /\ inTxn \in [Session -> BOOLEAN] /\ stuck \in [Session -> BOOLEAN]
    /\ mutex \in Session \cup {Null}
    /\ now \in Time
    /\ at \in [Session -> Statements \cup {"idle", "abort", "gone"}]
    /\ open \in [Session -> BOOLEAN]
    /\ method \in [Session -> AllMethods]
    /\ file \in [Session -> File]
    /\ sum \in [Session -> Checksum \cup {Null}]
    /\ found \in [Session -> BOOLEAN]
    /\ got \in [Session -> Blob \cup {Null}]
    /\ stamp \in [Session -> Stamps \cup {Null}]
    /\ listing \in [Session -> SUBSET File]
    /\ answer \in [Session -> Answers]
    /\ logged \in [Session -> BOOLEAN]

\* Every file of FILES has a version that a download can serve: getLastBlob
\* (DatabaseHandler.cpp:1119) never finds its file without a blob, whatever
\* methods overlap, fail half-way or die with the process.
HasBlob(d) ==
    \A p \in d.files : WithBlob(RowsOf(d.versions, p[1], p[2])) # {}

FileHasBlob == HasBlob(db)

\* The number createFileForUser and createNewBlobForFile hand out
\* (DatabaseHandler.cpp:525, 642) names one row of the user at the moment it is
\* committed: no other session can take the same MAX(Blob) + 1 in between.
BlobHandedOnce ==
    \A c \in Session :
        at[c] \in {"commit", "write"}
          /\ method[c] \in {"createFileForUser", "createNewBlobForFile"} =>
        \A r, q \in work.versions :
            r.user = UserOf[c] /\ q.user = UserOf[c] /\ r.blob = got[c] /\ q.blob = got[c]
              => r = q

\* No commit loses or repoints a version, except together with its file: a
\* transaction never writes back a copy of the tables older than the file's.
Kept(r, d) ==
    \/ \E q \in d.versions : /\ q.user = r.user /\ q.file = r.file
                             /\ q.stamp = r.stamp /\ q.blob = r.blob
    \/ <<r.user, r.file>> \notin d.files

VersionsKept == [][\A r \in db.versions : Kept(r, db')]_vars

\* A commit of one user's session leaves the rows of every other user alone.
OwnRows(u, d) == {r \in d.versions : r.user = u}

OtherUsersUntouched ==
    [][\A u \in User :
          \/ \E c \in Session : UserOf[c] = u /\ at[c] = "write"
          \/ OwnRows(u, db') = OwnRows(u, db)]_vars

\* Every row of VERSIONS belongs to a file of FILES.
NoOrphanVersions == \A r \in db.versions : <<r.user, r.file>> \in db.files

\* A blob number of a user belongs to one file, through removals after which the
\* number is handed out again (515-525) and through restores: no download of a file
\* serves another one's content.  Number 0 is left out: getBlob reads the NULL of a
\* deletion as 0 (1023), and downloadPreviousVersion restores that number into a
\* file it does not belong to.
BlobOfOneFile ==
    \A r, q \in db.versions :
        r.user = q.user /\ r.blob = q.blob /\ r.blob \notin {Null, 0} => r.file = q.file

\* The last change of a file decides: once deleteFile (DatabaseHandler.cpp:666) is
\* committed the file counts as deleted, once a method that stores or restores
\* a version is committed it does not, although isDeleted and the listings only
\* see the largest date text.
NewestDecides ==
    [][\A c \in Session : Write(c) =>
          /\ method[c] = "deleteFile" => IsDeleted(db'.versions, UserOf[c], file[c])
          /\ method[c] \in {"createFileForUser", "createNewBlobForFile", "addVersion"} =>
                ~IsDeleted(db'.versions, UserOf[c], file[c])]_vars

\* getUserFolder returns an entry for each file (DatabaseHandler.h:50-54): no
\* state of the tables ends the process in the middle of it.
ListingReturns == \A c \in Session : at[c] # "abort"

\* "commit was done" (DatabaseHandler.cpp:660): when createNewBlobForFile returned
\* a number, the file holds the version with that number.
CommitWasDone ==
    \A c \in Session :
        at[c] = "idle" /\ method[c] = "createNewBlobForFile" /\ answer[c] = "ok" /\ got[c] # Null =>
            \E r \in RowsOf(db.versions, UserOf[c], file[c]) : r.blob = got[c]

\* Whoever owns m lets it go: the loop around createFileForUser's COMMIT
\* (DatabaseHandler.cpp:552) ends, since no reader stays and no new one is let in.
MutexReleased == \A c \in Session : (mutex = c) ~> (mutex # c)

=============================================================================
