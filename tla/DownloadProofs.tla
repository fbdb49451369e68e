---------------------------- MODULE DownloadProofs ----------------------------
(***************************************************************************)
(* What a download promises a client that has the server for itself:       *)
(* answered with OK, it leaves the content it delivered as the last        *)
(* version of the file.  The proof follows a         *)
(* download from the SELECTs that compare two dates, or from the INSERT    *)
(* that restores a version, to the answer.                                 *)
(***************************************************************************)
EXTENDS UploadProofs, NewestVersionProofs

\* No registerUser (DatabaseHandler.cpp:190) met SQLITE_BUSY: one that does leaves
\* a statement active, and what its connection writes from then on is answered with
\* OK and not committed (run broken_sign_in).
NoneActive == \A c \in Session : ~stuck[c]

-----------------------------------------------------------------------------
(* The inductive invariant, beside IInv, HandlerInv, UploadInv and Past.   *)

\* A connection holds its write lock only to commit.
WritesToCommit(c) == lock[c] \in Writing => at[c] \in {"commit", "write"}

\* The versions of the file of c in the tables d.
FileRows(c, d) == RowsOf(d.versions, UserOf[c], file[c])

EndedWell(c) == at[c] = "idle" /\ answer[c] = "ok"

\* The SELECT of a date has found its row.
DateRead(c) == (at[c] = "select" /\ open[c] /\ found[c]) \/ EndedWell(c)

IsLastDate(c, s) == \E r \in Last(FileRows(c, View(c))) : r.stamp = s

\* The two dates downloadLastVersion compares.
DatesRead(c) ==
    /\ step[c] = "compare" /\ DateRead(c) => IsLastDate(c, stamp[c])
    /\ step[c] = "match" => IsLastDate(c, last[c])
    /\ step[c] = "match" /\ DateRead(c) => \E r \in Naming(c, View(c), got[c]) : r.stamp = stamp[c]

\* The last version of the file is the blob that was delivered.
GotIsLast(c, d) == \E r \in Last(FileRows(c, d)) : r.blob = got[c]

\* From the INSERT of addVersion to the answer.
Restoring(c) ==
    \/ step[c] = "restore" /\ (at[c] \in {"commit", "write"} \/ EndedWell(c))
    \/ step[c] = "mark" /\ (at[c] \in {"lock", "body", "commit", "write"} \/ EndedWell(c))

OwnDownload(c) ==
    /\ WritesToCommit(c)
    /\ DatesRead(c)
    /\ Restoring(c) => GotIsLast(c, View(c))

DownloadInv == \A c \in Session : OwnDownload(c)

-----------------------------------------------------------------------------
(* Writing.                                                                *)

\* One statement outside a transaction is committed, or changes nothing.
LEMMA OneStatement ==
    ASSUME TypeOK, NEW c \in Session, ~stuck[c], ~inTxn[c], NEW d, NEW ok,
           Autocommit(c, d, ok) \/ AutocommitBusy(c)
    PROVE  \/ ok /\ Reserve(c, d, FALSE) /\ at'[c] = "commit"
           \/ UNCHANGED fileVars /\ at'[c] = "idle" /\ answer'[c] = "throws"
<1>1. /\ GoTo(c, "commit") => at'[c] = "commit"
      /\ GoTo(c, "throws") => at'[c] = "idle" /\ answer'[c] = "throws"
  BY GoToEnds DEF Answers
<1>2. inTxn[c] = FALSE
  BY DEF TypeOK
<1>3. QED
  BY <1>1, <1>2 DEF Autocommit, AutocommitBusy

LEMMA LockToCommit ==
    ASSUME TypeOK, NEW c \in Session, Running(c), ~Ignored(c), ~stuck[c], InsideMethod(c),
           WritesToCommit(c)
    PROVE  WritesToCommit(c)'
<1> DEFINE Free == lock'[c] \notin Writing
<1>0. /\ lock \in [Session -> Locks] /\ at[c] \in Statements
      /\ GoTo(c, "commit") => at'[c] = "commit"
      /\ GoTo(c, "write") => at'[c] = "write"
  BY GoToEnds, RunningNumber DEF TypeOK, Answers, Statements
<1>1. Rollback(c) => Free
  BY <1>0 DEF Rollback, Writing
<1>2. at[c] \notin {"commit", "write"} => lock[c] \notin Writing
  BY DEF WritesToCommit
<1>3. ASSUME at[c] \notin {"commit", "write"},
             UNCHANGED fileVars \/ StartRead(c) \/ EndRead(c) \/ BeginRead(c)
      PROVE  Free
  BY <1>0, <1>2, <1>3 DEF fileVars, StartRead, EndRead, BeginRead, Writing
<1>4. CASE at[c] \in {"salt", "exists", "deleted", "select", "lock"}
  <2>1. Lock(c) \/ ReadSalt(c) \/ ExistsFile(c) \/ CheckDeleted(c) \/ Select(c)
    BY <1>4, ReadsKeepView
  <2>2. UNCHANGED fileVars \/ StartRead(c) \/ EndRead(c)
    BY <2>1 DEF Lock, ReadSalt, ExistsFile, CheckDeleted, Select, Step, Finalize, Busy
  <2>3. QED
    BY <1>3, <1>4, <2>2 DEF WritesToCommit
<1>5. CASE CountBlobs(c)
  BY <1>1, <1>3, <1>5 DEF CountBlobs, WritesToCommit
<1>6. CASE CreateFileForUser(c) \/ CreateNewBlobForFile(c) \/ RemoveFile(c)
  BY <1>0, <1>1, <1>3, <1>6
  DEF CreateFileForUser, CreateNewBlobForFile, InsertBlob, RemoveFile, AtBody, WritesToCommit
<1>7. CASE DeleteFile(c) \/ AddVersion(c) \/ AddChecksum(c) \/ RegisterUser(c)
  <2>1. at[c] = "body" /\ method[c] # "createNewBlobForFile"
    BY <1>7 DEF DeleteFile, AddVersion, AddChecksum, RegisterUser, AtBody
  <2>2. ~inTxn[c]
    BY <2>1 DEF InsideMethod
  <2>3. CASE \E d, ok : Autocommit(c, d, ok) \/ AutocommitBusy(c)
    BY <1>3, <2>1, <2>2, <2>3, OneStatement DEF WritesToCommit
  <2>4. CASE LeaveActive(c)
    BY <1>2, <2>1, <2>4 DEF LeaveActive, WritesToCommit
  <2>5. QED
    BY <1>7, <2>3, <2>4 DEF DeleteFile, AddVersion, AddChecksum, RegisterUser, AddRowNow
<1>8. CASE Commit(c)
  <2>1. CASE CommitNothing(c) \/ Rollback(c)
    BY <1>0, <1>1, <2>1 DEF CommitNothing, WritesToCommit, Writing
  <2>2. CASE method[c] = "createFileForUser" /\ BlockedCommit(c) /\ Stay
    BY <1>8, <2>2 DEF Commit, Stay, WritesToCommit
  <2>3. QED
    BY <1>0, <1>8, <2>1, <2>2 DEF Commit, Ignored, WritesToCommit
<1>9. CASE Write(c)
  BY <1>0, <1>9 DEF Write, WriteFile, Writing, WritesToCommit
<1>10. QED
  BY <1>4, <1>5, <1>6, <1>7, <1>8, <1>9
  DEF Running, Lock, ReadSalt, ExistsFile, CheckDeleted, Select, Step, Finalize, Busy

-----------------------------------------------------------------------------
(* The comparison of the dates.                                            *)

\* What a step of a download relies on.
LEMMA DownloadMethods ==
    ASSUME IInv, HandlerInv, UploadInv, NEW c \in Session, Statement(c)
    PROVE  /\ step[c] = "compare" => method[c] = "getLastVersion"
           /\ step[c] = "match" => method[c] = "getBlobVersion"
           /\ step[c] \in {"compare", "match"} => at[c] = "select"
           /\ step[c] = "restore" => method[c] = "addVersion"
           /\ step[c] = "mark" => method[c] = "addChecksum"
           /\ step[c] \in {"compare", "match", "restore", "mark"} => got' = got /\ got[c] # Null
<1>1. method[c] \in MethodsAt(step[c]) /\ at[c] \in Statements /\ at[c] \in Places(method[c])
  BY StatementFacts DEF InOperation
<1>2. /\ step[c] = "compare" => method[c] = "getLastVersion"
      /\ step[c] = "match" => method[c] = "getBlobVersion"
      /\ step[c] = "restore" => method[c] = "addVersion"
      /\ step[c] = "mark" => method[c] = "addChecksum"
  BY <1>1, StepMethods
<1>3. step[c] \in {"compare", "match"} => at[c] = "select"
  BY <1>1, <1>2 DEF Places, Statements
<1>4. step[c] \in {"compare", "match", "restore", "mark"} => got' = got /\ got[c] # Null
  BY <1>2, StatementFacts, RunningNumber DEF Equipped, WithNumber
<1>5. QED
  BY <1>2, <1>3, <1>4

\* How the SELECT of a date goes.
LEMMA DateSelected ==
    ASSUME TypeOK, NEW c \in Session, Running(c), at[c] = "select",
           method[c] \in {"getLastVersion", "getBlobVersion"}, DateRead(c)'
    PROVE  \/ DateRead(c) /\ stamp' = stamp
           \/ \E r \in IF method[c] = "getLastVersion" THEN Last(FileRows(c, View(c)))
                       ELSE Naming(c, View(c), got[c]) :
                 stamp'[c] = r.stamp
<1>1. Select(c)
  BY ReadsKeepView DEF Lock, ReadSalt, ExistsFile, CheckDeleted, Step, Finalize, Busy
<1>2. \A s : GoTo(c, s) => /\ at'[c] = IF s \in Answers THEN "idle" ELSE s
                           /\ s \in Answers => answer'[c] = s
  BY GoToEnds
<1>3. CASE Step(c, "select")
  <2>1. ~open[c] /\ at'[c] = "select"
    BY <1>3 DEF Step, Stay
  <2>2. found'[c]
    BY <2>1 DEF DateRead, EndedWell
  <2>3. \/ GetLastVersion(c) /\ method[c] = "getLastVersion"
        \/ GetBlobVersion(c) /\ method[c] = "getBlobVersion"
    <3>1. ~Finalize(c, "select", AfterSelect(method[c], found[c]))
      BY <2>1 DEF Finalize
    <3>2. ~Busy(c, "select", AfterBusySelect(method[c]))
      BY <1>2, <2>1 DEF Busy, AfterBusySelect, Answers
    <3>3. CASE method[c] = "getLastVersion"
      BY <1>1, <3>1, <3>2, <3>3 DEF Select
    <3>4. CASE method[c] = "getBlobVersion"
      BY <1>1, <3>1, <3>2, <3>4 DEF Select
    <3>5. QED
      BY <3>3, <3>4
  <2>4. ~Answered(c, FALSE)
    BY <2>2 DEF Answered, TypeOK
  <2>5. \A rows : ReadStamp(c, rows) => \E r \in rows : stamp'[c] = r.stamp
    BY <2>4 DEF ReadStamp, TypeOK
  <2>6. QED
    BY <2>3, <2>5 DEF GetLastVersion, GetBlobVersion, FileRows, Naming
<1>4. CASE Finalize(c, "select", AfterSelect(method[c], found[c]))
  <2>1. open[c] /\ stamp' = stamp /\ ~found'[c]
    BY <1>4 DEF Finalize, TypeOK
  <2>2. EndedWell(c)'
    BY <2>1 DEF DateRead
  <2>3. GoTo(c, AfterSelect(method[c], found[c]))
    BY <1>4 DEF Finalize
  <2>4. ~found[c] => AfterSelect(method[c], found[c]) \in {"abort", "throws"}
    BY DEF AfterSelect
  <2>5. found[c]
    BY <1>2, <2>2, <2>3, <2>4 DEF EndedWell, Answers
  <2>6. QED
    BY <2>1, <2>5 DEF DateRead
<1>5. CASE Busy(c, "select", AfterBusySelect(method[c]))
  <2>1. GoTo(c, "throws") /\ ~open[c]
    BY <1>5 DEF Busy, AfterBusySelect
  <2>2. at'[c] = "idle" /\ answer'[c] = "throws"
    BY <1>2, <2>1 DEF Answers
  <2>3. QED
    BY <2>2 DEF DateRead, EndedWell
<1>6. QED
  BY <1>1, <1>3, <1>4, <1>5 DEF Select

LEMMA DatesKept ==
    ASSUME IInv, HandlerInv, UploadInv, NEW c \in Session, Statement(c), DatesRead(c)
    PROVE  DatesRead(c)'
<1> SUFFICES ASSUME step[c] \in {"compare", "match"}
             PROVE  DatesRead(c)'
  BY StatementFacts DEF DatesRead
<1>1. /\ at[c] = "select" /\ got' = got
      /\ step[c] = "compare" => method[c] = "getLastVersion"
      /\ step[c] = "match" => method[c] = "getBlobVersion"
  BY DownloadMethods
<1>2. /\ TypeOK /\ Running(c) /\ View(c)' = View(c) /\ step' = step /\ last' = last
      /\ UNCHANGED <<FileRows(c, View(c)), Naming(c, View(c), got[c])>>
  BY <1>1, StatementFacts, ReadsKeepView DEF Statement, handlerVars, FileRows, Naming
<1>3. ASSUME DateRead(c)'
      PROVE  /\ step[c] = "compare" => \E r \in Last(FileRows(c, View(c))) : r.stamp = stamp'[c]
             /\ step[c] = "match" => \E r \in Naming(c, View(c), got[c]) : r.stamp = stamp'[c]
  BY <1>1, <1>2, <1>3, DateSelected DEF DatesRead, IsLastDate
<1>4. QED
  BY <1>2, <1>3 DEF DatesRead, IsLastDate

-----------------------------------------------------------------------------
(* The restored version.                                                   *)

\* A method that reports success committed what was in its cache.
LEMMA EndsCommitted ==
    ASSUME TypeOK, LocksCompatible, CommitLocked, NEW c \in Session, Running(c), ~Ignored(c),
           at[c] \in {"commit", "write"}, EndedWell(c)'
    PROVE  db' = work
<1>1. \A s : GoTo(c, s) => /\ at'[c] = IF s \in Answers THEN "idle" ELSE s
                           /\ s \in Answers => answer'[c] = s
  BY GoToEnds
<1>2. CASE Commit(c)
  <2>1. ~GoTo(c, "write") /\ ~GoTo(c, "throws") /\ ~Stay
    BY <1>1 DEF EndedWell, Answers, Stay
  <2>2. CommitNothing(c)
    BY <1>2, <2>1 DEF Commit, Ignored
  <2>3. QED
    BY <2>2 DEF CommitNothing
<1>3. CASE Write(c)
  BY <1>3 DEF Write, WriteFile
<1>4. QED
  BY <1>2, <1>3, AtCommit

\* UPDATE VERSIONS SET checksum changes no date and no blob.
LEMMA MarkedIsLast ==
    ASSUME NEW c \in Session, NEW d \in Content, GotIsLast(c, d), NEW b, NEW k
    PROVE  GotIsLast(c, SetChecksum(d, UserOf[c], b, k))
<1> DEFINE e == SetChecksum(d, UserOf[c], b, k)
<1>1. PICK q \in d.versions : /\ q.user = UserOf[c] /\ q.file = file[c] /\ q.blob = got[c]
                              /\ \A p \in FileRows(c, d) : p.stamp <= q.stamp
  BY DEF GotIsLast, Last, FileRows, RowsOf
<1>2. PICK r \in e.versions :
         r.user = q.user /\ r.file = q.file /\ r.stamp = q.stamp /\ r.blob = q.blob
  BY ChecksumRows
<1>3. ASSUME NEW p \in FileRows(c, e)
      PROVE  p.stamp <= r.stamp
  <2>1. PICK o \in d.versions : p.user = o.user /\ p.file = o.file /\ p.stamp = o.stamp
    BY <1>3, ChecksumRows DEF FileRows, RowsOf
  <2>2. o \in FileRows(c, d)
    BY <1>3, <2>1 DEF FileRows, RowsOf
  <2>3. QED
    BY <1>1, <1>2, <2>1, <2>2
<1> HIDE DEF e
<1>4. r \in FileRows(c, e)
  BY <1>1, <1>2 DEF FileRows, RowsOf
<1>5. GotIsLast(c, e)
  BY <1>1, <1>2, <1>3, <1>4 DEF GotIsLast, Last
<1>6. QED
  BY <1>5 DEF e

\* What a connection reads: its cache when it commits, else the file.
LEMMA WhatIsRead ==
    ASSUME CommitLocked, NEW c \in Session, WritesToCommit(c)
    PROVE  View(c) = IF at[c] \in {"commit", "write"} THEN work ELSE db
BY DEF CommitLocked, WritesToCommit, View

LEMMA RestoredKept ==
    ASSUME StampsIncrease, IInv, HandlerInv, UploadInv, Past(db), Past(work),
           NEW c \in Session, Statement(c), ~Ignored(c), ~stuck[c], WritesToCommit(c),
           Restoring(c) => GotIsLast(c, View(c)), Restoring(c)'
    PROVE  GotIsLast(c, View(c))'
<1>0. /\ TypeOK /\ LocksCompatible /\ CommitLocked /\ Running(c) /\ InsideMethod(c)
      /\ UNCHANGED <<method, file, step, sum>> /\ at[c] \in Statements
      /\ at[c] \in Places(method[c])
  BY StatementFacts
<1>1. step[c] \in {"restore", "mark"} /\ got' = got /\ got[c] # Null
  BY <1>0, DownloadMethods DEF Restoring
<1>2. CommitLocked' /\ WritesToCommit(c)'
  BY <1>0, LockToCommit, NextInvariant DEF Next, IInv
<1>3. /\ View(c) = IF at[c] \in {"commit", "write"} THEN work ELSE db
      /\ View(c)' = IF at'[c] \in {"commit", "write"} THEN work' ELSE db'
  BY <1>0, <1>2, WhatIsRead DEF CommitLocked, WritesToCommit, View
<1>4. ASSUME NEW e, View(c)' = e, GotIsLast(c, e)
      PROVE  GotIsLast(c, View(c))'
  BY <1>0, <1>1, <1>4 DEF GotIsLast, FileRows
<1>5. \A s : GoTo(c, s) => /\ at'[c] = IF s \in Answers THEN "idle" ELSE s
                           /\ s \in Answers => answer'[c] = s
  BY <1>0, GoToEnds
<1>6. CASE at[c] \in {"commit", "write"}
  <2>1. GotIsLast(c, work)
    BY <1>1, <1>3, <1>6 DEF Restoring
  <2>2. at'[c] \in {"commit", "write"} \/ EndedWell(c)'
    <3>1. at'[c] \notin {"lock", "body"}
      BY <1>0, <1>5, <1>6, AtCommit DEF Commit, Write, Stay, Answers
    <3>2. QED
      BY <3>1 DEF Restoring
  <2>3. View(c)' = work
    BY <1>0, <1>3, <1>6, <2>2, AtCommit, EndsCommitted DEF EndedWell
  <2>4. QED
    BY <1>4, <2>1, <2>3
<1>7. CASE step[c] = "restore" /\ at[c] \notin {"commit", "write"}
  <2>1. method[c] = "addVersion" /\ at[c] \in {"exists", "lock", "body"}
    BY <1>0, <1>7, DownloadMethods DEF Places
  <2>2. at'[c] \in {"commit", "write"} \/ EndedWell(c)'
    BY <1>0, <1>7 DEF Restoring
  <2>3. ~Lock(c)
    BY <1>0, <2>1, <2>2 DEF Lock, AfterLock, TypeOK, EndedWell
  <2>4. ~ExistsFile(c)
    <3>1. \A yes : AfterExists(method[c], yes) \in {"lock", "throws"}
      BY <2>1 DEF AfterExists
    <3>2. \A s \in {"lock", "throws"} : ~GoTo(c, s)
      BY <1>5, <2>2 DEF EndedWell, Answers
    <3>3. ~Step(c, "exists")
      BY <2>2 DEF Step, Stay, EndedWell
    <3>4. QED
      BY <3>1, <3>2, <3>3 DEF ExistsFile, Finalize, Busy
  <2>5. AddVersion(c)
    BY <1>0, <2>1, <2>3, <2>4
    DEF Running, ReadSalt, CheckDeleted, Select, CountBlobs, Step, Finalize, Busy,
        CreateFileForUser, CreateNewBlobForFile, RemoveFile, DeleteFile, AddChecksum,
        RegisterUser, AtBody, Commit, Write
  <2>6. ~inTxn[c] /\ at[c] = "body"
    BY <1>0, <2>1, <2>5 DEF AddVersion, AtBody, InsideMethod
  <2>7. /\ KeyFree(db.versions, UserOf[c], file[c], Stamp[now])
        /\ at'[c] = "commit" /\ work' = AddRow(db, UserOf[c], file[c], Stamp[now], got[c])
    <3>1. View(c) = db
      BY <1>3, <2>6
    <3>2. ~(at'[c] = "idle" /\ answer'[c] = "throws")
      BY <2>2 DEF EndedWell
    <3>3. QED
      BY <1>0, <2>5, <2>6, <3>1, <3>2, OneStatement DEF AddVersion, AddRowNow, Reserve
  <2>8. got[c] \in Blob \cup {Null} /\ db \in Content /\ UserOf[c] \in User /\ file[c] \in File
    BY <1>0, SessionFacts DEF TypeOK
  <2>9. GotIsLast(c, work')
    <3>1. PICK d \in Content, u \in User, f \in File, b \in Blob \cup {Null} :
             d = db /\ u = UserOf[c] /\ f = file[c] /\ b = got[c]
      BY <2>8
    <3>2. Past(d) /\ KeyFree(d.versions, u, f, Stamp[now])
      BY <2>7, <3>1
    <3>3. PICK r : Last(RowsOf(AddRow(d, u, f, Stamp[now], b).versions, u, f)) = {r} /\ r.blob = b
      BY <1>0, <3>2, NewRowIsLast
    <3>4. QED
      BY <2>7, <3>1, <3>3 DEF GotIsLast, FileRows
  <2>10. QED
    BY <1>3, <1>4, <2>7, <2>9
<1>8. CASE step[c] = "mark" /\ at[c] \notin {"commit", "write"}
  <2>1. method[c] = "addChecksum" /\ at[c] \in {"lock", "body"}
    BY <1>0, <1>8, DownloadMethods DEF Places
  <2>2. GotIsLast(c, db) /\ View(c) = db
    BY <1>3, <1>8, <2>1 DEF Restoring
  <2>3. Lock(c) \/ AddChecksum(c)
    BY <1>0, <2>1
    DEF Running, ReadSalt, ExistsFile, CheckDeleted, Select, CountBlobs, Step, Finalize, Busy,
        CreateFileForUser, CreateNewBlobForFile, RemoveFile, DeleteFile, AddVersion,
        RegisterUser, AtBody, Commit, Write
  <2>4. CASE Lock(c)
    BY <1>0, <1>4, <2>2, <2>4, ReadsKeepView DEF Lock
  <2>5. CASE AddChecksum(c)
    <3>1. ~inTxn[c] /\ at[c] = "body"
      BY <1>0, <2>1, <2>5 DEF AddChecksum, AtBody, InsideMethod
    <3>2. ~(at'[c] = "idle" /\ answer'[c] = "throws")
      BY <1>0, <1>8 DEF Restoring, EndedWell
    <3>3. at'[c] = "commit" /\ work' = SetChecksum(db, UserOf[c], got[c], sum[c])
      BY <1>0, <2>2, <2>5, <3>1, <3>2, OneStatement DEF AddChecksum, Reserve
    <3>4. GotIsLast(c, SetChecksum(db, UserOf[c], got[c], sum[c]))
      BY <1>0, <2>2, MarkedIsLast DEF TypeOK
    <3>5. QED
      BY <1>3, <1>4, <3>3, <3>4
  <2>6. QED
    BY <2>3, <2>4, <2>5
<1>9. QED
  BY <1>1, <1>6, <1>7, <1>8

-----------------------------------------------------------------------------
(* The steps of others, and of the exchange with the client.               *)

\* What a session's part of DownloadInv reads, beside its rows.
DownloadPart(o) == <<PartOf(o), stamp[o], last[o], file[o], lock[o]>>

LEMMA SameDownload ==
    ASSUME NEW o \in Session, OwnDownload(o), UNCHANGED DownloadPart(o),
           NEW d, d = View(o), NEW e, e = View(o)', OwnRows(UserOf[o], e) = OwnRows(UserOf[o], d)
    PROVE  OwnDownload(o)'
<1>1. FileRows(o, e) = FileRows(o, d) /\ \A b : Naming(o, e, b) = Naming(o, d, b)
  <2>1. OwnRows(UserOf[o], d) = {r \in d.versions : r.user = UserOf[o]}
        /\ OwnRows(UserOf[o], e) = {r \in e.versions : r.user = UserOf[o]}
    BY DEF OwnRows
  <2>2. \A r : (r \in d.versions /\ r.user = UserOf[o]) <=> (r \in e.versions /\ r.user = UserOf[o])
    BY <2>1
  <2>3. FileRows(o, e) = FileRows(o, d)
    BY <2>2 DEF FileRows, RowsOf
  <2>4. ASSUME NEW b
        PROVE  Naming(o, e, b) = Naming(o, d, b)
    BY <2>2 DEF Naming
  <2>5. QED
    BY <2>3, <2>4
<1>2. /\ FileRows(o, View(o))' = FileRows(o, View(o))
      /\ Naming(o, View(o), got[o])' = Naming(o, View(o), got[o])
  BY <1>1 DEF DownloadPart, PartOf, FileRows, Naming
<1>3. /\ \A t : IsLastDate(o, t)' = IsLastDate(o, t)
      /\ GotIsLast(o, View(o))' = GotIsLast(o, View(o))
  BY <1>2 DEF DownloadPart, PartOf, IsLastDate, GotIsLast
<1>4. /\ DateRead(o)' = DateRead(o) /\ Restoring(o)' = Restoring(o)
      /\ UNCHANGED <<step[o], stamp[o], last[o], lock[o], at[o]>>
  BY DEF DownloadPart, PartOf, DateRead, EndedWell, Restoring
<1>5. WritesToCommit(o)' /\ DatesRead(o)'
  BY <1>2, <1>3, <1>4 DEF OwnDownload, WritesToCommit, DatesRead, IsLastDate
<1>6. QED
  BY <1>3, <1>4, <1>5 DEF OwnDownload

LEMMA OthersDates ==
    ASSUME TypeOK, NEW c \in Session, Running(c), NEW o \in Session \ {c}
    PROVE  stamp'[o] = stamp[o]
<1>1. \A yes : Answered(c, yes) => stamp' = stamp
  BY DEF Answered
<1>2. \A rows : ReadStamp(c, rows) => stamp'[o] = stamp[o]
  BY <1>1 DEF ReadStamp, TypeOK
<1>3. ASSUME NEW s, NEW next, Finalize(c, s, next) \/ Busy(c, s, next)
      PROVE  stamp' = stamp
  BY <1>3 DEF Finalize, Busy, resultVars
<1>4. CASE Select(c)
  <2>1. CASE Step(c, "select") /\ method[c] \in {"getLastVersion", "getBlobVersion"}
    <3>1. ~open[c]
      BY <2>1 DEF Step
    <3>2. CASE method[c] = "getLastVersion"
      BY <1>2, <1>3, <1>4, <3>2 DEF Select, GetLastVersion
    <3>3. CASE method[c] = "getBlobVersion"
      BY <1>2, <1>3, <1>4, <3>3 DEF Select, GetBlobVersion
    <3>4. QED
      BY <2>1, <3>2, <3>3
  <2>2. CASE method[c] \notin {"getLastVersion", "getBlobVersion"}
    BY <1>1, <1>3, <1>4, <2>2
    DEF Select, LogUser, GetPath, GetBlob, GetLastBlob, GetUserFolder, GetDeletedFiles
  <2>3. QED
    BY <1>3, <1>4, <2>1, <2>2 DEF Select
<1>5. CASE Lock(c) \/ ReadSalt(c) \/ ExistsFile(c) \/ CheckDeleted(c)
  BY <1>1, <1>3, <1>5 DEF Lock, ReadSalt, ExistsFile, CheckDeleted, resultVars
<1>6. QED
  BY <1>4, <1>5
  DEF Running, CountBlobs, CreateFileForUser, CreateNewBlobForFile, RemoveFile, DeleteFile,
      AddVersion, AddChecksum, RegisterUser, Commit, Write, resultVars

LEMMA StatementDownload ==
    ASSUME OneSessionEach, StampsIncrease, IInv, HandlerInv, HistoryInv, UploadInv, NewestInv,
           NoneActive, DownloadInv, NEW c \in Session, Statement(c), ~Ignored(c)
    PROVE  DownloadInv'
<1>0. TypeOK /\ LocksCompatible /\ CommitLocked /\ CacheOwn /\ Running(c) /\ FileStep(c)
  BY StatementFacts DEF IInv
<1>1. OwnDownload(c)'
  <2>1. WritesToCommit(c)'
    BY <1>0, StatementFacts, LockToCommit DEF DownloadInv, OwnDownload, NoneActive
  <2>2. DatesRead(c)'
    BY DatesKept DEF DownloadInv, OwnDownload
  <2>3. Restoring(c)' => GotIsLast(c, View(c))'
    BY RestoredKept DEF DownloadInv, OwnDownload, NoneActive, NewestInv
  <2>4. QED
    BY <2>1, <2>2, <2>3 DEF OwnDownload
<1>2. ASSUME NEW o \in Session \ {c}
      PROVE  OwnDownload(o)'
  <2>1. UNCHANGED DownloadPart(o)
    BY <1>0, OthersStay, OthersAnswers, OthersDates, CallStays
    DEF DownloadPart, PartOf, Statement, handlerVars, callVars
  <2>2. OwnRows(UserOf[o], View(o)') = OwnRows(UserOf[o], View(o))
    BY <1>0, OthersView
  <2>3. QED
    BY <2>1, <2>2, SameDownload DEF DownloadInv
<1>3. QED
  BY <1>1, <1>2 DEF DownloadInv

-----------------------------------------------------------------------------
(* A step of the exchange with the client.                                 *)

\* How a download comes to its second date, and to the checksum of its version.
Leads(c) ==
    /\ step'[c] = "match" => Returned(c, "compare", {"ok"}) /\ last'[c] = stamp[c]
    /\ step'[c] = "mark" => Returned(c, "restore", {"ok"})
    /\ \A o \in Session \ {c} : last'[o] = last[o]

LEMMA OperationLeads ==
    ASSUME HandlerInv, NEW c \in Session, Operation(c)
    PROVE  Leads(c)
<1>0. step \in [Session -> Steps] /\ last \in [Session -> Stamps \cup {Null}]
  BY SessionFacts DEF OperationTypeOK
<1>1. \A s : Goes(c, s) => step'[c] = s
  BY <1>0 DEF Goes
<1>2. \A s : Goes(c, s) /\ s \notin {"match", "mark"} /\ last' = last => Leads(c)
  BY <1>1 DEF Leads
<1>3. \A r : Reply(c, r) => Leads(c)
  <2>1. ASSUME NEW r, Reply(c, r)
        PROVE  step'[c] = "ready" /\ \A o \in Session \ {c} : last'[o] = last[o]
    BY <1>0, <1>1, <2>1 DEF Reply
  <2>2. QED
    BY <2>1 DEF Leads
<1>4. EndSession(c) \/ ReadForever(c) => Leads(c)
  BY <1>2 DEF EndSession, ReadForever
<1>5. \A m, k, s : CallThen(c, m, k, s) /\ s \notin {"match", "mark"} /\ last' = last => Leads(c)
  BY <1>2 DEF CallThen
<1>6. CASE StoreVersion(c) \/ OpenBlob(c) \/ Receive(c) \/ CompareDigests(c) \/ EndUpload(c)
  <2>1. CASE StoreVersion(c)
    BY <1>5, <2>1 DEF StoreVersion
  <2>2. CASE OpenBlob(c)
    BY <1>2, <1>3, <1>4, <2>2 DEF OpenBlob
  <2>3. CASE Receive(c)
    BY <1>2, <1>3, <2>3 DEF Receive
  <2>4. CASE CompareDigests(c)
    BY <1>3, <1>4, <1>5, <2>4 DEF CompareDigests
  <2>5. CASE EndUpload(c)
    BY <1>3, <1>4, <2>5 DEF EndUpload
  <2>6. QED
    BY <1>6, <2>1, <2>2, <2>3, <2>4, <2>5
<1>7. CASE FindBlob(c)
  BY <1>2, <1>3, <1>7 DEF FindBlob
<1>8. CASE SendBlob(c)
  BY <1>2, <1>4, <1>8 DEF SendBlob
<1>9. CASE Confirm(c)
  BY <1>3, <1>4, <1>5, <1>9 DEF Confirm
<1>10. CASE CompareVersions(c)
  <2>1. CASE /\ Returned(c, "compare", {"ok"})
             /\ last' = [last EXCEPT ![c] = stamp[c]]
             /\ CallThen(c, "getBlobVersion", Torn, "match")
    <3>1. last'[c] = stamp[c] /\ \A o \in Session \ {c} : last'[o] = last[o]
      BY <1>0, <2>1
    <3>2. step'[c] = "match"
      BY <1>1, <2>1 DEF CallThen
    <3>3. QED
      BY <2>1, <3>1, <3>2 DEF Leads
  <2>2. QED
    BY <1>3, <1>5, <1>10, <2>1 DEF CompareVersions
<1>11. CASE EndRestore(c)
  <2>1. CASE /\ Returned(c, "restore", {"ok"})
             /\ CallThen(c, "addChecksum", data[c], "mark")
             /\ last' = last
    <3>1. step'[c] = "mark"
      BY <1>1, <2>1 DEF CallThen
    <3>2. QED
      BY <2>1, <3>1 DEF Leads
  <2>2. QED
    BY <1>3, <1>11, <2>1 DEF EndRestore
<1>12. CASE EndChange(c) \/ EndListing(c) \/ EndLogIn(c) \/ EndSignIn(c)
  BY <1>3, <1>4, <1>5, <1>12 DEF EndChange, EndListing, EndLogIn, EndSignIn
<1>13. QED
  BY <1>6, <1>7, <1>8, <1>9, <1>10, <1>11, <1>12 DEF Operation

LEMMA MoveDownload ==
    ASSUME IInv, HandlerInv, DownloadInv, NEW c \in Session, Moves(c), Leads(c)
    PROVE  DownloadInv'
<1>0. PICK s \in Steps : Goes(c, s) /\ (Rests(c, s) \/ Calls(c, s) \/ (Leave(c) /\ s = "ended"))
  BY DEF Moves
<1>1. /\ TypeOK /\ step \in [Session -> Steps] /\ OwnDownload(c)
      /\ at[c] = "idle" /\ step'[c] = s /\ UNCHANGED fileVars
  BY <1>0, SessionFacts
  DEF OperationTypeOK, DownloadInv, Goes, Rests, Calls, Call, Leave, vars, fileVars
<1>2. lock' = lock /\ lock[c] \notin Writing /\ \A o \in Session : View(o)' = View(o)
  BY <1>1 DEF OwnDownload, WritesToCommit, fileVars, View
<1>3. ASSUME NEW o \in Session \ {c}
      PROVE  OwnDownload(o)'
  <2>1. /\ UNCHANGED <<at[o], method[o], open[o], found[o], got[o], answer[o], stamp[o], file[o]>>
        /\ UNCHANGED <<step[o], data[o], last[o], lock[o]>>
    <3>1. UNCHANGED <<at[o], method[o], open[o], found[o], got[o], answer[o], stamp[o], file[o]>>
      BY <1>0, <1>1 DEF Rests, Calls, Call, Leave, vars, callVars, resultVars, TypeOK
    <3>2. UNCHANGED <<step[o], data[o], last[o], lock[o]>>
      BY <1>0, <1>1, <1>2 DEF Goes, Moves, Leads
    <3>3. QED
      BY <3>1, <3>2
  <2>2. UNCHANGED DownloadPart(o)
    BY <2>1 DEF DownloadPart, PartOf
  <2>3. QED
    BY <1>2, <2>2, SameDownload DEF DownloadInv
<1>4. WritesToCommit(c)'
  BY <1>2 DEF WritesToCommit
<1>5. ASSUME Rests(c, s) \/ (Leave(c) /\ s = "ended")
      PROVE  OwnDownload(c)'
  <2>1. step'[c] \notin {"compare", "match", "restore", "mark"}
    BY <1>1, <1>5 DEF Rests, Resting, Holding
  <2>2. QED
    BY <1>4, <2>1 DEF OwnDownload, DatesRead, Restoring
<1>6. ASSUME Calls(c, s)
      PROVE  OwnDownload(c)'
  <2>1. PICK m \in AllMethods \cap MethodsAt(s), f \in File, k \in Checksum :
           Call(c, m, f, k) /\ (s \in WithNumber => m \in Chained)
    BY <1>6 DEF Calls
  <2>2. /\ at'[c] = First(m)
        /\ m \in Chained => got'[c] = got[c] /\ file'[c] = file[c]
        /\ First(m) \notin {"commit", "write", "idle"}
        /\ found'[c] = FALSE
    BY <1>1, <2>1, FirstPlace DEF Call, TypeOK
  <2>3. ~DateRead(c)' /\ ~EndedWell(c)'
    BY <2>2 DEF DateRead, EndedWell
  <2>4. step'[c] = "match" => IsLastDate(c, last[c])'
    <3>1. CASE step'[c] = "match"
      <4>1. step[c] = "compare" /\ EndedWell(c) /\ last'[c] = stamp[c]
        BY <3>1 DEF Leads, Returned, EndedWell
      <4>2. IsLastDate(c, stamp[c])
        BY <1>1, <4>1 DEF OwnDownload, DatesRead, DateRead
      <4>3. file'[c] = file[c]
        BY <1>1, <2>1, <2>2, <3>1 DEF WithNumber
      <4>4. QED
        BY <1>2, <4>1, <4>2, <4>3 DEF IsLastDate, FileRows
    <3>2. QED
      BY <3>1
  <2>5. DatesRead(c)'
    BY <2>3, <2>4 DEF DatesRead
  <2>6. Restoring(c)' => GotIsLast(c, View(c))'
    <3>1. CASE Restoring(c)'
      <4>1. step'[c] = "mark"
        BY <2>2, <2>3, <3>1 DEF Restoring
      <4>2. step[c] = "restore" /\ EndedWell(c)
        BY <4>1 DEF Leads, Returned, EndedWell
      <4>3. GotIsLast(c, View(c))
        BY <1>1, <4>2 DEF OwnDownload, Restoring
      <4>4. file'[c] = file[c] /\ got'[c] = got[c]
        BY <1>1, <2>1, <2>2, <4>1 DEF WithNumber
      <4>5. QED
        BY <1>2, <4>3, <4>4 DEF GotIsLast, FileRows
    <3>2. QED
      BY <3>1
  <2>7. QED
    BY <1>4, <2>5, <2>6 DEF OwnDownload
<1>7. QED
  BY <1>0, <1>3, <1>5, <1>6 DEF DownloadInv

-----------------------------------------------------------------------------
(* Every step of HandlerSpec.                                              *)

LEMMA InitDownload ==
    ASSUME HandlerInit
    PROVE  DownloadInv
<1>1. \A c \in Session : step[c] = "ready" /\ lock[c] = "none"
  BY DEF HandlerInit, Init, FileInit
<1>2. ASSUME NEW c \in Session
      PROVE  OwnDownload(c)
  BY <1>1 DEF OwnDownload, WritesToCommit, Writing, DatesRead, Restoring
<1>3. QED
  BY <1>2 DEF DownloadInv

LEMMA CrashDownload ==
    ASSUME ServerCrash
    PROVE  DownloadInv'
<1>1. \A c \in Session : step'[c] = "ready" /\ lock'[c] = "none"
  BY DEF ServerCrash, Crash, FileCrash
<1>2. ASSUME NEW c \in Session
      PROVE  OwnDownload(c)'
  BY <1>1 DEF OwnDownload, WritesToCommit, Writing, DatesRead, Restoring
<1>3. QED
  BY <1>2 DEF DownloadInv

LEMMA NextDownload ==
    ASSUME OneSessionEach, StampsIncrease, IInv, HandlerInv, HistoryInv, UploadInv, NewestInv,
           DownloadInv, NoneActive, [HandlerNext]_allVars, [\A c \in Session : ~Ignored(c)]_allVars
    PROVE  DownloadInv'
<1>1. ASSUME NEW c \in Session, Statement(c), ~UNCHANGED allVars
      PROVE  DownloadInv'
  BY <1>1, StatementDownload
<1>2. ASSUME NEW c \in Session, Operation(c)
      PROVE  DownloadInv'
  BY <1>2, UploadMoves, DownloadMoves, OtherMoves, OperationLeads, MoveDownload DEF Operation
<1>3. ASSUME NEW c \in Session, NEW op \in Operations[c], NEW f \in File,
             NEW content \in Checksum \ {Torn}, Request(c, op, f, content)
      PROVE  DownloadInv'
  <2>1. op \notin {"match", "mark"}
    BY OperationsAssumption DEF MethodOf
  <2>2. step'[c] = op /\ last' = last
    BY <1>3, SessionFacts DEF Request, Goes, OperationTypeOK
  <2>3. Leads(c)
    BY <2>1, <2>2 DEF Leads
  <2>4. QED
    BY <1>3, <2>3, RequestMoves, MoveDownload
<1>4. ASSUME NEW c \in Session, EndSession(c)
      PROVE  DownloadInv'
  <2>1. step'[c] = "ended" /\ last' = last
    BY <1>4, SessionFacts DEF EndSession, Goes, OperationTypeOK
  <2>2. Leads(c)
    BY <2>1 DEF Leads
  <2>3. QED
    BY <1>4, <2>2, Ends, MoveDownload
<1>5. CASE (Tick /\ UNCHANGED handlerVars) \/ UNCHANGED allVars
  <2>1. /\ UNCHANGED <<fileVars, at, method, open, found, got, answer, step, data>>
        /\ UNCHANGED <<stamp, last, file>>
    BY <1>5 DEF Tick, callVars, resultVars, handlerVars, allVars, vars, fileVars
  <2>2. \A c \in Session : UNCHANGED DownloadPart(c) /\ View(c)' = View(c)
    BY <2>1 DEF fileVars, DownloadPart, PartOf, View
  <2>3. \A c \in Session : OwnDownload(c)'
    BY <2>2, SameDownload DEF DownloadInv
  <2>4. QED
    BY <2>3 DEF DownloadInv
<1>6. QED
  BY <1>1, <1>2, <1>3, <1>4, <1>5, CrashDownload DEF HandlerNext

-----------------------------------------------------------------------------
(* A download that is answered with OK.                                    *)

\* Two places answer a download with OK.
LEMMA AnsweredDownload ==
    ASSUME HandlerInv, UploadInv, HandlerNext, NEW c \in Session,
           step[c] \in DownloadSteps, step'[c] = "ready", reply'[c] = "OK"
    PROVE  /\ UNCHANGED db
           /\ \/ Returned(c, "match", {"ok"}) /\ stamp[c] = last[c]
              \/ Returned(c, "mark", {"ok"})
<1>0. /\ \A o \in Session : \A s : Goes(o, s) => step'[c] = IF o = c THEN s ELSE step[c]
      /\ \A o \in Session : \A r : Reply(o, r) => reply'[c] = IF o = c THEN r ELSE reply[c]
      /\ step[c] # "ready"
  BY SessionFacts DEF Goes, Reply, OperationTypeOK, DownloadSteps, Downloads
<1>1. \A o \in Session : Advances(o) => o = c
  BY <1>0 DEF Advances
<1>2. ~ServerCrash /\ ~UNCHANGED step
  BY <1>0 DEF ServerCrash
<1>3. \A o \in Session : ~EndSession(o)
  BY <1>0 DEF EndSession, DownloadSteps, Downloads
<1>4. ASSUME NEW o \in Session, Operation(o)
      PROVE  o = c
  BY <1>1, <1>4, UploadAdvances, DownloadAdvances, OtherAdvances DEF Operation
<1>5. Operation(c)
  <2>1. ASSUME NEW o \in Session, NEW op \in Operations[o], NEW f, NEW x, Request(o, op, f, x)
        PROVE  FALSE
    <3>1. Goes(o, op) /\ op # "ready" /\ step[o] = "ready"
      BY <2>1, OperationsAssumption DEF Request, MethodOf
    <3>2. QED
      BY <1>0, <3>1
  <2>2. QED
    BY <1>2, <1>3, <1>4, <2>1 DEF HandlerNext, Statement, handlerVars
<1>6. ~StoreVersion(c) /\ ~OpenBlob(c) /\ ~Receive(c) /\ ~CompareDigests(c) /\ ~EndUpload(c)
  BY DEF StoreVersion, OpenBlob, Receive, CompareDigests, EndUpload, Returned, DownloadSteps,
     Downloads
<1>7. ~EndChange(c) /\ ~EndListing(c) /\ ~EndLogIn(c) /\ ~EndSignIn(c)
  BY DEF DownloadSteps, Downloads, EndChange, EndListing, EndLogIn, EndSignIn, Returned
<1>8. ~FindBlob(c)
  BY <1>0 DEF FindBlob
<1>9. ~SendBlob(c)
  BY <1>0 DEF SendBlob, ReadForever
<1>10. ~Confirm(c)
  BY <1>0 DEF Confirm, CallThen, ReadForever
<1>11. CASE CompareVersions(c)
  BY <1>0, <1>11 DEF CompareVersions, CallThen, Reply, vars, fileVars
<1>12. CASE EndRestore(c)
  BY <1>0, <1>12 DEF EndRestore, CallThen, Reply, vars, fileVars
<1>13. QED
  BY <1>5, <1>6, <1>7, <1>8, <1>9, <1>10, <1>11, <1>12 DEF Operation

\* In both the last version is the blob that was sent.
LEMMA AnsweredLast ==
    ASSUME IInv, HandlerInv, UploadInv, DownloadInv, NEW c \in Session,
           \/ Returned(c, "match", {"ok"}) /\ stamp[c] = last[c]
           \/ Returned(c, "mark", {"ok"})
    PROVE  GotIsLast(c, db) \/ (step[c] = "match" /\ Shared(c))
<1>1. OwnDownload(c) /\ EndedWell(c) /\ View(c) = db
  BY WhatIsRead DEF IInv, DownloadInv, OwnDownload, EndedWell, Returned
<1>2. CASE step[c] = "mark"
  BY <1>1, <1>2 DEF OwnDownload, Restoring
<1>3. CASE step[c] = "match" /\ stamp[c] = last[c] /\ ~Shared(c)
  <2>1. PICK q \in Last(FileRows(c, db)) : q.stamp = last[c]
    BY <1>1, <1>3 DEF OwnDownload, DatesRead, IsLastDate
  <2>2. PICK r \in Naming(c, db, got[c]) : r.stamp = stamp[c]
    BY <1>1, <1>3 DEF OwnDownload, DatesRead, DateRead
  <2>3. r.file = file[c]
    BY <1>3 DEF Shared, Naming
  <2>4. r \in FileRows(c, db) /\ r.blob = got[c]
    BY <2>3 DEF Naming, FileRows, RowsOf
  <2>5. r.stamp = q.stamp
    BY <1>3, <2>1, <2>2
  <2>6. r \in Last(FileRows(c, db))
    BY <2>4, <2>5 DEF Last
  <2>7. QED
    BY <2>4, <2>6 DEF GotIsLast
<1>4. QED
  BY <1>2, <1>3 DEF Returned

DownloadAnswered(c) ==
    /\ step[c] \in DownloadSteps /\ step'[c] = "ready" /\ reply'[c] = "OK"
    /\ ~(step[c] = "match" /\ Shared(c))
    => \E r \in Last(RowsOf(db'.versions, UserOf[c], file[c])) :
           r.blob = got[c] /\ r.checksum \in {data[c], Null}

LEMMA DownloadIsLast ==
    ASSUME IInv, HandlerInv, UploadInv, DownloadInv, [HandlerNext]_allVars
    PROVE  [\A c \in Session : DownloadAnswered(c)]_allVars
<1> SUFFICES ASSUME HandlerNext, NEW c \in Session,
                    step[c] \in DownloadSteps, step'[c] = "ready", reply'[c] = "OK",
                    ~(step[c] = "match" /\ Shared(c))
             PROVE  \E r \in Last(RowsOf(db'.versions, UserOf[c], file[c])) :
                        r.blob = got[c] /\ r.checksum \in {data[c], Null}
  BY DEF DownloadAnswered
<1>1. /\ db' = db
      /\ \/ Returned(c, "match", {"ok"}) /\ stamp[c] = last[c]
         \/ Returned(c, "mark", {"ok"})
  BY AnsweredDownload
<1>2. PICK r \in Last(FileRows(c, db)) : r.blob = got[c]
  BY <1>1, AnsweredLast DEF GotIsLast
<1>3. r \in db.versions /\ r.user = UserOf[c]
  BY DEF Last, FileRows, RowsOf
<1>4. Blobs(c)[got[c]] = data[c]
  BY <1>1 DEF Returned, UploadInv, OwnUpload, DiskHeld
<1>5. r.checksum \in {data[c], Null}
  BY <1>2, <1>3, <1>4 DEF UploadInv, Checked, Blobs
<1>6. QED
  BY <1>1, <1>2, <1>5 DEF FileRows

-----------------------------------------------------------------------------
(* The theorem.                                                            *)

LEMMA NoneActiveAlone ==
    ASSUME OneSession
    PROVE  HandlerSpec => []NoneActive
<1>1. HandlerInit => NoneActive
  BY DEF HandlerInit, Init, FileInit, NoneActive
<1>2. IInv /\ HandlerInv /\ NoneActive /\ [HandlerNext]_allVars => NoneActive'
  BY NeverBusy DEF NoneActive
<1>3. Spec => []IInv
  BY Invariance
<1>4. QED
  BY <1>1, <1>2, <1>3, HandlerUses, PTL DEF HandlerSpec

LEMMA DownloadInvariance ==
    ASSUME OneSession, StampsIncrease
    PROVE  HandlerSpec => []DownloadInv
<1>1. HandlerInit => Init /\ NewestInv /\ DownloadInv
  BY InitDownload, InitNewest DEF HandlerInit
<1>2. IInv /\ NewestInv /\ [Next]_vars => NewestInv'
  BY NextNewest
<1>3. OneSessionEach
  BY DEF OneSession, OneSessionEach
<1>4. /\ IInv /\ HandlerInv /\ HistoryInv /\ UploadInv /\ NewestInv /\ NoneActive
      /\ DownloadInv /\ [HandlerNext]_allVars /\ [\A c \in Session : ~Ignored(c)]_allVars
      => DownloadInv'
  BY <1>3, NextDownload
<1>5. IInv /\ HandlerInv /\ [HandlerNext]_allVars => [Next]_vars
  BY HandlerStep
<1>6. Spec => []IInv /\ []HistoryInv
  BY <1>3, Invariance, HistoryInvariance
<1>7. QED
  BY <1>1, <1>2, <1>4, <1>5, <1>6, NoneIgnoredAlone, NoneActiveAlone, HandlerUses,
     UploadInvariance, PTL
  DEF HandlerSpec, NoneIgnored

\* Where later dates have greater texts, the OK of a download to a client that has
\* the server for itself (ConnectionHandler.cpp:503, 641, 648) means that the last
\* version of the file is the content that was sent: the dates downloadLastVersion
\* compares, and the row addVersion restores, are still those of the answer.  Left
\* out is the comparison with the version of a number that another file has too.
THEOREM DownloadAloneIsLast ==
    ASSUME OneSession, StampsIncrease
    PROVE  HandlerSpec => DownloadedIsLast
<1>1. IInv /\ HandlerInv /\ UploadInv /\ DownloadInv /\ [HandlerNext]_allVars =>
          [\A c \in Session : DownloadAnswered(c)]_allVars
  BY DownloadIsLast
<1>2. Spec => []IInv
  BY Invariance
<1>3. QED
  BY <1>1, <1>2, DownloadInvariance, UploadInvariance, HandlerUses, PTL
  DEF HandlerSpec, DownloadedIsLast, DownloadAnswered

=============================================================================
