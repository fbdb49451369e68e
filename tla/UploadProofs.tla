------------------------------ MODULE UploadProofs ------------------------------
(***************************************************************************)
(* What an upload leaves behind when one client has the server for itself: *)
(* the checksum of a row is that of its blob, a blob (but blob 0) belongs  *)
(* to one file, and an upload answered with OK is in the file and on disk. *)
(* A step is followed where every user has one session, as long as no      *)
(* COMMIT that got SQLITE_BUSY is taken for done; with one session at all  *)
(* none is (NoneIgnoredAlone).                                             *)
(***************************************************************************)
EXTENDS HandlerProofs, HistoryProofs

\* createNewBlobForFile (DatabaseHandler.cpp:658) and removeFile (826) return as if
\* a COMMIT that got SQLITE_BUSY had succeeded.
Ignored(c) ==
    Commit(c) /\ method[c] \in {"createNewBlobForFile", "removeFile"} /\ BlockedCommit(c)

NoneIgnored == [][\A c \in Session : ~Ignored(c)]_allVars

-----------------------------------------------------------------------------
(* The inductive invariant, beside IInv, HandlerInv and HistoryInv.        *)

\* The rows that name blob b of the user of c.
Naming(c, d, b) == {r \in d.versions : r.user = UserOf[c] /\ r.blob = b}

\* The statements a method has.
Places(m) ==
    CASE m = "getBlob" -> {"exists", "deleted", "select"}
      [] m = "getLastBlob" -> {"exists", "select"}
      [] m \in {"getLastVersion", "getBlobVersion"} -> {"select", "abort"}
      [] m \in {"addVersion", "removeFile"} -> {"exists", "lock", "body", "commit", "write"}
      [] m = "addChecksum" -> {"lock", "body", "commit", "write"}
      [] m = "createFileForUser" -> {"lock", "exists", "body", "commit", "write"}
      [] m = "createNewBlobForFile" -> {"exists", "lock", "count", "body", "commit", "write"}
      [] OTHER -> (Statements \ {"count"}) \cup {"abort"}

\* A transaction is open only inside the method that began it.
InsideMethod(c) ==
    /\ at[c] \in Places(method[c]) \cup {"idle", "gone"}
    /\ inTxn[c] => \/ at[c] = "body" /\ method[c] = "createNewBlobForFile"
                   \/ at[c] \in {"commit", "write"} /\ method[c] \in Creating \cup {"removeFile"}
    /\ at[c] = "write" => ~stuck[c]

\* Until removeFile commits, the cache of a writer has every version of the file.
CacheGrows(c) ==
    lock[c] \in Writing /\ ~(method[c] = "removeFile" /\ at[c] \in {"commit", "write"}) =>
        \A r \in db.versions : InCache(r, work)

\* The number of an upload has no checksum until the upload is complete.
Uploading(c) ==
    \/ method[c] \in Creating /\ at[c] \in {"commit", "write"}
    \/ step[c] = "store" /\ at[c] = "idle" /\ answer[c] = "ok"
    \/ step[c] \in {"receive", "digest"}

FreshNumber(c) ==
    Uploading(c) =>
        \A r \in Naming(c, db, got[c]) \cup Naming(c, work, got[c]) : r.checksum = Null

\* The blob is on disk while its checksum is on the way into the table.
DiskHeld(c) ==
    /\ step[c] \in {"record", "compare", "match", "restore", "mark"} => Blobs(c)[got[c]] = data[c]
    /\ step[c] \in {"record", "mark"} => sum[c] = data[c]

\* The row of the upload in the tables d, with one of these checksums.
Stored(c, d, sums) == \E r \in Naming(c, d, got[c]) : r.file = file[c] /\ r.checksum \in sums

Settled(c) == ~stuck[c] /\ ~inTxn[c] /\ lock[c] \notin Writing

Committed(c) ==
    /\ method[c] \in Creating /\ at[c] \in {"commit", "write"} =>
          Stored(c, work, Checksum \cup {Null})
    /\ \/ step[c] = "store" /\ at[c] = "idle" /\ answer[c] = "ok"
       \/ step[c] \in {"receive", "digest"}
       \/ step[c] = "record" /\ at[c] \in {"lock", "body"}
       => Settled(c) /\ Stored(c, db, Checksum \cup {Null})
    /\ step[c] = "record" =>
          /\ at[c] \in {"commit", "write"} => Stored(c, work, {data[c]})
          /\ at[c] = "idle" /\ answer[c] = "ok" => Stored(c, db, {data[c]})

\* The checksum of a row is that of its blob.
Checked(d) ==
    \A r \in d.versions :
        r.checksum # Null => r.blob # Null /\ disk[r.user][r.blob] = r.checksum

\* A blob belongs to one file, but for blob 0.
OneFile(d) ==
    \A r, q \in d.versions :
        r.user = q.user /\ r.blob = q.blob /\ r.blob \notin {Null, 0} => r.file = q.file

\* A download has found a number; unless that is 0, only its file has it.
Found(c) ==
    \/ step[c] \in Downloads /\ at[c] = "select" /\ open[c] /\ found[c]
    \/ step[c] \in Downloads /\ at[c] = "idle" /\ answer[c] = "ok"
    \/ step[c] \in {"send", "confirm", "compare", "match"}
    \/ step[c] = "restore" /\ at[c] \notin {"commit", "write", "idle"}

GotOwn(c) ==
    /\ Found(c) /\ got[c] # 0 => \A r \in Naming(c, View(c), got[c]) : r.file = file[c]
    /\ method[c] \in Finding /\ at[c] \notin {"idle", "gone"} /\ ~(at[c] = "select" /\ open[c]) =>
          got[c] = Null

OwnUpload(c) ==
    /\ InsideMethod(c) /\ CacheGrows(c)
    /\ FreshNumber(c) /\ DiskHeld(c) /\ Committed(c) /\ GotOwn(c)

UploadInv ==
    /\ Checked(db) /\ Checked(work)
    /\ OneFile(db) /\ OneFile(work)
    /\ \A c \in Session : OwnUpload(c)

-----------------------------------------------------------------------------
(* The changes of the tables.                                              *)

\* In which step of which operation a method runs.
LEMMA StepOfMethod ==
    ASSUME HandlerInv, NEW c \in Session, at[c] \in Statements
    PROVE  /\ method[c] \in Creating => step[c] = "store"
           /\ method[c] = "addChecksum" => step[c] \in {"record", "mark"}
           /\ method[c] = "addVersion" => step[c] = "restore"
           /\ method[c] \in Finding => step[c] \in Downloads
           /\ step[c] \notin Holding
<1>1. step[c] \in Steps /\ method[c] \in MethodsAt(step[c])
  BY DEF HandlerInv, HandlerTypeOK, InOperation
<1>2. step[c] \notin {"ready", "spin", "ended"} \cup Holding
  BY DEF HandlerInv, InOperation, Statements
<1>3. ASSUME NEW s \in DOMAIN MethodOf
      PROVE  /\ MethodsAt(s) \cap (Creating \cup {"addChecksum", "addVersion"}) = {}
             /\ MethodsAt(s) \cap Finding # {} => s \in Downloads
  <2>1. s \in {"logIn", "signIn", "uploadFile", "removeFile", "deleteFile", "getFileVersions",
               "downloadPreviousVersion", "getDeletedFiles", "getUserFolder", "getUserPath",
               "downloadLastVersion"}
    BY <1>3 DEF MethodOf
  <2>2. MethodsAt(s) = {MethodOf[s]}
    BY <1>3, <2>1 DEF MethodsAt, MethodOf
  <2>3. s \notin Downloads =>
            MethodOf[s] \in {"logUser", "registerUser", "existsFile", "removeFile", "deleteFile",
                             "getFileVersions", "getDeletedFiles", "getUserFolder", "getPath"}
    BY <2>1 DEF MethodOf, Downloads
  <2>4. s \in Downloads => MethodOf[s] \in Finding
    BY <2>1 DEF MethodOf, Downloads, Finding
  <2>5. QED
    BY <2>2, <2>3, <2>4 DEF Creating, Finding
<1>4. CASE step[c] \notin DOMAIN MethodOf
  <2>1. step[c] \in {"store", "record", "mark", "compare", "match", "restore", "path"}
    BY <1>1, <1>2, <1>4 DEF Steps, UploadSteps, DownloadSteps, Downloads, Holding, MethodOf
  <2>2. QED
    BY <1>1, <1>2, <2>1, StepMethods DEF Creating, Finding
<1>5. QED
  BY <1>1, <1>2, <1>3, <1>4

LEMMA AddRowChecked ==
    ASSUME NEW d \in Content, Checked(d), NEW u, NEW f, NEW s, NEW b
    PROVE  Checked(AddRow(d, u, f, s, b))
BY DEF Checked, AddRow, Content

LEMMA SetChecksumChecked ==
    ASSUME NEW d \in Content, Checked(d), NEW u \in User, NEW b \in Blob, NEW k, disk[u][b] = k
    PROVE  Checked(SetChecksum(d, u, b, k))
<1> SUFFICES ASSUME NEW r \in SetChecksum(d, u, b, k).versions, r.checksum # Null
             PROVE  r.blob # Null /\ disk[r.user][r.blob] = r.checksum
  BY DEF Checked
<1>1. PICK q \in d.versions :
         /\ r.user = q.user /\ r.blob = q.blob
         /\ r = IF q.user = u /\ q.blob = b THEN [q EXCEPT !.checksum = k] ELSE q
  BY ChecksumRows
<1>2. b # Null
  BY BlobAssumption DEF Blob
<1>3. CASE q.user = u /\ q.blob = b
  <2>1. r.checksum = k
    BY <1>1, <1>3 DEF Content, Version
  <2>2. QED
    BY <1>1, <1>2, <1>3, <2>1
<1>4. CASE ~(q.user = u /\ q.blob = b)
  BY <1>1, <1>4 DEF Checked
<1>5. QED
  BY <1>3, <1>4

LEMMA AddRowOneFile ==
    ASSUME NEW d \in Content, OneFile(d), NEW u, NEW f, NEW s, NEW b,
           b \notin {Null, 0} => \A r \in d.versions : r.user = u /\ r.blob = b => r.file = f
    PROVE  OneFile(AddRow(d, u, f, s, b))
<1> DEFINE new == [user |-> u, file |-> f, stamp |-> s, blob |-> b, checksum |-> Null]
<1>1. AddRow(d, u, f, s, b).versions = d.versions \cup {new}
  BY DEF AddRow, Content
<1>2. new.user = u /\ new.file = f /\ new.blob = b
  OBVIOUS
<1> HIDE DEF new
<1>3. QED
  BY <1>1, <1>2 DEF OneFile

LEMMA SetChecksumOneFile ==
    ASSUME NEW d \in Content, OneFile(d), NEW u, NEW b, NEW k
    PROVE  OneFile(SetChecksum(d, u, b, k))
<1>1. \A r \in SetChecksum(d, u, b, k).versions : \E q \in d.versions :
          r.user = q.user /\ r.file = q.file /\ r.blob = q.blob
  BY ChecksumRows
<1>2. QED
  BY <1>1 DEF OneFile

Fit(d) == Checked(d) /\ OneFile(d)

\* What a session changes in its view keeps checksums with their blobs, and blobs
\* with their files.
LEMMA EditFit ==
    ASSUME IInv, HandlerInv, UploadInv, NEW c \in Session, Edit(c)
    PROVE  \E e : work' = e /\ Fit(e)
<1> DEFINE d == View(c)
           u == UserOf[c]
           f == file[c]
<1>0. /\ d \in Content /\ Fit(d) /\ TypeOK
      /\ u \in User /\ f \in File /\ got[c] \in Blob \cup {Null}
  BY ArgumentTypes DEF IInv, UploadInv, Fit, View
<1>1. \A e, txn : Reserve(c, e, txn) => work' = e
  BY DEF Reserve
<1>2. CASE CreateEdit(c)
  <2> DEFINE e == AddFile(d, u, f)
  <2>1. PICK n \in Blob : /\ IsNextBlob(e.versions, u, n)
                          /\ work' = AddRow(e, u, f, Stamp[now], n)
    BY <1>1, <1>2 DEF CreateEdit
  <2>2. e \in Content /\ e.versions = d.versions
    BY <1>0, AddFileType
  <2> HIDE DEF e
  <2>3. Fit(e)
    BY <1>0, <2>2 DEF Fit, Checked, OneFile
  <2>4. \A r \in e.versions : ~(r.user = u /\ r.blob = n)
    BY <1>0, <2>1, <2>2, NextBlobIsNew
  <2>5. QED
    BY <2>1, <2>2, <2>3, <2>4, AddRowChecked, AddRowOneFile DEF Fit
<1>3. CASE RowEdit(c)
  <2>1. PICK b, txn : RowOf(c, b, txn) /\ work' = AddRow(d, u, f, Stamp[now], b)
    BY <1>1, <1>3 DEF RowEdit
  <2>2. b \notin {Null, 0} => \A r \in d.versions : r.user = u /\ r.blob = b => r.file = f
    <3>1. CASE AtBody(c, "createNewBlobForFile")
      BY <1>0, <2>1, <3>1, NextBlobIsNew DEF RowOf, AtBody
    <3>2. CASE AtBody(c, "deleteFile")
      BY <2>1, <3>2 DEF RowOf, AtBody
    <3>3. CASE AtBody(c, "addVersion")
      <4>1. step[c] = "restore" /\ b = got[c]
        BY <2>1, <3>3, StepOfMethod DEF RowOf, AtBody, Statements
      <4>2. Found(c)
        BY <3>3, <4>1 DEF Found, AtBody
      <4>3. QED
        BY <4>1, <4>2 DEF UploadInv, OwnUpload, GotOwn, Naming
    <3>4. QED
      BY <2>1, <3>1, <3>2, <3>3 DEF RowOf
  <2>3. QED
    BY <1>0, <2>1, <2>2, AddRowChecked, AddRowOneFile DEF Fit
<1>4. CASE RemoveEdit(c)
  <2>1. work' = DropFile(d, u, f)
    BY <1>1, <1>4 DEF RemoveEdit
  <2>2. DropFile(d, u, f).versions \subseteq d.versions
    BY <1>0 DEF DropFile, Content
  <2>3. QED
    BY <1>0, <2>1, <2>2 DEF Fit, Checked, OneFile
<1>5. CASE ChecksumEdit(c)
  <2>1. work' = SetChecksum(d, u, got[c], sum[c]) /\ AtBody(c, "addChecksum")
    BY <1>1, <1>5 DEF ChecksumEdit
  <2>2. step[c] \in {"record", "mark"}
    BY <2>1, StepOfMethod DEF AtBody, Statements
  <2>3. got[c] # Null
    BY <2>2 DEF HandlerInv, Equipped, WithNumber
  <2>4. disk[u][got[c]] = sum[c]
    BY <2>2 DEF UploadInv, OwnUpload, DiskHeld, Blobs
  <2>5. got[c] \in Blob
    BY <1>0, <2>3
  <2>6. Checked(SetChecksum(d, u, got[c], sum[c])) /\ OneFile(SetChecksum(d, u, got[c], sum[c]))
    BY <1>0, <2>4, <2>5, SetChecksumChecked, SetChecksumOneFile DEF Fit
  <2>7. QED
    BY <2>1, <2>6 DEF Fit
<1>6. CASE UserEdit(c)
  <2>1. work' = AddUser(d, u) /\ AddUser(d, u).versions = d.versions
    BY <1>0, <1>1, <1>6 DEF UserEdit, AddUser, Content
  <2>2. QED
    BY <1>0, <2>1 DEF Fit, Checked, OneFile
<1>7. CASE NoEdit(c)
  BY <1>0, <1>1, <1>7 DEF NoEdit
<1>8. QED
  BY <1>2, <1>3, <1>4, <1>5, <1>6, <1>7 DEF Edit

LEMMA TablesFit ==
    ASSUME IInv, HandlerInv, UploadInv, NEW c \in Session, Running(c), disk' = disk
    PROVE  Fit(db)' /\ Fit(work)'
<1>0. Fit(db) /\ Fit(work) /\ TypeOK /\ LocksCompatible /\ CommitLocked
  BY DEF UploadInv, Fit, IInv
<1>1. ASSUME NEW d, Fit(d)
      PROVE  /\ db' = d => Fit(db)'
             /\ work' = d => Fit(work)'
  BY <1>1 DEF Fit, Checked, OneFile
<1>2. FileStep(c)
  BY <1>0, RunningIsFileStep
<1>3. CASE Edit(c)
  <2>1. db' = db
    BY <1>3 DEF Edit, CreateEdit, RemoveEdit, RowEdit, ChecksumEdit, UserEdit, NoEdit, Reserve
  <2>2. QED
    BY <1>0, <1>1, <1>3, <2>1, EditFit
<1>4. CASE KeepsCache \/ DropsCache \/ WriteFile(c)
  BY <1>0, <1>1, <1>4 DEF KeepsCache, DropsCache, WriteFile
<1>5. QED
  BY <1>0, <1>2, <1>3, <1>4, FileStepKinds

-----------------------------------------------------------------------------
(* What another user's statement leaves alone.                             *)

\* No step of another user's method changes this user's rows.
LEMMA OthersRows ==
    ASSUME OneSessionEach, IInv, NEW c \in Session, Running(c), NEW o \in Session \ {c}
    PROVE  /\ OwnRows(UserOf[o], db') = OwnRows(UserOf[o], db)
           /\ OwnRows(UserOf[o], work') \in {OwnRows(UserOf[o], work), OwnRows(UserOf[o], db)}
<1> DEFINE u == UserOf[o]
<1>0. /\ TypeOK /\ LocksCompatible /\ CacheOwn
      /\ FileStep(c) /\ u \in User \ {UserOf[c]}
  BY RunningIsFileStep, SessionAssumption DEF IInv, OneSessionEach
<1>1. CacheOwn'
  BY <1>0, LocksKept, CacheOwnKept
<1>2. CASE Edit(c)
  <2>1. db' = db /\ lock'[c] \in Writing
    BY <1>0, <1>2
    DEF Edit, CreateEdit, RemoveEdit, RowEdit, ChecksumEdit, UserEdit, NoEdit, Reserve, Writing,
        TypeOK
  <2>2. QED
    BY <1>0, <1>1, <2>1 DEF CacheOwn
<1>3. CASE KeepsCache \/ DropsCache
  BY <1>3 DEF KeepsCache, DropsCache
<1>4. CASE WriteFile(c)
  BY <1>0, <1>4 DEF WriteFile, Writing, CacheOwn
<1>5. QED
  BY <1>0, <1>2, <1>3, <1>4, FileStepKinds

\* What a session's part of UploadInv reads, beside the tables.
UploadPart(o) ==
    <<PartOf(o), sum[o], file[o], lock[o], inTxn[o], stuck[o], disk[UserOf[o]]>>

LEMMA OthersUpload ==
    ASSUME OneSessionEach, IInv, HistoryInv, UploadInv,
           NEW c \in Session, Statement(c), NEW o \in Session \ {c}
    PROVE  OwnUpload(o)'
<1> DEFINE u == UserOf[o]
<1>0. /\ TypeOK /\ LocksCompatible /\ CommitLocked /\ CacheOwn /\ Running(c) /\ FileStep(c)
      /\ OwnUpload(o)
  BY RunningIsFileStep DEF IInv, UploadInv, Statement
<1>1. UNCHANGED UploadPart(o)
  BY <1>0, OthersStay, OthersAnswers, OthersConnections, CallStays
  DEF UploadPart, PartOf, Statement, handlerVars, callVars
<1>2. /\ OwnRows(u, db') = OwnRows(u, db)
      /\ OwnRows(u, work') \in {OwnRows(u, work), OwnRows(u, db)}
      /\ OwnRows(u, View(o)') = OwnRows(u, View(o))
  BY <1>0, OthersRows, OthersView
<1>3. lock[o] \in Writing => work' = work /\ db' = db
  <2>1. ASSUME lock[o] \in Writing
        PROVE  db' = db
    <3>1. ~WriteFile(c)
      BY <1>0, <2>1 DEF WriteFile, LocksCompatible, Writing
    <3>2. QED
      BY <1>0, <3>1, FileStepKinds
      DEF Edit, CreateEdit, RemoveEdit, RowEdit, ChecksumEdit, UserEdit, NoEdit, Reserve,
          KeepsCache, DropsCache
  <2>2. QED
    BY <1>0, <2>1, WriterOwnsCache
<1>4. ASSUME NEW d, NEW e, NEW b, OwnRows(u, d) = OwnRows(u, e)
      PROVE  Naming(o, d, b) = Naming(o, e, b)
  <2>1. \A x : Naming(o, x, b) = {r \in OwnRows(u, x) : r.blob = b}
    BY DEF Naming, OwnRows
  <2>2. QED
    BY <1>4, <2>1
<1>5. /\ Naming(o, db', got[o]) = Naming(o, db, got[o])
      /\ Naming(o, work', got[o]) \in {Naming(o, work, got[o]), Naming(o, db, got[o])}
      /\ Naming(o, View(o)', got[o]) = Naming(o, View(o), got[o])
  BY <1>2, <1>4
<1>6. InsideMethod(o)' /\ DiskHeld(o)'
  BY <1>0, <1>1 DEF OwnUpload, UploadPart, PartOf, InsideMethod, DiskHeld, Blobs
<1>7. CacheGrows(o)'
  BY <1>0, <1>1, <1>3 DEF OwnUpload, UploadPart, PartOf, CacheGrows
<1>8. FreshNumber(o)'
  <2>1. Uploading(o)' = Uploading(o) /\ got'[o] = got[o]
    BY <1>1 DEF UploadPart, PartOf, Uploading
  <2>2. Naming(o, db, got[o])' = Naming(o, db', got[o])
        /\ Naming(o, work, got[o])' = Naming(o, work', got[o])
    BY <2>1 DEF Naming
  <2>3. QED
    BY <1>0, <1>5, <2>1, <2>2 DEF OwnUpload, FreshNumber
<1>9. Committed(o)'
  <2>1. UNCHANGED <<file[o], got[o], data[o]>>
    BY <1>1 DEF UploadPart, PartOf
  <2>2. \A sums : Stored(o, db, sums) <=> Stored(o, db, sums)'
    BY <1>5, <2>1 DEF Stored, Naming
  <2>3. lock[o] \in Writing => \A sums : Stored(o, work, sums) <=> Stored(o, work, sums)'
    BY <1>3, <2>1 DEF Stored, Naming
  <2>4. at[o] \in {"commit", "write"} => lock[o] \in Writing
    BY <1>0 DEF CommitLocked
  <2>5. QED
    BY <1>0, <1>1, <2>2, <2>3, <2>4 DEF OwnUpload, UploadPart, PartOf, Committed, Settled
<1>10. GotOwn(o)'
  <2>1. /\ Found(o)' = Found(o) /\ got'[o] = got[o] /\ file'[o] = file[o]
        /\ Naming(o, View(o), got[o])' = Naming(o, View(o)', got[o])
    BY <1>1 DEF UploadPart, PartOf, Found, Naming
  <2>2. QED
    BY <1>0, <1>1, <1>5, <2>1 DEF OwnUpload, UploadPart, PartOf, GotOwn
<1>11. QED
  BY <1>6, <1>7, <1>8, <1>9, <1>10 DEF OwnUpload

-----------------------------------------------------------------------------
(* A statement of a method, seen by its own session.                       *)

LEMMA PlacesKept ==
    ASSUME TypeOK, NEW c \in Session, Running(c),
           at[c] \in Places(method[c]) \cup {"idle", "gone"}
    PROVE  at'[c] \in Places(method[c]) \cup {"idle"}
<1> DEFINE m == method[c]
           Fits == at'[c] \in Places(m) \cup {"idle"}
<1>0. at[c] \in Statements /\ at[c] \in Places(m) /\ m \in AllMethods
  BY RunningNumber DEF Statements, TypeOK
<1>1. \A s : GoTo(c, s) /\ s \in Answers \cup Places(m) => Fits
  BY GoToEnds
<1>2. Stay => Fits
  BY <1>0 DEF Stay
<1>3. \A s : Step(c, s) => Fits
  BY <1>2 DEF Step
<1>4. ASSUME NEW s, NEW next, Finalize(c, s, next) \/ Busy(c, s, next)
      PROVE  at[c] = s /\ (next \in Answers \cup Places(m) => Fits)
  BY <1>1, <1>4 DEF Finalize, Busy
<1>5. CASE Lock(c)
  <2>1. at[c] = "lock" /\ at'[c] = AfterLock(m)
    BY <1>5 DEF Lock, TypeOK
  <2>2. AfterLock(m) \in Places(m)
    BY <1>0, <2>1 DEF AfterLock, Places, Statements
  <2>3. QED
    BY <2>1, <2>2
<1>6. CASE ReadSalt(c)
  <2>1. at[c] = "salt"
    BY <1>6 DEF ReadSalt, Step, Finalize, Busy
  <2>2. "select" \in Places(m)
    BY <1>0, <2>1 DEF Places, Statements
  <2>3. QED
    BY <1>3, <1>4, <1>6, <2>2 DEF ReadSalt
<1>7. CASE ExistsFile(c)
  <2>1. at[c] = "exists"
    BY <1>7 DEF ExistsFile, Step, Finalize, Busy
  <2>2. \A yes : AfterExists(m, yes) \in Answers \cup Places(m)
    BY <1>0, <2>1 DEF AfterExists, Places, Statements, Answers
  <2>3. QED
    BY <1>3, <1>4, <1>7, <2>2 DEF ExistsFile
<1>8. CASE CheckDeleted(c)
  <2>1. at[c] = "deleted"
    BY <1>8 DEF CheckDeleted, Step, Finalize, Busy
  <2>2. \A yes : AfterDeleted(m, yes) \in Answers \cup Places(m)
    BY <1>0, <2>1 DEF AfterDeleted, Places, Statements, Answers
  <2>3. QED
    BY <1>3, <1>4, <1>8, <2>2 DEF CheckDeleted, Answers
<1>9. CASE Select(c)
  <2>1. ASSUME NEW yes
        PROVE  AfterSelect(m, yes) \in Answers \cup Places(m)
    <3>1. AfterSelect(m, yes) = "abort" => m \in {"getLastVersion", "getUserFolder"}
      BY DEF AfterSelect
    <3>2. m \in {"getLastVersion", "getUserFolder"} => "abort" \in Places(m)
      BY DEF Places
    <3>3. QED
      BY <3>1, <3>2, NextStatement
  <2>2. AfterBusySelect(m) \in Answers
    BY DEF AfterBusySelect, Answers
  <2>3. QED
    BY <1>3, <1>4, <1>9, <2>1, <2>2 DEF Select
<1>10. CASE CountBlobs(c)
  <2>1. at[c] = "count"
    BY <1>10 DEF CountBlobs
  <2>2. "body" \in Places(m)
    BY <1>0, <2>1 DEF Places, Statements
  <2>3. QED
    BY <1>1, <1>10, <2>2 DEF CountBlobs, Answers
<1>11. CASE at[c] = "body"
  <2>1. "commit" \in Places(m)
    BY <1>0, <1>11 DEF Places, Statements
  <2>2. \A d, ok : Autocommit(c, d, ok) => Fits
    BY <1>1, <2>1 DEF Autocommit, Answers
  <2>3. AutocommitBusy(c) => Fits
    BY <1>1 DEF AutocommitBusy, Answers
  <2>4. CASE CreateFileForUser(c) \/ CreateNewBlobForFile(c) \/ RemoveFile(c)
    BY <1>1, <2>1, <2>4
    DEF CreateFileForUser, CreateNewBlobForFile, RemoveFile, InsertBlob, Answers
  <2>5. CASE DeleteFile(c) \/ AddVersion(c) \/ AddChecksum(c) \/ RegisterUser(c)
    BY <1>1, <2>2, <2>3, <2>5
    DEF DeleteFile, AddVersion, AddChecksum, RegisterUser, AddRowNow, Answers
  <2>6. ~Lock(c) /\ ~ReadSalt(c) /\ ~ExistsFile(c) /\ ~CheckDeleted(c) /\ ~Select(c)
        /\ ~CountBlobs(c) /\ ~Commit(c) /\ ~Write(c)
    BY <1>11 DEF Lock, ReadSalt, ExistsFile, CheckDeleted, Select, CountBlobs, Commit, Write,
       Step, Finalize, Busy
  <2>7. QED
    BY <2>4, <2>5, <2>6 DEF Running
<1>12. CASE Commit(c) \/ Write(c)
  <2>1. Commit(c) => "write" \in Places(m)
    BY <1>0 DEF Commit, Places, Statements
  <2>2. QED
    BY <1>1, <1>2, <1>12, <2>1 DEF Commit, Write, Answers
<1>13. QED
  BY <1>5, <1>6, <1>7, <1>8, <1>9, <1>10, <1>11, <1>12
  DEF Running, CreateFileForUser, CreateNewBlobForFile, RemoveFile, DeleteFile, AddVersion,
      AddChecksum, RegisterUser, AtBody

\* A transaction ends with the method that began it, when its COMMIT is not ignored.
LEMMA InsideKept ==
    ASSUME TypeOK, NEW c \in Session, Running(c), ~Ignored(c), InsideMethod(c)
    PROVE  InsideMethod(c)'
<1> DEFINE m == method[c]
           Fits == inTxn'[c] =>
                      \/ at'[c] = "body" /\ m = "createNewBlobForFile"
                      \/ at'[c] \in {"commit", "write"} /\ m \in Creating \cup {"removeFile"}
<1>0. /\ method' = method /\ at[c] \in Places(m)
      /\ inTxn \in [Session -> BOOLEAN]
  BY CallStays, RunningNumber DEF callVars, InsideMethod, Statements, TypeOK
<1>1. at'[c] \in Places(m) \cup {"idle", "gone"}
  BY PlacesKept DEF InsideMethod
<1>2. at'[c] = "write" => ~stuck'[c]
  <2>1. at'[c] = "write" => TakeExclusive(c)
    BY ComesToCommit DEF ToCommit
  <2>2. QED
    BY <2>1 DEF TakeExclusive, MayCommit
<1> SUFFICES Fits
  BY <1>0, <1>1, <1>2 DEF InsideMethod
<1>3. \A s : GoTo(c, s) => at'[c] = IF s \in Answers THEN "idle" ELSE s
  BY GoToEnds
<1>5. CASE Lock(c) \/ ReadSalt(c) \/ ExistsFile(c) \/ CheckDeleted(c) \/ Select(c)
  <2>1. ~inTxn[c]
    BY <1>5 DEF InsideMethod, Lock, ReadSalt, ExistsFile, CheckDeleted, Select, Step, Finalize, Busy
  <2>2. inTxn' = inTxn
    BY <1>5 DEF Lock, ReadSalt, ExistsFile, CheckDeleted, Select, Step, Finalize, Busy, StartRead,
       EndRead, fileVars
  <2>3. QED
    BY <2>1, <2>2
<1>6. CASE CountBlobs(c)
  <2>1. m = "createNewBlobForFile"
    BY <1>0, <1>6 DEF CountBlobs, Places, Statements
  <2>2. QED
    BY <1>0, <1>3, <1>6, <2>1 DEF CountBlobs, BeginRead, Rollback, Answers
<1>7. Rollback(c) => ~inTxn'[c]
  BY <1>0 DEF Rollback
<1>8. CASE CreateFileForUser(c) \/ CreateNewBlobForFile(c)
  <2>1. m \in Creating
    BY <1>8 DEF CreateFileForUser, CreateNewBlobForFile, AtBody, Creating
  <2>2. CreateFileForUser(c) => ~inTxn[c]
    BY DEF CreateFileForUser, AtBody, InsideMethod
  <2>3. QED
    BY <1>3, <1>7, <1>8, <2>1, <2>2
    DEF CreateFileForUser, CreateNewBlobForFile, InsertBlob, Answers
<1>9. CASE RemoveFile(c)
  BY <1>3, <1>7, <1>9 DEF RemoveFile, AtBody, Answers
<1>10. CASE DeleteFile(c) \/ AddVersion(c) \/ AddChecksum(c) \/ RegisterUser(c)
  <2>1. ~inTxn[c]
    BY <1>10 DEF DeleteFile, AddVersion, AddChecksum, RegisterUser, AtBody, InsideMethod
  <2>2. \A d : Reserve(c, d, inTxn[c]) => inTxn' = inTxn
    BY <1>0 DEF Reserve
  <2>3. LeaveActive(c) \/ UNCHANGED fileVars => inTxn' = inTxn
    BY DEF LeaveActive, fileVars
  <2>4. inTxn' = inTxn
    BY <1>10, <2>2, <2>3
    DEF DeleteFile, AddVersion, AddChecksum, RegisterUser, AddRowNow, Autocommit, AutocommitBusy
  <2>5. QED
    BY <2>1, <2>4
<1>11. CASE Commit(c)
  <2>1. TakeExclusive(c) \/ BlockedCommit(c) => inTxn' = inTxn
    BY DEF TakeExclusive, BlockedCommit
  <2>2. CommitNothing(c) => ~inTxn'[c]
    BY <1>0 DEF CommitNothing
  <2>3. inTxn[c] => m \in Creating \cup {"removeFile"}
    BY <1>11 DEF Commit, InsideMethod
  <2>4. at[c] = "commit"
    BY <1>11 DEF Commit
  <2>5. QED
    BY <1>3, <1>7, <1>11, <2>1, <2>2, <2>3, <2>4 DEF Commit, Ignored, Stay, Answers
<1>12. CASE Write(c)
  BY <1>0, <1>12 DEF Write, WriteFile
<1>13. QED
  BY <1>5, <1>6, <1>8, <1>9, <1>10, <1>11, <1>12 DEF Running

LEMMA ViewGrows ==
    ASSUME NEW c \in Session, CacheGrows(c),
           ~(method[c] = "removeFile" /\ at[c] \in {"commit", "write"})
    PROVE  \A r \in db.versions : InCache(r, View(c))
BY DEF CacheGrows, View, InCache

\* At COMMIT and at the write of the file only those two go on.
LEMMA AtCommit ==
    ASSUME TypeOK, LocksCompatible, CommitLocked, NEW c \in Session, Running(c),
           at[c] \in {"commit", "write"}
    PROVE  /\ Commit(c) \/ Write(c)
           /\ got' = got
           /\ db' \in {db, work} /\ work' \in {db, work}
           /\ at'[c] \in {"commit", "write"} => UNCHANGED <<db, work>>
<1>1. Commit(c) \/ Write(c)
  BY DEF Running, Lock, ReadSalt, ExistsFile, CheckDeleted, Select, CountBlobs, Step, Finalize, Busy,
     CreateFileForUser, CreateNewBlobForFile, RemoveFile, DeleteFile, AddVersion, AddChecksum,
     RegisterUser, AtBody
<1>2. \A s : GoTo(c, s) => at'[c] = IF s \in Answers THEN "idle" ELSE s
  BY GoToEnds
<1>3. got' = got
  BY <1>1 DEF Commit, Write, resultVars
<1>4. CASE Commit(c)
  <2>1. TakeExclusive(c) \/ CommitNothing(c) \/ BlockedCommit(c) => UNCHANGED <<db, work>>
    BY DEF TakeExclusive, CommitNothing, BlockedCommit
  <2>2. Rollback(c) => db' \in {db, work} /\ work' \in {db, work}
    BY DEF Rollback
  <2>3. ~GoTo(c, "throws") \/ at'[c] \notin {"commit", "write"}
    BY <1>2 DEF Answers
  <2>4. QED
    BY <1>1, <1>3, <1>4, <2>1, <2>2, <2>3 DEF Commit
<1>5. CASE Write(c)
  BY <1>1, <1>2, <1>3, <1>5 DEF Write, WriteFile, Answers
<1>6. QED
  BY <1>1, <1>4, <1>5

\* A file removed from the cache is written or rolled back before the method ends.
LEMMA RemovalEnds ==
    ASSUME TypeOK, LocksCompatible, CommitLocked, NEW c \in Session, Running(c), ~Ignored(c),
           method[c] = "removeFile", at[c] \in {"commit", "write"}
    PROVE  at'[c] \in {"commit", "write"} \/ lock'[c] \notin Writing
<1>1. \A s : GoTo(c, s) => at'[c] = IF s \in Answers THEN "idle" ELSE s
  BY GoToEnds
<1>2. CASE Commit(c)
  BY <1>1, <1>2 DEF Commit, Ignored, CommitNothing, Writing, TypeOK, Answers
<1>3. CASE Write(c)
  BY <1>3 DEF Write, WriteFile, Writing, TypeOK
<1>4. QED
  BY <1>2, <1>3, AtCommit

LEMMA GrowsKept ==
    ASSUME TypeOK, LocksCompatible, CommitLocked, NEW c \in Session, Running(c), ~Ignored(c),
           CacheGrows(c)
    PROVE  CacheGrows(c)'
<1> DEFINE u == UserOf[c]
           f == file[c]
<1>0. FileStep(c) /\ method' = method /\ lock \in [Session -> Locks]
  BY RunningIsFileStep, CallStays DEF callVars, TypeOK
<1>1. CASE method[c] = "removeFile" /\ at[c] \in {"commit", "write"}
  BY <1>0, <1>1, RemovalEnds DEF CacheGrows
<1>2. CASE ~(method[c] = "removeFile" /\ at[c] \in {"commit", "write"})
  <2>0. /\ \A r \in db.versions : InCache(r, View(c))
        /\ View(c) \in Content /\ u \in User /\ f \in File
    BY <1>2, ViewGrows, ArgumentTypes
  <2>1. ASSUME NEW d, NEW txn, Reserve(c, d, txn), \A r \in db.versions : InCache(r, d)
        PROVE  CacheGrows(c)'
    BY <2>1 DEF Reserve, CacheGrows, InCache
  <2>2. CASE CreateEdit(c)
    BY <2>0, <2>1, <2>2, CreateInCache DEF CreateEdit
  <2>3. CASE RowEdit(c)
    <3>1. \A s, b, r : InCache(r, View(c)) => InCache(r, AddRow(View(c), u, f, s, b))
      BY <2>0 DEF InCache, AddRow, Content
    <3>2. QED
      BY <2>0, <2>1, <2>3, <3>1 DEF RowEdit
  <2>4. CASE ChecksumEdit(c)
    BY <2>0, <2>1, <2>4, SetChecksumInCache DEF ChecksumEdit
  <2>5. CASE UserEdit(c)
    <3>1. AddUser(View(c), u).versions = View(c).versions
      BY <2>0 DEF AddUser, Content
    <3>2. QED
      BY <2>0, <2>1, <2>5, <3>1 DEF UserEdit, InCache
  <2>6. CASE NoEdit(c)
    BY <2>0, <2>1, <2>6 DEF NoEdit
  <2>7. CASE RemoveEdit(c)
    <3>1. RemoveFile(c) /\ MayWrite(c)
      BY <2>7 DEF RemoveEdit, Reserve, AtBody, Running, Lock, ReadSalt, ExistsFile, CheckDeleted,
         Select, CountBlobs, Step, Finalize, Busy, CreateFileForUser, CreateNewBlobForFile,
         DeleteFile, AddVersion, AddChecksum, RegisterUser, Commit, Write
    <3>2. at'[c] = "commit"
      BY <3>1, GoToEnds DEF RemoveFile, Answers
    <3>3. QED
      BY <1>0, <2>7, <3>2 DEF RemoveEdit, AtBody, CacheGrows
  <2>8. CASE KeepsCache
    BY <2>0, <2>8 DEF KeepsCache, CacheGrows, View, InCache
  <2>9. CASE DropsCache \/ WriteFile(c)
    BY <1>0, <2>9 DEF DropsCache, WriteFile, CacheGrows, Writing
  <2>10. QED
    BY <1>0, <2>2, <2>3, <2>4, <2>5, <2>6, <2>7, <2>8, <2>9, FileStepKinds DEF Edit
<1>3. QED
  BY <1>1, <1>2

\* What a statement has to rely on.
LEMMA StatementFacts ==
    ASSUME IInv, HandlerInv, UploadInv, NEW c \in Session, Statement(c)
    PROVE  /\ TypeOK /\ LocksCompatible /\ CommitLocked /\ Running(c) /\ FileStep(c)
           /\ InOperation(c) /\ Numbered(c) /\ Equipped(c)
           /\ InsideMethod(c) /\ CacheGrows(c) /\ FreshNumber(c) /\ DiskHeld(c)
           /\ Committed(c) /\ GotOwn(c)
           /\ UNCHANGED <<method, file, sum, step, data, disk>>
           /\ at[c] \in Statements /\ at[c] \in Places(method[c])
<1>1. /\ TypeOK /\ LocksCompatible /\ CommitLocked /\ Running(c)
      /\ InOperation(c) /\ Numbered(c) /\ Equipped(c) /\ OwnUpload(c)
  BY DEF IInv, HandlerInv, UploadInv, Statement
<1>2. UNCHANGED <<method, file, sum, step, data, disk>>
  BY <1>1, CallStays DEF Statement, callVars, handlerVars
<1>3. at[c] \in Statements /\ at[c] \in Places(method[c])
  BY <1>1, RunningNumber DEF OwnUpload, InsideMethod, Statements
<1>4. QED
  BY <1>1, <1>2, <1>3, RunningIsFileStep DEF OwnUpload

\* The row createFileForUser or createNewBlobForFile adds is the only one with its
\* number, in the file and in the cache.
LEMMA CreatedRow ==
    ASSUME TypeOK, NEW c \in Session, Running(c), CacheGrows(c), method[c] \in Creating,
           at'[c] \in {"commit", "write"}, at[c] # "commit"
    PROVE  /\ \A r \in Naming(c, db', got'[c]) \cup Naming(c, work', got'[c]) : r.checksum = Null
           /\ \E r \in Naming(c, work', got'[c]) : r.file = file[c] /\ r.checksum = Null
<1> DEFINE u == UserOf[c]
           f == file[c]
           New(n) == [user |-> u, file |-> f, stamp |-> Stamp[now], blob |-> n, checksum |-> Null]
<1>0. View(c) \in Content /\ u \in User /\ f \in File /\ got \in [Session -> Blob \cup {Null}]
  BY ArgumentTypes DEF TypeOK
<1>1. PICK d \in {View(c), AddFile(View(c), u, f)}, n \in Blob :
         /\ IsNextBlob(d.versions, u, n)
         /\ Reserve(c, AddRow(d, u, f, Stamp[now], n), TRUE)
         /\ got' = [got EXCEPT ![c] = n]
  BY ComesToCommit DEF ToCommit, Creating
<1>2. d \in Content /\ d.versions = View(c).versions
  BY <1>0, <1>1, AddFileType
<1>3. /\ db' = db /\ got'[c] = n
      /\ work'.versions = d.versions \cup {New(n)}
  BY <1>0, <1>1, <1>2 DEF Reserve, AddRow, Content
<1>4. New(n).user = u /\ New(n).blob = n /\ New(n).file = f /\ New(n).checksum = Null
  OBVIOUS
<1> HIDE DEF New
<1>5. \A r \in d.versions : r.user = u => r.blob # n
  BY <1>0, <1>1, <1>2, NextBlobIsNew
<1>6. ASSUME NEW r \in db.versions, r.user = u, r.blob = n
      PROVE  FALSE
  <2>1. method[c] # "removeFile"
    BY DEF Creating
  <2>2. PICK q \in View(c).versions : q.user = u /\ q.blob = n
    BY <1>6, <2>1, ViewGrows DEF InCache
  <2>3. QED
    BY <1>2, <1>5, <2>2
<1>7. QED
  BY <1>3, <1>4, <1>5, <1>6 DEF Naming

LEMMA FreshKept ==
    ASSUME IInv, HandlerInv, UploadInv, NEW c \in Session, Statement(c)
    PROVE  FreshNumber(c)'
<1>0. UNCHANGED <<method, step>> /\ at[c] \notin {"idle", "gone"} /\ step[c] \notin Holding
  BY StatementFacts, StepOfMethod DEF Statements
<1> SUFFICES ASSUME Uploading(c)'
             PROVE  \A r \in Naming(c, db', got'[c]) \cup Naming(c, work', got'[c]) :
                        r.checksum = Null
  BY DEF FreshNumber, Naming
<1>1. CASE method[c] \in Creating /\ at'[c] \in {"commit", "write"} /\ at[c] \notin {"commit", "write"}
  BY <1>1, StatementFacts, CreatedRow
<1>2. CASE method[c] \in Creating /\ at[c] \in {"commit", "write"}
  <2>1. got' = got /\ db' \in {db, work} /\ work' \in {db, work}
    BY <1>2, StatementFacts, AtCommit
  <2>2. Uploading(c) /\ FreshNumber(c)
    BY <1>2, StatementFacts DEF Uploading
  <2>3. QED
    BY <2>1, <2>2 DEF FreshNumber
<1>3. CASE step[c] = "store" /\ at'[c] = "idle" /\ answer'[c] = "ok"
  <2>1. method[c] \in Creating
    BY <1>3, StatementFacts, StepMethods DEF InOperation
  <2>2. at[c] \in {"commit", "write"}
    BY <1>3, <2>1, StatementFacts, EndsWell DEF Commit, Write, Creating, Finding
  <2>3. QED
    BY <1>2, <2>1, <2>2
<1>4. QED
  BY <1>0, <1>1, <1>2, <1>3 DEF Uploading, Holding

LEMMA DiskHeldKept ==
    ASSUME IInv, HandlerInv, UploadInv, NEW c \in Session, Statement(c)
    PROVE  DiskHeld(c)'
<1>1. step[c] \in {"record", "compare", "match", "restore", "mark"} => got'[c] = got[c]
  <2>1. step[c] \in {"record", "compare", "match", "restore", "mark"} =>
            method[c] \notin Creating \cup Finding
    BY StatementFacts, StepMethods DEF InOperation, Creating, Finding
  <2>2. QED
    BY <2>1, StatementFacts, RunningNumber DEF Creating, Finding
<1>2. QED
  BY <1>1, StatementFacts DEF DiskHeld, Blobs

\* addChecksum finds the row of the upload in the file, and marks it in the cache.
LEMMA MarkedRow ==
    ASSUME TypeOK, NEW c \in Session, AddChecksum(c), Settled(c), got[c] # Null,
           Stored(c, db, Checksum \cup {Null})
    PROVE  /\ at'[c] \in {"commit", "idle"} /\ ~(at'[c] = "idle" /\ answer'[c] = "ok")
           /\ at'[c] = "commit" => Stored(c, work, {sum[c]})'
<1> DEFINE e == SetChecksum(View(c), UserOf[c], got[c], sum[c])
<1>1. \A s : GoTo(c, s) => /\ at'[c] = IF s \in Answers THEN "idle" ELSE s
                           /\ s \in Answers => answer'[c] = s
  BY GoToEnds
<1>2. /\ View(c) = db /\ db \in Content /\ ~inTxn[c] /\ ~stuck[c]
      /\ UNCHANGED <<got, file>>
  BY DEF Settled, View, TypeOK, AddChecksum, callVars, resultVars
<1>3. (GoTo(c, "commit") /\ work' = e) \/ GoTo(c, "throws")
  BY <1>2 DEF AddChecksum, Autocommit, AutocommitBusy, Reserve
<1>4. Stored(c, e, {sum[c]})
  <2>1. PICK q \in Naming(c, db, got[c]) : q.file = file[c]
    BY DEF Stored
  <2>2. q \in db.versions /\ q.user = UserOf[c] /\ q.blob = got[c] /\ q \in Version
    BY <1>2, <2>1 DEF Naming, Content
  <2>3. PICK r \in e.versions :
           /\ r.user = q.user /\ r.file = q.file /\ r.blob = q.blob
           /\ r = IF q.user = UserOf[c] /\ q.blob = got[c] THEN [q EXCEPT !.checksum = sum[c]]
                  ELSE q
    BY <1>2, <2>2, ChecksumRows
  <2>4. r.checksum = sum[c]
    BY <2>2, <2>3 DEF Version
  <2>5. QED
    BY <2>1, <2>2, <2>3, <2>4 DEF Stored, Naming
<1> HIDE DEF e
<1>5. work' = e => Stored(c, work, {sum[c]})'
  <2>1. sum' = sum
    BY DEF AddChecksum, callVars
  <2>2. QED
    BY <1>2, <1>4, <2>1 DEF Stored, Naming
<1>6. QED
  BY <1>1, <1>3, <1>5 DEF Answers

LEMMA CommittedKept ==
    ASSUME IInv, HandlerInv, UploadInv, NEW c \in Session, Statement(c), ~Ignored(c)
    PROVE  Committed(c)'
<1>0. UNCHANGED <<method, step, file, data, sum>> /\ at[c] \in Statements
  BY StatementFacts
<1>1. \A s : GoTo(c, s) => /\ at'[c] = IF s \in Answers THEN "idle" ELSE s
                           /\ s \in Answers => answer'[c] = s
  BY StatementFacts, GoToEnds
<1>2. ASSUME NEW sums, got' = got
      PROVE  /\ db' = db => (Stored(c, db, sums) <=> Stored(c, db, sums)')
             /\ work' = work => (Stored(c, work, sums) <=> Stored(c, work, sums)')
             /\ db' = work => (Stored(c, work, sums) <=> Stored(c, db, sums)')
  BY <1>0, <1>2 DEF Stored, Naming
<1>3. ASSUME at[c] \in {"commit", "write"}, at'[c] = "idle", answer'[c] = "ok"
      PROVE  db' = work /\ got' = got /\ Settled(c)'
  <2>1. CASE Commit(c)
    <3>1. CommitNothing(c)
      BY <1>0, <1>1, <1>3, <2>1 DEF Commit, Stay, Ignored, Answers, Statements
    <3>2. QED
      BY <2>1, <3>1, StatementFacts
      DEF Commit, CommitNothing, MayCommit, Settled, Writing, resultVars, TypeOK
  <2>2. CASE Write(c)
    <3>1. ~stuck[c]
      BY <2>2, StatementFacts DEF Write, InsideMethod
    <3>2. QED
      BY <2>2, <3>1, StatementFacts DEF Write, WriteFile, Settled, Writing, resultVars, TypeOK
  <2>3. QED
    BY <1>3, <2>1, <2>2, StatementFacts, AtCommit
<1>4. ASSUME at[c] \in {"commit", "write"}, at'[c] \in {"commit", "write"}
      PROVE  work' = work /\ got' = got
  BY <1>4, StatementFacts, AtCommit
<1>5. ASSUME method[c] \in Creating, at'[c] \in {"commit", "write"}
      PROVE  Stored(c, work, Checksum \cup {Null})'
  <2>1. CASE at[c] \in {"commit", "write"}
    BY <1>2, <1>4, <1>5, <2>1, StatementFacts DEF Committed
  <2>2. CASE at[c] \notin {"commit", "write"}
    BY <1>0, <1>5, <2>2, StatementFacts, CreatedRow DEF Stored, Naming
  <2>3. QED
    BY <2>1, <2>2
<1>6. ASSUME step[c] = "store", at'[c] = "idle", answer'[c] = "ok"
      PROVE  Settled(c)' /\ Stored(c, db, Checksum \cup {Null})'
  <2>1. method[c] \in Creating
    BY <1>6, StatementFacts, StepMethods DEF InOperation
  <2>2. at[c] \in {"commit", "write"}
    BY <1>6, <2>1, StatementFacts, EndsWell DEF Commit, Write, Creating, Finding
  <2>3. QED
    BY <1>2, <1>3, <1>6, <2>1, <2>2, StatementFacts DEF Committed
<1>7. ASSUME step[c] = "record"
      PROVE  /\ at[c] \in {"lock", "body", "commit", "write"}
             /\ Lock(c) \/ AddChecksum(c) \/ Commit(c) \/ Write(c)
             /\ got' = got /\ got[c] # Null /\ sum[c] = data[c]
  <2>1. method[c] = "addChecksum"
    BY <1>7, StatementFacts, StepMethods DEF InOperation
  <2>2. at[c] \in {"lock", "body", "commit", "write"}
    BY <2>1, StatementFacts DEF Places, Statements
  <2>3. Lock(c) \/ AddChecksum(c) \/ Commit(c) \/ Write(c)
    BY <2>1, <2>2, StatementFacts
    DEF Running, ReadSalt, ExistsFile, CheckDeleted, Select, CountBlobs, Step, Finalize, Busy,
        CreateFileForUser, CreateNewBlobForFile, RemoveFile, DeleteFile, AddVersion,
        RegisterUser, AtBody
  <2>4. QED
    BY <1>7, <2>1, <2>2, <2>3, StatementFacts, RunningNumber
    DEF Equipped, WithNumber, Holding, DiskHeld
<1>8. ASSUME step[c] = "record", Lock(c)
      PROVE  /\ at'[c] = "body"
             /\ Settled(c)' /\ Stored(c, db, Checksum \cup {Null})'
  <2>1. at[c] = "lock" /\ at'[c] = "body"
    BY <1>7, <1>8, StatementFacts, StepMethods DEF Lock, AfterLock, TypeOK, InOperation
  <2>2. UNCHANGED <<db, lock, inTxn, stuck>>
    BY <1>8 DEF Lock, fileVars
  <2>3. QED
    BY <1>2, <1>7, <1>8, <2>1, <2>2, StatementFacts DEF Committed, Settled
<1>9. ASSUME step[c] = "record", AddChecksum(c)
      PROVE  /\ at'[c] \in {"commit", "idle"} /\ ~(at'[c] = "idle" /\ answer'[c] = "ok")
             /\ at'[c] = "commit" => Stored(c, work, {sum[c]})'
  <2>1. Settled(c) /\ Stored(c, db, Checksum \cup {Null})
    BY <1>9, StatementFacts DEF Committed, AddChecksum, AtBody
  <2>2. QED
    BY <1>7, <1>9, <2>1, StatementFacts, MarkedRow
<1>10. ASSUME step[c] = "record"
       PROVE  /\ at'[c] \in {"lock", "body"} => Settled(c)' /\ Stored(c, db, Checksum \cup {Null})'
              /\ at'[c] \in {"commit", "write"} => Stored(c, work, {data[c]})'
              /\ at'[c] = "idle" /\ answer'[c] = "ok" => Stored(c, db, {data[c]})'
  <2>1. CASE Lock(c)
    BY <1>8, <1>10, <2>1
  <2>2. CASE AddChecksum(c)
    <3>1. Stored(c, work, {sum[c]})' = Stored(c, work, {data[c]})'
      BY <1>0, <1>7, <1>10
    <3>2. QED
      BY <1>9, <1>10, <2>2, <3>1
  <2>3. CASE Commit(c) \/ Write(c)
    <3>1. at[c] \in {"commit", "write"} /\ at'[c] \notin {"lock", "body"}
      BY <1>1, <2>3 DEF Commit, Write, Stay, Answers
    <3>2. Stored(c, work, {data[c]})
      BY <1>10, <3>1, StatementFacts DEF Committed
    <3>3. QED
      BY <1>0, <1>2, <1>3, <1>4, <3>1, <3>2
  <2>4. QED
    BY <1>7, <1>10, <2>1, <2>2, <2>3
<1>11. step[c] \notin Holding
  BY StatementFacts, StepOfMethod
<1>12. QED
  BY <1>0, <1>5, <1>6, <1>10, <1>11 DEF Committed, Holding

\* Until it writes, a method changes nothing in the view of its connection.
LEMMA ReadsKeepView ==
    ASSUME TypeOK, NEW c \in Session, Running(c),
           at[c] \in {"salt", "exists", "deleted", "select", "lock"}
    PROVE  /\ Lock(c) \/ ReadSalt(c) \/ ExistsFile(c) \/ CheckDeleted(c) \/ Select(c)
           /\ View(c)' = View(c)
<1>1. Lock(c) \/ ReadSalt(c) \/ ExistsFile(c) \/ CheckDeleted(c) \/ Select(c)
  BY DEF Running, CountBlobs, CreateFileForUser, CreateNewBlobForFile, RemoveFile, DeleteFile,
     AddVersion, AddChecksum, RegisterUser, AtBody, Commit, Write
<1>2. UNCHANGED fileVars \/ StartRead(c) \/ EndRead(c)
  BY <1>1 DEF Lock, ReadSalt, ExistsFile, CheckDeleted, Select, Step, Finalize, Busy
<1>3. UNCHANGED <<db, work>> /\ (lock'[c] \in Writing <=> lock[c] \in Writing)
  BY <1>2 DEF fileVars, StartRead, EndRead, Writing, TypeOK
<1>4. QED
  BY <1>1, <1>3 DEF View

\* The SELECT of a download takes a number of its file from the view.
LEMMA FindsOwn ==
    ASSUME IInv, HandlerInv, UploadInv, NEW c \in Session, Statement(c),
           method[c] \in Finding, at'[c] = "select", open'[c], found'[c], got'[c] # 0
    PROVE  \A r \in Naming(c, View(c), got'[c]) : r.file = file[c]
<1>0. TypeOK /\ Running(c) /\ Numbered(c)
  BY StatementFacts
<1>1. Select(c) /\ Step(c, "select")
  BY <1>0, ComesToSelect
<1>2. at[c] = "select" /\ ~open[c]
  BY <1>1 DEF Step
<1>3. GetBlob(c) \/ GetLastBlob(c)
  BY <1>0, <1>1, <1>2 DEF Select, Finalize, Busy, Finding, TypeOK
<1>4. ~Answered(c, FALSE)
  BY <1>0 DEF Answered, TypeOK
<1>5. got'[c] # Null
  BY <1>0, NumberedKept, CallStays DEF Numbered, callVars
<1>6. \E r \in View(c).versions : r.user = UserOf[c] /\ r.file = file[c] /\ r.blob = got'[c]
  <2>1. CASE method[c] = "getBlob"
    <3>1. GetBlob(c)
      BY <1>0, <1>1, <1>2, <2>1 DEF Select, Finalize, Busy, TypeOK
    <3>2. QED
      BY <1>0, <1>4, <1>5, <3>1 DEF GetBlob, RowsOf, TypeOK
  <2>2. CASE method[c] = "getLastBlob"
    <3>1. GetLastBlob(c)
      BY <1>0, <1>1, <1>2, <2>2 DEF Select, Finalize, Busy, TypeOK
    <3>2. QED
      BY <1>0, <1>4, <3>1 DEF GetLastBlob, Last, WithBlob, RowsOf, TypeOK
  <2>3. QED
    BY <2>1, <2>2 DEF Finding
<1>7. OneFile(View(c))
  BY DEF UploadInv, View
<1>8. QED
  BY <1>5, <1>6, <1>7 DEF OneFile, Naming

LEMMA GotOwnKept ==
    ASSUME IInv, HandlerInv, UploadInv, NEW c \in Session, Statement(c)
    PROVE  GotOwn(c)'
<1>0. UNCHANGED <<method, step, file>> /\ at[c] \in Places(method[c]) /\ at[c] \in Statements
      /\ Running(c) /\ TypeOK
  BY StatementFacts
<1>1. ASSUME method[c] \in Finding
      PROVE  /\ at[c] \in {"exists", "deleted", "select"}
             /\ View(c)' = View(c)
             /\ ExistsFile(c) \/ CheckDeleted(c) \/ Select(c)
  <2>1. at[c] \in {"exists", "deleted", "select"}
    BY <1>0, <1>1 DEF Finding, Places
  <2>2. QED
    BY <1>0, <2>1, ReadsKeepView DEF Lock, ReadSalt, Step, Finalize, Busy
<1>2. ASSUME method[c] \in Finding, at'[c] \notin {"idle", "gone"}, ~(at'[c] = "select" /\ open'[c])
      PROVE  got'[c] = Null
  <2>1. CASE Select(c)
    <3>1. ~Step(c, "select")
      BY <1>0, <1>2 DEF Step, Stay, TypeOK
    <3>2. \A yes : AfterSelect(method[c], yes) \in Answers /\ AfterBusySelect(method[c]) \in Answers
      BY <1>2 DEF AfterSelect, AfterBusySelect, Answers, Finding
    <3>3. at'[c] = "idle"
      BY <1>0, <2>1, <3>1, <3>2, GoToEnds DEF Select, Finalize, Busy
    <3>4. QED
      BY <1>2, <3>3
  <2>2. CASE ExistsFile(c) \/ CheckDeleted(c)
    <3>1. got' = got /\ at[c] # "select"
      BY <2>2 DEF ExistsFile, CheckDeleted, Step, Finalize, Busy, Answered, resultVars
    <3>2. QED
      BY <1>0, <1>2, <3>1, StatementFacts DEF GotOwn, Statements
  <2>3. QED
    BY <1>1, <1>2, <2>1, <2>2
<1>3. ASSUME Found(c), got' = got, View(c)' = View(c), got'[c] # 0
      PROVE  \A r \in Naming(c, View(c)', got'[c]) : r.file = file[c]
  BY <1>3, StatementFacts DEF GotOwn
<1>4. ASSUME Found(c)', got'[c] # 0
      PROVE  \A r \in Naming(c, View(c)', got'[c]) : r.file = file[c]
  <2>1. CASE step[c] \in Downloads
    <3>1. method[c] \in Finding
      BY <2>1, StatementFacts, StepMethods DEF InOperation, Downloads, Finding
    <3>2. CASE at'[c] = "select" /\ open'[c] /\ found'[c]
      BY <1>1, <1>4, <3>1, <3>2, FindsOwn
    <3>3. CASE at'[c] = "idle" /\ answer'[c] = "ok"
      <4>1. got' = got /\ at[c] = "select" /\ open[c] /\ found[c]
        BY <1>1, <3>1, <3>3, StatementFacts, EndsWell DEF Commit, Write, Finalize
      <4>2. QED
        BY <1>1, <1>3, <1>4, <2>1, <3>1, <4>1 DEF Found
    <3>4. QED
      BY <1>0, <1>4, <2>1, <3>2, <3>3 DEF Found, Downloads
  <2>2. CASE step[c] \in {"compare", "match"}
    <3>1. method[c] \in {"getLastVersion", "getBlobVersion"}
      BY <2>2, StatementFacts, StepMethods DEF InOperation
    <3>2. at[c] = "select" /\ got' = got
      BY <1>0, <3>1, RunningNumber DEF Places, Statements
    <3>3. QED
      BY <1>0, <1>3, <1>4, <2>2, <3>2, ReadsKeepView DEF Found
  <2>3. CASE step[c] = "restore" /\ at'[c] \notin {"commit", "write", "idle"}
    <3>1. method[c] = "addVersion" /\ got' = got
      BY <1>0, <2>3, StatementFacts, StepMethods, RunningNumber DEF InOperation
    <3>2. at'[c] \in {"exists", "lock", "body"}
      BY <1>0, <2>3, <3>1, PlacesKept DEF Places
    <3>3. /\ Lock(c) \/ ExistsFile(c) \/ CheckDeleted(c) \/ CountBlobs(c)
          /\ View(c)' = View(c)
      BY <1>0, <3>2, StatementsBefore DEF Before
    <3>4. at[c] \notin {"commit", "write", "idle"}
      BY <3>3 DEF Lock, ExistsFile, CheckDeleted, CountBlobs, Step, Finalize, Busy
    <3>5. QED
      BY <1>3, <1>4, <2>3, <3>1, <3>3, <3>4 DEF Found
  <2>4. QED
    BY <1>0, <1>4, <2>1, <2>2, <2>3, StatementFacts, StepOfMethod DEF Found, Holding
<1>5. Naming(c, View(c), got[c])' = Naming(c, View(c)', got'[c])
  BY DEF Naming
<1>6. QED
  BY <1>0, <1>2, <1>4, <1>5 DEF GotOwn

LEMMA StatementUpload ==
    ASSUME OneSessionEach, IInv, HandlerInv, HistoryInv, UploadInv,
           NEW c \in Session, Statement(c), ~Ignored(c)
    PROVE  UploadInv'
<1>1. Fit(db)' /\ Fit(work)'
  BY StatementFacts, TablesFit
<1>2. InsideMethod(c)' /\ CacheGrows(c)'
  BY StatementFacts, InsideKept, GrowsKept
<1>3. OwnUpload(c)'
  BY <1>2, FreshKept, DiskHeldKept, CommittedKept, GotOwnKept DEF OwnUpload
<1>4. \A o \in Session \ {c} : OwnUpload(o)'
  BY OthersUpload
<1>5. QED
  BY <1>1, <1>3, <1>4 DEF UploadInv, Fit

-----------------------------------------------------------------------------
(* A step of the exchange with the client.                                 *)

\* The operation goes on to a step it has the number and the content for.
Prepared(c, s, k) ==
    /\ s \in {"receive", "digest", "record"} => Uploading(c)
    /\ s \in {"send", "confirm", "compare", "match", "restore"} => Found(c)
    /\ s \in {"record", "compare", "match", "restore", "mark"} => Blobs(c)[got[c]] = data[c]
    /\ s \in {"record", "mark"} => k = data[c]

\* Only the blob of an upload that is not complete changes.
DiskStep(c) ==
    \/ disk' = disk
    \/ /\ Uploading(c) /\ got[c] # Null
       /\ \E x \in Checksum \cup {Null} : disk' = [disk EXCEPT ![UserOf[c]][got[c]] = x]

Advances(c) ==
    /\ \E s \in Steps :
          /\ Goes(c, s)
          /\ \/ Rests(c, s) /\ Prepared(c, s, Null)
             \/ /\ disk' = disk /\ s \notin Resting
                /\ s \in WithNumber => data' = data
                /\ \E m \in AllMethods \cap MethodsAt(s), f \in File, k \in Checksum :
                      /\ Call(c, m, f, k) /\ (s \in WithNumber => m \in Chained)
                      /\ Prepared(c, s, k)
             \/ Leave(c) /\ s = "ended"
    /\ DiskStep(c)
    /\ \A o \in Session \ {c} : data'[o] = data[o]

\* The checksums of complete uploads are still those of their blobs.
LEMMA DiskStepChecked ==
    ASSUME HandlerInv, UploadInv, NEW c \in Session, DiskStep(c), UNCHANGED <<db, work>>
    PROVE  (Checked(db) /\ Checked(work))'
<1>0. /\ db \in Content /\ work \in Content /\ OperationTypeOK
      /\ got[c] \in Blob \cup {Null} /\ UserOf[c] \in User
      /\ Checked(db) /\ Checked(work) /\ FreshNumber(c)
  BY SessionFacts DEF TypeOK, UploadInv, OwnUpload
<1>1. CASE disk' = disk
  BY <1>0, <1>1 DEF Checked
<1>2. CASE Uploading(c) /\ got[c] # Null
           /\ \E x \in Checksum \cup {Null} : disk' = [disk EXCEPT ![UserOf[c]][got[c]] = x]
  <2>1. ASSUME NEW d \in {db, work}, NEW r \in d.versions, r.checksum # Null
        PROVE  r.blob # Null /\ disk'[r.user][r.blob] = r.checksum
    <3>1. r.blob # Null /\ disk[r.user][r.blob] = r.checksum
      BY <1>0, <2>1 DEF Checked
    <3>2. r.user \in User /\ r.blob \in Blob
      BY <1>0, <3>1 DEF Content, Version
    <3>3. ~(r.user = UserOf[c] /\ r.blob = got[c])
      BY <1>0, <1>2, <2>1 DEF FreshNumber, Naming
    <3>4. disk'[r.user][r.blob] = disk[r.user][r.blob]
      BY <1>0, <1>2, <3>2, <3>3 DEF OperationTypeOK
    <3>5. QED
      BY <3>1, <3>4
  <2>2. QED
    BY <2>1 DEF Checked
<1>3. QED
  BY <1>1, <1>2 DEF DiskStep

LEMMA QuietUpload ==
    ASSUME NEW o \in Session, OwnUpload(o), UNCHANGED fileVars, UNCHANGED UploadPart(o)
    PROVE  OwnUpload(o)'
<1>1. UNCHANGED <<db, work, View(o)>>
  BY DEF fileVars, View
<1>2. InsideMethod(o)' /\ CacheGrows(o)' /\ DiskHeld(o)'
  BY <1>1 DEF OwnUpload, UploadPart, PartOf, InsideMethod, CacheGrows, DiskHeld, Blobs
<1>3. /\ Uploading(o)' = Uploading(o) /\ Found(o)' = Found(o)
      /\ UNCHANGED <<Naming(o, db, got[o]), Naming(o, work, got[o]), Naming(o, View(o), got[o])>>
  BY <1>1 DEF UploadPart, PartOf, Uploading, Found, Naming
<1>4. FreshNumber(o)' /\ GotOwn(o)'
  BY <1>3 DEF OwnUpload, UploadPart, PartOf, FreshNumber, GotOwn
<1>5. \A sums : UNCHANGED <<Stored(o, db, sums), Stored(o, work, sums)>>
  BY <1>3 DEF UploadPart, PartOf, Stored
<1>6. Committed(o)'
  BY <1>5 DEF OwnUpload, UploadPart, PartOf, Committed, Settled
<1>7. QED
  BY <1>2, <1>4, <1>6 DEF OwnUpload

\* Where a method begins.
LEMMA FirstPlace ==
    ASSUME NEW m \in AllMethods
    PROVE  /\ First(m) \in Places(m)
           /\ First(m) \notin {"commit", "write", "count", "idle", "gone"}
           /\ m \in Finding => First(m) = "exists"
           /\ m = "addChecksum" => First(m) = "lock"
<1>1. /\ First(m) \in {"lock", "body", "salt", "select", "exists"}
      /\ m \in Finding => First(m) = "exists"
      /\ m = "addChecksum" => First(m) = "lock"
  BY DEF First, Finding
<1>2. First(m) \in Places(m)
  BY DEF First, Places, Statements, AllMethods
<1>3. QED
  BY <1>1, <1>2

\* A session that waits for its client keeps what it knows of its number.
LEMMA RestsUpload ==
    ASSUME IInv, HandlerInv, UploadInv, NEW c \in Session, NEW s \in Steps, Goes(c, s),
           Rests(c, s), Prepared(c, s, Null)
    PROVE  OwnUpload(c)'
<1>0. /\ OwnUpload(c) /\ at[c] = "idle" /\ UNCHANGED vars /\ s \in Resting
      /\ step'[c] = s
  BY SessionFacts DEF UploadInv, Rests, Goes, OperationTypeOK
<1>1. UNCHANGED <<db, work, lock, inTxn, stuck, at, open, method, file, sum, found, got, answer>>
  BY <1>0 DEF vars
<1>2. UNCHANGED <<View(c), Naming(c, db, got[c]), Naming(c, work, got[c]), Naming(c, View(c), got[c])>>
  BY <1>1 DEF View, Naming
<1>3. InsideMethod(c)' /\ CacheGrows(c)'
  BY <1>0, <1>1 DEF OwnUpload, InsideMethod, CacheGrows
<1>4. Uploading(c)' => Uploading(c) /\ s \in {"receive", "digest"}
  BY <1>0, <1>1 DEF Uploading, Prepared, Resting, Holding
<1>5. FreshNumber(c)'
  BY <1>0, <1>1, <1>2, <1>4 DEF OwnUpload, FreshNumber
<1>6. DiskHeld(c)'
  BY <1>0 DEF DiskHeld, Resting, Holding
<1>7. Committed(c)'
  <2>1. s \in {"receive", "digest"} => Settled(c) /\ Stored(c, db, Checksum \cup {Null})
    BY <1>0 DEF Prepared, Uploading, OwnUpload, Committed
  <2>2. UNCHANGED <<Settled(c), Stored(c, db, Checksum \cup {Null})>>
    BY <1>1, <1>2 DEF Settled, Stored
  <2>3. QED
    BY <1>0, <1>1, <2>1, <2>2 DEF Committed, Resting, Holding
<1>8. GotOwn(c)'
  <2>1. Found(c)' => Found(c)
    BY <1>0, <1>1 DEF Found, Prepared, Resting, Holding, Downloads
  <2>2. QED
    BY <1>0, <1>1, <1>2, <2>1 DEF OwnUpload, GotOwn
<1>9. QED
  BY <1>3, <1>5, <1>6, <1>7, <1>8 DEF OwnUpload

\* So does one that calls its next method.
LEMMA CallsUpload ==
    ASSUME IInv, HandlerInv, UploadInv, NEW c \in Session, NEW s \in Steps, Goes(c, s),
           disk' = disk, s \notin Resting, s \in WithNumber => data' = data,
           NEW m \in AllMethods \cap MethodsAt(s), NEW f \in File, NEW k \in Checksum,
           Call(c, m, f, k), s \in WithNumber => m \in Chained, Prepared(c, s, k)
    PROVE  OwnUpload(c)'
<1>0. /\ OwnUpload(c) /\ TypeOK /\ step'[c] = s
  BY SessionFacts DEF UploadInv, Goes, OperationTypeOK
<1>1. /\ at[c] = "idle" /\ at'[c] = First(m) /\ method'[c] = m /\ UNCHANGED <<fileVars, open>>
      /\ m \in Chained => got'[c] = got[c] /\ file'[c] = file[c]
      /\ m \notin Chained => got'[c] = Null
      /\ m = "addChecksum" => sum'[c] = k
  BY <1>0 DEF Call, TypeOK
<1>2. /\ First(m) \in Places(m)
      /\ First(m) \notin {"commit", "write", "count", "idle", "gone"}
  BY FirstPlace
<1>3. UNCHANGED <<db, work, lock, inTxn, stuck, View(c)>>
  BY <1>1 DEF fileVars, View
<1>4. InsideMethod(c)' /\ CacheGrows(c)'
  BY <1>0, <1>1, <1>2, <1>3 DEF OwnUpload, InsideMethod, CacheGrows
<1>5. FreshNumber(c)'
  BY <1>0, <1>1, <1>2 DEF FreshNumber, Uploading, Resting, Holding
<1>6. s \in {"record", "mark"} => m = "addChecksum"
  BY StepMethods
<1>7. DiskHeld(c)'
  BY <1>0, <1>1, <1>6 DEF DiskHeld, Prepared, Blobs, WithNumber
<1>8. Committed(c)'
  <2>1. s = "record" => /\ Settled(c) /\ Stored(c, db, Checksum \cup {Null})
                        /\ m \in Chained /\ at'[c] = "lock"
    BY <1>0, <1>1, <1>6, FirstPlace
    DEF Prepared, Uploading, OwnUpload, Committed, Chained
  <2>2. m \in Chained => UNCHANGED <<Settled(c), Stored(c, db, Checksum \cup {Null})>>
    BY <1>1, <1>3 DEF Settled, Stored, Naming
  <2>3. QED
    BY <1>0, <1>1, <1>2, <2>1, <2>2 DEF Committed, Resting, Holding
<1>9. GotOwn(c)'
  <2>1. Found(c)' => Found(c) /\ m \in Chained
    <3>1. s \in Downloads => m \in Finding
      BY StepMethods DEF Downloads, Finding
    <3>2. m \in Finding => First(m) # "select"
      BY FirstPlace
    <3>3. Found(c)' => s \in {"compare", "match", "restore"}
      BY <1>0, <1>1, <1>2, <3>1, <3>2 DEF Found, Resting, Holding
    <3>4. QED
      BY <3>3 DEF Prepared, WithNumber
  <2>2. m \in Chained => UNCHANGED Naming(c, View(c), got[c])
    BY <1>1, <1>3 DEF Naming
  <2>3. m \in Finding => m \notin Chained
    BY DEF Finding, Chained
  <2>4. QED
    BY <1>0, <1>1, <2>1, <2>2, <2>3 DEF OwnUpload, GotOwn
<1>10. QED
  BY <1>4, <1>5, <1>7, <1>8, <1>9 DEF OwnUpload

LEMMA LeavesUpload ==
    ASSUME IInv, HandlerInv, UploadInv, NEW c \in Session, Goes(c, "ended"), Leave(c)
    PROVE  OwnUpload(c)'
<1>0. /\ OwnUpload(c) /\ TypeOK /\ step'[c] = "ended" /\ at[c] = "idle" /\ at'[c] = "gone"
      /\ UNCHANGED <<db, work, lock, inTxn, stuck, method>>
  BY SessionFacts DEF UploadInv, Goes, OperationTypeOK, Leave, fileVars, callVars, TypeOK
<1>1. InsideMethod(c)' /\ CacheGrows(c)'
  BY <1>0 DEF OwnUpload, InsideMethod, CacheGrows
<1>2. FreshNumber(c)' /\ DiskHeld(c)' /\ Committed(c)' /\ GotOwn(c)'
  BY <1>0 DEF FreshNumber, Uploading, DiskHeld, Committed, GotOwn, Found, Downloads
<1>3. QED
  BY <1>1, <1>2 DEF OwnUpload

LEMMA AdvanceUpload ==
    ASSUME OneSessionEach, IInv, HandlerInv, UploadInv, NEW c \in Session, Advances(c)
    PROVE  UploadInv'
<1>0. PICK s \in Steps :
         /\ Goes(c, s)
         /\ \/ Rests(c, s) /\ Prepared(c, s, Null)
            \/ /\ disk' = disk /\ s \notin Resting
               /\ s \in WithNumber => data' = data
               /\ \E m \in AllMethods \cap MethodsAt(s), f \in File, k \in Checksum :
                     /\ Call(c, m, f, k) /\ (s \in WithNumber => m \in Chained)
                     /\ Prepared(c, s, k)
            \/ Leave(c) /\ s = "ended"
  BY DEF Advances
<1>1. UNCHANGED fileVars
  BY <1>0 DEF Rests, Call, Leave, vars, fileVars
<1>2. OwnUpload(c)'
  BY <1>0, RestsUpload, CallsUpload, LeavesUpload
<1>3. ASSUME NEW o \in Session \ {c}
      PROVE  OwnUpload(o)'
  <2>1. UserOf[o] # UserOf[c] /\ UserOf[o] \in User
    BY SessionAssumption DEF OneSessionEach
  <2>2. disk'[UserOf[o]] = disk[UserOf[o]] /\ data'[o] = data[o] /\ step'[o] = step[o]
    BY <1>0, <2>1, SessionFacts DEF Advances, DiskStep, OperationTypeOK, Goes
  <2>3. UNCHANGED <<at[o], method[o], open[o], found[o], got[o], answer[o], sum[o], file[o]>>
    BY <1>0, SessionFacts DEF Rests, Call, Leave, vars, callVars, resultVars, TypeOK
  <2>4. UNCHANGED UploadPart(o)
    BY <1>1, <2>2, <2>3 DEF UploadPart, PartOf, fileVars
  <2>5. QED
    BY <1>1, <2>4, QuietUpload DEF UploadInv
<1>4. Checked(db)' /\ Checked(work)'
  BY <1>1, DiskStepChecked DEF Advances, fileVars
<1>5. OneFile(db)' /\ OneFile(work)'
  BY <1>1 DEF fileVars, UploadInv
<1>6. QED
  BY <1>2, <1>3, <1>4, <1>5 DEF UploadInv

LEMMA RepliesAdvance ==
    ASSUME HandlerInv, NEW c \in Session, NEW r, Reply(c, r), at[c] = "idle", DiskStep(c)
    PROVE  Advances(c)
<1>1. Goes(c, "ready") /\ Rests(c, "ready") /\ Prepared(c, "ready", Null)
  BY SessionFacts, FreeSteps DEF Reply, Rests, Resting, Holding, Prepared
<1>2. \A o \in Session \ {c} : data'[o] = data[o]
  BY SessionFacts DEF Reply, OperationTypeOK
<1>3. QED
  BY <1>1, <1>2, FreeSteps DEF Advances

LEMMA LeavesAdvance ==
    ASSUME NEW c \in Session, Leave(c), Goes(c, "ended"), data' = data, DiskStep(c)
    PROVE  Advances(c)
BY FreeSteps DEF Advances

LEMMA SpinsAdvance ==
    ASSUME HandlerInv, NEW c \in Session, ReadForever(c), at[c] = "idle"
    PROVE  Advances(c)
<1>1. Goes(c, "spin") /\ Rests(c, "spin") /\ Prepared(c, "spin", Null)
  BY SessionFacts, FreeSteps DEF ReadForever, Rests, Resting, Holding, Prepared
<1>2. DiskStep(c) /\ data' = data
  BY DEF ReadForever, DiskStep
<1>3. QED
  BY <1>1, <1>2, FreeSteps DEF Advances

LEMMA GoesOnAdvance ==
    ASSUME HandlerInv, NEW c \in Session, NEW s \in Holding, Goes(c, s), UNCHANGED vars,
           at[c] = "idle", answer[c] = "ok", got[c] # Null, method[c] \in MethodsAt(s),
           Prepared(c, s, Null), DiskStep(c), \A o \in Session \ {c} : data'[o] = data[o]
    PROVE  Advances(c)
<1>1. s \in Steps /\ Rests(c, s)
  BY DEF Steps, UploadSteps, DownloadSteps, Rests, Resting, Holding
<1>2. QED
  BY <1>1 DEF Advances

LEMMA CallsAdvance ==
    ASSUME HandlerInv, NEW c \in Session, NEW m \in AllMethods, NEW k \in Checksum,
           NEW s \in {"store", "record", "compare", "match", "restore", "mark", "path"},
           CallThen(c, m, k, s), m \in MethodsAt(s), UNCHANGED <<disk, data>>, Prepared(c, s, k)
    PROVE  Advances(c)
<1>1. s \in Steps /\ s \notin Resting
  BY DEF Steps, UploadSteps, DownloadSteps, Resting, Holding
<1>2. s \in WithNumber => m \in Chained
  BY StepMethods DEF WithNumber, Holding, Chained
<1>3. Goes(c, s) /\ Call(c, m, file[c], k) /\ file[c] \in File /\ DiskStep(c)
  BY SessionFacts DEF CallThen, DiskStep
<1>4. QED
  BY <1>1, <1>2, <1>3 DEF Advances

LEMMA UploadAdvances ==
    ASSUME HandlerInv, UploadInv, NEW c \in Session,
           StoreVersion(c) \/ OpenBlob(c) \/ Receive(c) \/ CompareDigests(c) \/ EndUpload(c)
    PROVE  Advances(c)
<1> USE SessionFacts, StepMethods
<1>0. disk' = disk => DiskStep(c)
  BY DEF DiskStep
<1>1. CASE StoreVersion(c)
  BY <1>1, CallsAdvance DEF StoreVersion, Creating, AllMethods, Prepared
<1>2. CASE OpenBlob(c)
  <2>1. at[c] = "idle" /\ step[c] = "store"
    BY <1>2 DEF OpenBlob, Returned
  <2>2. CASE /\ answer[c] = "ok"
             /\ disk' = [disk EXCEPT ![UserOf[c]][got[c]] = Torn]
             /\ Goes(c, "receive")
             /\ UNCHANGED <<vars, data, last, reply>>
    <3>1. got[c] # Null /\ Uploading(c) /\ method[c] \in Creating
      BY <2>1, <2>2 DEF Equipped, Uploading, InOperation
    <3>2. DiskStep(c) /\ Prepared(c, "receive", Null)
      BY <2>2, <3>1 DEF DiskStep, Prepared
    <3>3. QED
      BY <2>1, <2>2, <3>1, <3>2, GoesOnAdvance DEF Holding
  <2>3. QED
    BY <1>0, <1>2, <2>1, <2>2, RepliesAdvance, LeavesAdvance DEF OpenBlob, Returned, EndSession
<1>3. CASE Receive(c)
  <2>1. /\ at[c] = "idle" /\ answer[c] = "ok" /\ got[c] # Null /\ method[c] \in Creating
        /\ Uploading(c) /\ step[c] = "receive"
    BY <1>3 DEF Receive, InOperation, Equipped, Holding, WithNumber, Uploading
  <2>2. PICK x \in Checksum \cup {Null} : disk' = [disk EXCEPT ![UserOf[c]][got[c]] = x]
    BY <1>3 DEF Receive
  <2>3. DiskStep(c) /\ Prepared(c, "digest", Null)
    BY <2>1, <2>2 DEF DiskStep, Prepared
  <2>4. CASE Goes(c, "digest") /\ UNCHANGED <<vars, data, last, reply>>
    BY <2>1, <2>3, <2>4, GoesOnAdvance DEF Holding
  <2>5. QED
    BY <1>3, <2>1, <2>3, <2>4, RepliesAdvance, LeavesAdvance DEF Receive
<1>4. CASE CompareDigests(c)
  <2>1. at[c] = "idle" /\ data[c] # Null /\ Uploading(c)
    BY <1>4 DEF CompareDigests, InOperation, Equipped, Holding, WithData, Uploading
  <2>2. CASE /\ Blobs(c)[got[c]] = data[c]
             /\ CallThen(c, "addChecksum", data[c], "record")
             /\ UNCHANGED <<disk, data, last>>
    <3>1. Prepared(c, "record", data[c])
      BY <2>1, <2>2 DEF Prepared
    <3>2. QED
      BY <2>1, <2>2, <3>1, CallsAdvance DEF AllMethods
  <2>3. QED
    BY <1>0, <1>4, <2>1, <2>2, RepliesAdvance, SpinsAdvance DEF CompareDigests
<1>5. CASE EndUpload(c)
  BY <1>0, <1>5, RepliesAdvance, LeavesAdvance DEF EndUpload, EndSession, Returned
<1>6. QED
  BY <1>1, <1>2, <1>3, <1>4, <1>5

LEMMA DownloadAdvances ==
    ASSUME HandlerInv, UploadInv, NEW c \in Session,
           FindBlob(c) \/ SendBlob(c) \/ Confirm(c) \/ CompareVersions(c) \/ EndRestore(c)
    PROVE  Advances(c)
<1> USE SessionFacts, StepMethods
<1>0. (disk' = disk => DiskStep(c)) /\ DiskHeld(c)
  BY DEF DiskStep, UploadInv, OwnUpload
<1>1. CASE FindBlob(c)
  <2>1. CASE \E op \in Downloads : /\ Returned(c, op, {"ok"})
                                   /\ Goes(c, "send")
                                   /\ UNCHANGED <<vars, disk, data, last, reply>>
    <3>1. at[c] = "idle" /\ answer[c] = "ok" /\ got[c] # Null
      BY <2>1 DEF Returned, Equipped
    <3>2. method[c] \in Finding /\ Found(c)
      BY <2>1 DEF Returned, InOperation, Downloads, Finding, Found
    <3>3. Prepared(c, "send", Null)
      BY <3>2 DEF Prepared
    <3>4. QED
      BY <1>0, <2>1, <3>1, <3>2, <3>3, GoesOnAdvance DEF Holding
  <2>2. QED
    BY <1>0, <1>1, <2>1, RepliesAdvance DEF FindBlob, Returned
<1>2. CASE SendBlob(c)
  <2>1. /\ at[c] = "idle" /\ answer[c] = "ok" /\ got[c] # Null /\ method[c] \in Finding
        /\ Prepared(c, "confirm", Null)
    BY <1>2 DEF SendBlob, InOperation, Equipped, Holding, WithNumber, Prepared, Found
  <2>2. CASE /\ data' = [data EXCEPT ![c] = Blobs(c)[got[c]]]
             /\ Goes(c, "confirm")
             /\ UNCHANGED <<vars, disk, last, reply>>
    <3>1. \A o \in Session \ {c} : data'[o] = data[o]
      BY <2>2 DEF OperationTypeOK
    <3>2. QED
      BY <1>0, <2>1, <2>2, <3>1, GoesOnAdvance DEF Holding
  <2>3. QED
    BY <1>2, <2>1, <2>2, SpinsAdvance DEF SendBlob
<1>3. CASE Confirm(c)
  <2>1. at[c] = "idle" /\ Found(c)
    BY <1>3 DEF Confirm, InOperation, Holding, Found
  <2>2. CASE /\ Blobs(c)[got[c]] = data[c]
             /\ IF method[c] = "getBlob" THEN CallThen(c, "addVersion", Torn, "restore")
                                         ELSE CallThen(c, "getLastVersion", Torn, "compare")
             /\ UNCHANGED <<disk, data, last>>
    <3>1. Prepared(c, "restore", Torn) /\ Prepared(c, "compare", Torn)
      BY <2>1, <2>2 DEF Prepared
    <3>2. QED
      BY <2>2, <3>1, CallsAdvance DEF AllMethods
  <2>3. QED
    BY <1>0, <1>3, <2>1, <2>2, RepliesAdvance, SpinsAdvance DEF Confirm
<1>4. CASE CompareVersions(c)
  <2>1. at[c] = "idle"
    BY <1>4 DEF CompareVersions, Returned
  <2>2. CASE step[c] \in {"compare", "match"} /\ answer[c] = "ok"
    <3>1. Prepared(c, "match", Torn) /\ Prepared(c, "restore", Torn)
      BY <1>0, <2>2 DEF Prepared, Found, DiskHeld
    <3>2. QED
      BY <1>0, <1>4, <2>1, <3>1, RepliesAdvance, CallsAdvance DEF CompareVersions, AllMethods
  <2>3. QED
    BY <1>0, <1>4, <2>1, <2>2, RepliesAdvance DEF CompareVersions, Returned
<1>5. CASE EndRestore(c)
  <2>1. at[c] = "idle"
    BY <1>5 DEF EndRestore, Returned
  <2>2. CASE step[c] = "restore" /\ CallThen(c, "addChecksum", data[c], "mark")
             /\ UNCHANGED <<disk, data, last>>
    <3>1. data[c] # Null /\ Prepared(c, "mark", data[c])
      BY <1>0, <2>2 DEF Prepared, DiskHeld, Equipped, WithData
    <3>2. QED
      BY <2>2, <3>1, CallsAdvance DEF AllMethods
  <2>3. QED
    BY <1>0, <1>5, <2>1, <2>2, RepliesAdvance DEF EndRestore, Returned
<1>6. QED
  BY <1>1, <1>2, <1>3, <1>4, <1>5

LEMMA OtherAdvances ==
    ASSUME HandlerInv, NEW c \in Session,
           EndChange(c) \/ EndListing(c) \/ EndLogIn(c) \/ EndSignIn(c)
    PROVE  Advances(c)
<1> USE SessionFacts, StepMethods
<1>0. disk' = disk => DiskStep(c)
  BY DEF DiskStep
<1>1. CASE EndChange(c)
  BY <1>0, <1>1, RepliesAdvance DEF EndChange, Returned
<1>2. CASE EndListing(c)
  BY <1>0, <1>2, RepliesAdvance, LeavesAdvance DEF EndListing, Returned, EndSession
<1>3. CASE EndLogIn(c)
  <2>1. Prepared(c, "path", Torn)
    BY DEF Prepared
  <2>2. QED
    BY <1>0, <1>3, <2>1, RepliesAdvance, LeavesAdvance, CallsAdvance
    DEF EndLogIn, Returned, EndSession, AllMethods
<1>4. CASE EndSignIn(c)
  BY <1>0, <1>4, RepliesAdvance DEF EndSignIn, Returned
<1>5. QED
  BY <1>1, <1>2, <1>3, <1>4

LEMMA RequestAdvances ==
    ASSUME HandlerInv, NEW c \in Session, NEW op \in Operations[c], NEW f \in File,
           NEW content \in Checksum \ {Torn}, Request(c, op, f, content)
    PROVE  Advances(c)
<1> USE SessionFacts
<1>1. op \in DOMAIN MethodOf
  BY OperationsAssumption
<1>2. /\ op \in Steps /\ op \notin Resting /\ op \notin WithNumber
      /\ MethodOf[op] \in AllMethods \cap MethodsAt(op)
      /\ Prepared(c, op, Torn)
  BY <1>1 DEF Steps, MethodOf, Resting, Holding, WithNumber, MethodsAt, AllMethods, Prepared
<1>3. /\ Goes(c, op) /\ disk' = disk /\ DiskStep(c)
      /\ \A o \in Session \ {c} : data'[o] = data[o]
  BY DEF Request, DiskStep, OperationTypeOK
<1>4. \E g \in File : Call(c, MethodOf[op], g, Torn)
  BY DEF Request
<1>5. QED
  BY <1>2, <1>3, <1>4 DEF Advances

-----------------------------------------------------------------------------
(* Every step of HandlerSpec.                                              *)

LEMMA InitUpload ==
    ASSUME HandlerInit
    PROVE  UploadInv
<1>1. /\ db.versions = {} /\ work = db
      /\ \A c \in Session : /\ at[c] = "idle" /\ lock[c] = "none" /\ ~inTxn[c] /\ ~stuck[c]
                            /\ step[c] = "ready"
  BY DEF HandlerInit, Init, FileInit
<1>2. Checked(db) /\ Checked(work) /\ OneFile(db) /\ OneFile(work)
  BY <1>1 DEF Checked, OneFile
<1>3. ASSUME NEW c \in Session
      PROVE  OwnUpload(c)
  <2>1. InsideMethod(c) /\ CacheGrows(c)
    BY <1>1, <1>3 DEF InsideMethod, CacheGrows, Writing
  <2>2. FreshNumber(c) /\ DiskHeld(c) /\ Committed(c) /\ GotOwn(c)
    BY <1>1, <1>3 DEF FreshNumber, Uploading, DiskHeld, Committed, GotOwn, Found, Downloads
  <2>3. QED
    BY <2>1, <2>2 DEF OwnUpload
<1>4. QED
  BY <1>2, <1>3 DEF UploadInv

\* A crash ends every upload; what it left on disk without a checksum stays without.
LEMMA CrashUpload ==
    ASSUME HandlerInv, UploadInv, ServerCrash
    PROVE  UploadInv'
<1>1. /\ db' = db /\ work' = db /\ disk' = disk
      /\ \A c \in Session : /\ at'[c] = "idle" /\ lock'[c] = "none" /\ ~inTxn'[c]
                            /\ ~stuck'[c] /\ step'[c] = "ready"
  BY DEF ServerCrash, Crash, FileCrash
<1>2. Checked(db)' /\ Checked(work)' /\ OneFile(db)' /\ OneFile(work)'
  BY <1>1 DEF UploadInv, Checked, OneFile
<1>3. ASSUME NEW c \in Session
      PROVE  OwnUpload(c)'
  <2>1. InsideMethod(c)' /\ CacheGrows(c)'
    BY <1>1, <1>3 DEF InsideMethod, CacheGrows, Writing
  <2>2. FreshNumber(c)' /\ DiskHeld(c)' /\ Committed(c)' /\ GotOwn(c)'
    BY <1>1, <1>3 DEF FreshNumber, Uploading, DiskHeld, Committed, GotOwn, Found, Downloads
  <2>3. QED
    BY <2>1, <2>2 DEF OwnUpload
<1>4. QED
  BY <1>2, <1>3 DEF UploadInv

LEMMA NextUpload ==
    ASSUME OneSessionEach, IInv, HandlerInv, HistoryInv, UploadInv, [HandlerNext]_allVars,
           [\A c \in Session : ~Ignored(c)]_allVars
    PROVE  UploadInv'
<1>1. ASSUME NEW c \in Session, Statement(c), ~UNCHANGED allVars
      PROVE  UploadInv'
  BY <1>1, StatementUpload
<1>2. ASSUME NEW c \in Session, Operation(c)
      PROVE  UploadInv'
  BY <1>2, UploadAdvances, DownloadAdvances, OtherAdvances, AdvanceUpload DEF Operation
<1>3. ASSUME NEW c \in Session, NEW op \in Operations[c], NEW f \in File,
             NEW content \in Checksum \ {Torn}, Request(c, op, f, content)
      PROVE  UploadInv'
  BY <1>3, RequestAdvances, AdvanceUpload
<1>4. ASSUME NEW c \in Session, EndSession(c)
      PROVE  UploadInv'
  BY <1>4, LeavesAdvance, AdvanceUpload DEF EndSession, DiskStep
<1>5. CASE (Tick /\ UNCHANGED handlerVars) \/ UNCHANGED allVars
  <2>1. UNCHANGED fileVars /\ \A c \in Session : UNCHANGED UploadPart(c)
    BY <1>5 DEF Tick, callVars, resultVars, handlerVars, allVars, vars, fileVars, UploadPart, PartOf
  <2>2. disk' = disk
    BY <1>5 DEF handlerVars, allVars
  <2>3. \A c \in Session : OwnUpload(c)'
    BY <2>1, QuietUpload DEF UploadInv
  <2>4. Checked(db)' /\ Checked(work)' /\ OneFile(db)' /\ OneFile(work)'
    BY <2>1, <2>2 DEF fileVars, UploadInv, Checked, OneFile
  <2>5. QED
    BY <2>3, <2>4 DEF UploadInv
<1>6. QED
  BY <1>1, <1>2, <1>3, <1>4, <1>5, CrashUpload DEF HandlerNext

-----------------------------------------------------------------------------
(* An upload that is answered with OK.                                     *)

\* Only the end of an upload answers it with OK.
LEMMA AnsweredUpload ==
    ASSUME HandlerInv, UploadInv, HandlerNext, NEW c \in Session,
           step[c] \in UploadSteps, step'[c] = "ready", reply'[c] = "OK"
    PROVE  Returned(c, "record", {"ok"}) /\ UNCHANGED <<db, disk>>
<1>0. /\ \A o \in Session : \A s : Goes(o, s) => step'[c] = IF o = c THEN s ELSE step[c]
      /\ \A o \in Session : \A r : Reply(o, r) => reply'[c] = IF o = c THEN r ELSE reply[c]
      /\ step[c] # "ready"
  BY SessionFacts DEF Goes, Reply, OperationTypeOK, UploadSteps
<1>1. \A o \in Session : Advances(o) => o = c
  BY <1>0 DEF Advances
<1>2. ~ServerCrash /\ ~UNCHANGED step
  BY <1>0 DEF ServerCrash
<1>3. \A o \in Session : ~EndSession(o)
  BY <1>0 DEF EndSession, UploadSteps
<1>4. ASSUME NEW o \in Session, Operation(o)
      PROVE  o = c
  BY <1>1, <1>4, UploadAdvances, DownloadAdvances, OtherAdvances DEF Operation
<1>5. Operation(c)
  <2>1. ASSUME NEW o \in Session, NEW op \in Operations[o], NEW f, NEW x, Request(o, op, f, x)
        PROVE  FALSE
    <3>1. Goes(o, op) /\ op # "ready" /\ step[o] = "ready"
      BY <2>1, OperationsAssumption DEF Request, MethodOf
    <3>2. QED
      BY <1>0, <3>1
  <2>2. QED
    BY <1>2, <1>3, <1>4, <2>1 DEF HandlerNext, Statement, handlerVars
<1>6. ~StoreVersion(c)
  BY <1>0 DEF StoreVersion, CallThen
<1>7. ~OpenBlob(c) /\ ~Receive(c)
  BY <1>0, <1>3 DEF OpenBlob, Receive
<1>8. ~CompareDigests(c)
  BY <1>0 DEF CompareDigests, CallThen, ReadForever
<1>9. ~FindBlob(c) /\ ~SendBlob(c) /\ ~Confirm(c) /\ ~CompareVersions(c) /\ ~EndRestore(c)
  BY DEF UploadSteps, FindBlob, SendBlob, Confirm, CompareVersions, EndRestore, Returned, Downloads
<1>10. ~EndChange(c) /\ ~EndListing(c) /\ ~EndLogIn(c) /\ ~EndSignIn(c)
  BY DEF UploadSteps, EndChange, EndListing, EndLogIn, EndSignIn, Returned
<1>11. EndUpload(c)
  BY <1>5, <1>6, <1>7, <1>8, <1>9, <1>10 DEF Operation
<1>12. QED
  BY <1>3, <1>11 DEF EndUpload, Reply, vars

UploadAnswered(c) ==
    step[c] \in UploadSteps /\ step'[c] = "ready" /\ reply'[c] = "OK" =>
        /\ disk'[UserOf[c]][got[c]] = data[c]
        /\ \E r \in RowsOf(db'.versions, UserOf[c], file[c]) :
               r.blob = got[c] /\ r.checksum = data[c]

LEMMA UploadIsStored ==
    ASSUME HandlerInv, UploadInv, [HandlerNext]_allVars
    PROVE  [\A c \in Session : UploadAnswered(c)]_allVars
<1> SUFFICES ASSUME HandlerNext, NEW c \in Session,
                    step[c] \in UploadSteps, step'[c] = "ready", reply'[c] = "OK"
             PROVE  /\ disk'[UserOf[c]][got[c]] = data[c]
                    /\ \E r \in RowsOf(db'.versions, UserOf[c], file[c]) :
                           r.blob = got[c] /\ r.checksum = data[c]
  BY DEF UploadAnswered
<1>1. step[c] = "record" /\ at[c] = "idle" /\ answer[c] = "ok" /\ UNCHANGED <<db, disk>>
  BY AnsweredUpload DEF Returned
<1>2. disk[UserOf[c]][got[c]] = data[c] /\ Stored(c, db, {data[c]})
  BY <1>1 DEF UploadInv, OwnUpload, DiskHeld, Committed, Blobs
<1>3. PICK r \in db.versions : /\ r.user = UserOf[c] /\ r.file = file[c]
                               /\ r.blob = got[c] /\ r.checksum = data[c]
  BY <1>2 DEF Stored, Naming
<1>4. r \in RowsOf(db'.versions, UserOf[c], file[c])
  BY <1>1, <1>3 DEF RowsOf
<1>5. QED
  BY <1>1, <1>2, <1>3, <1>4

-----------------------------------------------------------------------------
(* One session: no COMMIT finds the file busy.                             *)

OneSession == \A c, o \in Session : c = o

LEMMA NeverBusy ==
    ASSUME OneSession, IInv, HandlerInv, \A c \in Session : ~stuck[c], [HandlerNext]_allVars
    PROVE  /\ \A c \in Session : ~stuck'[c]
           /\ \A c \in Session : ~Ignored(c)
<1>1. \A c \in Session : \A held : ~OthersHold(c, held)
  BY DEF OneSession, OthersHold
<1>2. \A c \in Session : MayWrite(c) /\ MayCommit(c)
  BY <1>1 DEF MayWrite, MayRead, MayCommit
<1>3. \A c \in Session : ~Ignored(c)
  BY <1>2 DEF Ignored, BlockedCommit
<1>4. ASSUME NEW c \in Session, Running(c)
      PROVE  stuck' = stuck
  <2>1. FileStep(c)
    BY <1>4, RunningIsFileStep DEF IInv
  <2>2. QED
    BY <1>2, <2>1
    DEF FileStep, fileVars, StartRead, EndRead, BeginRead, Rollback, LeaveActive, CreateEdit,
        RemoveEdit, RowEdit, ChecksumEdit, UserEdit, NoEdit, Reserve, Committing, TakeExclusive,
        CommitNothing, BlockedCommit, WriteFile
<1>5. [Next]_vars
  BY HandlerStep
<1>6. stuck' = stuck \/ Crash
  BY <1>4, <1>5 DEF Next, Call, Leave, Tick, fileVars, vars
<1>7. QED
  BY <1>3, <1>6 DEF Crash, FileCrash

LEMMA NoneIgnoredAlone ==
    ASSUME OneSession
    PROVE  HandlerSpec => NoneIgnored
<1> DEFINE Free == \A c \in Session : ~stuck[c]
           Heeded == \A c \in Session : ~Ignored(c)
<1>1. HandlerInit => Free
  BY DEF HandlerInit, Init, FileInit
<1>2. IInv /\ HandlerInv /\ Free /\ [HandlerNext]_allVars => Free' /\ [Heeded]_allVars
  BY NeverBusy
<1> HIDE DEF Free, Heeded
<1>3. HandlerSpec => [][Heeded]_allVars
  BY <1>1, <1>2, HandlerUses, Invariance, PTL DEF HandlerSpec
<1>4. QED
  BY <1>3, PTL DEF NoneIgnored, Heeded

-----------------------------------------------------------------------------
(* The theorems, for a client that has the server for itself.              *)

LEMMA UploadInvariance ==
    ASSUME OneSession
    PROVE  HandlerSpec => []UploadInv
<1>1. HandlerInit => UploadInv
  BY InitUpload
<1>2. OneSessionEach
  BY DEF OneSession, OneSessionEach
<1>3. /\ IInv /\ HandlerInv /\ HistoryInv /\ UploadInv /\ [HandlerNext]_allVars
      /\ [\A c \in Session : ~Ignored(c)]_allVars
      => UploadInv'
  BY <1>2, NextUpload
<1>4. Spec => []IInv /\ []HistoryInv
  BY <1>2, Invariance, HistoryInvariance
<1>5. QED
  BY <1>1, <1>3, <1>4, NoneIgnoredAlone, HandlerUses, PTL DEF HandlerSpec, NoneIgnored

\* What getUserFolder tells a client to compare with is what a download delivers:
\* with one session, neither an upload that breaks off (ConnectionHandler.cpp:133-205),
\* a removed file whose number is used again, a restored version nor a crash gives a
\* checksum to other content.
THEOREM ChecksumAlwaysOfContent ==
    ASSUME OneSession
    PROVE  HandlerSpec => []ChecksumOfContent
<1>1. UploadInv => ChecksumOfContent
  BY DEF UploadInv, Checked, ChecksumOfContent
<1>2. QED
  BY <1>1, UploadInvariance, PTL

\* With one session addVersion (DatabaseHandler.cpp:702) restores numbers of its own
\* file only, but for number 0, which getBlob takes the date of a deletion for.
THEOREM BlobAlwaysOfOneFile ==
    ASSUME OneSession
    PROVE  HandlerSpec => []BlobOfOneFile
<1>1. UploadInv => BlobOfOneFile
  BY DEF UploadInv, OneFile, BlobOfOneFile
<1>2. QED
  BY <1>1, UploadInvariance, PTL

\* With one session the OK of uploadFile (ConnectionHandler.cpp:205) comes when the
\* version, its digest and its blob are in the file and on disk.
THEOREM UploadAlwaysDurable ==
    ASSUME OneSession
    PROVE  HandlerSpec => UploadDurable
<1>1. HandlerInv /\ UploadInv /\ [HandlerNext]_allVars =>
          [\A c \in Session : UploadAnswered(c)]_allVars
  BY UploadIsStored
<1>2. QED
  BY <1>1, UploadInvariance, HandlerUses, PTL DEF HandlerSpec, UploadDurable, UploadAnswered

=============================================================================
