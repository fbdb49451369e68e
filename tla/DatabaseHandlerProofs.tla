------------------------ MODULE DatabaseHandlerProofs ------------------------
(***************************************************************************)
(* Proofs about DatabaseHandler, for any sessions, users, files, clock and *)
(* bound: the type invariant, SQLite's lock discipline as the methods use  *)
(* it, and that no commit loses a version, leaves a file without a blob or *)
(* hands a blob number out twice.                                          *)
(***************************************************************************)
EXTENDS DatabaseHandler, TLAPS

-----------------------------------------------------------------------------
(* The inductive invariant, in parts.                                      *)

\* The method of c that is about to commit holds the write lock.
CommitLocked ==
    \A c \in Session :
        /\ at[c] \in {"commit", "write"} => lock[c] \in Writing
        /\ at[c] = "write" => lock[c] = "exclusive"

\* A row of the file is still in the cache of the connection that writes.
InCache(r, d) ==
    \E q \in d.versions : /\ q.user = r.user /\ q.file = r.file
                          /\ q.stamp = r.stamp /\ q.blob = r.blob

\* The cache of a writer is the file plus its own changes: outside an explicit
\* transaction nothing is gone from it, inside one only whole files are.
CacheCurrent ==
    \A c \in Session : lock[c] \in Writing =>
        /\ \A r \in db.versions : Kept(r, work)
        /\ ~inTxn[c] => \A r \in db.versions : InCache(r, work)

\* A writer changes the rows of its own user only.
CacheOwn ==
    \A c \in Session : lock[c] \in Writing =>
        \A u \in User \ {UserOf[c]} : OwnRows(u, work) = OwnRows(u, db)

\* addVersion is called with a number.
RestoresNumber ==
    \A c \in Session :
        at[c] \notin {"idle", "gone", "abort"} /\ method[c] = "addVersion" => got[c] # Null

IInv ==
    /\ TypeOK
    /\ LocksCompatible
    /\ CommitLocked
    /\ HasBlob(db) /\ HasBlob(work)
    /\ CacheCurrent
    /\ CacheOwn
    /\ BlobHandedOnce
    /\ RestoresNumber

-----------------------------------------------------------------------------
(* What a step of a method does to the file, in one place.                 *)

\* The changes a method makes to the cache, with what it made sure of before:
\* FILES and VERSIONS together only in a transaction of their own.
CreateEdit(c) ==
    LET d == AddFile(View(c), UserOf[c], file[c])
    IN  /\ AtBody(c, "createFileForUser") /\ ~inTxn[c]
        /\ <<UserOf[c], file[c]>> \notin View(c).files
        /\ KeyFree(d.versions, UserOf[c], file[c], Stamp[now])
        /\ \E n \in Blob :
              /\ IsNextBlob(d.versions, UserOf[c], n)
              /\ Reserve(c, AddRow(d, UserOf[c], file[c], Stamp[now], n), TRUE)

RemoveEdit(c) ==
    /\ AtBody(c, "removeFile")
    /\ Reserve(c, DropFile(View(c), UserOf[c], file[c]), TRUE)

\* The Blob column of the row a method adds, and whether it is in a transaction.
RowOf(c, b, txn) ==
    \/ /\ AtBody(c, "createNewBlobForFile") /\ txn
       /\ b \in Blob /\ IsNextBlob(View(c).versions, UserOf[c], b)
    \/ AtBody(c, "deleteFile") /\ b = Null /\ txn = inTxn[c]
    \/ AtBody(c, "addVersion") /\ b = got[c] /\ txn = inTxn[c]

RowEdit(c) ==
    /\ KeyFree(View(c).versions, UserOf[c], file[c], Stamp[now])
    /\ \E b \in Blob \cup {Null}, txn \in BOOLEAN :
          /\ RowOf(c, b, txn)
          /\ Reserve(c, AddRow(View(c), UserOf[c], file[c], Stamp[now], b), txn)

ChecksumEdit(c) ==
    /\ AtBody(c, "addChecksum")
    /\ Reserve(c, SetChecksum(View(c), UserOf[c], got[c], sum[c]), inTxn[c])

UserEdit(c) ==
    /\ AtBody(c, "registerUser") /\ UserOf[c] \notin View(c).users
    /\ Reserve(c, AddUser(View(c), UserOf[c]), inTxn[c])

NoEdit(c) == Reserve(c, View(c), inTxn[c])

Committing(c) ==
    /\ lock[c] \in Writing
    /\ TakeExclusive(c) \/ CommitNothing(c) \/ BlockedCommit(c)

FileStep(c) ==
    \/ UNCHANGED fileVars
    \/ StartRead(c) \/ EndRead(c) \/ BeginRead(c) \/ Rollback(c) \/ LeaveActive(c)
    \/ CreateEdit(c) \/ RemoveEdit(c) \/ RowEdit(c) \/ ChecksumEdit(c)
    \/ UserEdit(c) \/ NoEdit(c)
    \/ Committing(c) \/ WriteFile(c)

-----------------------------------------------------------------------------
(* Types of the changes.                                                   *)

LEMMA ViewType ==
    ASSUME TypeOK, NEW c \in Session
    PROVE  View(c) \in Content
BY DEF TypeOK, View

LEMMA StampType == TypeOK => Stamp[now] \in Stamps
BY DEF TypeOK, Stamps

\* What a method works with: its view, its user, its arguments and the date.
LEMMA ArgumentTypes ==
    ASSUME TypeOK, NEW c \in Session
    PROVE  /\ View(c) \in Content /\ inTxn[c] \in BOOLEAN
           /\ UserOf[c] \in User /\ file[c] \in File /\ Stamp[now] \in Stamps
           /\ sum[c] \in Checksum \cup {Null} /\ got[c] \in Blob \cup {Null}
BY ViewType, StampType, SessionAssumption DEF TypeOK

LEMMA AddFileType ==
    ASSUME NEW d \in Content, NEW u \in User, NEW f \in File
    PROVE  AddFile(d, u, f) \in Content /\ AddFile(d, u, f).versions = d.versions
BY DEF AddFile, Content

LEMMA AddRowType ==
    ASSUME NEW d \in Content, NEW u \in User, NEW f \in File,
           NEW s \in Stamps, NEW b \in Blob \cup {Null}
    PROVE  AddRow(d, u, f, s, b) \in Content
BY DEF AddRow, Content, Version

LEMMA DropFileType ==
    ASSUME NEW d \in Content, NEW u \in User, NEW f \in File
    PROVE  DropFile(d, u, f) \in Content
BY DEF DropFile, RowsOf, Content

LEMMA SetChecksumType ==
    ASSUME NEW d \in Content, NEW u \in User,
           NEW b \in Blob \cup {Null}, NEW s \in Checksum \cup {Null}
    PROVE  SetChecksum(d, u, b, s) \in Content
BY DEF SetChecksum, Content, Version

LEMMA AddUserType ==
    ASSUME NEW d \in Content, NEW u \in User
    PROVE  AddUser(d, u) \in Content
BY DEF AddUser, Content

\* Every step of a method leaves the file, the cache and the locks well typed.
FileTypeOK ==
    /\ db \in Content /\ work \in Content
    /\ lock \in [Session -> Locks]
    /\ inTxn \in [Session -> BOOLEAN] /\ stuck \in [Session -> BOOLEAN]

LEMMA FileStepType ==
    ASSUME TypeOK, NEW c \in Session, FileStep(c)
    PROVE  FileTypeOK'
<1> USE DEF FileTypeOK
<1>0. FileTypeOK /\ UserOf[c] \in User /\ View(c) \in Content
  BY ArgumentTypes DEF TypeOK
<1>1. CASE UNCHANGED fileVars
  BY <1>0, <1>1 DEF fileVars
<1>2. CASE StartRead(c) \/ EndRead(c) \/ BeginRead(c)
  BY <1>0, <1>2 DEF StartRead, EndRead, BeginRead, Locks
<1>3. CASE Rollback(c) \/ LeaveActive(c)
  BY <1>0, <1>3 DEF Rollback, LeaveActive, Locks
<1>4. CASE Committing(c) \/ WriteFile(c)
  BY <1>0, <1>4 DEF Committing, TakeExclusive, CommitNothing, BlockedCommit, WriteFile, Locks
<1>5. ASSUME NEW d \in Content, NEW txn \in BOOLEAN, Reserve(c, d, txn)
      PROVE  FileTypeOK'
  BY <1>0, <1>5 DEF Reserve, Locks
<1>6. inTxn[c] \in BOOLEAN
  BY <1>0
<1>7. CASE CreateEdit(c)
  BY <1>5, <1>7, ArgumentTypes, AddFileType, AddRowType DEF CreateEdit
<1>8. CASE RemoveEdit(c)
  BY <1>5, <1>8, ArgumentTypes, DropFileType DEF RemoveEdit
<1>9. CASE RowEdit(c)
  BY <1>5, <1>9, ArgumentTypes, AddRowType DEF RowEdit
<1>10. CASE ChecksumEdit(c)
  BY <1>5, <1>10, ArgumentTypes, SetChecksumType DEF ChecksumEdit
<1>11. CASE UserEdit(c) \/ NoEdit(c)
  BY <1>0, <1>5, <1>6, <1>11, AddUserType DEF UserEdit, NoEdit
<1>12. QED
  BY FileStep(c), <1>1, <1>2, <1>3, <1>4, <1>7, <1>8, <1>9, <1>10, <1>11 DEF FileStep

-----------------------------------------------------------------------------
(* Every statement of a method is one of those file steps.                 *)

LEMMA RunningIsFileStep ==
    ASSUME TypeOK, CommitLocked, NEW c \in Session, Running(c)
    PROVE  FileStep(c)
<1> USE DEF FileStep
<1>1. CASE Lock(c)
  BY <1>1 DEF Lock
<1>2. ASSUME NEW s, Step(c, s) \/ (\E next : Finalize(c, s, next)) \/ (\E next : Busy(c, s, next))
      PROVE  FileStep(c)
  BY <1>2 DEF Step, Finalize, Busy
<1>3. CASE ReadSalt(c) \/ ExistsFile(c) \/ CheckDeleted(c) \/ Select(c)
  BY <1>2, <1>3 DEF ReadSalt, ExistsFile, CheckDeleted, Select
<1>4. CASE CountBlobs(c)
  BY <1>4 DEF CountBlobs
<1>5. CASE CreateFileForUser(c)
  <2> DEFINE d == AddFile(View(c), UserOf[c], file[c])
             ok == /\ <<UserOf[c], file[c]>> \notin View(c).files
                   /\ KeyFree(View(c).versions, UserOf[c], file[c], Stamp[now])
  <2>1. CASE UNCHANGED fileVars \/ Rollback(c)
    BY <2>1
  <2>2. CASE /\ ~inTxn[c] /\ ok
             /\ \E n \in Blob : /\ IsNextBlob(d.versions, UserOf[c], n)
                                /\ Reserve(c, AddRow(d, UserOf[c], file[c], Stamp[now], n), TRUE)
    <3>1. d.versions = View(c).versions
      BY ArgumentTypes, AddFileType
    <3>2. QED
      BY <1>5, <2>2, <3>1 DEF CreateFileForUser, CreateEdit
  <2>3. QED
    BY <1>5, <2>1, <2>2, Zenon DEF CreateFileForUser, InsertBlob, fileVars
<1>6. CASE CreateNewBlobForFile(c)
  <2> DEFINE ok == KeyFree(View(c).versions, UserOf[c], file[c], Stamp[now])
  <2>1. CASE Rollback(c)
    BY <2>1
  <2>2. CASE ok /\ \E n \in Blob :
                 /\ IsNextBlob(View(c).versions, UserOf[c], n)
                 /\ Reserve(c, AddRow(View(c), UserOf[c], file[c], Stamp[now], n), TRUE)
    BY <1>6, <2>2 DEF CreateNewBlobForFile, RowEdit, RowOf
  <2>3. QED
    BY <1>6, <2>1, <2>2, Zenon DEF CreateNewBlobForFile, InsertBlob
<1>7. CASE RemoveFile(c)
  BY <1>7 DEF RemoveFile, RemoveEdit
<1>8. ASSUME NEW d, NEW ok \in BOOLEAN, Autocommit(c, d, ok) \/ AutocommitBusy(c)
      PROVE  (ok /\ Reserve(c, d, inTxn[c])) \/ NoEdit(c) \/ UNCHANGED fileVars
  BY <1>8 DEF Autocommit, AutocommitBusy, NoEdit
<1>9. ASSUME NEW b \in Blob \cup {Null}, AddRowNow(c, b), RowOf(c, b, inTxn[c])
      PROVE  FileStep(c)
  <2>1. KeyFree(View(c).versions, UserOf[c], file[c], Stamp[now]) \in BOOLEAN
    BY DEF KeyFree
  <2>2. QED
    BY <1>8, <1>9, <2>1, ArgumentTypes DEF AddRowNow, RowEdit
<1>10. CASE DeleteFile(c) \/ AddVersion(c)
  BY <1>9, <1>10, ArgumentTypes DEF DeleteFile, AddVersion, RowOf
<1>11. CASE AddChecksum(c)
  BY <1>8, <1>11 DEF AddChecksum, ChecksumEdit
<1>12. CASE RegisterUser(c)
  BY <1>8, <1>12 DEF RegisterUser, UserEdit
<1>13. CASE Commit(c)
  BY <1>13 DEF Commit, Committing, CommitLocked
<1>14. CASE Write(c)
  BY <1>14 DEF Write
<1>15. QED
  BY <1>1, <1>3, <1>4, <1>5, <1>6, <1>7, <1>10, <1>11, <1>12, <1>13, <1>14 DEF Running

-----------------------------------------------------------------------------
(* The locks.                                                              *)

LEMMA LocksKept ==
    ASSUME TypeOK, LocksCompatible, NEW c \in Session, FileStep(c)
    PROVE  LocksCompatible'
<1> USE DEF LocksCompatible, Writing, Closing, Locks, OthersHold
<1>0. lock \in [Session -> Locks] /\ inTxn \in [Session -> BOOLEAN]
  BY DEF TypeOK
<1>1. CASE UNCHANGED fileVars \/ LeaveActive(c)
  BY <1>1 DEF fileVars, LeaveActive
<1>2. CASE StartRead(c) \/ BeginRead(c)
  BY <1>0, <1>2 DEF StartRead, BeginRead, MayRead
<1>3. CASE EndRead(c)
  BY <1>0, <1>3 DEF EndRead
<1>4. CASE Rollback(c)
  BY <1>0, <1>4 DEF Rollback, MayWrite, MayRead
<1>5. CASE \E d, txn : Reserve(c, d, txn)
  BY <1>0, <1>5 DEF Reserve, MayWrite, MayRead
<1>6. CASE Committing(c)
  BY <1>0, <1>6 DEF Committing, TakeExclusive, CommitNothing, BlockedCommit, MayCommit
<1>7. CASE WriteFile(c)
  BY <1>0, <1>7 DEF WriteFile
<1>8. QED
  BY FileStep(c), <1>1, <1>2, <1>3, <1>4, <1>5, <1>6, <1>7
  DEF FileStep, CreateEdit, RemoveEdit, RowEdit, ChecksumEdit, UserEdit, NoEdit

-----------------------------------------------------------------------------
(* No file without a blob.                                                 *)

LEMMA AddRowKeepsBlobs ==
    ASSUME NEW d \in Content, HasBlob(d), NEW u, NEW f, NEW s, NEW b
    PROVE  HasBlob(AddRow(d, u, f, s, b))
BY DEF HasBlob, AddRow, WithBlob, RowsOf, Content

LEMMA CreateKeepsBlobs ==
    ASSUME NEW d \in Content, HasBlob(d), NEW u \in User, NEW f \in File, NEW s, NEW n \in Blob
    PROVE  HasBlob(AddRow(AddFile(d, u, f), u, f, s, n))
<1> DEFINE new == [user |-> u, file |-> f, stamp |-> s, blob |-> n, checksum |-> Null]
           e == AddRow(AddFile(d, u, f), u, f, s, n)
<1>1. e.files = d.files \cup {<<u, f>>} /\ e.versions = d.versions \cup {new}
  BY DEF AddRow, AddFile, Content
<1>2. new \in WithBlob(RowsOf(e.versions, u, f))
  BY <1>1, BlobAssumption DEF WithBlob, RowsOf, Blob
<1>3. \A p \in d.files : WithBlob(RowsOf(e.versions, p[1], p[2])) # {}
  BY <1>1 DEF HasBlob, WithBlob, RowsOf
<1>4. ASSUME NEW p \in e.files
      PROVE  WithBlob(RowsOf(e.versions, p[1], p[2])) # {}
  <2>1. CASE p \in d.files
    BY <1>3, <2>1
  <2>2. CASE p = <<u, f>>
    BY <1>2, <2>2
  <2>3. QED
    BY <1>1, <1>4, <2>1, <2>2
<1>5. QED
  BY <1>4 DEF HasBlob

LEMMA DropFileKeepsBlobs ==
    ASSUME NEW d \in Content, HasBlob(d), NEW u \in User, NEW f \in File
    PROVE  HasBlob(DropFile(d, u, f))
<1> DEFINE e == DropFile(d, u, f)
<1>1. e.files = d.files \ {<<u, f>>} /\ e.versions = d.versions \ RowsOf(d.versions, u, f)
  BY DEF DropFile, Content
<1> SUFFICES ASSUME NEW p \in e.files
             PROVE  WithBlob(RowsOf(e.versions, p[1], p[2])) # {}
  BY DEF HasBlob
<1>2. p \in d.files /\ p # <<u, f>> /\ p \in User \X File
  BY <1>1 DEF Content
<1>3. PICK r \in WithBlob(RowsOf(d.versions, p[1], p[2])) : TRUE
  BY <1>2 DEF HasBlob
<1>4. r \notin RowsOf(d.versions, u, f)
  BY <1>2, <1>3 DEF RowsOf, WithBlob
<1>5. QED
  BY <1>1, <1>3, <1>4 DEF RowsOf, WithBlob

LEMMA SetChecksumKeepsBlobs ==
    ASSUME NEW d \in Content, HasBlob(d), NEW u, NEW b, NEW s
    PROVE  HasBlob(SetChecksum(d, u, b, s))
<1> DEFINE e == SetChecksum(d, u, b, s)
           Mark(r) == IF r.user = u /\ r.blob = b THEN [r EXCEPT !.checksum = s] ELSE r
<1>1. e.files = d.files /\ e.versions = {Mark(r) : r \in d.versions}
  BY DEF SetChecksum, Content
<1> SUFFICES ASSUME NEW p \in d.files
             PROVE  WithBlob(RowsOf(e.versions, p[1], p[2])) # {}
  BY <1>1 DEF HasBlob
<1>2. PICK r \in d.versions : r.user = p[1] /\ r.file = p[2] /\ r.blob # Null
  BY DEF HasBlob, WithBlob, RowsOf
<1>3. r \in Version
  BY DEF Content
<1>4. Mark(r).user = r.user /\ Mark(r).file = r.file /\ Mark(r).blob = r.blob
  BY <1>3 DEF Version
<1>5. Mark(r) \in WithBlob(RowsOf(e.versions, p[1], p[2]))
  BY <1>1, <1>2, <1>4 DEF WithBlob, RowsOf
<1>6. QED
  BY <1>5

LEMMA BlobsKept ==
    ASSUME TypeOK, HasBlob(db), HasBlob(work), NEW c \in Session, FileStep(c)
    PROVE  HasBlob(db)' /\ HasBlob(work)'
<1>0. View(c) \in Content /\ HasBlob(View(c)) /\ UserOf[c] \in User
  BY ViewType, SessionAssumption DEF View
<1>1. CASE UNCHANGED <<db, work>>
  BY <1>1
<1>2. CASE Rollback(c) \/ WriteFile(c)
  BY <1>2 DEF Rollback, WriteFile
<1>3. ASSUME NEW d, NEW txn, Reserve(c, d, txn), HasBlob(d)
      PROVE  HasBlob(db)' /\ HasBlob(work)'
  BY <1>3 DEF Reserve
<1>4. CASE CreateEdit(c)
  BY <1>0, <1>3, <1>4, ArgumentTypes, CreateKeepsBlobs DEF CreateEdit
<1>5. CASE RemoveEdit(c)
  BY <1>0, <1>3, <1>5, ArgumentTypes, DropFileKeepsBlobs DEF RemoveEdit
<1>6. CASE RowEdit(c)
  BY <1>0, <1>3, <1>6, ArgumentTypes, AddRowKeepsBlobs DEF RowEdit
<1>7. CASE ChecksumEdit(c)
  BY <1>0, <1>3, <1>7, ArgumentTypes, SetChecksumKeepsBlobs DEF ChecksumEdit
<1>8. CASE UserEdit(c) \/ NoEdit(c)
  <2>1. HasBlob(AddUser(View(c), UserOf[c]))
    BY <1>0 DEF AddUser, HasBlob, Content
  <2>2. QED
    BY <1>0, <1>3, <1>8, <2>1 DEF UserEdit, NoEdit
<1>9. CASE \/ UNCHANGED fileVars \/ StartRead(c) \/ EndRead(c) \/ BeginRead(c)
           \/ LeaveActive(c) \/ Committing(c)
  <2>1. UNCHANGED <<db, work>>
    BY <1>9 DEF fileVars, StartRead, EndRead, BeginRead, LeaveActive, Committing,
                TakeExclusive, CommitNothing, BlockedCommit
  <2>2. QED
    BY <1>1, <2>1
<1>10. QED
  BY FileStep(c), <1>2, <1>4, <1>5, <1>6, <1>7, <1>8, <1>9 DEF FileStep

-----------------------------------------------------------------------------
(* The cache of a writer is the file plus its own changes.                 *)

LEMMA AddRowInCache ==
    ASSUME NEW d \in Content, NEW u, NEW f, NEW s, NEW b, NEW r \in d.versions
    PROVE  InCache(r, AddRow(d, u, f, s, b))
BY DEF InCache, AddRow, Content

LEMMA AddRowKept ==
    ASSUME NEW d \in Content, NEW u, NEW f, NEW s, NEW b, NEW r, Kept(r, d)
    PROVE  Kept(r, AddRow(d, u, f, s, b))
BY DEF Kept, AddRow, Content

LEMMA CreateInCache ==
    ASSUME NEW d \in Content, NEW u \in User, NEW f \in File, NEW s, NEW n, NEW r, InCache(r, d)
    PROVE  InCache(r, AddRow(AddFile(d, u, f), u, f, s, n))
BY DEF InCache, AddRow, AddFile, Content

LEMMA DropFileKept ==
    ASSUME NEW d \in Content, NEW u \in User, NEW f \in File, NEW r, Kept(r, d)
    PROVE  Kept(r, DropFile(d, u, f))
<1>1. CASE r.user = u /\ r.file = f
  BY <1>1 DEF Kept, DropFile, Content
<1>2. CASE ~(r.user = u /\ r.file = f)
  BY <1>2 DEF Kept, DropFile, RowsOf, Content
<1>3. QED
  BY <1>1, <1>2

LEMMA SetChecksumInCache ==
    ASSUME NEW d \in Content, NEW u, NEW b, NEW s, NEW r, InCache(r, d)
    PROVE  InCache(r, SetChecksum(d, u, b, s))
<1> DEFINE Mark(q) == IF q.user = u /\ q.blob = b THEN [q EXCEPT !.checksum = s] ELSE q
<1>1. PICK q \in d.versions : /\ q.user = r.user /\ q.file = r.file
                              /\ q.stamp = r.stamp /\ q.blob = r.blob
  BY DEF InCache
<1>2. q \in Version
  BY DEF Content
<1>3. /\ Mark(q).user = q.user /\ Mark(q).file = q.file
      /\ Mark(q).stamp = q.stamp /\ Mark(q).blob = q.blob
  BY <1>2 DEF Version
<1>4. Mark(q) \in SetChecksum(d, u, b, s).versions
  BY DEF SetChecksum, Content
<1>5. QED
  BY <1>1, <1>3, <1>4 DEF InCache

LEMMA SetChecksumKept ==
    ASSUME NEW d \in Content, NEW u, NEW b, NEW s, NEW r, Kept(r, d)
    PROVE  Kept(r, SetChecksum(d, u, b, s))
<1>1. CASE InCache(r, d)
  BY <1>1, SetChecksumInCache DEF Kept, InCache
<1>2. CASE <<r.user, r.file>> \notin d.files
  BY <1>2 DEF Kept, SetChecksum, Content
<1>3. QED
  BY <1>1, <1>2 DEF Kept, InCache

\* What a connection sees is current: the file itself, or its cache.
LEMMA ViewCurrent ==
    ASSUME TypeOK, CacheCurrent, NEW c \in Session
    PROVE  /\ \A r \in db.versions : Kept(r, View(c))
           /\ ~inTxn[c] => \A r \in db.versions : InCache(r, View(c))
BY DEF CacheCurrent, View, Kept, InCache

\* The one writer after a step of c.
WriterCurrent(c) ==
    /\ \A r \in db.versions : Kept(r, work)
    /\ ~inTxn[c] => \A r \in db.versions : InCache(r, work)

LEMMA ReserveCurrent ==
    ASSUME TypeOK, LocksCompatible, LocksCompatible', CacheCurrent,
           NEW c \in Session, NEW d \in Content, NEW txn \in BOOLEAN, Reserve(c, d, txn),
           \A r \in db.versions : Kept(r, d),
           ~txn => \A r \in db.versions : InCache(r, d)
    PROVE  CacheCurrent'
<1> SUFFICES ASSUME NEW o \in Session, lock'[o] \in Writing
             PROVE  WriterCurrent(o)'
  BY DEF CacheCurrent, WriterCurrent
<1>1. lock'[c] \in Writing
  BY DEF Reserve, Writing, TypeOK
<1>2. o = c
  BY <1>1 DEF LocksCompatible
<1>3. db' = db /\ work' = d /\ inTxn'[c] = txn
  BY DEF Reserve, TypeOK
<1>4. QED
  BY <1>2, <1>3 DEF WriterCurrent, Kept, InCache

LEMMA CacheCurrentKept ==
    ASSUME TypeOK, LocksCompatible, LocksCompatible', CacheCurrent,
           NEW c \in Session, FileStep(c)
    PROVE  CacheCurrent'
<1>0. View(c) \in Content /\ UserOf[c] \in User /\ inTxn[c] \in BOOLEAN
  BY ViewType, SessionAssumption DEF TypeOK
<1>1. /\ \A r \in db.versions : Kept(r, View(c))
      /\ ~inTxn[c] => \A r \in db.versions : InCache(r, View(c))
  BY ViewCurrent
<1>2. CASE UNCHANGED fileVars \/ LeaveActive(c)
  BY <1>2 DEF fileVars, LeaveActive, CacheCurrent, Kept, InCache
<1>3. CASE StartRead(c) \/ EndRead(c) \/ BeginRead(c) \/ Committing(c)
  BY <1>3 DEF StartRead, EndRead, BeginRead, Committing, TakeExclusive, CommitNothing,
              BlockedCommit, CacheCurrent, Kept, InCache, Writing, TypeOK
<1>4. CASE Rollback(c)
  <2>1. \A o \in Session \ {c} : lock'[o] = lock[o] /\ inTxn'[o] = inTxn[o]
    BY <1>4 DEF Rollback, TypeOK
  <2>2. lock'[c] \notin Writing
    BY <1>4 DEF Rollback, TypeOK, Writing
  <2>3. db' = db /\ (work' = work \/ \A o \in Session \ {c} : lock[o] \notin Writing)
    BY <1>4 DEF Rollback, LocksCompatible
  <2>4. QED
    BY <2>1, <2>2, <2>3 DEF CacheCurrent, Kept, InCache
<1>5. CASE WriteFile(c)
  <2>1. \A o \in Session : lock'[o] \notin Writing
    BY <1>5 DEF WriteFile, LocksCompatible, TypeOK, Writing
  <2>2. QED
    BY <2>1 DEF CacheCurrent
<1>6. CASE CreateEdit(c)
  <2> DEFINE New(n) == AddRow(AddFile(View(c), UserOf[c], file[c]), UserOf[c], file[c],
                              Stamp[now], n)
  <2>1. PICK n \in Blob : Reserve(c, New(n), TRUE)
    BY <1>6 DEF CreateEdit
  <2> DEFINE d == New(n)
  <2>2. d \in Content
    BY ArgumentTypes, AddFileType, AddRowType
  <2>3. \A r \in db.versions : InCache(r, d)
    BY <1>1, <1>6, ArgumentTypes, CreateInCache DEF CreateEdit
  <2>4. \A r \in db.versions : Kept(r, d)
    BY <2>3 DEF InCache, Kept
  <2>5. QED
    BY <2>1, <2>2, <2>4, ReserveCurrent
<1>7. CASE RemoveEdit(c)
  BY <1>1, <1>7, ArgumentTypes, DropFileKept, DropFileType, ReserveCurrent DEF RemoveEdit
<1>8. CASE RowEdit(c)
  <2> DEFINE New(b) == AddRow(View(c), UserOf[c], file[c], Stamp[now], b)
  <2>1. PICK b \in Blob \cup {Null}, txn \in BOOLEAN : RowOf(c, b, txn) /\ Reserve(c, New(b), txn)
    BY <1>8 DEF RowEdit
  <2> DEFINE d == New(b)
  <2>2. d \in Content /\ \A r \in db.versions : Kept(r, d)
    BY <1>1, ArgumentTypes, AddRowType, AddRowKept
  <2>3. ASSUME ~inTxn[c], NEW r \in db.versions
        PROVE  InCache(r, d)
    <3>1. PICK q \in View(c).versions : /\ q.user = r.user /\ q.file = r.file
                                        /\ q.stamp = r.stamp /\ q.blob = r.blob
      BY <1>1, <2>3 DEF InCache
    <3>2. InCache(q, d)
      BY <1>0, AddRowInCache
    <3>3. QED
      BY <3>1, <3>2 DEF InCache
  <2>4. txn \/ txn = inTxn[c]
    BY <2>1 DEF RowOf
  <2>5. QED
    BY <1>0, <2>1, <2>2, <2>3, <2>4, ReserveCurrent
<1>9. CASE ChecksumEdit(c)
  BY <1>1, <1>9, ArgumentTypes, SetChecksumKept, SetChecksumInCache, SetChecksumType, ReserveCurrent
  DEF ChecksumEdit
<1>10. CASE UserEdit(c)
  <2> DEFINE d == AddUser(View(c), UserOf[c])
  <2>1. d \in Content /\ d.versions = View(c).versions /\ d.files = View(c).files
    BY <1>0, AddUserType DEF AddUser, Content
  <2>2. /\ \A r \in db.versions : Kept(r, d)
        /\ ~inTxn[c] => \A r \in db.versions : InCache(r, d)
    BY <1>1, <2>1 DEF Kept, InCache
  <2>3. QED
    BY <1>0, <1>10, <2>1, <2>2, ReserveCurrent DEF UserEdit
<1>11. CASE NoEdit(c)
  BY <1>0, <1>1, <1>11, ReserveCurrent DEF NoEdit
<1>12. QED
  BY FileStep(c), <1>2, <1>3, <1>4, <1>5, <1>6, <1>7, <1>8, <1>9, <1>10, <1>11 DEF FileStep

-----------------------------------------------------------------------------
(* A writer changes the rows of its own user only.                         *)

LEMMA AddRowOther ==
    ASSUME NEW d \in Content, NEW u, NEW v \in User \ {u}, NEW f, NEW s, NEW b
    PROVE  OwnRows(v, AddRow(d, u, f, s, b)) = OwnRows(v, d)
BY DEF AddRow, OwnRows, Content

LEMMA CreateOther ==
    ASSUME NEW d \in Content, NEW u \in User, NEW v \in User \ {u}, NEW f \in File, NEW s, NEW b
    PROVE  OwnRows(v, AddRow(AddFile(d, u, f), u, f, s, b)) = OwnRows(v, d)
BY DEF AddRow, AddFile, OwnRows, Content

LEMMA DropFileOther ==
    ASSUME NEW d \in Content, NEW u, NEW v \in User \ {u}, NEW f
    PROVE  OwnRows(v, DropFile(d, u, f)) = OwnRows(v, d)
BY DEF DropFile, RowsOf, OwnRows, Content

LEMMA SetChecksumOther ==
    ASSUME NEW d \in Content, NEW u, NEW v \in User \ {u}, NEW b, NEW k
    PROVE  OwnRows(v, SetChecksum(d, u, b, k)) = OwnRows(v, d)
<1> DEFINE Mark(r) == IF r.user = u /\ r.blob = b THEN [r EXCEPT !.checksum = k] ELSE r
           e == SetChecksum(d, u, b, k)
<1>1. e.versions = {Mark(r) : r \in d.versions}
  BY DEF SetChecksum, Content
<1>2. \A r \in d.versions : Mark(r).user = r.user /\ (r.user = v => Mark(r) = r)
  BY DEF Version, Content
<1>3. QED
  BY <1>1, <1>2 DEF OwnRows

LEMMA AddUserOther ==
    ASSUME NEW d \in Content, NEW u, NEW v
    PROVE  OwnRows(v, AddUser(d, u)) = OwnRows(v, d)
BY DEF AddUser, OwnRows, Content

LEMMA ReserveOwn ==
    ASSUME TypeOK, LocksCompatible', NEW c \in Session, NEW d, NEW txn, Reserve(c, d, txn),
           \A u \in User \ {UserOf[c]} : OwnRows(u, d) = OwnRows(u, db)
    PROVE  CacheOwn'
<1>1. lock'[c] \in Writing
  BY DEF Reserve, Writing, TypeOK
<1>2. \A o \in Session : lock'[o] \in Writing => o = c
  BY <1>1 DEF LocksCompatible
<1>3. db' = db /\ work' = d
  BY DEF Reserve
<1>4. QED
  BY <1>2, <1>3 DEF CacheOwn, OwnRows

LEMMA CacheOwnKept ==
    ASSUME TypeOK, LocksCompatible, LocksCompatible', CacheOwn,
           NEW c \in Session, FileStep(c)
    PROVE  CacheOwn'
<1>0. View(c) \in Content /\ UserOf[c] \in User
  BY ViewType, SessionAssumption
<1>1. \A u \in User \ {UserOf[c]} : OwnRows(u, View(c)) = OwnRows(u, db)
  BY DEF CacheOwn, View
<1>2. CASE UNCHANGED fileVars \/ LeaveActive(c)
  BY <1>2 DEF fileVars, LeaveActive, CacheOwn, OwnRows
<1>3. CASE StartRead(c) \/ EndRead(c) \/ BeginRead(c) \/ Committing(c)
  <2>1. UNCHANGED <<db, work>>
    BY <1>3 DEF StartRead, EndRead, BeginRead, Committing, TakeExclusive, CommitNothing,
                BlockedCommit
  <2>2. \A o \in Session : lock'[o] \in Writing => lock[o] \in Writing
    BY <1>3 DEF StartRead, EndRead, BeginRead, Committing, TakeExclusive, CommitNothing,
                BlockedCommit, Writing, TypeOK
  <2>3. QED
    BY <2>1, <2>2 DEF CacheOwn, OwnRows
<1>4. CASE Rollback(c)
  <2>1. \A o \in Session \ {c} : lock'[o] = lock[o]
    BY <1>4 DEF Rollback, TypeOK
  <2>2. lock'[c] \notin Writing
    BY <1>4 DEF Rollback, TypeOK, Writing
  <2>3. db' = db /\ (work' = work \/ \A o \in Session \ {c} : lock[o] \notin Writing)
    BY <1>4 DEF Rollback, LocksCompatible
  <2>4. QED
    BY <2>1, <2>2, <2>3 DEF CacheOwn, OwnRows
<1>5. CASE WriteFile(c)
  BY <1>5 DEF WriteFile, LocksCompatible, TypeOK, Writing, CacheOwn
<1>6. ASSUME NEW d, NEW txn, Reserve(c, d, txn),
             \A u \in User \ {UserOf[c]} : OwnRows(u, d) = OwnRows(u, View(c))
      PROVE  CacheOwn'
  BY <1>1, <1>6, ReserveOwn
<1>7. CASE CreateEdit(c)
  <2> DEFINE New(n) == AddRow(AddFile(View(c), UserOf[c], file[c]), UserOf[c], file[c],
                              Stamp[now], n)
  <2>1. PICK n \in Blob : Reserve(c, New(n), TRUE)
    BY <1>7 DEF CreateEdit
  <2>2. \A u \in User \ {UserOf[c]} : OwnRows(u, New(n)) = OwnRows(u, View(c))
    BY ArgumentTypes, CreateOther
  <2>3. QED
    BY <1>6, <2>1, <2>2
<1>8. CASE RemoveEdit(c)
  BY <1>0, <1>6, <1>8, DropFileOther DEF RemoveEdit
<1>9. CASE RowEdit(c)
  BY <1>0, <1>6, <1>9, AddRowOther DEF RowEdit
<1>10. CASE ChecksumEdit(c)
  BY <1>0, <1>6, <1>10, SetChecksumOther DEF ChecksumEdit
<1>11. CASE UserEdit(c) \/ NoEdit(c)
  BY <1>0, <1>6, <1>11, AddUserOther DEF UserEdit, NoEdit
<1>12. QED
  BY FileStep(c), <1>2, <1>3, <1>4, <1>5, <1>7, <1>8, <1>9, <1>10, <1>11 DEF FileStep

-----------------------------------------------------------------------------
(* Types.                                                                  *)

\* The part of the type invariant GoTo is about, and the part the SELECTs are.
FlowTypeOK ==
    /\ at \in [Session -> Statements \cup {"idle", "abort", "gone"}]
    /\ answer \in [Session -> Answers]
    /\ mutex \in Session \cup {Null}
    /\ logged \in [Session -> BOOLEAN]

ResultTypeOK ==
    /\ found \in [Session -> BOOLEAN]
    /\ got \in [Session -> Blob \cup {Null}]
    /\ stamp \in [Session -> Stamps \cup {Null}]
    /\ listing \in [Session -> SUBSET File]

LEMMA GoToType ==
    ASSUME TypeOK, NEW c \in Session, NEW s \in Statements \cup Answers \cup {"abort"}, GoTo(c, s)
    PROVE  FlowTypeOK'
BY DEF TypeOK, FlowTypeOK, GoTo, Statements, Answers

LEMMA StayType == TypeOK /\ Stay => FlowTypeOK'
BY DEF TypeOK, FlowTypeOK, Stay

LEMMA NextStatement ==
    ASSUME NEW m, NEW yes
    PROVE  /\ First(m) \in Statements /\ AfterLock(m) \in Statements
           /\ AfterExists(m, yes) \in Statements \cup Answers
           /\ AfterDeleted(m, yes) \in Statements \cup Answers
           /\ AfterSelect(m, yes) \in Answers \cup {"abort"}
           /\ AfterBusySelect(m) \in Answers
BY DEF First, AfterLock, AfterExists, AfterDeleted, AfterSelect, AfterBusySelect, Statements, Answers

LEMMA AnsweredType ==
    ASSUME TypeOK, NEW c \in Session, NEW yes \in BOOLEAN, Answered(c, yes)
    PROVE  ResultTypeOK'
BY DEF TypeOK, ResultTypeOK, Answered

\* Rows read from the file or the cache are typed.
LEMMA RowType ==
    ASSUME TypeOK, NEW c \in Session, NEW r \in View(c).versions
    PROVE  /\ r.file \in File /\ r.stamp \in Stamps /\ r.blob \in Blob \cup {Null}
           /\ (IF r.blob = Null THEN 0 ELSE r.blob) \in Blob
<1>1. r \in Version
  BY ViewType DEF Content
<1>2. 0 \in Blob
  BY BlobAssumption DEF Blob
<1>3. QED
  BY <1>1, <1>2 DEF Version

LEMMA ReadStampType ==
    ASSUME TypeOK, NEW c \in Session, NEW rows \in SUBSET View(c).versions, ReadStamp(c, rows)
    PROVE  ResultTypeOK'
<1>1. CASE Answered(c, FALSE)
  BY <1>1, AnsweredType
<1>2. ASSUME NEW r \in rows, stamp' = [stamp EXCEPT ![c] = r.stamp],
             found' = [found EXCEPT ![c] = TRUE], UNCHANGED <<got, listing>>
      PROVE  ResultTypeOK'
  BY <1>2, RowType DEF TypeOK, ResultTypeOK
<1>3. QED
  BY <1>1, <1>2 DEF ReadStamp

LEMMA SelectResultType ==
    ASSUME TypeOK, NEW c \in Session,
           \/ LogUser(c) \/ GetPath(c) \/ GetBlob(c) \/ GetLastBlob(c) \/ GetLastVersion(c)
           \/ GetBlobVersion(c) \/ GetUserFolder(c) \/ GetDeletedFiles(c)
           \/ Answered(c, TRUE)
    PROVE  ResultTypeOK'
<1>0. found[c] \in BOOLEAN
  BY DEF TypeOK
<1>1. CASE LogUser(c)
  BY <1>0, <1>1, AnsweredType DEF LogUser
<1>9. CASE GetPath(c)
  BY <1>9 DEF GetPath, Answered, TypeOK, ResultTypeOK
<1>2. CASE Answered(c, TRUE)
  BY <1>2, AnsweredType
<1>3. CASE GetBlob(c)
  <2>1. CASE Answered(c, FALSE)
    BY <2>1, AnsweredType
  <2>2. ASSUME NEW r \in RowsOf(View(c).versions, UserOf[c], file[c]),
               got' = [got EXCEPT ![c] = IF r.blob = Null THEN 0 ELSE r.blob],
               found' = [found EXCEPT ![c] = TRUE], UNCHANGED <<stamp, listing>>
        PROVE  ResultTypeOK'
    <3>1. (IF r.blob = Null THEN 0 ELSE r.blob) \in Blob
      BY RowType DEF RowsOf
    <3>2. QED
      BY <2>2, <3>1 DEF TypeOK, ResultTypeOK
  <2>3. QED
    BY <1>3, <2>1, <2>2 DEF GetBlob
<1>4. CASE GetLastBlob(c)
  <2>1. CASE Answered(c, FALSE)
    BY <2>1, AnsweredType
  <2>2. ASSUME NEW r \in View(c).versions, got' = [got EXCEPT ![c] = r.blob],
               found' = [found EXCEPT ![c] = TRUE], UNCHANGED <<stamp, listing>>
        PROVE  ResultTypeOK'
    BY <2>2, RowType DEF TypeOK, ResultTypeOK
  <2>3. Last(WithBlob(RowsOf(View(c).versions, UserOf[c], file[c]))) \subseteq View(c).versions
    BY DEF Last, WithBlob, RowsOf
  <2>4. QED
    BY <1>4, <2>1, <2>2, <2>3 DEF GetLastBlob
<1>5. CASE GetLastVersion(c)
  BY <1>5, ReadStampType DEF GetLastVersion, Last, RowsOf
<1>6. CASE GetBlobVersion(c)
  BY <1>6, ReadStampType DEF GetBlobVersion
<1>7. CASE GetUserFolder(c)
  <2>1. {r.file : r \in FolderRows(View(c).versions, UserOf[c])} \in SUBSET File
    BY RowType DEF FolderRows, WithBlob
  <2>2. QED
    BY <1>7, <2>1 DEF GetUserFolder, TypeOK, ResultTypeOK
<1>8. CASE GetDeletedFiles(c)
  <2>1. {r.file : r \in DeletedRows(View(c).versions, UserOf[c])} \in SUBSET File
    BY RowType DEF DeletedRows
  <2>2. QED
    BY <1>8, <2>1 DEF GetDeletedFiles, TypeOK, ResultTypeOK
<1>10. QED
  BY <1>1, <1>2, <1>3, <1>4, <1>5, <1>6, <1>7, <1>8, <1>9

\* A statement of a method keeps the variables of the session typed.
SessionTypeOK ==
    /\ now \in Time
    /\ open \in [Session -> BOOLEAN]
    /\ method \in [Session -> AllMethods]
    /\ file \in [Session -> File]
    /\ sum \in [Session -> Checksum \cup {Null}]

LEMMA TypeParts == TypeOK <=> FileTypeOK /\ FlowTypeOK /\ ResultTypeOK /\ SessionTypeOK
BY DEF TypeOK, FileTypeOK, FlowTypeOK, ResultTypeOK, SessionTypeOK

LEMMA StepType ==
    ASSUME TypeOK, NEW c \in Session, NEW s, Step(c, s)
    PROVE  FlowTypeOK' /\ SessionTypeOK'
BY StayType DEF Step, SessionTypeOK, TypeOK, callVars

LEMMA FinalizeType ==
    ASSUME TypeOK, NEW c \in Session, NEW s,
           NEW next \in Statements \cup Answers \cup {"abort"}, Finalize(c, s, next)
    PROVE  FlowTypeOK' /\ SessionTypeOK' /\ ResultTypeOK'
<1>1. GoTo(c, next) /\ FlowTypeOK'
  BY GoToType DEF Finalize
<1>2. QED
  BY <1>1 DEF Finalize, SessionTypeOK, ResultTypeOK, TypeOK, callVars

LEMMA BusyType ==
    ASSUME TypeOK, NEW c \in Session, NEW s,
           NEW next \in Statements \cup Answers, Busy(c, s, next)
    PROVE  FlowTypeOK' /\ SessionTypeOK' /\ ResultTypeOK'
<1>1. FlowTypeOK'
  BY GoToType DEF Busy
<1>2. QED
  BY <1>1 DEF Busy, SessionTypeOK, ResultTypeOK, TypeOK, callVars, resultVars

LEMMA RunningSessionType ==
    ASSUME TypeOK, NEW c \in Session, Running(c)
    PROVE  FlowTypeOK' /\ SessionTypeOK' /\ ResultTypeOK'
<1> USE NextStatement
<1>0. /\ "salt" \in Statements /\ "select" \in Statements /\ "body" \in Statements
      /\ "commit" \in Statements /\ "write" \in Statements
      /\ "ok" \in Answers /\ "throws" \in Answers
  BY DEF Statements, Answers
<1>1. CASE Lock(c)
  BY <1>1 DEF Lock, TypeOK, FlowTypeOK, SessionTypeOK, ResultTypeOK, callVars, resultVars
<1>2. ASSUME NEW s, NEW yes \in BOOLEAN, Step(c, s), Answered(c, yes)
      PROVE  FlowTypeOK' /\ SessionTypeOK' /\ ResultTypeOK'
  BY <1>2, StepType, AnsweredType
<1>3. ASSUME NEW s, NEW next \in Statements \cup Answers, Finalize(c, s, next) \/ Busy(c, s, next)
      PROVE  FlowTypeOK' /\ SessionTypeOK' /\ ResultTypeOK'
  BY <1>3, FinalizeType, BusyType
<1>4. CASE ReadSalt(c) \/ ExistsFile(c) \/ CheckDeleted(c)
  <2>1. CASE ReadSalt(c)
    <3>1. (UserOf[c] \in View(c).users) \in BOOLEAN
      OBVIOUS
    <3>2. CASE Step(c, "salt") /\ Answered(c, UserOf[c] \in View(c).users)
      BY <1>2, <3>1, <3>2
    <3>3. CASE Finalize(c, "salt", "select") \/ Busy(c, "salt", "select")
      BY <1>0, <1>3, <3>3
    <3>4. QED
      BY <2>1, <3>2, <3>3 DEF ReadSalt
  <2>2. CASE ExistsFile(c)
    <3>1. (<<UserOf[c], file[c]>> \in View(c).files) \in BOOLEAN
      OBVIOUS
    <3>2. CASE Step(c, "exists") /\ Answered(c, <<UserOf[c], file[c]>> \in View(c).files)
      BY <1>2, <3>1, <3>2
    <3>3. CASE \/ Finalize(c, "exists", AfterExists(method[c], found[c]))
               \/ Busy(c, "exists", AfterExists(method[c], FALSE))
      BY <1>3, <3>3
    <3>4. QED
      BY <2>2, <3>2, <3>3 DEF ExistsFile
  <2>3. CASE CheckDeleted(c)
    <3>1. IsDeleted(View(c).versions, UserOf[c], file[c]) \in BOOLEAN
      BY DEF IsDeleted
    <3>2. CASE /\ Step(c, "deleted")
               /\ Answered(c, IsDeleted(View(c).versions, UserOf[c], file[c]))
      BY <1>2, <3>1, <3>2
    <3>3. CASE \/ Finalize(c, "deleted", AfterDeleted(method[c], found[c]))
               \/ Busy(c, "deleted", "throws")
      BY <1>0, <1>3, <3>3
    <3>4. QED
      BY <2>3, <3>2, <3>3 DEF CheckDeleted
  <2>4. QED
    BY <1>4, <2>1, <2>2, <2>3
<1>5. CASE Select(c)
  <2>1. CASE \/ Finalize(c, "select", AfterSelect(method[c], found[c]))
             \/ Busy(c, "select", AfterBusySelect(method[c]))
    BY <1>0, <2>1, FinalizeType, BusyType
  <2>2. CASE /\ Step(c, "select")
             /\ \/ LogUser(c) \/ GetPath(c) \/ GetBlob(c) \/ GetLastBlob(c) \/ GetLastVersion(c)
                \/ GetBlobVersion(c) \/ GetUserFolder(c) \/ GetDeletedFiles(c)
                \/ Answered(c, TRUE)
    BY <2>2, StepType, SelectResultType
  <2>3. QED
    BY <1>5, <2>1, <2>2 DEF Select
<1>6. ASSUME NEW s \in Statements \cup Answers, GoTo(c, s),
             UNCHANGED <<now, open, callVars>>, ResultTypeOK'
      PROVE  FlowTypeOK' /\ SessionTypeOK' /\ ResultTypeOK'
  BY <1>6, GoToType DEF SessionTypeOK, TypeOK, callVars
<1>7. UNCHANGED resultVars => ResultTypeOK'
  BY DEF resultVars, ResultTypeOK, TypeOK
<1>8. CASE CountBlobs(c)
  BY <1>0, <1>6, <1>7, <1>8 DEF CountBlobs
<1>9. ASSUME UNCHANGED <<found, stamp, listing>>,
             UNCHANGED got \/ \E n \in Blob : got' = [got EXCEPT ![c] = n]
      PROVE  ResultTypeOK'
  BY <1>9 DEF TypeOK, ResultTypeOK
<1>10. CASE CreateFileForUser(c)
  BY <1>0, <1>6, <1>9, <1>10 DEF CreateFileForUser, InsertBlob
<1>11. CASE CreateNewBlobForFile(c)
  BY <1>0, <1>6, <1>9, <1>11 DEF CreateNewBlobForFile, InsertBlob
<1>12. CASE RemoveFile(c)
  BY <1>0, <1>6, <1>7, <1>12 DEF RemoveFile
<1>13. ASSUME \E d, ok : Autocommit(c, d, ok) \/ AutocommitBusy(c),
              UNCHANGED <<now, open, callVars, resultVars>>
       PROVE  FlowTypeOK' /\ SessionTypeOK' /\ ResultTypeOK'
  BY <1>0, <1>6, <1>7, <1>13 DEF Autocommit, AutocommitBusy
<1>14. CASE DeleteFile(c)
  BY <1>13, <1>14 DEF DeleteFile, AddRowNow
<1>15. CASE AddVersion(c)
  BY <1>13, <1>15 DEF AddVersion, AddRowNow
<1>16. CASE AddChecksum(c)
  BY <1>13, <1>16 DEF AddChecksum
<1>17. CASE RegisterUser(c)
  BY <1>0, <1>6, <1>7, <1>13, <1>17 DEF RegisterUser
<1>18. CASE Commit(c)
  <2>1. CASE Stay
    BY <1>7, <1>18, <2>1, StayType DEF Commit, SessionTypeOK, TypeOK, callVars
  <2>2. CASE GoTo(c, "write") \/ GoTo(c, "ok") \/ GoTo(c, "throws")
    BY <1>0, <1>6, <1>7, <1>18, <2>2 DEF Commit
  <2>3. QED
    BY <1>18, <2>1, <2>2 DEF Commit
<1>19. CASE Write(c)
  BY <1>0, <1>6, <1>7, <1>19 DEF Write
<1>20. QED
  BY <1>1, <1>4, <1>5, <1>8, <1>10, <1>11, <1>12, <1>14, <1>15, <1>16, <1>17, <1>18, <1>19
  DEF Running

LEMMA InitType == Init => TypeOK
<1> SUFFICES ASSUME Init PROVE TypeOK
  OBVIOUS
<1>1. [users |-> Registered, files |-> {}, versions |-> {}] \in Content
  BY UsersAssumption DEF Content
<1>2. 1 \in Time
  BY TimeAssumption DEF Time
<1>3. FileTypeOK
  BY <1>1 DEF Init, FileInit, FileTypeOK, Locks
<1>4. FlowTypeOK /\ ResultTypeOK /\ SessionTypeOK
  BY <1>2 DEF Init, FlowTypeOK, ResultTypeOK, SessionTypeOK, AllMethods, Answers
<1>5. QED
  BY <1>3, <1>4, TypeParts

\* The steps that are not a statement of a method.
LEMMA OtherStepsType ==
    ASSUME TypeOK,
           \/ \E c \in Session, m \in AllMethods, f \in File, s \in Checksum : Call(c, m, f, s)
           \/ \E c \in Session : Leave(c)
           \/ Crash \/ Tick \/ UNCHANGED vars
    PROVE  TypeOK'
<1>1. ASSUME NEW c \in Session, NEW m \in AllMethods, NEW f \in File, NEW s \in Checksum,
             Call(c, m, f, s)
      PROVE  TypeOK'
  <2>1. First(m) \in Statements
    BY NextStatement
  <2>2. QED
    BY <1>1, <2>1 DEF Call, TypeOK, fileVars
<1>2. ASSUME NEW c \in Session, Leave(c)
      PROVE  TypeOK'
  BY <1>2 DEF Leave, TypeOK, fileVars, callVars, resultVars
<1>3. CASE Crash
  BY <1>3 DEF Crash, FileCrash, TypeOK, callVars, Locks, Answers
<1>4. CASE Tick
  <2>1. now' \in Time
    BY <1>4, TimeAssumption DEF Tick, TypeOK, Time
  <2>2. QED
    BY <1>4, <2>1 DEF Tick, TypeOK, fileVars, callVars, resultVars
<1>5. CASE UNCHANGED vars
  BY <1>5 DEF TypeOK, vars
<1>6. QED
  BY <1>1, <1>2, <1>3, <1>4, <1>5

-----------------------------------------------------------------------------
(* Who holds the write lock when a method commits.                         *)

\* A file step of c touches no other connection's locks and transactions.
LEMMA OthersConnections ==
    ASSUME TypeOK, NEW c \in Session, FileStep(c), NEW o \in Session \ {c}
    PROVE  lock'[o] = lock[o] /\ inTxn'[o] = inTxn[o] /\ stuck'[o] = stuck[o]
<1>1. ASSUME NEW d, NEW txn, Reserve(c, d, txn)
      PROVE  lock'[o] = lock[o] /\ inTxn'[o] = inTxn[o] /\ stuck'[o] = stuck[o]
  BY <1>1 DEF Reserve, TypeOK
<1>2. QED
  BY <1>1, FileStep(c) DEF FileStep, fileVars, StartRead, EndRead, BeginRead, Rollback, LeaveActive,
     CreateEdit, RemoveEdit, RowEdit, ChecksumEdit, UserEdit, NoEdit, Committing,
     TakeExclusive, CommitNothing, BlockedCommit, WriteFile, TypeOK

\* A statement of c touches no other session's place, call, number or lock.
LEMMA OthersStay ==
    ASSUME TypeOK, CommitLocked, NEW c \in Session, Running(c), NEW o \in Session \ {c}
    PROVE  /\ at'[o] = at[o] /\ method' = method
           /\ got'[o] = got[o] /\ lock'[o] = lock[o]
<1>1. lock'[o] = lock[o]
  BY RunningIsFileStep, OthersConnections
<1>2. \A s : GoTo(c, s) => at'[o] = at[o]
  BY DEF GoTo, TypeOK
<1>3. Stay => at'[o] = at[o]
  BY DEF Stay
<1>4. \A yes : Answered(c, yes) => got'[o] = got[o]
  BY DEF Answered
<1>5. ASSUME NEW s, Step(c, s) \/ (\E next : Finalize(c, s, next)) \/ (\E next : Busy(c, s, next))
      PROVE  at'[o] = at[o] /\ method' = method
  BY <1>2, <1>3, <1>5 DEF Step, Finalize, Busy, callVars
<1>6. ASSUME NEW s, (\E next : Finalize(c, s, next)) \/ (\E next : Busy(c, s, next))
      PROVE  got'[o] = got[o]
  BY <1>6 DEF Finalize, Busy, resultVars
<1>7. CASE Lock(c)
  BY <1>1, <1>7 DEF Lock, callVars, resultVars, TypeOK
<1>8. CASE ReadSalt(c) \/ ExistsFile(c) \/ CheckDeleted(c)
  BY <1>1, <1>4, <1>5, <1>6, <1>8 DEF ReadSalt, ExistsFile, CheckDeleted
<1>9. CASE Select(c)
  <2>1. at'[o] = at[o] /\ method' = method
    BY <1>5, <1>9 DEF Select
  <2>2. \/ LogUser(c) \/ GetPath(c) \/ GetBlob(c) \/ GetLastBlob(c) \/ GetLastVersion(c)
        \/ GetBlobVersion(c) \/ GetUserFolder(c) \/ GetDeletedFiles(c)
        \/ Answered(c, TRUE) \/ got'[o] = got[o]
    BY <1>6, <1>9 DEF Select
  <2>3. got'[o] = got[o]
    BY <1>4, <2>2 DEF LogUser, GetPath, GetBlob, GetLastBlob, GetLastVersion, GetBlobVersion,
       ReadStamp, GetUserFolder, GetDeletedFiles, TypeOK
  <2>4. QED
    BY <1>1, <2>1, <2>3
<1>10. CASE CountBlobs(c) \/ RemoveFile(c) \/ Write(c) \/ Commit(c)
  BY <1>1, <1>2, <1>3, <1>10 DEF CountBlobs, RemoveFile, Write, Commit, callVars, resultVars
<1>11. CASE CreateFileForUser(c) \/ CreateNewBlobForFile(c)
  BY <1>1, <1>2, <1>11 DEF CreateFileForUser, CreateNewBlobForFile, InsertBlob, callVars, TypeOK
<1>12. CASE DeleteFile(c) \/ AddVersion(c) \/ AddChecksum(c) \/ RegisterUser(c)
  <2>1. UNCHANGED <<callVars, resultVars>>
    BY <1>12 DEF DeleteFile, AddVersion, AddChecksum, RegisterUser
  <2>2. \E s : GoTo(c, s)
    BY <1>12 DEF DeleteFile, AddVersion, AddChecksum, RegisterUser, AddRowNow, Autocommit,
       AutocommitBusy
  <2>3. QED
    BY <1>1, <1>2, <2>1, <2>2 DEF callVars, resultVars
<1>13. QED
  BY <1>7, <1>8, <1>9, <1>10, <1>11, <1>12 DEF Running

\* A statement of c leaves the SELECTs and the answers of the others alone.
LEMMA OthersAnswers ==
    ASSUME TypeOK, NEW c \in Session, Running(c), NEW o \in Session \ {c}
    PROVE  open'[o] = open[o] /\ found'[o] = found[o] /\ answer'[o] = answer[o]
<1>0. /\ open \in [Session -> BOOLEAN] /\ found \in [Session -> BOOLEAN]
      /\ answer \in [Session -> Answers]
  BY DEF TypeOK
<1> DEFINE Same == open'[o] = open[o] /\ found'[o] = found[o] /\ answer'[o] = answer[o]
<1>7. \A s : GoTo(c, s) \/ Stay => answer'[o] = answer[o]
  BY <1>0 DEF GoTo, Stay
<1>1. \A yes : Answered(c, yes) => found'[o] = found[o]
  BY <1>0 DEF Answered
<1>2. \A s : Step(c, s) => open'[o] = open[o] /\ answer'[o] = answer[o]
  BY <1>0, <1>7 DEF Step
<1>3. ASSUME NEW s, (\E next : Finalize(c, s, next)) \/ (\E next : Busy(c, s, next))
      PROVE  Same
  BY <1>0, <1>3, <1>7 DEF Finalize, Busy, resultVars
<1>4. CASE ReadSalt(c) \/ ExistsFile(c) \/ CheckDeleted(c)
  BY <1>1, <1>2, <1>3, <1>4 DEF ReadSalt, ExistsFile, CheckDeleted
<1>5. CASE Select(c)
  <2>1. CASE Step(c, "select")
    <3>1. \/ LogUser(c) \/ GetPath(c) \/ GetBlob(c) \/ GetLastBlob(c) \/ GetLastVersion(c)
          \/ GetBlobVersion(c) \/ GetUserFolder(c) \/ GetDeletedFiles(c)
          \/ Answered(c, TRUE) \/ found'[o] = found[o]
      BY <1>3, <1>5 DEF Select
    <3>2. found'[o] = found[o]
      BY <1>0, <1>1, <3>1
      DEF LogUser, GetPath, GetBlob, GetLastBlob, GetLastVersion, GetBlobVersion, ReadStamp,
          GetUserFolder, GetDeletedFiles
    <3>3. QED
      BY <1>2, <2>1, <3>2
  <2>2. CASE ~Step(c, "select")
    BY <1>3, <1>5, <2>2 DEF Select
  <2>3. QED
    BY <2>1, <2>2
<1>6. CASE ~(ReadSalt(c) \/ ExistsFile(c) \/ CheckDeleted(c) \/ Select(c))
  <2>1. open' = open /\ found' = found
    BY <1>6 DEF Running, Lock, CountBlobs, CreateFileForUser, CreateNewBlobForFile, RemoveFile,
       DeleteFile, AddVersion, AddChecksum, RegisterUser, Commit, Write, resultVars
  <2>2. \/ \E s : GoTo(c, s)
        \/ Stay \/ answer' = answer
    BY <1>6 DEF Running, Lock, CountBlobs, CreateFileForUser, CreateNewBlobForFile, RemoveFile,
       DeleteFile, AddVersion, AddChecksum, RegisterUser, Commit, Write, InsertBlob, AddRowNow,
       Autocommit, AutocommitBusy
  <2>3. QED
    BY <1>7, <2>1, <2>2
<1>8. QED
  BY <1>4, <1>5, <1>6

\* The three ways a statement of c arrives at COMMIT, or goes on from it.
ToCommit(c) ==
    \/ /\ CreateFileForUser(c) \/ CreateNewBlobForFile(c)
       /\ at'[c] = "commit"
       /\ KeyFree(View(c).versions, UserOf[c], file[c], Stamp[now])
       /\ \E d \in {View(c), AddFile(View(c), UserOf[c], file[c])}, n \in Blob :
             /\ IsNextBlob(d.versions, UserOf[c], n)
             /\ Reserve(c, AddRow(d, UserOf[c], file[c], Stamp[now], n), TRUE)
             /\ got' = [got EXCEPT ![c] = n]
    \/ /\ RemoveFile(c) \/ DeleteFile(c) \/ AddVersion(c) \/ AddChecksum(c) \/ RegisterUser(c)
       /\ method[c] \notin {"createFileForUser", "createNewBlobForFile"}
       /\ at'[c] = "commit"
       /\ \E d, txn : Reserve(c, d, txn)
    \/ /\ at[c] = "commit" /\ got' = got
       /\ \/ at'[c] = "write" /\ TakeExclusive(c)
          \/ at'[c] = "commit" /\ BlockedCommit(c)

LEMMA ComesToCommit ==
    ASSUME TypeOK, NEW c \in Session, Running(c), at'[c] \in {"commit", "write"}
    PROVE  ToCommit(c)
<1>1. \A s : GoTo(c, s) => at'[c] = IF s \in Answers THEN "idle" ELSE s
  BY DEF GoTo, TypeOK
<1>2. \A s : GoTo(c, s) => s \in {"commit", "write"}
  BY <1>1
<1>3. \A m, yes : /\ AfterLock(m) \notin {"commit", "write"}
                  /\ AfterExists(m, yes) \notin {"commit", "write"}
                  /\ AfterDeleted(m, yes) \notin {"commit", "write"}
                  /\ AfterSelect(m, yes) \notin {"commit", "write"}
                  /\ AfterBusySelect(m) \notin {"commit", "write"}
  BY DEF AfterLock, AfterExists, AfterDeleted, AfterSelect, AfterBusySelect
<1>4. \A s \in {"salt", "exists", "deleted", "select"} : ~Step(c, s)
  BY DEF Step, Stay
<1>5. ASSUME NEW s, NEW next, Finalize(c, s, next) \/ Busy(c, s, next)
      PROVE  next \in {"commit", "write"}
  BY <1>2, <1>5 DEF Finalize, Busy
<1>6. ~Lock(c)
  BY <1>3 DEF Lock, TypeOK
<1>7. ~ReadSalt(c) /\ ~ExistsFile(c) /\ ~CheckDeleted(c) /\ ~Select(c)
  <2>1. ~ReadSalt(c)
    BY <1>4, <1>5 DEF ReadSalt
  <2>2. ~ExistsFile(c)
    BY <1>3, <1>4, <1>5 DEF ExistsFile
  <2>3. ~CheckDeleted(c)
    BY <1>3, <1>4, <1>5 DEF CheckDeleted
  <2>4. ~Select(c)
    BY <1>3, <1>4, <1>5 DEF Select
  <2>5. QED
    BY <2>1, <2>2, <2>3, <2>4
<1>8. ~CountBlobs(c) /\ ~Write(c)
  BY <1>2 DEF CountBlobs, Write
<1>9. GoTo(c, "commit") => at'[c] = "commit"
  BY <1>1 DEF Answers
<1>10. ~GoTo(c, "throws") /\ ~GoTo(c, "ok")
  BY <1>2
<1>11. ASSUME NEW d, NEW ok, InsertBlob(c, d, ok)
       PROVE  /\ at'[c] = "commit" /\ ok
              /\ \E n \in Blob :
                    /\ IsNextBlob(d.versions, UserOf[c], n)
                    /\ Reserve(c, AddRow(d, UserOf[c], file[c], Stamp[now], n), TRUE)
                    /\ got' = [got EXCEPT ![c] = n]
  <2>1. /\ GoTo(c, "commit") /\ ok
        /\ \E n \in Blob :
              /\ IsNextBlob(d.versions, UserOf[c], n)
              /\ Reserve(c, AddRow(d, UserOf[c], file[c], Stamp[now], n), TRUE)
              /\ got' = [got EXCEPT ![c] = n]
    BY <1>10, <1>11, Zenon DEF InsertBlob
  <2>2. QED
    BY <1>9, <2>1, Zenon
<1>12. CASE CreateFileForUser(c) \/ CreateNewBlobForFile(c)
  <2> DEFINE free == KeyFree(View(c).versions, UserOf[c], file[c], Stamp[now])
  <2>1. PICK d \in {View(c), AddFile(View(c), UserOf[c], file[c])} :
           InsertBlob(c, d, free) \/ InsertBlob(c, d, <<UserOf[c], file[c]>> \notin View(c).files /\ free)
    BY <1>10, <1>12 DEF CreateFileForUser, CreateNewBlobForFile
  <2>2. QED
    BY <1>11, <1>12, <2>1 DEF ToCommit
<1>13. CASE RemoveFile(c)
  <2>1. Reserve(c, DropFile(View(c), UserOf[c], file[c]), TRUE) /\ at'[c] = "commit"
    BY <1>9, <1>10, <1>13 DEF RemoveFile
  <2>2. QED
    BY <1>13, <2>1 DEF RemoveFile, AtBody, ToCommit
<1>14. CASE DeleteFile(c) \/ AddVersion(c) \/ AddChecksum(c) \/ RegisterUser(c)
  <2>1. method[c] \notin {"createFileForUser", "createNewBlobForFile"}
    BY <1>14 DEF DeleteFile, AddVersion, AddChecksum, RegisterUser, AtBody
  <2>2. ~AutocommitBusy(c)
    BY <1>10 DEF AutocommitBusy
  <2>3. ASSUME NEW d, NEW ok, Autocommit(c, d, ok)
        PROVE  at'[c] = "commit" /\ \E e, txn : Reserve(c, e, txn)
    BY <1>9, <1>10, <2>3 DEF Autocommit
  <2>4. PICK d, ok : Autocommit(c, d, ok)
    BY <1>10, <1>14, <2>2 DEF DeleteFile, AddVersion, AddChecksum, RegisterUser, AddRowNow
  <2>5. QED
    BY <1>14, <2>1, <2>3, <2>4 DEF ToCommit
<1>15. CASE Commit(c)
  <2>1. GoTo(c, "write") => at'[c] = "write"
    BY <1>1 DEF Answers
  <2>2. Stay => at'[c] = at[c]
    BY DEF Stay
  <2>3. at[c] = "commit" /\ got' = got
    BY <1>15 DEF Commit, resultVars
  <2>4. ~GoTo(c, "ok") /\ ~GoTo(c, "throws")
    BY <1>2
  <2>5. QED
    BY <1>15, <2>1, <2>2, <2>3, <2>4 DEF Commit, ToCommit
<1>16. QED
  BY <1>6, <1>7, <1>8, <1>12, <1>13, <1>14, <1>15 DEF Running

LEMMA CommitLockedKept ==
    ASSUME TypeOK, CommitLocked, NEW c \in Session, Running(c)
    PROVE  CommitLocked'
<1>1. \A o \in Session \ {c} : at'[o] = at[o] /\ lock'[o] = lock[o]
  BY OthersStay
<1>2. ASSUME at'[c] \in {"commit", "write"}
      PROVE  lock'[c] \in Writing /\ (at'[c] = "write" => lock'[c] = "exclusive")
  <2>1. ToCommit(c)
    BY <1>2, ComesToCommit
  <2>2. CASE at'[c] = "commit" /\ \E d, txn : Reserve(c, d, txn)
    BY <2>2 DEF Reserve, Writing, TypeOK
  <2>3. CASE at'[c] = "write" /\ TakeExclusive(c)
    BY <2>3 DEF TakeExclusive, Writing, TypeOK
  <2>4. CASE at[c] = "commit" /\ at'[c] = "commit" /\ BlockedCommit(c)
    BY <2>4 DEF BlockedCommit, Writing, TypeOK, CommitLocked
  <2>5. QED
    BY <2>1, <2>2, <2>3, <2>4 DEF ToCommit
<1>3. QED
  BY <1>1, <1>2 DEF CommitLocked

-----------------------------------------------------------------------------
(* A blob number is handed out once.                                       *)

\* While o holds the write lock nobody else changes the cache it will commit.
LEMMA WriterOwnsCache ==
    ASSUME TypeOK, LocksCompatible, NEW c \in Session, FileStep(c),
           NEW o \in Session \ {c}, lock[o] \in Writing
    PROVE  work' = work
<1>1. ~MayWrite(c) /\ lock[c] \notin Writing
  BY DEF MayWrite, OthersHold, LocksCompatible
<1>2. \A d, txn : ~Reserve(c, d, txn)
  BY <1>1 DEF Reserve
<1>3. QED
  BY <1>1, <1>2 DEF FileStep, fileVars, StartRead, EndRead, BeginRead, Rollback, LeaveActive,
     CreateEdit, RemoveEdit, RowEdit, ChecksumEdit, UserEdit, NoEdit, Committing,
     TakeExclusive, CommitNothing, BlockedCommit, WriteFile

\* MAX(Blob) + 1 is the number of no other row of the user.
LEMMA NextBlobIsNew ==
    ASSUME NEW d \in Content, NEW u \in User, NEW n \in Blob, IsNextBlob(d.versions, u, n),
           NEW r \in d.versions, r.user = u
    PROVE  r.blob # n
<1>1. r \in Version
  BY DEF Content
<1>2. n \in Nat /\ Null \notin Nat
  BY BlobAssumption DEF Blob
<1>3. CASE r.blob = Null
  BY <1>2, <1>3
<1>4. CASE r.blob # Null
  <2>1. r.blob \in Nat
    BY <1>1, <1>4, BlobAssumption DEF Version, Blob
  <2>2. r \in WithBlob({q \in d.versions : q.user = u})
    BY <1>4 DEF WithBlob
  <2>3. r.blob < n
    BY <2>2 DEF IsNextBlob
  <2>4. QED
    BY <1>2, <2>1, <2>3
<1>5. QED
  BY <1>3, <1>4

\* The number c is about to commit names one row of its user.
HandedOnce(c) ==
    \A r, q \in work.versions :
        r.user = UserOf[c] /\ q.user = UserOf[c] /\ r.blob = got[c] /\ q.blob = got[c] => r = q

LEMMA InsertHandsOnce ==
    ASSUME TypeOK, NEW c \in Session, NEW d \in Content, NEW n \in Blob,
           IsNextBlob(d.versions, UserOf[c], n),
           Reserve(c, AddRow(d, UserOf[c], file[c], Stamp[now], n), TRUE),
           got' = [got EXCEPT ![c] = n]
    PROVE  HandedOnce(c)'
<1> DEFINE new == [user |-> UserOf[c], file |-> file[c], stamp |-> Stamp[now], blob |-> n,
                   checksum |-> Null]
<1>1. UserOf[c] \in User
  BY SessionAssumption
<1>2. work'.versions = d.versions \cup {new}
  BY DEF Reserve, AddRow, Content
<1>3. got'[c] = n
  BY DEF TypeOK
<1>4. \A r \in work'.versions : r.user = UserOf[c] /\ r.blob = n => r = new
  BY <1>1, <1>2, NextBlobIsNew
<1>5. QED
  BY <1>3, <1>4 DEF HandedOnce

LEMMA CallStays ==
    ASSUME NEW c \in Session, Running(c)
    PROVE  UNCHANGED <<now, callVars>>
<1>1. ASSUME NEW s, Step(c, s) \/ (\E next : Finalize(c, s, next)) \/ (\E next : Busy(c, s, next))
      PROVE  UNCHANGED <<now, callVars>>
  BY <1>1 DEF Step, Finalize, Busy
<1>2. QED
  BY <1>1 DEF Running, Lock, ReadSalt, ExistsFile, CheckDeleted, Select, CountBlobs,
     CreateFileForUser, CreateNewBlobForFile, RemoveFile, DeleteFile, AddVersion, AddChecksum,
     RegisterUser, Commit, Write

LEMMA BlobHandedOnceKept ==
    ASSUME TypeOK, LocksCompatible, CommitLocked, BlobHandedOnce, NEW c \in Session, Running(c)
    PROVE  BlobHandedOnce'
<1>0. FileStep(c)
  BY RunningIsFileStep
<1> SUFFICES ASSUME NEW o \in Session, at'[o] \in {"commit", "write"},
                    method'[o] \in {"createFileForUser", "createNewBlobForFile"}
             PROVE  HandedOnce(o)'
  BY DEF BlobHandedOnce, HandedOnce
<1>1. CASE o # c
  <2>1. /\ at[o] \in {"commit", "write"} /\ got'[o] = got[o]
        /\ method[o] \in {"createFileForUser", "createNewBlobForFile"}
    BY <1>1, OthersStay
  <2>2. HandedOnce(o)
    BY <2>1 DEF BlobHandedOnce, HandedOnce
  <2>3. work' = work
    BY <1>0, <1>1, <2>1, WriterOwnsCache DEF CommitLocked
  <2>4. QED
    BY <2>1, <2>2, <2>3 DEF HandedOnce
<1>2. CASE o = c
  <2>0. ToCommit(c) /\ method' = method
    BY <1>2, ComesToCommit, CallStays DEF callVars
  <2>1. CASE \E d \in {View(c), AddFile(View(c), UserOf[c], file[c])}, n \in Blob :
                /\ IsNextBlob(d.versions, UserOf[c], n)
                /\ Reserve(c, AddRow(d, UserOf[c], file[c], Stamp[now], n), TRUE)
                /\ got' = [got EXCEPT ![c] = n]
    <3>1. View(c) \in Content /\ AddFile(View(c), UserOf[c], file[c]) \in Content
      BY ViewType, AddFileType, SessionAssumption DEF TypeOK
    <3>2. QED
      BY <1>2, <2>1, <3>1, InsertHandsOnce
  <2>2. CASE at[c] = "commit" /\ got' = got /\ (TakeExclusive(c) \/ BlockedCommit(c))
    <3>1. HandedOnce(c) /\ work' = work
      BY <1>2, <2>0, <2>2 DEF BlobHandedOnce, HandedOnce, TakeExclusive, BlockedCommit
    <3>2. QED
      BY <1>2, <2>2, <3>1 DEF HandedOnce
  <2>3. QED
    BY <1>2, <2>0, <2>1, <2>2 DEF ToCommit
<1>3. QED
  BY <1>1, <1>2

-----------------------------------------------------------------------------
(* addVersion has a number.                                                *)

\* A method runs at one of its statements, and only four methods set the number.
LEMMA RunningNumber ==
    ASSUME NEW c \in Session, Running(c)
    PROVE  /\ at[c] \in Statements
           /\ method[c] \notin {"createFileForUser", "createNewBlobForFile", "getBlob", "getLastBlob"}
                => got' = got
<1>1. \A yes : Answered(c, yes) => got' = got
  BY DEF Answered
<1>2. ASSUME NEW s, (\E next : Finalize(c, s, next)) \/ (\E next : Busy(c, s, next))
      PROVE  got' = got /\ at[c] = s
  BY <1>2 DEF Finalize, Busy, resultVars
<1>3. \A s : Step(c, s) => at[c] = s
  BY DEF Step
<1>4. CASE ReadSalt(c) \/ ExistsFile(c) \/ CheckDeleted(c)
  BY <1>1, <1>2, <1>3, <1>4 DEF ReadSalt, ExistsFile, CheckDeleted, Statements
<1>5. CASE Select(c)
  <2>1. CASE Step(c, "select")
    BY <1>1, <1>2, <1>3, <1>5, <2>1 DEF Select, Statements, LogUser, GetPath, GetLastVersion,
       GetBlobVersion, ReadStamp, GetUserFolder, GetDeletedFiles
  <2>2. CASE ~Step(c, "select")
    BY <1>2, <1>5, <2>2 DEF Select, Statements
  <2>3. QED
    BY <2>1, <2>2
<1>6. CASE ~(ReadSalt(c) \/ ExistsFile(c) \/ CheckDeleted(c) \/ Select(c))
  BY <1>6 DEF Running, Lock, CountBlobs, CreateFileForUser, CreateNewBlobForFile, RemoveFile,
     DeleteFile, AddVersion, AddChecksum, RegisterUser, Commit, Write, AtBody, resultVars,
     Statements
<1>7. QED
  BY <1>4, <1>5, <1>6

LEMMA RestoresNumberKept ==
    ASSUME TypeOK, CommitLocked, RestoresNumber, NEW c \in Session, Running(c)
    PROVE  RestoresNumber'
<1> SUFFICES ASSUME NEW o \in Session, at'[o] \notin {"idle", "gone", "abort"},
                    method'[o] = "addVersion"
             PROVE  got'[o] # Null
  BY DEF RestoresNumber
<1>1. method' = method
  BY CallStays DEF callVars
<1>2. CASE o = c
  BY <1>1, <1>2, RunningNumber DEF RestoresNumber, Statements
<1>3. CASE o # c
  BY <1>1, <1>3, OthersStay DEF RestoresNumber
<1>4. QED
  BY <1>2, <1>3

-----------------------------------------------------------------------------
(* The invariant holds at the start and is kept by every step.             *)

LEMMA InitInvariant == Init => IInv
<1> SUFFICES ASSUME Init PROVE IInv
  OBVIOUS
<1>1. TypeOK
  BY InitType
<1>2. \A c \in Session : lock[c] = "none" /\ at[c] = "idle"
  BY DEF Init, FileInit
<1>3. /\ LocksCompatible /\ CommitLocked /\ CacheCurrent /\ CacheOwn
      /\ BlobHandedOnce /\ RestoresNumber
  BY <1>2 DEF LocksCompatible, CommitLocked, CacheCurrent, CacheOwn, BlobHandedOnce,
     RestoresNumber, Writing
<1>4. HasBlob(db) /\ HasBlob(work)
  BY DEF Init, FileInit, HasBlob
<1>5. QED
  BY <1>1, <1>3, <1>4 DEF IInv

\* A statement of a method.
LEMMA RunningInvariant ==
    ASSUME IInv, NEW c \in Session, Running(c)
    PROVE  IInv'
<1> USE DEF IInv
<1>1. FileStep(c)
  BY RunningIsFileStep
<1>2. TypeOK'
  <2>1. FileTypeOK'
    BY <1>1, FileStepType
  <2>2. FlowTypeOK' /\ SessionTypeOK' /\ ResultTypeOK'
    BY RunningSessionType
  <2>3. QED
    BY <2>1, <2>2 DEF TypeOK, FileTypeOK, FlowTypeOK, SessionTypeOK, ResultTypeOK
<1>3. LocksCompatible'
  BY <1>1, LocksKept
<1>4. CommitLocked'
  BY CommitLockedKept
<1>5. HasBlob(db)' /\ HasBlob(work)'
  BY <1>1, BlobsKept
<1>6. CacheCurrent'
  BY <1>1, <1>3, CacheCurrentKept
<1>7. CacheOwn'
  BY <1>1, <1>3, CacheOwnKept
<1>8. BlobHandedOnce' /\ RestoresNumber'
  BY BlobHandedOnceKept, RestoresNumberKept
<1>9. QED
  BY <1>2, <1>3, <1>4, <1>5, <1>6, <1>7, <1>8

\* A step that leaves the file alone and brings nobody to a COMMIT: a session may
\* begin or end a method, or stays where it is.
StaysOrBegins(c) ==
    \/ at'[c] \in {"idle", "gone", "abort"}
    \/ at'[c] = at[c] /\ method'[c] = method[c] /\ got'[c] = got[c]
    \/ /\ at'[c] \notin {"commit", "write"}
       /\ method'[c] = "addVersion" => got'[c] # Null

LEMMA QuietInvariant ==
    ASSUME IInv, TypeOK', UNCHANGED <<db, work, lock, inTxn>>,
           \A c \in Session : StaysOrBegins(c)
    PROVE  IInv'
<1>1. LocksCompatible' /\ HasBlob(db)' /\ HasBlob(work)'
  BY DEF IInv, LocksCompatible
<1>2. CommitLocked'
  BY DEF IInv, CommitLocked, StaysOrBegins
<1>3. CacheCurrent' /\ CacheOwn'
  BY DEF IInv, CacheCurrent, CacheOwn, OwnRows
<1>4. BlobHandedOnce' /\ RestoresNumber'
  BY DEF IInv, BlobHandedOnce, RestoresNumber, StaysOrBegins
<1>5. QED
  BY <1>1, <1>2, <1>3, <1>4 DEF IInv

LEMMA NextInvariant == IInv /\ [Next]_vars => IInv'
<1> SUFFICES ASSUME IInv, [Next]_vars PROVE IInv'
  OBVIOUS
<1>0. TypeOK
  BY DEF IInv
<1>1. ASSUME NEW c \in Session, NEW m \in AllMethods, NEW f \in File, NEW s \in Checksum,
             Call(c, m, f, s)
      PROVE  IInv'
  <2>1. TypeOK'
    BY <1>0, <1>1, OtherStepsType
  <2>2. First(m) \notin {"commit", "write"}
    BY DEF First
  <2>3. \A o \in Session : StaysOrBegins(o)
    BY <1>0, <1>1, <2>2 DEF Call, TypeOK, Chained, StaysOrBegins
  <2>4. UNCHANGED <<db, work, lock, inTxn>>
    BY <1>1 DEF Call, fileVars
  <2>5. QED
    BY <2>1, <2>3, <2>4, QuietInvariant
<1>2. ASSUME NEW c \in Session, Running(c)
      PROVE  IInv'
  BY <1>2, RunningInvariant
<1>3. ASSUME NEW c \in Session, Leave(c)
      PROVE  IInv'
  <2>1. TypeOK'
    BY <1>0, <1>3, OtherStepsType
  <2>2. QED
    <3>1. UNCHANGED <<db, work, lock, inTxn, method, got>>
      BY <1>3 DEF Leave, fileVars, callVars, resultVars
    <3>2. \A o \in Session : StaysOrBegins(o)
      BY <1>0, <1>3, <3>1 DEF Leave, TypeOK, StaysOrBegins
    <3>3. QED
      BY <2>1, <3>1, <3>2, QuietInvariant
<1>4. CASE Crash
  <2>1. TypeOK'
    BY <1>0, <1>4, OtherStepsType
  <2>2. /\ \A c \in Session : lock'[c] = "none" /\ at'[c] = "idle"
        /\ db' = db /\ work' = db
    BY <1>4 DEF Crash, FileCrash
  <2>3. /\ LocksCompatible' /\ CommitLocked' /\ CacheCurrent' /\ CacheOwn'
        /\ BlobHandedOnce' /\ RestoresNumber'
    BY <2>2 DEF LocksCompatible, CommitLocked, CacheCurrent, CacheOwn, BlobHandedOnce,
       RestoresNumber, Writing
  <2>4. HasBlob(db)' /\ HasBlob(work)'
    BY <2>2 DEF IInv
  <2>5. QED
    BY <2>1, <2>3, <2>4 DEF IInv
<1>5. CASE Tick \/ UNCHANGED vars
  <2>1. TypeOK'
    BY <1>0, <1>5, OtherStepsType
  <2>2. QED
    BY <1>5, <2>1, QuietInvariant DEF Tick, vars, fileVars, callVars, resultVars, StaysOrBegins
<1>6. QED
  BY <1>1, <1>2, <1>3, <1>4, <1>5 DEF Next

THEOREM Invariance == Spec => []IInv
<1>1. Init => IInv
  BY InitInvariant
<1>2. IInv /\ [Next]_vars => IInv'
  BY NextInvariant
<1>3. QED
  BY <1>1, <1>2, PTL DEF Spec

-----------------------------------------------------------------------------
(* What a step may do to the committed file.                               *)

LEMMA OnlyWriteChangesFile ==
    ASSUME IInv, [Next]_vars, db' # db
    PROVE  \E c \in Session : Write(c)
<1>1. ASSUME NEW c \in Session, Running(c), ~Write(c)
      PROVE  db' = db
  <2>1. \A d, txn : Reserve(c, d, txn) => db' = db
    BY DEF Reserve
  <2>2. \A d, ok : InsertBlob(c, d, ok) => db' = db
    BY <2>1 DEF InsertBlob, Rollback
  <2>3. \A d, ok : Autocommit(c, d, ok) => db' = db
    BY <2>1 DEF Autocommit, fileVars
  <2>4. ASSUME NEW s, Step(c, s) \/ (\E next : Finalize(c, s, next)) \/ (\E next : Busy(c, s, next))
        PROVE  db' = db
    BY <2>4 DEF Step, Finalize, Busy, StartRead, EndRead, fileVars
  <2>5. CASE Lock(c) \/ ReadSalt(c) \/ ExistsFile(c) \/ CheckDeleted(c) \/ Select(c)
    BY <2>4, <2>5 DEF Lock, ReadSalt, ExistsFile, CheckDeleted, Select, fileVars
  <2>6. CASE CountBlobs(c) \/ RemoveFile(c) \/ Commit(c)
    BY <2>1, <2>6 DEF CountBlobs, RemoveFile, Commit, BeginRead, Rollback, TakeExclusive,
                      CommitNothing, BlockedCommit
  <2>7. CASE CreateFileForUser(c) \/ CreateNewBlobForFile(c)
    BY <2>2, <2>7 DEF CreateFileForUser, CreateNewBlobForFile, fileVars
  <2>8. CASE DeleteFile(c) \/ AddVersion(c) \/ AddChecksum(c) \/ RegisterUser(c)
    BY <2>3, <2>8 DEF DeleteFile, AddVersion, AddChecksum, RegisterUser, AddRowNow,
                      AutocommitBusy, LeaveActive, fileVars
  <2>9. QED
    BY <1>1, <2>5, <2>6, <2>7, <2>8 DEF Running
<1>2. \A c \in Session : ~Leave(c)
  BY DEF Leave, fileVars
<1>3. \A c, m, f, s : ~Call(c, m, f, s)
  BY DEF Call, fileVars
<1>4. ~Crash /\ ~Tick /\ ~UNCHANGED vars
  BY DEF Crash, FileCrash, Tick, vars, fileVars
<1>5. QED
  BY <1>1, <1>2, <1>3, <1>4 DEF Next

LEMMA StepKeepsVersions ==
    ASSUME IInv, [Next]_vars
    PROVE  \A r \in db.versions : Kept(r, db')
<1>1. CASE db' = db
  BY <1>1 DEF Kept
<1>2. CASE db' # db
  <2>1. PICK c \in Session : Write(c)
    BY <1>2, OnlyWriteChangesFile
  <2>2. lock[c] \in Writing /\ db' = work
    BY <2>1 DEF Write, WriteFile, Writing
  <2>3. QED
    BY <2>2 DEF IInv, CacheCurrent
<1>3. QED
  BY <1>1, <1>2

LEMMA StepKeepsOthers ==
    ASSUME IInv, [Next]_vars, NEW u \in User
    PROVE  \/ \E c \in Session : UserOf[c] = u /\ at[c] = "write"
           \/ OwnRows(u, db') = OwnRows(u, db)
<1>1. CASE db' = db
  BY <1>1
<1>2. CASE db' # db
  <2>1. PICK c \in Session : Write(c)
    BY <1>2, OnlyWriteChangesFile
  <2>2. at[c] = "write" /\ lock[c] \in Writing /\ db' = work
    BY <2>1 DEF Write, WriteFile, Writing
  <2>3. CASE UserOf[c] = u
    BY <2>2, <2>3
  <2>4. CASE UserOf[c] # u
    BY <2>2, <2>4 DEF IInv, CacheOwn
  <2>5. QED
    BY <2>3, <2>4
<1>3. QED
  BY <1>1, <1>2

-----------------------------------------------------------------------------
(* The theorems.                                                           *)

\* Types: no method, failure or crash leaves a value the code cannot hold.
THEOREM TypeCorrect == Spec => []TypeOK
<1>1. IInv => TypeOK
  BY DEF IInv
<1>2. QED
  BY <1>1, Invariance, PTL

\* The way the methods of DatabaseHandler.cpp use their connections, one of them
\* writes at a time, and alone while it writes the file.
THEOREM LocksAlwaysCompatible == Spec => []LocksCompatible
<1>1. IInv => LocksCompatible
  BY DEF IInv
<1>2. QED
  BY <1>1, Invariance, PTL

\* getLastBlob (DatabaseHandler.cpp:1119) always finds a blob for a file of FILES:
\* createFileForUser and removeFile change FILES and VERSIONS in one transaction,
\* and what a method leaves uncommitted goes with a ROLLBACK as a whole.
THEOREM FilesAlwaysHaveBlob == Spec => []FileHasBlob
<1>1. IInv => FileHasBlob
  BY DEF IInv, FileHasBlob
<1>2. QED
  BY <1>1, Invariance, PTL

\* The number createFileForUser and createNewBlobForFile take (DatabaseHandler.cpp:515-546,
\* 619-656) is committed by one of them: RESERVED is held from the INSERT to the COMMIT.
THEOREM BlobAlwaysHandedOnce == Spec => []BlobHandedOnce
<1>1. IInv => BlobHandedOnce
  BY DEF IInv
<1>2. QED
  BY <1>1, Invariance, PTL

\* No write of the file loses a version or gives it another blob, except where
\* removeFile (DatabaseHandler.cpp:740) takes its file.
THEOREM VersionsAlwaysKept == Spec => VersionsKept
<1>1. IInv /\ [Next]_vars => [\A r \in db.versions : Kept(r, db')]_vars
  BY StepKeepsVersions
<1>2. QED
  BY <1>1, Invariance, PTL DEF Spec, VersionsKept

\* No write of one user's session changes the versions of another user.
THEOREM OthersAlwaysUntouched == Spec => OtherUsersUntouched
<1>1. IInv /\ [Next]_vars =>
          [\A u \in User :
              \/ \E c \in Session : UserOf[c] = u /\ at[c] = "write"
              \/ OwnRows(u, db') = OwnRows(u, db)]_vars
  BY StepKeepsOthers
<1>2. QED
  BY <1>1, Invariance, PTL DEF Spec, OtherUsersUntouched

=============================================================================
