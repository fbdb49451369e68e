---------------------------- MODULE HistoryProofs ----------------------------
(***************************************************************************)
(* When every user has one session, what a method found out before it took *)
(* m or RESERVED still holds when it changes the tables: every version has *)
(* its file, and DatabaseHandler implements VersionHistory: each statement *)
(* that changes the cache is one whole change of the draft which the draft *)
(* allows, and every other step publishes the draft, drops it or is not    *)
(* seen.  With two devices of a user neither holds (run listing).          *)
(***************************************************************************)
EXTENDS DatabaseHandlerProofs, DatabaseHistory

OneSessionEach == \A c, o \in Session : UserOf[c] = UserOf[o] => c = o

-----------------------------------------------------------------------------
(* The inductive invariant, beside IInv.                                   *)

NoOrphan(d) == \A r \in d.versions : <<r.user, r.file>> \in d.files

\* PRIMARY KEY (lastModified, Username, name, path)
KeysUnique(d) ==
    \A r, q \in d.versions :
        r.user = q.user /\ r.file = q.file /\ r.stamp = q.stamp => r = q

Sound(d) == NoOrphan(d) /\ KeysUnique(d)

OwnFiles(u, d) == {p \in d.files : p[1] = u}

\* A writer changes the files of its own user only.
CacheOwnFiles ==
    \A c \in Session : lock[c] \in Writing =>
        \A u \in User \ {UserOf[c]} : OwnFiles(u, work) = OwnFiles(u, db)

\* Without a writer there is no cache but the file's own content.
IdleCache == (\A c \in Session : lock[c] \notin Writing) => work = db

\* The methods that look for their file before they take m.
Later == {"createNewBlobForFile", "addVersion", "deleteFile", "removeFile"}

\* What existsFile and isDeleted answered is still so when the method goes on.
Known(c) ==
    /\ method[c] \in Later
    /\ \/ at[c] \in {"deleted", "lock", "count", "body"}
       \/ at[c] = "exists" /\ open[c] /\ found[c]

Alive(c) ==
    /\ method[c] = "deleteFile"
    /\ \/ at[c] \in {"lock", "count", "body"}
       \/ at[c] = "deleted" /\ open[c] /\ ~found[c]

AnswersHold ==
    \A c \in Session :
        /\ Known(c) => <<UserOf[c], file[c]>> \in View(c).files
        /\ Alive(c) => ~IsDeleted(View(c).versions, UserOf[c], file[c])

HistoryInv ==
    /\ Sound(db) /\ Sound(work)
    /\ CacheOwnFiles
    /\ IdleCache
    /\ AnswersHold

-----------------------------------------------------------------------------
(* The changes keep the tables sound, and other users' files as they are.  *)

LEMMA AddFileSound ==
    ASSUME NEW d \in Content, Sound(d), NEW u \in User, NEW f \in File
    PROVE  Sound(AddFile(d, u, f)) /\ <<u, f>> \in AddFile(d, u, f).files
BY DEF Sound, NoOrphan, KeysUnique, AddFile, Content

LEMMA AddRowSound ==
    ASSUME NEW d \in Content, Sound(d), NEW u, NEW f, NEW s, NEW b,
           <<u, f>> \in d.files, KeyFree(d.versions, u, f, s)
    PROVE  Sound(AddRow(d, u, f, s, b))
<1> DEFINE new == [user |-> u, file |-> f, stamp |-> s, blob |-> b, checksum |-> Null]
           e == AddRow(d, u, f, s, b)
<1>1. e.versions = d.versions \cup {new} /\ e.files = d.files
  BY DEF AddRow, Content
<1>2. new.user = u /\ new.file = f /\ new.stamp = s
  OBVIOUS
<1> HIDE DEF new, e
<1>3. NoOrphan(e)
  BY <1>1, <1>2 DEF Sound, NoOrphan
<1>4. ASSUME NEW r \in d.versions, r.user = u, r.file = f
      PROVE  r.stamp # s
  BY <1>4 DEF KeyFree, RowsOf
<1>5. KeysUnique(e)
  BY <1>1, <1>2, <1>4 DEF Sound, KeysUnique
<1>6. QED
  BY <1>3, <1>5 DEF Sound, e

LEMMA DropFileSound ==
    ASSUME NEW d \in Content, Sound(d), NEW u \in User, NEW f \in File
    PROVE  Sound(DropFile(d, u, f))
<1> DEFINE e == DropFile(d, u, f)
<1>1. e.files = d.files \ {<<u, f>>} /\ e.versions = d.versions \ RowsOf(d.versions, u, f)
  BY DEF DropFile, Content
<1>2. ASSUME NEW r \in e.versions
      PROVE  <<r.user, r.file>> \in e.files
  <2>1. r \in d.versions /\ ~(r.user = u /\ r.file = f)
    BY <1>1, <1>2 DEF RowsOf
  <2>2. <<r.user, r.file>> \in d.files /\ <<r.user, r.file>> # <<u, f>>
    BY <2>1 DEF Sound, NoOrphan
  <2>3. QED
    BY <1>1, <2>2
<1>3. KeysUnique(e)
  BY <1>1 DEF Sound, KeysUnique
<1>4. QED
  BY <1>2, <1>3 DEF Sound, NoOrphan

\* A row of SetChecksum's result is a row of the table but for its checksum.
LEMMA ChecksumRows ==
    ASSUME NEW d \in Content, NEW u, NEW b, NEW k
    PROVE  /\ SetChecksum(d, u, b, k).files = d.files
           /\ SetChecksum(d, u, b, k).users = d.users
           /\ \A r \in SetChecksum(d, u, b, k).versions : \E q \in d.versions :
                 /\ r.user = q.user /\ r.file = q.file /\ r.stamp = q.stamp /\ r.blob = q.blob
                 /\ r = IF q.user = u /\ q.blob = b THEN [q EXCEPT !.checksum = k] ELSE q
           /\ \A q \in d.versions : \E r \in SetChecksum(d, u, b, k).versions :
                 /\ r.user = q.user /\ r.file = q.file /\ r.stamp = q.stamp /\ r.blob = q.blob
                 /\ r = IF q.user = u /\ q.blob = b THEN [q EXCEPT !.checksum = k] ELSE q
<1> DEFINE Mark(q) == IF q.user = u /\ q.blob = b THEN [q EXCEPT !.checksum = k] ELSE q
           e == SetChecksum(d, u, b, k)
<1>1. e.files = d.files /\ e.users = d.users /\ e.versions = {Mark(q) : q \in d.versions}
  BY DEF SetChecksum, Content
<1> DEFINE Same(r, q) == /\ r.user = q.user /\ r.file = q.file
                         /\ r.stamp = q.stamp /\ r.blob = q.blob
                         /\ r = Mark(q)
<1>2. \A q \in d.versions : Same(Mark(q), q)
  BY DEF Content, Version
<1> HIDE DEF Mark
<1>3. \A r \in e.versions : \E q \in d.versions : Same(r, q)
  BY <1>1, <1>2
<1>4. \A q \in d.versions : \E r \in e.versions : Same(r, q)
  BY <1>1, <1>2
<1>5. QED
  BY <1>1, <1>3, <1>4 DEF Mark

LEMMA SetChecksumSound ==
    ASSUME NEW d \in Content, Sound(d), NEW u, NEW b, NEW k
    PROVE  Sound(SetChecksum(d, u, b, k))
<1> DEFINE e == SetChecksum(d, u, b, k)
<1>1. NoOrphan(e)
  <2> SUFFICES ASSUME NEW r \in e.versions
               PROVE  <<r.user, r.file>> \in e.files
    BY DEF NoOrphan
  <2>1. PICK q \in d.versions : r.user = q.user /\ r.file = q.file
    BY ChecksumRows
  <2>2. e.files = d.files
    BY ChecksumRows
  <2>3. QED
    BY <2>1, <2>2 DEF Sound, NoOrphan
<1>2. ASSUME NEW r \in e.versions, NEW q \in e.versions,
             r.user = q.user, r.file = q.file, r.stamp = q.stamp
      PROVE  r = q
  <2>1. PICK x \in d.versions :
           /\ r.user = x.user /\ r.file = x.file /\ r.stamp = x.stamp
           /\ r = IF x.user = u /\ x.blob = b THEN [x EXCEPT !.checksum = k] ELSE x
    BY ChecksumRows
  <2>2. PICK y \in d.versions :
           /\ q.user = y.user /\ q.file = y.file /\ q.stamp = y.stamp
           /\ q = IF y.user = u /\ y.blob = b THEN [y EXCEPT !.checksum = k] ELSE y
    BY ChecksumRows
  <2>3. x = y
    BY <1>2, <2>1, <2>2 DEF Sound, KeysUnique
  <2>4. QED
    BY <2>1, <2>2, <2>3
<1>3. QED
  BY <1>1, <1>2 DEF Sound, KeysUnique

LEMMA AddUserSound ==
    ASSUME NEW d \in Content, Sound(d), NEW u
    PROVE  Sound(AddUser(d, u))
BY DEF Sound, NoOrphan, KeysUnique, AddUser, Content

\* What a method writes into the cache.
Edit(c) ==
    CreateEdit(c) \/ RemoveEdit(c) \/ RowEdit(c) \/ ChecksumEdit(c) \/ UserEdit(c) \/ NoEdit(c)

\* A connection's view is sound, and has the other users' files as the file has.
LEMMA ViewSound ==
    ASSUME TypeOK, HistoryInv, NEW c \in Session
    PROVE  /\ View(c) \in Content /\ Sound(View(c))
           /\ \A u \in User \ {UserOf[c]} : OwnFiles(u, View(c)) = OwnFiles(u, db)
BY ViewType DEF HistoryInv, CacheOwnFiles, View

LEMMA EditSound ==
    ASSUME TypeOK, HistoryInv, NEW c \in Session, Edit(c)
    PROVE  /\ Sound(work') /\ MayWrite(c) /\ db' = db /\ lock'[c] \in Writing
           /\ \A u \in User \ {UserOf[c]} : OwnFiles(u, work') = OwnFiles(u, db)
<1> DEFINE d == View(c)
           u == UserOf[c]
           f == file[c]
           Others(e) == \A v \in User \ {u} : OwnFiles(v, e) = OwnFiles(v, d)
<1>0. /\ d \in Content /\ Sound(d) /\ u \in User /\ f \in File
      /\ \A v \in User \ {u} : OwnFiles(v, d) = OwnFiles(v, db)
  BY ViewSound, ArgumentTypes
<1>1. ASSUME NEW e, NEW txn, Reserve(c, e, txn), Sound(e), Others(e)
      PROVE  /\ Sound(work') /\ MayWrite(c) /\ db' = db /\ lock'[c] \in Writing
             /\ \A v \in User \ {UserOf[c]} : OwnFiles(v, work') = OwnFiles(v, db)
  BY <1>0, <1>1 DEF Reserve, Writing, TypeOK
<1>2. CASE CreateEdit(c)
  <2> DEFINE e == AddFile(d, u, f)
  <2>1. PICK n : Reserve(c, AddRow(e, u, f, Stamp[now], n), TRUE)
    BY <1>2 DEF CreateEdit
  <2>2. e \in Content /\ e.files = d.files \cup {<<u, f>>} /\ Sound(e)
    BY <1>0, AddFileType, AddFileSound DEF AddFile, Content
  <2>3. KeyFree(e.versions, u, f, Stamp[now])
    BY <1>2 DEF CreateEdit
  <2>4. Sound(AddRow(e, u, f, Stamp[now], n))
    BY <2>2, <2>3, AddRowSound
  <2>5. AddRow(e, u, f, Stamp[now], n).files = e.files
    BY <2>2 DEF AddRow, Content
  <2>6. Others(AddRow(e, u, f, Stamp[now], n))
    BY <2>2, <2>5 DEF OwnFiles
  <2>7. QED
    BY <1>1, <2>1, <2>4, <2>6
<1>3. CASE RemoveEdit(c)
  <2>1. Sound(DropFile(d, u, f)) /\ Reserve(c, DropFile(d, u, f), TRUE)
    BY <1>0, <1>3, DropFileSound DEF RemoveEdit
  <2>2. DropFile(d, u, f).files = d.files \ {<<u, f>>}
    BY <1>0 DEF DropFile, Content
  <2>3. \A v \in User \ {u} : \A p : p[1] = v => p # <<u, f>>
    OBVIOUS
  <2>4. Others(DropFile(d, u, f))
    BY <2>2, <2>3 DEF OwnFiles
  <2>5. QED
    BY <1>1, <2>1, <2>4
<1>4. CASE RowEdit(c)
  <2>1. PICK b, txn : RowOf(c, b, txn) /\ Reserve(c, AddRow(d, u, f, Stamp[now], b), txn)
    BY <1>4 DEF RowEdit
  <2>2. Known(c)
    BY <2>1 DEF RowOf, AtBody, Known, Later
  <2>3. <<u, f>> \in d.files /\ KeyFree(d.versions, u, f, Stamp[now])
    BY <1>4, <2>2 DEF HistoryInv, AnswersHold, RowEdit
  <2>4. Sound(AddRow(d, u, f, Stamp[now], b))
    BY <1>0, <2>3, AddRowSound
  <2>5. AddRow(d, u, f, Stamp[now], b).files = d.files
    BY <1>0 DEF AddRow, Content
  <2>6. QED
    BY <1>1, <2>1, <2>4, <2>5 DEF OwnFiles
<1>5. CASE ChecksumEdit(c)
  <2> DEFINE e == SetChecksum(d, u, got[c], sum[c])
  <2>1. Sound(e) /\ e.files = d.files
    BY <1>0, SetChecksumSound, ChecksumRows
  <2>2. QED
    BY <1>1, <1>5, <2>1 DEF ChecksumEdit, OwnFiles
<1>6. CASE UserEdit(c)
  <2>1. Sound(AddUser(d, u)) /\ AddUser(d, u).files = d.files
    BY <1>0, AddUserSound DEF AddUser, Content
  <2>2. QED
    BY <1>1, <1>6, <2>1 DEF UserEdit, OwnFiles
<1>7. CASE NoEdit(c)
  BY <1>0, <1>1, <1>7 DEF NoEdit
<1>8. QED
  BY <1>2, <1>3, <1>4, <1>5, <1>6, <1>7 DEF Edit

-----------------------------------------------------------------------------
(* The other steps of a method: what they do to the cache and its writer.  *)

KeepsCache ==
    /\ UNCHANGED <<db, work>>
    /\ \A o \in Session : lock'[o] \in Writing <=> lock[o] \in Writing

DropsCache ==
    /\ db' = db /\ work' = db
    /\ \A o \in Session : lock'[o] \notin Writing

LEMMA FileStepKinds ==
    ASSUME TypeOK, LocksCompatible, NEW c \in Session, FileStep(c)
    PROVE  Edit(c) \/ KeepsCache \/ DropsCache \/ WriteFile(c)
<1> USE DEF Writing
<1>1. CASE UNCHANGED fileVars \/ LeaveActive(c)
  BY <1>1 DEF fileVars, LeaveActive, KeepsCache
<1>2. CASE StartRead(c) \/ EndRead(c) \/ BeginRead(c)
  BY <1>2 DEF StartRead, EndRead, BeginRead, KeepsCache, TypeOK
<1>3. CASE Rollback(c)
  <2>1. lock'[c] \notin Writing /\ \A o \in Session \ {c} : lock'[o] = lock[o]
    BY <1>3 DEF Rollback, TypeOK
  <2>2. CASE lock[c] \in Writing
    <3>1. \A o \in Session \ {c} : lock[o] \notin Writing
      BY <2>2 DEF LocksCompatible
    <3>2. QED
      BY <1>3, <2>1, <2>2, <3>1 DEF Rollback, DropsCache
  <2>3. CASE lock[c] \notin Writing
    BY <1>3, <2>1, <2>3 DEF Rollback, KeepsCache
  <2>4. QED
    BY <2>2, <2>3
<1>4. CASE Committing(c)
  <2>1. CASE TakeExclusive(c) \/ BlockedCommit(c)
    BY <1>4, <2>1 DEF Committing, TakeExclusive, BlockedCommit, KeepsCache, TypeOK
  <2>2. CASE CommitNothing(c)
    BY <1>4, <2>2 DEF Committing, CommitNothing, DropsCache, TypeOK, LocksCompatible
  <2>3. QED
    BY <1>4, <2>1, <2>2 DEF Committing
<1>5. QED
  BY FileStep(c), <1>1, <1>2, <1>3, <1>4 DEF FileStep, Edit

CacheSound == Sound(db) /\ Sound(work) /\ CacheOwnFiles /\ IdleCache

LEMMA CacheSoundKept ==
    ASSUME TypeOK, LocksCompatible, LocksCompatible', HistoryInv, NEW c \in Session, FileStep(c)
    PROVE  CacheSound'
<1> USE DEF CacheSound
<1>0. CacheSound
  BY DEF HistoryInv
<1>1. CASE Edit(c)
  <2>1. /\ Sound(work') /\ db' = db /\ lock'[c] \in Writing
        /\ \A u \in User \ {UserOf[c]} : OwnFiles(u, work') = OwnFiles(u, db)
    BY <1>1, EditSound
  <2>2. \A o \in Session : lock'[o] \in Writing => o = c
    BY <2>1 DEF LocksCompatible
  <2>3. CacheOwnFiles'
    BY <2>1, <2>2 DEF CacheOwnFiles
  <2>4. IdleCache'
    BY <2>1 DEF IdleCache
  <2>5. QED
    BY <1>0, <2>1, <2>3, <2>4
<1>2. CASE KeepsCache
  BY <1>0, <1>2 DEF KeepsCache, CacheOwnFiles, IdleCache
<1>3. CASE DropsCache
  BY <1>0, <1>3 DEF DropsCache, CacheOwnFiles, IdleCache
<1>4. CASE WriteFile(c)
  <2>1. \A o \in Session : lock'[o] \notin Writing
    BY <1>4 DEF WriteFile, LocksCompatible, TypeOK, Writing
  <2>2. QED
    BY <1>0, <1>4, <2>1 DEF WriteFile, CacheOwnFiles, IdleCache
<1>5. QED
  BY <1>1, <1>2, <1>3, <1>4, FileStepKinds

-----------------------------------------------------------------------------
(* The answers existsFile and isDeleted gave.                              *)

\* Of what another session does, a connection sees nothing of its own user.
LEMMA OthersView ==
    ASSUME OneSessionEach, TypeOK, LocksCompatible, CommitLocked, CacheOwn, HistoryInv,
           NEW c \in Session, Running(c), NEW o \in Session \ {c}
    PROVE  /\ OwnRows(UserOf[o], View(o)') = OwnRows(UserOf[o], View(o))
           /\ OwnFiles(UserOf[o], View(o)') = OwnFiles(UserOf[o], View(o))
<1>0. FileStep(c) /\ lock'[o] = lock[o] /\ UserOf[o] \in User \ {UserOf[c]}
  BY RunningIsFileStep, OthersStay, SessionAssumption DEF OneSessionEach
<1>1. CASE lock[o] \in Writing
  BY <1>0, <1>1, WriterOwnsCache DEF View
<1>2. CASE lock[o] \notin Writing
  <2>1. View(o) = db /\ View(o)' = db'
    BY <1>0, <1>2 DEF View
  <2>2. CASE WriteFile(c)
    <3>1. db' = work /\ lock[c] \in Writing
      BY <2>2 DEF WriteFile, Writing
    <3>2. QED
      BY <1>0, <2>1, <3>1 DEF CacheOwn, HistoryInv, CacheOwnFiles
  <2>3. CASE Edit(c) \/ KeepsCache \/ DropsCache
    BY <2>1, <2>3, EditSound DEF KeepsCache, DropsCache
  <2>4. QED
    BY <1>0, <2>2, <2>3, FileStepKinds
<1>3. QED
  BY <1>1, <1>2

LEMMA SameRows ==
    ASSUME NEW d, NEW e, NEW u, NEW f, OwnRows(u, d) = OwnRows(u, e)
    PROVE  IsDeleted(d.versions, u, f) <=> IsDeleted(e.versions, u, f)
<1>1. RowsOf(d.versions, u, f) = RowsOf(e.versions, u, f)
  BY DEF OwnRows, RowsOf
<1>2. QED
  BY <1>1 DEF IsDeleted

LEMMA SameFiles ==
    ASSUME NEW d, NEW e, NEW u, NEW f, OwnFiles(u, d) = OwnFiles(u, e)
    PROVE  <<u, f>> \in d.files <=> <<u, f>> \in e.files
<1>1. <<u, f>>[1] = u
  OBVIOUS
<1>2. QED
  BY <1>1 DEF OwnFiles

Before == {"exists", "deleted", "lock", "count", "body"}

\* A session is before its writes only by these statements, which leave its view.
LEMMA StatementsBefore ==
    ASSUME TypeOK, NEW c \in Session, Running(c), at'[c] \in Before
    PROVE  /\ Lock(c) \/ ExistsFile(c) \/ CheckDeleted(c) \/ CountBlobs(c)
           /\ View(c)' = View(c)
<1>1. \A s : GoTo(c, s) => at'[c] = IF s \in Answers THEN "idle" ELSE s
  BY DEF GoTo, TypeOK
<1>2. \A s : GoTo(c, s) => s \in Before
  BY <1>1 DEF Before
<1>3. /\ \A s \in {"ok", "throws", "commit", "write", "select"} : ~GoTo(c, s)
      /\ \A m, yes : ~GoTo(c, AfterSelect(m, yes))
      /\ \A m : ~GoTo(c, AfterBusySelect(m))
  BY <1>2 DEF Before, AfterSelect, AfterBusySelect
<1>4. ~ReadSalt(c) /\ ~Select(c)
  BY <1>3 DEF ReadSalt, Select, Step, Finalize, Busy, Stay, Before
<1>5. ~CreateFileForUser(c) /\ ~CreateNewBlobForFile(c) /\ ~RemoveFile(c)
  BY <1>3 DEF CreateFileForUser, CreateNewBlobForFile, RemoveFile, InsertBlob
<1>6. ~DeleteFile(c) /\ ~AddVersion(c) /\ ~AddChecksum(c) /\ ~RegisterUser(c)
  <2>1. \A d, ok : ~Autocommit(c, d, ok)
    BY <1>3 DEF Autocommit
  <2>2. QED
    BY <1>3, <2>1 DEF DeleteFile, AddVersion, AddChecksum, RegisterUser, AddRowNow, AutocommitBusy
<1>7. ~Commit(c) /\ ~Write(c)
  BY <1>3 DEF Commit, Write, Stay, Before
<1>8. Lock(c) \/ ExistsFile(c) \/ CheckDeleted(c) \/ CountBlobs(c)
  BY <1>4, <1>5, <1>6, <1>7 DEF Running
<1>9. UNCHANGED fileVars \/ StartRead(c) \/ EndRead(c) \/ BeginRead(c)
  BY <1>3, <1>8 DEF Lock, ExistsFile, CheckDeleted, CountBlobs, Step, Finalize, Busy, fileVars
<1>10. UNCHANGED <<db, work>> /\ (lock'[c] \in Writing <=> lock[c] \in Writing)
  BY <1>9 DEF fileVars, StartRead, EndRead, BeginRead, Writing, TypeOK
<1>11. QED
  BY <1>8, <1>10 DEF View

LEMMA OwnAnswers ==
    ASSUME TypeOK, NEW c \in Session, Running(c), Known(c)' \/ Alive(c)'
    PROVE  /\ View(c)' = View(c)
           /\ Known(c)' => Known(c) \/ <<UserOf[c], file[c]>> \in View(c).files
           /\ Alive(c)' => Alive(c) \/ ~IsDeleted(View(c).versions, UserOf[c], file[c])
<1>0. /\ Lock(c) \/ ExistsFile(c) \/ CheckDeleted(c) \/ CountBlobs(c)
      /\ View(c)' = View(c) /\ method' = method
  BY StatementsBefore, CallStays DEF Known, Alive, Before, callVars
<1>1. \A s : GoTo(c, s) => at'[c] = IF s \in Answers THEN "idle" ELSE s
  BY DEF GoTo, TypeOK
<1>2. CASE Lock(c)
  BY <1>0, <1>2 DEF Lock, Known, Alive
<1>3. CASE CountBlobs(c)
  <2>1. at[c] = "count"
    BY <1>3 DEF CountBlobs
  <2>2. QED
    BY <1>0, <2>1 DEF Known, Alive
<1>4. CASE ExistsFile(c)
  <2>1. CASE Step(c, "exists") /\ Answered(c, <<UserOf[c], file[c]>> \in View(c).files)
    BY <1>0, <2>1 DEF Step, Stay, Answered, TypeOK, Known, Alive
  <2>2. CASE Busy(c, "exists", AfterExists(method[c], FALSE))
    <3>1. GoTo(c, AfterExists(method[c], FALSE))
      BY <2>2 DEF Busy
    <3>2. method[c] \in Later => AfterExists(method[c], FALSE) = "throws"
      BY DEF AfterExists, Later
    <3>3. QED
      BY <1>0, <1>1, <3>1, <3>2 DEF Known, Alive, Later, Answers
  <2>3. CASE Finalize(c, "exists", AfterExists(method[c], found[c]))
    <3>1. /\ GoTo(c, AfterExists(method[c], found[c])) /\ at[c] = "exists" /\ open[c]
          /\ ~open'[c]
      BY <2>3 DEF Finalize, TypeOK
    <3>2. /\ method[c] \in Later /\ ~found[c] => AfterExists(method[c], found[c]) = "throws"
          /\ method[c] = "deleteFile" => AfterExists(method[c], found[c]) \in {"deleted", "throws"}
      BY DEF AfterExists, Later
    <3>3. ~Alive(c)'
      BY <1>0, <1>1, <3>1, <3>2 DEF Alive, Answers
    <3>4. Known(c)' => Known(c)
      BY <1>0, <1>1, <3>1, <3>2 DEF Known, Answers
    <3>5. QED
      BY <1>0, <3>3, <3>4
  <2>4. QED
    BY <1>4, <2>1, <2>2, <2>3 DEF ExistsFile
<1>5. CASE CheckDeleted(c)
  <2>1. at[c] = "deleted"
    BY <1>5 DEF CheckDeleted, Step, Finalize, Busy
  <2>2. Known(c)' => Known(c)
    BY <1>0, <2>1 DEF Known
  <2>3. CASE /\ Step(c, "deleted")
             /\ Answered(c, IsDeleted(View(c).versions, UserOf[c], file[c]))
    BY <1>0, <2>1, <2>2, <2>3 DEF Step, Stay, Answered, TypeOK, Alive
  <2>4. CASE Busy(c, "deleted", "throws")
    BY <1>0, <1>1, <2>2, <2>4 DEF Busy, Alive, Answers
  <2>5. CASE Finalize(c, "deleted", AfterDeleted(method[c], found[c]))
    <3>1. GoTo(c, AfterDeleted(method[c], found[c])) /\ open[c] /\ ~open'[c]
      BY <2>5 DEF Finalize, TypeOK
    <3>2. method[c] = "deleteFile" /\ found[c] => AfterDeleted(method[c], found[c]) = "throws"
      BY DEF AfterDeleted
    <3>3. Alive(c)' => Alive(c)
      BY <1>0, <1>1, <2>1, <3>1, <3>2 DEF Alive, Answers
    <3>4. QED
      BY <1>0, <2>2, <3>3
  <2>6. QED
    BY <1>5, <2>3, <2>4, <2>5 DEF CheckDeleted
<1>6. QED
  BY <1>0, <1>2, <1>3, <1>4, <1>5

LEMMA AnswersHoldKept ==
    ASSUME OneSessionEach, TypeOK, LocksCompatible, CommitLocked, CacheOwn, HistoryInv,
           NEW c \in Session, Running(c)
    PROVE  AnswersHold'
<1>0. UNCHANGED <<method, file>>
  BY CallStays DEF callVars
<1> SUFFICES ASSUME NEW o \in Session
             PROVE  /\ Known(o)' => <<UserOf[o], file[o]>> \in View(o)'.files
                    /\ Alive(o)' => ~IsDeleted(View(o)'.versions, UserOf[o], file[o])
  BY <1>0 DEF AnswersHold
<1>1. /\ Known(o) => <<UserOf[o], file[o]>> \in View(o).files
      /\ Alive(o) => ~IsDeleted(View(o).versions, UserOf[o], file[o])
  BY DEF HistoryInv, AnswersHold
<1>2. CASE o = c
  BY <1>1, <1>2, OwnAnswers
<1>3. CASE o # c
  <2>1. at'[o] = at[o] /\ open'[o] = open[o] /\ found'[o] = found[o]
    BY <1>3, OthersStay, OthersAnswers
  <2>2. Known(o)' = Known(o) /\ Alive(o)' = Alive(o)
    BY <1>0, <2>1 DEF Known, Alive
  <2>3. /\ OwnRows(UserOf[o], View(o)') = OwnRows(UserOf[o], View(o))
        /\ OwnFiles(UserOf[o], View(o)') = OwnFiles(UserOf[o], View(o))
    BY <1>3, OthersView
  <2>4. QED
    BY <1>1, <2>2, <2>3, SameRows, SameFiles
<1>4. QED
  BY <1>2, <1>3

-----------------------------------------------------------------------------
(* The invariant holds at the start and is kept by every step.             *)

LEMMA InitHistory == Init => HistoryInv
<1> SUFFICES ASSUME Init PROVE HistoryInv
  OBVIOUS
<1>1. \A c \in Session : lock[c] = "none" /\ at[c] = "idle"
  BY DEF Init, FileInit
<1>2. db.versions = {} /\ work = db
  BY DEF Init, FileInit
<1>3. QED
  BY <1>1, <1>2 DEF HistoryInv, Sound, NoOrphan, KeysUnique, CacheOwnFiles, IdleCache,
     AnswersHold, Known, Alive, Writing

\* Steps of no method leave the file alone, and no new answer to rely on.
LEMMA QuietHistory ==
    ASSUME HistoryInv, UNCHANGED <<db, work, lock>>,
           \A c \in Session : Known(c)' \/ Alive(c)' =>
               UNCHANGED <<at[c], open[c], found[c], method[c], file[c]>>
    PROVE  HistoryInv'
<1>1. (Sound(db) /\ Sound(work) /\ CacheOwnFiles /\ IdleCache)'
  BY DEF HistoryInv, CacheOwnFiles, IdleCache
<1>2. AnswersHold'
  <2> SUFFICES ASSUME NEW c \in Session, Known(c)' \/ Alive(c)'
               PROVE  /\ Known(c)' => <<UserOf[c], file'[c]>> \in View(c)'.files
                      /\ Alive(c)' => ~IsDeleted(View(c)'.versions, UserOf[c], file'[c])
    BY DEF AnswersHold
  <2>1. /\ Known(c)' => Known(c)
        /\ Alive(c)' => Alive(c)
        /\ file'[c] = file[c] /\ View(c)' = View(c)
    BY DEF Known, Alive, View
  <2>2. QED
    BY <2>1 DEF HistoryInv, AnswersHold
<1>3. QED
  BY <1>1, <1>2 DEF HistoryInv

LEMMA NextHistory ==
    ASSUME OneSessionEach, IInv, HistoryInv, [Next]_vars
    PROVE  HistoryInv'
<1>0. TypeOK /\ LocksCompatible /\ CommitLocked /\ CacheOwn
  BY DEF IInv
<1>1. ASSUME NEW c \in Session, Running(c)
      PROVE  HistoryInv'
  <2>1. FileStep(c) /\ LocksCompatible'
    BY <1>0, <1>1, RunningIsFileStep, LocksKept
  <2>2. CacheSound' /\ AnswersHold'
    BY <1>0, <1>1, <2>1, CacheSoundKept, AnswersHoldKept
  <2>3. QED
    BY <2>2 DEF CacheSound, HistoryInv
<1>2. ASSUME NEW c \in Session, NEW m, NEW f, NEW s, Call(c, m, f, s)
      PROVE  HistoryInv'
  <2>1. /\ UNCHANGED <<db, work, lock, open>>
        /\ \A o \in Session \ {c} : UNCHANGED <<at[o], found[o], method[o], file[o]>>
    BY <1>0, <1>2 DEF Call, TypeOK, fileVars
  <2>2. at'[c] = First(m) /\ method'[c] = m /\ ~found'[c]
    BY <1>0, <1>2 DEF Call, TypeOK
  <2>3. ~Known(c)' /\ ~Alive(c)'
    BY <2>2 DEF Known, Alive, Later, First
  <2>4. QED
    BY <2>1, <2>3, QuietHistory
<1>3. ASSUME NEW c \in Session, Leave(c)
      PROVE  HistoryInv'
  <2>1. /\ UNCHANGED <<db, work, lock, open, found, method, file>>
        /\ at'[c] = "gone" /\ \A o \in Session \ {c} : at'[o] = at[o]
    BY <1>0, <1>3 DEF Leave, TypeOK, fileVars, resultVars, callVars
  <2>2. ~Known(c)' /\ ~Alive(c)'
    BY <2>1 DEF Known, Alive
  <2>3. QED
    BY <2>1, <2>2, QuietHistory
<1>4. CASE Crash
  <2>1. /\ db' = db /\ work' = db
        /\ \A c \in Session : lock'[c] = "none" /\ at'[c] = "idle"
    BY <1>4 DEF Crash, FileCrash
  <2>2. QED
    BY <2>1 DEF HistoryInv, CacheOwnFiles, IdleCache, AnswersHold, Known, Alive, Writing
<1>5. CASE Tick \/ UNCHANGED vars
  BY <1>5, QuietHistory DEF Tick, vars, fileVars, callVars, resultVars
<1>6. QED
  BY <1>1, <1>2, <1>3, <1>4, <1>5 DEF Next

THEOREM HistoryInvariance ==
    ASSUME OneSessionEach
    PROVE  Spec => []HistoryInv
<1>1. Init => HistoryInv
  BY InitHistory
<1>2. IInv /\ HistoryInv /\ [Next]_vars => HistoryInv'
  BY NextHistory
<1>3. QED
  BY <1>1, <1>2, Invariance, PTL DEF Spec

\* With one session per user existsFile's answer, taken before the mutex and the
\* locks (DatabaseHandler.cpp:562, 669, 704, 742), still holds at the INSERT: no
\* version is ever left without its file.
THEOREM NoOrphansEver ==
    ASSUME OneSessionEach
    PROVE  Spec => []NoOrphanVersions
<1>1. HistoryInv => NoOrphanVersions
  BY DEF HistoryInv, Sound, NoOrphan, NoOrphanVersions
<1>2. QED
  BY <1>1, HistoryInvariance, PTL

-----------------------------------------------------------------------------
(* The histories in tables without orphans.                                *)

\* FILES and VERSIONS name the same files.
Whole(d) == d \in Content /\ NoOrphan(d) /\ HasBlob(d)

LEMMA FileHasVersions ==
    ASSUME NEW d, Whole(d), NEW u \in User, NEW f \in File
    PROVE  <<u, f>> \in d.files <=> Versions(d, u, f) # {}
<1>1. Versions(d, u, f) # {} <=> \E r \in d.versions : r.user = u /\ r.file = f
  BY DEF Versions, RowsOf
<1>2. ASSUME <<u, f>> \in d.files
      PROVE  \E r \in d.versions : r.user = u /\ r.file = f
  <2> DEFINE p == <<u, f>>
  <2>1. WithBlob(RowsOf(d.versions, p[1], p[2])) # {}
    BY <1>2 DEF Whole, HasBlob
  <2>2. QED
    BY <2>1 DEF WithBlob, RowsOf
<1>3. ASSUME NEW r \in d.versions, r.user = u, r.file = f
      PROVE  <<u, f>> \in d.files
  BY <1>3 DEF Whole, NoOrphan
<1>4. QED
  BY <1>1, <1>2, <1>3

LEMMA HistoriesAreVersions ==
    ASSUME NEW d, Whole(d)
    PROVE  Histories(d) = [users |-> d.users,
                history |-> [u \in User |-> [f \in File |-> Versions(d, u, f)]]]
<1>1. \A u \in User, f \in File : HistoryIn(d, u, f) = Versions(d, u, f)
  BY FileHasVersions DEF HistoryIn
<1>2. QED
  BY <1>1 DEF Histories

LEMMA TablesWhole ==
    ASSUME IInv, HistoryInv
    PROVE  Whole(db) /\ Whole(work)
BY DEF IInv, TypeOK, HistoryInv, Sound, Whole

\* What the draft holds for a file of the session's user.
LEMMA DraftHistory ==
    ASSUME Whole(work), NEW c \in Session, NEW f \in File
    PROVE  History!History(c, f) = Versions(work, UserOf[c], f)
BY HistoriesAreVersions, SessionAssumption DEF History!History

LEMMA DraftRewritten ==
    ASSUME Whole(work), Whole(work'), work'.users = work.users,
           NEW c \in Session, NEW f \in File, NEW h,
           \A v \in User, g \in File : Versions(work', v, g) =
               IF v = UserOf[c] /\ g = f THEN h ELSE Versions(work, v, g)
    PROVE  History!Rewrite(c, f, h)
<1> DEFINE old == [u \in User |-> [g \in File |-> Versions(work, u, g)]]
           new == [u \in User |-> [g \in File |-> Versions(work', u, g)]]
<1>1. /\ Histories(work) = [users |-> work.users, history |-> old]
      /\ Histories(work') = [users |-> work'.users, history |-> new]
  BY HistoriesAreVersions
<1>2. UserOf[c] \in User
  BY SessionAssumption
<1>3. new = [old EXCEPT ![UserOf[c]][f] = h]
  <2>1. ASSUME NEW u \in User
        PROVE  new[u] = [old EXCEPT ![UserOf[c]][f] = h][u]
    <3>1. CASE u = UserOf[c]
      <4>1. ASSUME NEW g \in File
            PROVE  new[u][g] = [old EXCEPT ![UserOf[c]][f] = h][u][g]
        BY <1>2, <3>1
      <4>2. QED
        BY <1>2, <3>1, <4>1
    <3>2. CASE u # UserOf[c]
      BY <1>2, <3>2
    <3>3. QED
      BY <3>1, <3>2
  <2>2. QED
    BY <1>2, <2>1
<1>4. QED
  BY <1>1, <1>3 DEF History!Rewrite, History!Draft

-----------------------------------------------------------------------------
(* What the changes do to the versions of a file.                          *)

NewVersion(s, b) == [stamp |-> s, blob |-> b, checksum |-> Null]

LEMMA AddRowVersions ==
    ASSUME NEW d \in Content, NEW u, NEW f, NEW s, NEW b, NEW v, NEW g
    PROVE  Versions(AddRow(d, u, f, s, b), v, g) =
               IF v = u /\ g = f THEN Versions(d, u, f) \cup {NewVersion(s, b)}
                                 ELSE Versions(d, v, g)
<1> DEFINE row == [user |-> u, file |-> f, stamp |-> s, blob |-> b, checksum |-> Null]
           Row(r) == [stamp |-> r.stamp, blob |-> r.blob, checksum |-> r.checksum]
           e == AddRow(d, u, f, s, b)
<1>1. e.versions = d.versions \cup {row}
  BY DEF AddRow, Content
<1>2. row.user = u /\ row.file = f /\ Row(row) = NewVersion(s, b)
  BY DEF NewVersion
<1>3. \A x, y : Versions(e, x, y) = {Row(r) : r \in RowsOf(e.versions, x, y)}
                /\ Versions(d, x, y) = {Row(r) : r \in RowsOf(d.versions, x, y)}
  BY DEF Versions
<1> HIDE DEF row, Row, e
<1>4. CASE v = u /\ g = f
  <2>1. RowsOf(e.versions, v, g) = RowsOf(d.versions, u, f) \cup {row}
    BY <1>1, <1>2, <1>4 DEF RowsOf
  <2>2. {Row(r) : r \in RowsOf(d.versions, u, f) \cup {row}} =
            {Row(r) : r \in RowsOf(d.versions, u, f)} \cup {Row(row)}
    OBVIOUS
  <2>3. QED
    BY <1>2, <1>3, <1>4, <2>1, <2>2 DEF e
<1>5. CASE ~(v = u /\ g = f)
  <2>1. RowsOf(e.versions, v, g) = RowsOf(d.versions, v, g)
    BY <1>1, <1>2, <1>5 DEF RowsOf
  <2>2. QED
    BY <1>3, <1>5, <2>1 DEF e
<1>6. QED
  BY <1>4, <1>5

LEMMA DropFileVersions ==
    ASSUME NEW d \in Content, NEW u, NEW f, NEW v, NEW g
    PROVE  Versions(DropFile(d, u, f), v, g) =
               IF v = u /\ g = f THEN {} ELSE Versions(d, v, g)
<1>1. RowsOf(DropFile(d, u, f).versions, v, g) =
          IF v = u /\ g = f THEN {} ELSE RowsOf(d.versions, v, g)
  BY DEF DropFile, RowsOf, Content
<1>2. QED
  BY <1>1 DEF Versions

LEMMA SetChecksumVersions ==
    ASSUME NEW d \in Content, NEW u, NEW b, NEW k, NEW v, NEW g
    PROVE  Versions(SetChecksum(d, u, b, k), v, g) =
               IF v = u THEN History!Recorded(Versions(d, u, g), b, k) ELSE Versions(d, v, g)
<1> DEFINE Row(r) == [stamp |-> r.stamp, blob |-> r.blob, checksum |-> r.checksum]
           Mark(r) == IF r.user = u /\ r.blob = b THEN [r EXCEPT !.checksum = k] ELSE r
           Record(w) == IF w.blob = b THEN [w EXCEPT !.checksum = k] ELSE w
           e == SetChecksum(d, u, b, k)
<1>1. e.versions = {Mark(r) : r \in d.versions}
  BY DEF SetChecksum, Content
<1>2. \A r \in d.versions :
         /\ Mark(r).user = r.user /\ Mark(r).file = r.file
         /\ Row(Mark(r)) = IF r.user = u THEN Record(Row(r)) ELSE Row(r)
  BY DEF Content, Version
<1>3. \A x, y : Versions(e, x, y) = {Row(r) : r \in RowsOf(e.versions, x, y)}
                /\ Versions(d, x, y) = {Row(r) : r \in RowsOf(d.versions, x, y)}
  BY DEF Versions
<1>4. \A h : History!Recorded(h, b, k) = {Record(w) : w \in h}
  BY DEF History!Recorded
<1> HIDE DEF Row, Mark, Record, e
<1>5. RowsOf(e.versions, v, g) = {Mark(r) : r \in RowsOf(d.versions, v, g)}
  BY <1>1, <1>2 DEF RowsOf
<1>6. RowsOf(d.versions, v, g) \subseteq d.versions
      /\ \A r \in RowsOf(d.versions, v, g) : r.user = v
  BY DEF RowsOf
<1>7. Versions(e, v, g) =
          {IF v = u THEN Record(Row(r)) ELSE Row(r) : r \in RowsOf(d.versions, v, g)}
  BY <1>2, <1>3, <1>5, <1>6
<1>8. QED
  BY <1>3, <1>4, <1>7 DEF e

LEMMA AddFileVersions ==
    ASSUME NEW d \in Content, NEW u \in User, NEW f \in File, NEW v, NEW g
    PROVE  Versions(AddFile(d, u, f), v, g) = Versions(d, v, g)
BY AddFileType DEF Versions

LEMMA AddUserVersions ==
    ASSUME NEW d \in Content, NEW u, NEW v, NEW g
    PROVE  Versions(AddUser(d, u), v, g) = Versions(d, v, g)
BY DEF Versions, AddUser, Content

-----------------------------------------------------------------------------
(* The writer.                                                             *)

LEMMA WriterIs ==
    ASSUME LocksCompatible, NEW c \in Session, lock[c] \in Writing
    PROVE  Writer = c
BY DEF Writer, LocksCompatible

LEMMA NoWriter ==
    ASSUME \A c \in Session : lock[c] \notin Writing
    PROVE  Writer = Null
BY DEF Writer

\* Who may write sees the draft.
LEMMA ViewIsDraft ==
    ASSUME LocksCompatible, HistoryInv, NEW c \in Session, MayWrite(c)
    PROVE  View(c) = work /\ Writer \in {Null, c}
<1>1. CASE lock[c] \in Writing
  BY <1>1, WriterIs DEF View
<1>2. CASE lock[c] \notin Writing
  <2>1. \A o \in Session : lock[o] \notin Writing
    BY <1>2 DEF MayWrite, OthersHold
  <2>2. QED
    BY <1>2, <2>1, NoWriter DEF View, HistoryInv, IdleCache
<1>3. QED
  BY <1>1, <1>2

-----------------------------------------------------------------------------
(* Each change of the cache is a change of the draft.                      *)

\* A number that is none of the user's, and above those of each of its files.
LEMMA NextBlobUnused ==
    ASSUME Whole(work), NEW c \in Session, NEW n \in Blob,
           IsNextBlob(work.versions, UserOf[c], n)
    PROVE  History!Unused(c, n)
<1> SUFFICES ASSUME NEW f \in File, NEW v \in Versions(work, UserOf[c], f), v.blob # Null
             PROVE  v.blob < n
  BY DraftHistory DEF History!Unused
<1>1. PICK r \in work.versions : r.user = UserOf[c] /\ v.blob = r.blob
  BY DEF Versions, RowsOf
<1>2. r \in WithBlob({q \in work.versions : q.user = UserOf[c]})
  BY <1>1 DEF WithBlob
<1>3. QED
  BY <1>1, <1>2 DEF IsNextBlob

\* A row with a free key is a version of a new date.
LEMMA KeyFreeIsNew ==
    ASSUME Whole(work), NEW c \in Session, NEW f \in File, NEW s,
           KeyFree(work.versions, UserOf[c], f, s)
    PROVE  \A v \in Versions(work, UserOf[c], f) : v.stamp # s
BY DEF Versions, KeyFree

\* A file that counts as not deleted for the statement does so for the history.
LEMMA AliveIsNotDeleted ==
    ASSUME Whole(work), KeysUnique(work), NEW c \in Session, NEW f \in File,
           ~IsDeleted(work.versions, UserOf[c], f)
    PROVE  ~History!Deleted(Versions(work, UserOf[c], f))
<1> DEFINE rows == RowsOf(work.versions, UserOf[c], f)
<1>1. PICK r \in Last(rows) : r.blob # Null
  BY DEF IsDeleted, WithBlob
<1> SUFFICES ASSUME NEW v \in Versions(work, UserOf[c], f), v.blob = Null,
                    \A w \in Versions(work, UserOf[c], f) : w.stamp <= v.stamp
             PROVE  FALSE
  BY DEF History!Deleted
<1>2. PICK q \in rows : v.stamp = q.stamp /\ v.blob = q.blob
  BY DEF Versions
<1>3. r \in rows /\ q.stamp <= r.stamp
  BY <1>1, <1>2 DEF Last
<1>4. r.stamp <= q.stamp
  <2>1. [stamp |-> r.stamp, blob |-> r.blob, checksum |-> r.checksum]
            \in Versions(work, UserOf[c], f)
    BY <1>3 DEF Versions
  <2>2. QED
    BY <1>2, <2>1
<1>5. r.stamp \in Nat /\ q.stamp \in Nat
  <2>1. r \in Version /\ q \in Version
    BY <1>2, <1>3 DEF RowsOf, Whole, Content
  <2>2. Stamps \subseteq Nat
    BY TimeAssumption DEF Stamps
  <2>3. QED
    BY <2>1, <2>2 DEF Version
<1>6. q = r
  BY <1>2, <1>3, <1>4, <1>5 DEF RowsOf, KeysUnique
<1>7. QED
  BY <1>1, <1>2, <1>6

\* What every change of the cache has in common.
LEMMA EditIsChange ==
    ASSUME IInv, HistoryInv, HistoryInv', IInv', NEW c \in Session, Edit(c)
    PROVE  /\ Whole(work) /\ Whole(work') /\ View(c) = work
           /\ Writer \in {Null, c} /\ Writer' = c
           /\ UNCHANGED Histories(db)
<1>1. MayWrite(c) /\ db' = db /\ lock'[c] \in Writing
  BY EditSound DEF IInv
<1>2. Whole(work) /\ Whole(work')
  BY TablesWhole DEF IInv, TypeOK, HistoryInv, Sound, Whole
<1>3. View(c) = work /\ Writer \in {Null, c}
  BY <1>1, ViewIsDraft DEF IInv
<1>4. Writer' = c
  BY <1>1 DEF IInv, Writer, LocksCompatible
<1>5. QED
  BY <1>1, <1>2, <1>3, <1>4

LEMMA AddsVersion ==
    ASSUME Whole(work), Whole(work'), TypeOK, NEW c \in Session, NEW b,
           work'.users = work.users,
           KeyFree(work.versions, UserOf[c], file[c], Stamp[now]),
           \A v \in User, g \in File : Versions(work', v, g) =
               IF v = UserOf[c] /\ g = file[c]
               THEN Versions(work, UserOf[c], file[c]) \cup {NewVersion(Stamp[now], b)}
               ELSE Versions(work, v, g)
    PROVE  History!AddTo(c, file[c], Stamp[now], b)
<1>1. file[c] \in File
  BY DEF TypeOK
<1>2. History!History(c, file[c]) = Versions(work, UserOf[c], file[c])
  BY <1>1, DraftHistory
<1>3. \A v \in History!History(c, file[c]) : v.stamp # Stamp[now]
  BY <1>1, <1>2, KeyFreeIsNew
<1>4. History!Rewrite(c, file[c],
          Versions(work, UserOf[c], file[c]) \cup {NewVersion(Stamp[now], b)})
  BY <1>1, DraftRewritten
<1>5. QED
  BY <1>2, <1>3, <1>4 DEF History!AddTo, NewVersion

LEMMA CreateIsStore ==
    ASSUME IInv, HistoryInv, HistoryInv', IInv', NEW c \in Session, CreateEdit(c)
    PROVE  \E b \in Blob : History!StoreFile(c, file[c], Stamp[now], b)
<1> DEFINE u == UserOf[c]
           f == file[c]
           d == AddFile(work, u, f)
<1>0. TypeOK /\ Whole(work) /\ Whole(work') /\ View(c) = work
  BY EditIsChange DEF Edit, IInv
<1>1. u \in User /\ f \in File /\ work \in Content
  BY <1>0, ArgumentTypes DEF Whole
<1>2. d \in Content /\ d.versions = work.versions /\ d.users = work.users
  BY <1>1, AddFileType DEF AddFile, Content
<1>3. PICK n \in Blob : /\ IsNextBlob(work.versions, u, n)
                        /\ work' = AddRow(d, u, f, Stamp[now], n)
  BY <1>0, <1>2 DEF CreateEdit, Reserve
<1>4. /\ <<u, f>> \notin work.files
      /\ KeyFree(work.versions, u, f, Stamp[now])
  BY <1>0, <1>2 DEF CreateEdit
<1>5. History!History(c, f) = {}
  BY <1>0, <1>1, <1>4, DraftHistory, FileHasVersions
<1>6. work'.users = work.users
  BY <1>2, <1>3 DEF AddRow, Content
<1>7. \A v \in User, g \in File : Versions(work', v, g) =
          IF v = u /\ g = f THEN Versions(work, u, f) \cup {NewVersion(Stamp[now], n)}
                            ELSE Versions(work, v, g)
  <2>1. \A v, g : Versions(d, v, g) = Versions(work, v, g)
    BY <1>1, AddFileVersions
  <2> HIDE DEF d
  <2>2. \A v, g : Versions(work', v, g) =
            IF v = u /\ g = f THEN Versions(d, u, f) \cup {NewVersion(Stamp[now], n)}
                              ELSE Versions(d, v, g)
    BY <1>2, <1>3, AddRowVersions
  <2>3. QED
    BY <2>1, <2>2
<1>8. History!AddTo(c, f, Stamp[now], n)
  BY <1>0, <1>4, <1>6, <1>7, AddsVersion
<1>9. History!Unused(c, n)
  BY <1>0, <1>3, NextBlobUnused
<1>10. QED
  BY <1>5, <1>8, <1>9 DEF History!StoreFile

LEMMA RowIsVersion ==
    ASSUME IInv, HistoryInv, HistoryInv', IInv', NEW c \in Session, RowEdit(c)
    PROVE  \/ \E b \in Blob : \/ History!StoreVersion(c, file[c], Stamp[now], b)
                              \/ History!RestoreVersion(c, file[c], Stamp[now], b)
           \/ History!DeleteFile(c, file[c], Stamp[now])
<1> DEFINE u == UserOf[c]
           f == file[c]
<1>0. TypeOK /\ Whole(work) /\ Whole(work') /\ View(c) = work /\ KeysUnique(work)
  BY EditIsChange DEF Edit, IInv, HistoryInv, Sound
<1>1. u \in User /\ f \in File /\ work \in Content
  BY <1>0, ArgumentTypes DEF Whole
<1>2. PICK b \in Blob \cup {Null}, txn \in BOOLEAN :
         RowOf(c, b, txn) /\ work' = AddRow(work, u, f, Stamp[now], b)
  BY <1>0 DEF RowEdit, Reserve
<1>3. Known(c) /\ (method[c] = "deleteFile" => Alive(c))
  BY <1>2 DEF RowOf, AtBody, Known, Alive, Later
<1>4. /\ <<u, f>> \in work.files
      /\ method[c] = "deleteFile" => ~IsDeleted(work.versions, u, f)
  BY <1>0, <1>3 DEF HistoryInv, AnswersHold
<1>5. History!History(c, f) = Versions(work, u, f) /\ Versions(work, u, f) # {}
  BY <1>0, <1>1, <1>4, DraftHistory, FileHasVersions
<1>6. History!AddTo(c, f, Stamp[now], b)
  <2>1. KeyFree(work.versions, u, f, Stamp[now])
    BY <1>0 DEF RowEdit
  <2>2. work'.users = work.users
    BY <1>1, <1>2 DEF AddRow, Content
  <2>3. \A v \in User, g \in File : Versions(work', v, g) =
            IF v = u /\ g = f THEN Versions(work, u, f) \cup {NewVersion(Stamp[now], b)}
                              ELSE Versions(work, v, g)
    BY <1>1, <1>2, AddRowVersions
  <2>4. QED
    BY <1>0, <2>1, <2>2, <2>3, AddsVersion
<1>7. CASE AtBody(c, "createNewBlobForFile")
  <2>1. b \in Blob /\ IsNextBlob(work.versions, u, b)
    BY <1>0, <1>2, <1>7 DEF RowOf, AtBody
  <2>2. History!Unused(c, b)
    BY <1>0, <2>1, NextBlobUnused
  <2>3. QED
    BY <1>5, <1>6, <2>1, <2>2 DEF History!StoreVersion
<1>8. CASE AtBody(c, "deleteFile")
  <2>1. b = Null
    BY <1>2, <1>8 DEF RowOf, AtBody
  <2>2. ~History!Deleted(Versions(work, u, f))
    BY <1>0, <1>1, <1>4, <1>8, AliveIsNotDeleted DEF AtBody
  <2>3. QED
    BY <1>5, <1>6, <2>1, <2>2 DEF History!DeleteFile
<1>9. CASE AtBody(c, "addVersion")
  <2>1. b \in Blob
    <3>1. b = got[c] /\ got[c] # Null
      BY <1>2, <1>9 DEF RowOf, AtBody, IInv, RestoresNumber
    <3>2. QED
      BY <3>1
  <2>2. QED
    BY <1>5, <1>6, <2>1 DEF History!RestoreVersion
<1>10. QED
  BY <1>2, <1>7, <1>8, <1>9 DEF RowOf

LEMMA RemoveIsRemove ==
    ASSUME IInv, HistoryInv, HistoryInv', IInv', NEW c \in Session, RemoveEdit(c)
    PROVE  History!RemoveFile(c, file[c])
<1> DEFINE u == UserOf[c]
           f == file[c]
<1>0. TypeOK /\ Whole(work) /\ Whole(work') /\ View(c) = work
  BY EditIsChange DEF Edit, IInv
<1>1. u \in User /\ f \in File /\ work \in Content
  BY <1>0, ArgumentTypes DEF Whole
<1>2. work' = DropFile(work, u, f) /\ Known(c)
  BY <1>0 DEF RemoveEdit, Reserve, AtBody, Known, Later
<1>3. <<u, f>> \in work.files
  BY <1>0, <1>2 DEF HistoryInv, AnswersHold
<1>4. History!History(c, f) # {}
  BY <1>0, <1>1, <1>3, DraftHistory, FileHasVersions
<1>5. work'.users = work.users
  BY <1>1, <1>2 DEF DropFile, Content
<1>6. \A v \in User, g \in File : Versions(work', v, g) =
          IF v = u /\ g = f THEN {} ELSE Versions(work, v, g)
  BY <1>1, <1>2, DropFileVersions
<1>7. History!Rewrite(c, f, {})
  BY <1>0, <1>1, <1>5, <1>6, DraftRewritten
<1>8. QED
  BY <1>4, <1>7 DEF History!RemoveFile

LEMMA ChecksumIsRecord ==
    ASSUME IInv, HistoryInv, HistoryInv', IInv', NEW c \in Session, ChecksumEdit(c)
    PROVE  History!RecordChecksum(c, got[c], sum[c])
<1> DEFINE u == UserOf[c]
           old == [v \in User |-> [f \in File |-> Versions(work, v, f)]]
           new == [v \in User |-> [f \in File |-> Versions(work', v, f)]]
           mine == [f \in File |-> History!Recorded(History!History(c, f), got[c], sum[c])]
<1>0. TypeOK /\ Whole(work) /\ Whole(work') /\ View(c) = work
  BY EditIsChange DEF Edit, IInv
<1>1. u \in User /\ work \in Content
  BY <1>0, ArgumentTypes DEF Whole
<1>2. work' = SetChecksum(work, u, got[c], sum[c])
  BY <1>0 DEF ChecksumEdit, Reserve
<1>3. work'.users = work.users
  BY <1>1, <1>2, ChecksumRows
<1>4. \A f \in File : History!History(c, f) = Versions(work, u, f)
  BY <1>0, DraftHistory
<1>5. \A v \in User, f \in File : Versions(work', v, f) =
          IF v = u THEN History!Recorded(Versions(work, u, f), got[c], sum[c])
                   ELSE Versions(work, v, f)
  BY <1>1, <1>2, SetChecksumVersions
<1>6. new = [old EXCEPT ![u] = mine]
  BY <1>1, <1>4, <1>5
<1>7. /\ Histories(work) = [users |-> work.users, history |-> old]
      /\ Histories(work') = [users |-> work'.users, history |-> new]
  BY <1>0, HistoriesAreVersions
<1> HIDE DEF old, new, mine
<1>8. /\ Histories(work).users = work.users
      /\ [Histories(work).history EXCEPT ![u] = mine] = new
  BY <1>6, <1>7
<1>9. History!Draft(Histories(work).users, [Histories(work).history EXCEPT ![u] = mine])
  BY <1>3, <1>7, <1>8 DEF History!Draft
<1>10. QED
  BY <1>9 DEF History!RecordChecksum, mine

LEMMA UserIsRegister ==
    ASSUME IInv, HistoryInv, HistoryInv', IInv', NEW c \in Session, UserEdit(c)
    PROVE  History!Register(c)
<1>0. TypeOK /\ Whole(work) /\ Whole(work') /\ View(c) = work /\ work \in Content
  BY EditIsChange DEF Edit, IInv, Whole
<1>1. /\ work' = AddUser(work, UserOf[c]) /\ UserOf[c] \notin work.users
      /\ work'.users = work.users \cup {UserOf[c]}
  BY <1>0 DEF UserEdit, Reserve, AddUser, Content
<1>2. \A v, f : Versions(work', v, f) = Versions(work, v, f)
  BY <1>0, <1>1, AddUserVersions
<1> DEFINE old == [v \in User |-> [f \in File |-> Versions(work, v, f)]]
           new == [v \in User |-> [f \in File |-> Versions(work', v, f)]]
<1>3. new = old
  BY <1>2
<1>4. /\ Histories(work) = [users |-> work.users, history |-> old]
      /\ Histories(work') = [users |-> work'.users, history |-> new]
  BY <1>0, HistoriesAreVersions
<1> HIDE DEF old, new
<1>5. /\ Histories(work).users = work.users
      /\ Histories(work') = [users |-> Histories(work).users \cup {UserOf[c]},
                             history |-> Histories(work).history]
  BY <1>1, <1>3, <1>4
<1>6. QED
  BY <1>1, <1>5 DEF History!Register, History!Draft

LEMMA EditChanges ==
    ASSUME IInv, HistoryInv, HistoryInv', IInv', NEW c \in Session, Edit(c)
    PROVE  History!Change(c)
<1>1. Writer \in {Null, c} /\ Writer' = c /\ UNCHANGED Histories(db) /\ View(c) = work
  BY EditIsChange
<1>2. /\ file[c] \in File /\ Stamp[now] \in Stamps
      /\ got[c] \in Blob \cup {Null} /\ sum[c] \in Checksum \cup {Null}
  BY ArgumentTypes DEF IInv
<1>3. CASE NoEdit(c)
  <2>1. work' = work
    BY <1>1, <1>3 DEF NoEdit, Reserve
  <2>2. QED
    BY <1>1, <2>1 DEF History!Change
<1>4. CASE CreateEdit(c)
  BY <1>1, <1>2, <1>4, CreateIsStore DEF History!Change
<1>5. CASE RowEdit(c)
  BY <1>1, <1>2, <1>5, RowIsVersion DEF History!Change
<1>6. CASE RemoveEdit(c)
  BY <1>1, <1>2, <1>6, RemoveIsRemove DEF History!Change
<1>7. CASE ChecksumEdit(c)
  BY <1>1, <1>2, <1>7, ChecksumIsRecord DEF History!Change
<1>8. CASE UserEdit(c)
  BY <1>1, <1>8, UserIsRegister DEF History!Change
<1>9. QED
  BY <1>3, <1>4, <1>5, <1>6, <1>7, <1>8 DEF Edit

-----------------------------------------------------------------------------
(* The other steps.                                                        *)

LEMMA KeepsIsStutter ==
    ASSUME LocksCompatible, LocksCompatible', KeepsCache
    PROVE  UNCHANGED History!vars
<1>1. Writer' = Writer
  <2>1. CASE \E c \in Session : lock[c] \in Writing
    <3>1. PICK c \in Session : lock[c] \in Writing
      BY <2>1
    <3>2. Writer = c
      BY <3>1, WriterIs
    <3>3. lock'[c] \in Writing
      BY <3>1 DEF KeepsCache
    <3>4. Writer' = c
      BY <3>3 DEF Writer, LocksCompatible
    <3>5. QED
      BY <3>2, <3>4
  <2>2. CASE \A c \in Session : lock[c] \notin Writing
    BY <2>2 DEF KeepsCache, Writer
  <2>3. QED
    BY <2>1, <2>2
<1>2. QED
  BY <1>1 DEF KeepsCache, History!vars

LEMMA DropsIsDiscard ==
    ASSUME DropsCache
    PROVE  History!Discard
<1>1. Writer' = Null
  BY DEF DropsCache, Writer
<1>2. QED
  BY <1>1 DEF DropsCache, History!Discard

LEMMA WriteIsPublish ==
    ASSUME TypeOK, LocksCompatible, NEW c \in Session, WriteFile(c)
    PROVE  History!Publish(c)
<1>1. Writer = c
  BY WriterIs DEF WriteFile, Writing
<1>2. \A o \in Session : lock'[o] \notin Writing
  BY DEF WriteFile, LocksCompatible, TypeOK, Writing
<1>3. Writer' = Null
  BY <1>2 DEF Writer
<1>4. QED
  BY <1>1, <1>3 DEF WriteFile, History!Publish

LEMMA StepSimulates ==
    ASSUME IInv, IInv', HistoryInv, HistoryInv', [Next]_vars
    PROVE  [History!Next]_(History!vars)
<1> USE DEF IInv
<1>1. ASSUME NEW c \in Session, Running(c)
      PROVE  History!Next \/ UNCHANGED History!vars
  <2>1. Edit(c) \/ KeepsCache \/ DropsCache \/ WriteFile(c)
    BY <1>1, RunningIsFileStep, FileStepKinds
  <2>2. QED
    BY <2>1, EditChanges, KeepsIsStutter, DropsIsDiscard, WriteIsPublish DEF History!Next
<1>2. ASSUME UNCHANGED fileVars
      PROVE  UNCHANGED History!vars
  BY <1>2, KeepsIsStutter DEF KeepsCache, fileVars
<1>3. ASSUME NEW c \in Session, Leave(c) \/ \E m, f, s : Call(c, m, f, s)
      PROVE  UNCHANGED History!vars
  BY <1>2, <1>3 DEF Leave, Call
<1>4. CASE Crash
  <2>1. DropsCache
    BY <1>4 DEF Crash, FileCrash, DropsCache, Writing
  <2>2. QED
    BY <2>1, DropsIsDiscard DEF History!Next
<1>5. CASE Tick \/ UNCHANGED vars
  BY <1>2, <1>5 DEF Tick, vars, fileVars
<1>6. QED
  BY <1>1, <1>3, <1>4, <1>5 DEF Next

LEMMA StartSimulates == Init => History!Init
<1> SUFFICES ASSUME Init PROVE History!Init
  OBVIOUS
<1>1. /\ db = [users |-> Registered, files |-> {}, versions |-> {}] /\ work = db
      /\ \A c \in Session : lock[c] \notin Writing
  BY DEF Init, FileInit, Writing
<1>2. \A u \in User, f \in File : HistoryIn(db, u, f) = {}
  BY <1>1 DEF HistoryIn, Versions, RowsOf
<1>3. Histories(db) = [users |-> Registered, history |-> History!Empty]
  BY <1>1, <1>2 DEF Histories, History!Empty
<1>4. Writer = Null /\ Registered \in SUBSET User
  BY <1>1, NoWriter, UsersAssumption
<1>5. QED
  BY <1>1, <1>3, <1>4 DEF History!Init

\* The checks a method makes outside its transaction, the COMMIT results that
\* createNewBlobForFile and removeFile ignore (DatabaseHandler.cpp:658, 826) and
\* the statements that get SQLITE_BUSY are not seen when each user has one session:
\* only whole methods of one session are published, each allowed by the history.
THEOREM HistoryImplemented ==
    ASSUME OneSessionEach
    PROVE  Spec => ImplementsHistory
<1>1. Init => History!Init
  BY StartSimulates
<1>2. IInv /\ IInv' /\ HistoryInv /\ HistoryInv' /\ [Next]_vars => [History!Next]_(History!vars)
  BY StepSimulates
<1>3. QED
  BY <1>1, <1>2, Invariance, HistoryInvariance, PTL
  DEF Spec, ImplementsHistory, History!Spec

=============================================================================
