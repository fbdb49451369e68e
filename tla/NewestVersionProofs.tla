------------------------ MODULE NewestVersionProofs ------------------------
(***************************************************************************)
(* When the texts of dates order as the times do, the last change of a     *)
(* file decides whether it is deleted, for any number of devices of any    *)
(* number of users.  The turn of a month's ninth to its tenth day is where *)
(* the assumption fails (run date_text).                                   *)
(***************************************************************************)
EXTENDS DatabaseHandlerProofs

\* What the ranks of getTimestamp()'s texts must be for MAX to find the newest.
StampsIncrease == \A s, t \in Time : s < t => Stamp[s] < Stamp[t]

-----------------------------------------------------------------------------
(* The inductive invariant, beside IInv.                                   *)

\* No version has a date that is still to come.
Past(d) == \A r \in d.versions : \E t \in 1 .. now : r.stamp = Stamp[t]

Adding == {"createFileForUser", "createNewBlobForFile", "addVersion"}

\* What session c is about to commit says of its file what its method means.
Decided(c) ==
    /\ method[c] = "deleteFile" => IsDeleted(work.versions, UserOf[c], file[c])
    /\ method[c] \in Adding => ~IsDeleted(work.versions, UserOf[c], file[c])

CommitDecides == \A c \in Session : at[c] \in {"commit", "write"} => Decided(c)

NewestInv ==
    /\ Past(db) /\ Past(work)
    /\ CommitDecides

-----------------------------------------------------------------------------
(* The row that is added last is the only last one.                        *)

LEMMA PastRanks ==
    ASSUME StampsIncrease, TypeOK, NEW d \in Content, Past(d), NEW r \in d.versions,
           r.stamp # Stamp[now]
    PROVE  r.stamp \in Nat /\ Stamp[now] \in Nat /\ r.stamp < Stamp[now]
<1>1. PICK t \in 1 .. now : r.stamp = Stamp[t]
  BY DEF Past
<1>2. now \in Time /\ t \in Time /\ MaxTime \in Nat
  BY TimeAssumption DEF TypeOK, Time
<1>3. t < now
  BY <1>1, <1>2 DEF Time
<1>4. QED
  BY <1>1, <1>2, <1>3, TimeAssumption DEF StampsIncrease

LEMMA NewRowIsLast ==
    ASSUME StampsIncrease, TypeOK, NEW d \in Content, Past(d),
           NEW u \in User, NEW f \in File, NEW b \in Blob \cup {Null},
           KeyFree(d.versions, u, f, Stamp[now])
    PROVE  \E r \in AddRow(d, u, f, Stamp[now], b).versions :
              /\ Last(RowsOf(AddRow(d, u, f, Stamp[now], b).versions, u, f)) = {r}
              /\ r.blob = b
<1> DEFINE new == [user |-> u, file |-> f, stamp |-> Stamp[now], blob |-> b, checksum |-> Null]
           rows == RowsOf(AddRow(d, u, f, Stamp[now], b).versions, u, f)
<1>1. /\ rows = RowsOf(d.versions, u, f) \cup {new}
      /\ new \in AddRow(d, u, f, Stamp[now], b).versions
  BY DEF AddRow, RowsOf, Content
<1>2. \A r \in RowsOf(d.versions, u, f) :
         r.stamp \in Nat /\ Stamp[now] \in Nat /\ r.stamp < Stamp[now]
  BY PastRanks DEF KeyFree, RowsOf
<1>3. Stamp[now] \in Nat
  BY TimeAssumption DEF TypeOK
<1>4. new.stamp = Stamp[now] /\ new.blob = b /\ Stamp[now] <= Stamp[now]
  BY <1>3
<1> HIDE DEF new
<1>5. Last(rows) = {new}
  <2> HIDE DEF rows
  <2>1. ASSUME NEW r \in rows
        PROVE  r.stamp <= Stamp[now] /\ (Stamp[now] <= r.stamp => r = new)
    BY <1>1, <1>2, <1>4, <2>1
  <2>2. QED
    BY <1>1, <1>4, <2>1 DEF Last
<1>6. QED
  BY <1>1, <1>4, <1>5

LEMMA NewRowDecides ==
    ASSUME StampsIncrease, TypeOK, NEW d \in Content, Past(d),
           NEW u \in User, NEW f \in File, NEW b \in Blob \cup {Null},
           KeyFree(d.versions, u, f, Stamp[now])
    PROVE  IsDeleted(AddRow(d, u, f, Stamp[now], b).versions, u, f) <=> b = Null
<1> DEFINE rows == RowsOf(AddRow(d, u, f, Stamp[now], b).versions, u, f)
<1>1. PICK r : Last(rows) = {r} /\ r.blob = b
  BY NewRowIsLast
<1>2. QED
  BY <1>1 DEF IsDeleted, WithBlob

-----------------------------------------------------------------------------
(* No version of the future.                                               *)

LEMMA PastKept ==
    ASSUME TypeOK, Past(db), Past(work), NEW c \in Session, FileStep(c), now' = now
    PROVE  Past(db)' /\ Past(work)'
<1>0. Past(View(c)) /\ View(c) \in Content /\ \E t \in 1 .. now : Stamp[now] = Stamp[t]
  BY ArgumentTypes DEF View, TypeOK, Time
<1>1. CASE \/ UNCHANGED fileVars \/ StartRead(c) \/ EndRead(c) \/ BeginRead(c)
           \/ LeaveActive(c) \/ Committing(c)
  BY <1>1 DEF fileVars, StartRead, EndRead, BeginRead, LeaveActive, Committing, TakeExclusive,
              CommitNothing, BlockedCommit, Past
<1>2. CASE Rollback(c) \/ WriteFile(c)
  BY <1>2 DEF Rollback, WriteFile, Past
<1>3. ASSUME NEW d, NEW txn, Reserve(c, d, txn), Past(d)
      PROVE  Past(db)' /\ Past(work)'
  BY <1>3 DEF Reserve, Past
<1>4. ASSUME NEW d \in Content, d.versions = View(c).versions, NEW b
      PROVE  Past(AddRow(d, UserOf[c], file[c], Stamp[now], b))
  BY <1>0, <1>4 DEF Past, AddRow, Content
<1>5. CASE CreateEdit(c)
  <2>1. /\ AddFile(View(c), UserOf[c], file[c]) \in Content
        /\ AddFile(View(c), UserOf[c], file[c]).versions = View(c).versions
    BY ArgumentTypes, AddFileType
  <2>2. QED
    BY <1>3, <1>4, <1>5, <2>1 DEF CreateEdit
<1>6. CASE RowEdit(c)
  BY <1>0, <1>3, <1>4, <1>6 DEF RowEdit
<1>7. CASE RemoveEdit(c)
  <2>1. Past(DropFile(View(c), UserOf[c], file[c]))
    BY <1>0 DEF Past, DropFile, Content
  <2>2. QED
    BY <1>3, <1>7, <2>1 DEF RemoveEdit
<1>8. CASE ChecksumEdit(c)
  <2> DEFINE d == View(c)
             Mark(r) == IF r.user = UserOf[c] /\ r.blob = got[c]
                        THEN [r EXCEPT !.checksum = sum[c]] ELSE r
             e == SetChecksum(d, UserOf[c], got[c], sum[c])
  <2>1. e.versions = {Mark(r) : r \in d.versions}
    BY <1>0 DEF SetChecksum, Content
  <2>2. \A r \in d.versions : Mark(r).stamp = r.stamp
    BY <1>0 DEF Content, Version
  <2>3. Past(d)
    BY <1>0
  <2> HIDE DEF d, e, Mark
  <2>4. Past(e)
    <3>1. ASSUME NEW q \in e.versions
          PROVE  \E t \in 1 .. now : q.stamp = Stamp[t]
      <4>1. PICK r \in d.versions : q = Mark(r)
        BY <2>1
      <4>2. q.stamp = r.stamp
        BY <2>2, <4>1
      <4>3. QED
        BY <2>3, <4>2 DEF Past
    <3>2. QED
      BY <3>1 DEF Past
  <2>5. QED
    BY <1>3, <1>8, <2>4 DEF ChecksumEdit, d, e
<1>9. CASE UserEdit(c) \/ NoEdit(c)
  <2>1. Past(AddUser(View(c), UserOf[c]))
    BY <1>0 DEF Past, AddUser, Content
  <2>2. QED
    BY <1>0, <1>3, <1>9, <2>1 DEF UserEdit, NoEdit
<1>10. QED
  BY FileStep(c), <1>1, <1>2, <1>5, <1>6, <1>7, <1>8, <1>9 DEF FileStep

-----------------------------------------------------------------------------
(* What is about to be committed decides.                                  *)

\* A method that adds a row arrives at COMMIT with that row.
LEMMA ArrivesWithRow ==
    ASSUME TypeOK, RestoresNumber, NEW c \in Session, Running(c), at'[c] = "commit",
           at[c] # "commit", method[c] \in Adding \cup {"deleteFile"}
    PROVE  /\ KeyFree(View(c).versions, UserOf[c], file[c], Stamp[now])
           /\ \E d \in {View(c), AddFile(View(c), UserOf[c], file[c])}, b \in Blob \cup {Null} :
                 /\ work' = AddRow(d, UserOf[c], file[c], Stamp[now], b)
                 /\ b = Null <=> method[c] = "deleteFile"
<1> DEFINE free == KeyFree(View(c).versions, UserOf[c], file[c], Stamp[now])
           New(b) == AddRow(View(c), UserOf[c], file[c], Stamp[now], b)
<1>0. /\ ToCommit(c) /\ got[c] \in Blob \cup {Null} /\ Null \notin Blob
      /\ free \in BOOLEAN
  BY ComesToCommit, BlobAssumption DEF TypeOK, Blob, KeyFree
<1>1. CASE CreateFileForUser(c) \/ CreateNewBlobForFile(c)
  BY <1>0, <1>1 DEF ToCommit, RemoveFile, DeleteFile, AddVersion, AddChecksum, RegisterUser,
     CreateFileForUser, CreateNewBlobForFile, AtBody, Reserve
<1>2. \A s : GoTo(c, s) => s \notin Answers
  BY DEF GoTo, TypeOK, Answers
<1>3. ASSUME NEW b, AddRowNow(c, b)
      PROVE  free /\ work' = New(b)
  BY <1>2, <1>3 DEF AddRowNow, Autocommit, AutocommitBusy, Answers, Reserve
<1>4. CASE DeleteFile(c)
  <2>1. free /\ work' = New(Null) /\ method[c] = "deleteFile"
    BY <1>3, <1>4 DEF DeleteFile, AtBody
  <2>2. QED
    BY <2>1
<1>5. CASE AddVersion(c)
  <2>1. free /\ work' = New(got[c]) /\ method[c] = "addVersion"
    BY <1>3, <1>5 DEF AddVersion, AtBody
  <2>2. got[c] # Null
    BY <1>5, <2>1 DEF RestoresNumber, AddVersion, AtBody
  <2>3. QED
    BY <1>0, <2>1, <2>2
<1>6. CASE RemoveFile(c) \/ AddChecksum(c) \/ RegisterUser(c)
  BY <1>6 DEF RemoveFile, AddChecksum, RegisterUser, AtBody, Adding
<1>7. QED
  BY <1>0, <1>1, <1>4, <1>5, <1>6 DEF ToCommit

LEMMA CommitDecidesKept ==
    ASSUME StampsIncrease, TypeOK, LocksCompatible, CommitLocked, Past(db), Past(work),
           RestoresNumber, CommitDecides, NEW c \in Session, Running(c)
    PROVE  CommitDecides'
<1> SUFFICES ASSUME NEW o \in Session, at'[o] \in {"commit", "write"}
             PROVE  Decided(o)'
  BY DEF CommitDecides
<1>0. UNCHANGED <<now, method, file>> /\ FileStep(c)
  BY CallStays, RunningIsFileStep DEF callVars
<1>1. CASE o # c
  <2>1. at[o] \in {"commit", "write"} /\ work' = work
    BY <1>0, <1>1, OthersStay, WriterOwnsCache DEF CommitLocked
  <2>2. QED
    BY <1>0, <2>1 DEF CommitDecides, Decided
<1>2. CASE o = c /\ at[c] = "commit"
  <2>1. TakeExclusive(c) \/ BlockedCommit(c)
    BY <1>2, ComesToCommit DEF ToCommit, CreateFileForUser, CreateNewBlobForFile, RemoveFile,
       DeleteFile, AddVersion, AddChecksum, RegisterUser, AtBody
  <2>2. work' = work
    BY <2>1 DEF TakeExclusive, BlockedCommit
  <2>3. QED
    BY <1>0, <1>2, <2>2 DEF CommitDecides, Decided
<1>3. CASE o = c /\ at[c] # "commit"
  <2> SUFFICES ASSUME method[c] \in Adding \cup {"deleteFile"}
               PROVE  Decided(c)'
    BY <1>0, <1>3 DEF Decided, Adding
  <2>1. at'[c] = "commit"
    BY <1>3, ComesToCommit DEF ToCommit
  <2>2. PICK d \in {View(c), AddFile(View(c), UserOf[c], file[c])}, b \in Blob \cup {Null} :
            /\ work' = AddRow(d, UserOf[c], file[c], Stamp[now], b)
            /\ b = Null <=> method[c] = "deleteFile"
    BY <1>3, <2>1, ArrivesWithRow
  <2>3. d \in Content /\ d.versions = View(c).versions
    <3>1. /\ AddFile(View(c), UserOf[c], file[c]) \in Content
          /\ AddFile(View(c), UserOf[c], file[c]).versions = View(c).versions
      BY ArgumentTypes, AddFileType
    <3>2. QED
      BY <3>1, ArgumentTypes
  <2>4. Past(d) /\ KeyFree(d.versions, UserOf[c], file[c], Stamp[now])
    BY <1>3, <2>1, <2>3, ArrivesWithRow DEF View, Past
  <2>5. IsDeleted(work'.versions, UserOf[c], file[c]) <=> b = Null
    BY <2>2, <2>3, <2>4, ArgumentTypes, NewRowDecides
  <2>6. QED
    BY <1>0, <2>2, <2>5 DEF Decided, Adding
<1>4. QED
  BY <1>1, <1>2, <1>3

-----------------------------------------------------------------------------
(* The invariant, and the theorem.                                         *)

LEMMA InitNewest == Init => NewestInv
<1> SUFFICES ASSUME Init PROVE NewestInv
  OBVIOUS
<1>1. \A c \in Session : at[c] = "idle"
  BY DEF Init
<1>2. db.versions = {} /\ work.versions = {}
  BY DEF Init, FileInit
<1>3. QED
  BY <1>1, <1>2 DEF NewestInv, Past, CommitDecides

\* A step of no method that does not go back in time.
LEMMA QuietNewest ==
    ASSUME TypeOK, NewestInv, UNCHANGED <<db, work>>, now' \in {now, now + 1},
           \A c \in Session : at'[c] \in {"commit", "write"} =>
               at'[c] = at[c] /\ method'[c] = method[c] /\ file'[c] = file[c]
    PROVE  NewestInv'
<1>1. 1 .. now \subseteq 1 .. now'
  BY TimeAssumption DEF TypeOK, Time
<1>2. Past(db)' /\ Past(work)'
  BY <1>1 DEF NewestInv, Past
<1>3. CommitDecides'
  BY DEF NewestInv, CommitDecides, Decided
<1>4. QED
  BY <1>2, <1>3 DEF NewestInv

LEMMA NextNewest ==
    ASSUME StampsIncrease, IInv, NewestInv, [Next]_vars
    PROVE  NewestInv'
<1>0. TypeOK /\ LocksCompatible /\ CommitLocked /\ RestoresNumber
  BY DEF IInv
<1>1. ASSUME NEW c \in Session, Running(c)
      PROVE  NewestInv'
  <2>1. FileStep(c) /\ now' = now
    BY <1>0, <1>1, RunningIsFileStep, CallStays
  <2>2. Past(db)' /\ Past(work)'
    BY <1>0, <2>1, PastKept DEF NewestInv
  <2>3. CommitDecides'
    BY <1>0, <1>1, CommitDecidesKept DEF NewestInv
  <2>4. QED
    BY <2>2, <2>3 DEF NewestInv
<1>2. ASSUME NEW c \in Session, NEW m, NEW f, NEW s, Call(c, m, f, s)
      PROVE  NewestInv'
  <2>1. First(m) \notin {"commit", "write"}
    BY DEF First
  <2>2. \A o \in Session : at'[o] \in {"commit", "write"} =>
           at'[o] = at[o] /\ method'[o] = method[o] /\ file'[o] = file[o]
    BY <1>0, <1>2, <2>1 DEF Call, TypeOK
  <2>3. UNCHANGED <<db, work, now>>
    BY <1>2 DEF Call, fileVars
  <2>4. QED
    BY <1>0, <2>2, <2>3, QuietNewest
<1>3. ASSUME NEW c \in Session, Leave(c)
      PROVE  NewestInv'
  BY <1>0, <1>3, QuietNewest DEF Leave, TypeOK, fileVars, callVars, resultVars
<1>4. CASE Crash
  BY <1>4 DEF Crash, FileCrash, NewestInv, Past, CommitDecides
<1>5. CASE Tick \/ UNCHANGED vars
  BY <1>0, <1>5, QuietNewest DEF Tick, vars, fileVars, callVars, resultVars
<1>6. QED
  BY <1>1, <1>2, <1>3, <1>4, <1>5 DEF Next

\* A write of the file makes its method's file deleted, or present, as it means to.
LEMMA WriteDecides ==
    ASSUME NewestInv, NEW c \in Session, Write(c)
    PROVE  /\ method[c] = "deleteFile" => IsDeleted(db'.versions, UserOf[c], file[c])
           /\ method[c] \in Adding => ~IsDeleted(db'.versions, UserOf[c], file[c])
BY DEF NewestInv, CommitDecides, Decided, Write, WriteFile

\* Where later dates have greater texts, isDeleted and the listings, which look at
\* MAX(lastModified) only (DatabaseHandler.cpp:305, 945, 1058), follow the last
\* committed deleteFile, upload or restore, whatever number of devices write.
THEOREM NewestAlwaysDecides ==
    ASSUME StampsIncrease
    PROVE  Spec => NewestDecides
<1>1. Init => NewestInv
  BY InitNewest
<1>2. IInv /\ NewestInv /\ [Next]_vars => NewestInv'
  BY NextNewest
<1>3. NewestInv /\ [Next]_vars =>
          [\A c \in Session : Write(c) =>
              /\ method[c] = "deleteFile" => IsDeleted(db'.versions, UserOf[c], file[c])
              /\ method[c] \in {"createFileForUser", "createNewBlobForFile", "addVersion"} =>
                    ~IsDeleted(db'.versions, UserOf[c], file[c])]_vars
  BY WriteDecides DEF Adding
<1>4. QED
  BY <1>1, <1>2, <1>3, Invariance, PTL DEF Spec, NewestDecides

=============================================================================
