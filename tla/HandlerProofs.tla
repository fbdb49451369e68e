----------------------------- MODULE HandlerProofs -----------------------------
(***************************************************************************)
(* The operations of ConnectionHandler use DatabaseHandler as its module   *)
(* allows, so that what is proved of every caller holds of this one; and   *)
(* they pass on only numbers and digests they have.                        *)
(***************************************************************************)
EXTENDS ConnectionHandler, DatabaseHandlerProofs

-----------------------------------------------------------------------------
(* The inductive invariant, beside IInv.                                   *)

\* Methods that store a version, and methods that look a number up.
Creating == {"createFileForUser", "createNewBlobForFile"}
Finding == {"getBlob", "getLastBlob"}

\* The methods an operation may have called last at step s.
MethodsAt(s) ==
    CASE s \in DOMAIN MethodOf -> {MethodOf[s]}
      [] s \in {"store", "receive", "digest"} -> Creating
      [] s \in {"record", "mark"} -> {"addChecksum"}
      [] s \in {"send", "confirm"} -> Finding
      [] s = "compare" -> {"getLastVersion"}
      [] s = "match" -> {"getBlobVersion"}
      [] s = "restore" -> {"addVersion"}
      [] s = "path" -> {"getPath"}
      [] OTHER -> AllMethods

\* Between two calls the session rests; it holds the blob of a call that ended well.
Holding == {"receive", "digest", "send", "confirm"}

InOperation(c) ==
    /\ method[c] \in MethodsAt(step[c])
    /\ step[c] \in {"ready", "spin"} \cup Holding => at[c] = "idle"
    /\ step[c] \in Holding => answer[c] = "ok"
    /\ step[c] = "ended" => at[c] = "gone"

\* A number is handed out before the method that hands it out ends.
Numbered(c) ==
    /\ method[c] \in Creating => at[c] \notin {"salt", "deleted", "select"}
    /\ method[c] \in Creating \cup Finding /\ at[c] \in {"commit", "write"} => got[c] # Null
    /\ method[c] \in Finding /\ at[c] = "select" /\ open[c] /\ found[c] => got[c] # Null

\* The steps after the number of a blob was taken, and after its content was.
WithNumber == Holding \cup {"record", "compare", "match", "restore", "mark"}
WithData == {"uploadFile", "store", "receive", "digest", "record", "confirm", "compare", "match",
             "restore", "mark"}

Equipped(c) ==
    /\ step[c] \in {"store"} \cup Downloads /\ at[c] = "idle" /\ answer[c] = "ok" => got[c] # Null
    /\ step[c] \in WithNumber => got[c] # Null
    /\ step[c] \in WithData => data[c] # Null

HandlerInv ==
    /\ HandlerTypeOK
    /\ \A c \in Session : InOperation(c) /\ Numbered(c) /\ Equipped(c)

-----------------------------------------------------------------------------
(* The numbers DatabaseHandler hands out.                                  *)

LEMMA GoToEnds ==
    ASSUME TypeOK, NEW c \in Session, NEW s, GoTo(c, s)
    PROVE  /\ at'[c] = IF s \in Answers THEN "idle" ELSE s
           /\ s \in Answers => answer'[c] = s
BY DEF GoTo, TypeOK

\* How a session comes to its last SELECT.
LEMMA ComesToSelect ==
    ASSUME TypeOK, NEW c \in Session, Running(c), at'[c] = "select", open'[c]
    PROVE  Select(c) /\ Step(c, "select")
<1>1. ASSUME NEW s, NEW next, Finalize(c, s, next) \/ Busy(c, s, next)
      PROVE  FALSE
  BY <1>1 DEF Finalize, Busy, TypeOK
<1>2. \A s : GoTo(c, s) => s = "select"
  BY GoToEnds DEF Answers
<1>3. ~GoTo(c, "body") /\ ~GoTo(c, "throws") /\ ~GoTo(c, "commit") /\ ~GoTo(c, "ok")
      /\ ~GoTo(c, "write")
  BY <1>2
<1>4. \A s : Step(c, s) => s = "select"
  BY DEF Step, Stay
<1>5. ~ReadSalt(c) /\ ~ExistsFile(c) /\ ~CheckDeleted(c)
  BY <1>1, <1>4 DEF ReadSalt, ExistsFile, CheckDeleted
<1>6. ~Lock(c)
  BY DEF Lock, AfterLock, TypeOK
<1>7. ~CountBlobs(c) /\ ~CreateFileForUser(c) /\ ~CreateNewBlobForFile(c) /\ ~RemoveFile(c)
  BY <1>3 DEF CountBlobs, CreateFileForUser, CreateNewBlobForFile, RemoveFile, InsertBlob
<1>8. ~DeleteFile(c) /\ ~AddVersion(c) /\ ~AddChecksum(c) /\ ~RegisterUser(c)
  <2>1. \A d, ok : ~Autocommit(c, d, ok)
    BY <1>3 DEF Autocommit
  <2>2. QED
    BY <1>3, <2>1 DEF DeleteFile, AddVersion, AddChecksum, RegisterUser, AddRowNow, AutocommitBusy
<1>9. ~Commit(c) /\ ~Write(c)
  BY <1>3 DEF Commit, Write, Stay
<1>10. Select(c)
  BY <1>5, <1>6, <1>7, <1>8, <1>9 DEF Running
<1>11. QED
  BY <1>1, <1>10 DEF Select

LEMMA NumberedKept ==
    ASSUME TypeOK, NEW c \in Session, Running(c), Numbered(c)
    PROVE  Numbered(c)'
<1>0. method' = method
  BY CallStays DEF callVars
<1>1. ASSUME method[c] \in Creating
      PROVE  at'[c] \notin {"salt", "deleted", "select"}
  <2>1. at[c] \notin {"salt", "deleted", "select"}
    BY <1>1 DEF Numbered
  <2>2. ~ReadSalt(c) /\ ~CheckDeleted(c) /\ ~Select(c)
    BY <2>1 DEF ReadSalt, CheckDeleted, Select, Step, Finalize, Busy
  <2>3. AfterLock(method[c]) \notin {"salt", "deleted", "select"}
        /\ \A yes : AfterExists(method[c], yes) \notin {"salt", "deleted", "select"}
    BY <1>1 DEF Creating, AfterLock, AfterExists
  <2>4. \A s : GoTo(c, s) /\ s \notin {"salt", "deleted", "select"}
                 => at'[c] \notin {"salt", "deleted", "select"}
    BY GoToEnds
  <2>5. CASE Lock(c)
    BY <2>3, <2>5 DEF Lock, TypeOK
  <2>6. CASE ExistsFile(c)
    BY <2>1, <2>3, <2>4, <2>6 DEF ExistsFile, Step, Stay, Finalize, Busy
  <2>7. CASE CountBlobs(c) \/ RemoveFile(c) \/ Commit(c) \/ Write(c)
    BY <2>1, <2>4, <2>7 DEF CountBlobs, RemoveFile, Commit, Write, Stay
  <2>8. CASE CreateFileForUser(c) \/ CreateNewBlobForFile(c)
    BY <2>4, <2>8 DEF CreateFileForUser, CreateNewBlobForFile, InsertBlob
  <2>9. ASSUME NEW d, NEW ok, Autocommit(c, d, ok) \/ AutocommitBusy(c)
        PROVE  at'[c] \notin {"salt", "deleted", "select"}
    BY <2>4, <2>9 DEF Autocommit, AutocommitBusy
  <2>10. CASE DeleteFile(c) \/ AddVersion(c) \/ AddChecksum(c) \/ RegisterUser(c)
    BY <2>4, <2>9, <2>10 DEF DeleteFile, AddVersion, AddChecksum, RegisterUser, AddRowNow
  <2>11. QED
    BY <2>2, <2>5, <2>6, <2>7, <2>8, <2>10 DEF Running
<1>2. ASSUME method[c] \in Creating \cup Finding, at'[c] \in {"commit", "write"}
      PROVE  got'[c] # Null
  <2>1. ToCommit(c)
    BY <1>2, ComesToCommit
  <2>2. ~RemoveFile(c) /\ ~DeleteFile(c) /\ ~AddVersion(c) /\ ~AddChecksum(c) /\ ~RegisterUser(c)
    BY <1>2 DEF RemoveFile, DeleteFile, AddVersion, AddChecksum, RegisterUser, AtBody, Creating,
       Finding
  <2>3. CASE \E n \in Blob : got' = [got EXCEPT ![c] = n]
    BY <2>3, BlobAssumption DEF TypeOK, Blob
  <2>4. CASE at[c] = "commit" /\ got' = got
    BY <1>2, <2>4 DEF Numbered
  <2>5. QED
    BY <2>1, <2>2, <2>3, <2>4 DEF ToCommit
<1>3. ASSUME method[c] \in Finding, at'[c] = "select", open'[c], found'[c]
      PROVE  got'[c] # Null
  <2>1. Select(c) /\ Step(c, "select")
    BY <1>3, ComesToSelect
  <2>2. ~open[c]
    BY <2>1 DEF Step
  <2>3. GetBlob(c) \/ GetLastBlob(c)
    BY <1>3, <2>1, <2>2 DEF Select, Finalize, Busy, Finding, TypeOK
  <2>4. ~Answered(c, FALSE)
    BY <1>3 DEF Answered, TypeOK
  <2>5. PICK r \in View(c).versions :
           \/ got' = [got EXCEPT ![c] = IF r.blob = Null THEN 0 ELSE r.blob]
           \/ r.blob # Null /\ got' = [got EXCEPT ![c] = r.blob]
    BY <2>3, <2>4 DEF GetBlob, GetLastBlob, RowsOf, Last, WithBlob
  <2>6. QED
    BY <2>5, BlobAssumption DEF TypeOK
<1>4. QED
  BY <1>0, <1>1, <1>2, <1>3 DEF Numbered

\* How a method that takes a number ends well.
LEMMA EndsWell ==
    ASSUME TypeOK, NEW c \in Session, Running(c), Numbered(c),
           method[c] \in Creating \cup Finding, at'[c] = "idle", answer'[c] = "ok"
    PROVE  /\ got' = got
           /\ \/ Commit(c) \/ Write(c)
              \/ /\ method[c] \in Finding
                 /\ Finalize(c, "select", AfterSelect(method[c], found[c])) /\ found[c]
<1>0. at[c] \in Statements /\ at[c] # "idle"
  BY RunningNumber DEF Statements
<1>1. \A s : GoTo(c, s) => s \in {"ok", "idle"}
  BY GoToEnds
<1>2. ~Stay /\ ~GoTo(c, "throws") /\ ~GoTo(c, "absent") /\ \A s \in Statements : ~GoTo(c, s)
  BY <1>0, <1>1 DEF Stay, Statements
<1>3. \A s : ~Step(c, s)
  BY <1>2 DEF Step
<1>4. ASSUME NEW s, NEW next, Finalize(c, s, next) \/ Busy(c, s, next)
      PROVE  next \in {"ok", "idle"}
  BY <1>1, <1>4 DEF Finalize, Busy
<1>5. \A yes : /\ AfterExists(method[c], yes) \notin {"ok", "idle"}
               /\ AfterDeleted(method[c], yes) \notin {"ok", "idle"}
  BY DEF AfterExists, AfterDeleted, Creating, Finding
<1>6. ~ReadSalt(c) /\ ~ExistsFile(c) /\ ~CheckDeleted(c)
  <2>1. ~ReadSalt(c)
    BY <1>3, <1>4 DEF ReadSalt
  <2>2. ~ExistsFile(c)
    BY <1>3, <1>4, <1>5 DEF ExistsFile
  <2>3. ~CheckDeleted(c)
    BY <1>3, <1>4, <1>5 DEF CheckDeleted
  <2>4. QED
    BY <2>1, <2>2, <2>3
<1>7. ~Lock(c)
  BY DEF Lock, AfterLock, TypeOK
<1>8. ~CountBlobs(c)
  BY <1>2 DEF CountBlobs, Statements
<1>9. ~CreateFileForUser(c) /\ ~CreateNewBlobForFile(c)
  BY <1>2 DEF CreateFileForUser, CreateNewBlobForFile, InsertBlob, Statements
<1>10. ~RemoveFile(c) /\ ~DeleteFile(c) /\ ~AddVersion(c) /\ ~AddChecksum(c) /\ ~RegisterUser(c)
  BY DEF RemoveFile, DeleteFile, AddVersion, AddChecksum, RegisterUser, AtBody, Creating, Finding
<1>11. CASE Commit(c) \/ Write(c)
  BY <1>11 DEF Commit, Write, resultVars
<1>12. CASE Select(c)
  <2>1. \/ Finalize(c, "select", AfterSelect(method[c], found[c]))
        \/ Busy(c, "select", AfterBusySelect(method[c]))
    BY <1>3, <1>12 DEF Select
  <2>2. AfterBusySelect(method[c]) \notin {"ok", "idle"}
    BY DEF AfterBusySelect, Creating, Finding
  <2>3. Finalize(c, "select", AfterSelect(method[c], found[c]))
    BY <1>4, <2>1, <2>2
  <2>4. found[c]
    BY <1>4, <2>3 DEF AfterSelect, Creating, Finding
  <2>5. at[c] = "select" /\ got' = got
    BY <2>3 DEF Finalize
  <2>6. QED
    BY <2>3, <2>4, <2>5 DEF Numbered
<1>13. QED
  BY <1>6, <1>7, <1>8, <1>9, <1>10, <1>11, <1>12 DEF Running

LEMMA EndsWithNumber ==
    ASSUME TypeOK, NEW c \in Session, Running(c), Numbered(c),
           method[c] \in Creating \cup Finding, at'[c] = "idle", answer'[c] = "ok"
    PROVE  got'[c] # Null
<1>1. \/ at[c] \in {"commit", "write"}
      \/ method[c] \in Finding /\ at[c] = "select" /\ open[c] /\ found[c]
  BY EndsWell DEF Commit, Write, Finalize
<1>2. got' = got
  BY EndsWell
<1>3. QED
  BY <1>1, <1>2 DEF Numbered

-----------------------------------------------------------------------------
(* What a step of an operation is, in one place.                           *)

OperationTypeOK ==
    /\ step \in [Session -> Steps]
    /\ disk \in [User -> [Blob -> Checksum \cup {Null}]]
    /\ data \in [Session -> Checksum \cup {Null}]
    /\ last \in [Session -> Stamps \cup {Null}]
    /\ reply \in [Session -> {"none", "OK", "ERR"}]

Resting == {"ready", "spin"} \cup Holding

\* The operation waits, for the client or for nothing; or takes its next step in
\* the exchange with the client.
Rests(c, s) ==
    /\ at[c] = "idle" /\ UNCHANGED vars
    /\ s \in Resting /\ method[c] \in MethodsAt(s)
    /\ s \in Holding => answer[c] = "ok" /\ got[c] # Null

\* The operation calls its next method.
Calls(c, s) ==
    /\ s \in Steps \ (Resting \cup {"ended"})
    /\ \E m \in AllMethods \cap MethodsAt(s), f \in File, k \in Checksum :
          Call(c, m, f, k) /\ (s \in WithNumber => m \in Chained)

Moves(c) ==
    /\ OperationTypeOK'
    /\ \E s \in Steps :
          /\ Goes(c, s)
          /\ Rests(c, s) \/ Calls(c, s) \/ (Leave(c) /\ s = "ended")
          /\ s \in WithData => data'[c] # Null
    /\ \A o \in Session \ {c} : data'[o] = data[o]

LEMMA MovesIsNext ==
    ASSUME NEW c \in Session, Moves(c)
    PROVE  [Next]_vars
BY DEF Moves, Rests, Calls, Next

\* What a session's part of HandlerInv reads.
PartOf(c) == <<at[c], method[c], open[c], found[c], got[c], answer[c], step[c], data[c]>>

LEMMA SameSession ==
    ASSUME NEW o, UNCHANGED PartOf(o), InOperation(o) /\ Numbered(o) /\ Equipped(o)
    PROVE  (InOperation(o) /\ Numbered(o) /\ Equipped(o))'
BY DEF PartOf, InOperation, Numbered, Equipped

LEMMA FreeSteps ==
    /\ MethodsAt("ready") = AllMethods /\ MethodsAt("spin") = AllMethods
    /\ MethodsAt("ended") = AllMethods
    /\ "ready" \in Steps /\ "spin" \in Steps /\ "ended" \in Steps
BY DEF MethodsAt, MethodOf, Steps

LEMMA MovesKept ==
    ASSUME HandlerInv, NEW c \in Session, Moves(c)
    PROVE  \A o \in Session : (InOperation(o) /\ Numbered(o) /\ Equipped(o))'
<1>0. /\ TypeOK /\ step \in [Session -> Steps]
      /\ \A o \in Session : InOperation(o) /\ Numbered(o) /\ Equipped(o)
  BY DEF HandlerInv, HandlerTypeOK
<1>1. PICK s \in Steps : /\ Goes(c, s)
                         /\ Rests(c, s) \/ Calls(c, s) \/ (Leave(c) /\ s = "ended")
                         /\ s \in WithData => data'[c] # Null
  BY DEF Moves
<1>2. step'[c] = s /\ \A o \in Session \ {c} : step'[o] = step[o] /\ data'[o] = data[o]
  BY <1>0, <1>1 DEF Goes, Moves
<1>3. CASE Rests(c, s)
  <2>1. UNCHANGED <<at, method, open, found, got, answer>>
    BY <1>3 DEF Rests, vars
  <2>2. \A o \in Session \ {c} : (InOperation(o) /\ Numbered(o) /\ Equipped(o))'
    BY <1>0, <1>2, <2>1, SameSession DEF PartOf
  <2>3. s \in WithNumber => s \in Holding
    BY <1>3 DEF Rests, Resting, WithNumber
  <2>4. (InOperation(c) /\ Numbered(c) /\ Equipped(c))'
    BY <1>0, <1>1, <1>2, <1>3, <2>1, <2>3
    DEF Rests, Resting, InOperation, Numbered, Equipped, Holding, Downloads
  <2>5. QED
    BY <2>2, <2>4
<1>4. CASE Calls(c, s)
  <2>1. PICK m \in AllMethods \cap MethodsAt(s), f \in File, k \in Checksum :
           Call(c, m, f, k) /\ (s \in WithNumber => m \in Chained)
    BY <1>4 DEF Calls
  <2>2. \A o \in Session \ {c} : UNCHANGED PartOf(o)
    BY <1>0, <1>2, <2>1 DEF Call, TypeOK, PartOf
  <2>3. /\ at'[c] = First(m) /\ method'[c] = m /\ found'[c] = FALSE
        /\ m \in Chained => got'[c] = got[c] /\ got[c] # Null
    BY <1>0, <2>1 DEF Call, TypeOK
  <2>4. /\ First(m) \notin {"idle", "commit", "write"}
        /\ m \in Creating => First(m) \notin {"salt", "deleted", "select"}
    BY DEF First, Creating
  <2>5. s \notin Resting \cup {"ended"}
    BY <1>4 DEF Calls
  <2>6. (InOperation(c) /\ Numbered(c) /\ Equipped(c))'
    BY <1>1, <1>2, <2>1, <2>3, <2>4, <2>5 DEF InOperation, Numbered, Equipped, Resting
  <2>7. QED
    BY <1>0, <2>2, <2>6, SameSession
<1>5. CASE Leave(c) /\ s = "ended"
  <2>1. \A o \in Session \ {c} : UNCHANGED PartOf(o)
    BY <1>0, <1>2, <1>5 DEF Leave, TypeOK, PartOf, callVars, resultVars
  <2>2. at'[c] = "gone" /\ method' = method
    BY <1>0, <1>5 DEF Leave, TypeOK, callVars
  <2>3. method[c] \in MethodsAt("ended")
    BY <1>0, FreeSteps DEF TypeOK
  <2>4. (InOperation(c) /\ Numbered(c) /\ Equipped(c))'
    BY <1>2, <1>5, <2>2, <2>3
    DEF InOperation, Numbered, Equipped, Holding, Downloads, WithNumber, WithData
  <2>5. QED
    BY <1>0, <2>1, <2>4, SameSession
<1>6. QED
  BY <1>1, <1>3, <1>4, <1>5

-----------------------------------------------------------------------------
(* Every step of every operation is such a step.                           *)

\* What HandlerInv says of a session that acts.
LEMMA SessionFacts ==
    ASSUME HandlerInv, NEW c \in Session
    PROVE  /\ TypeOK /\ OperationTypeOK
           /\ InOperation(c) /\ Numbered(c) /\ Equipped(c)
           /\ UserOf[c] \in User /\ file[c] \in File
           /\ got[c] \in Blob \cup {Null} /\ stamp[c] \in Stamps \cup {Null}
           /\ data[c] \in Checksum \cup {Null} /\ method[c] \in AllMethods
           /\ Torn \in Checksum /\ Null \notin Checksum
BY SessionAssumption, TornAssumption, ChecksumAssumption
DEF HandlerInv, HandlerTypeOK, OperationTypeOK, TypeOK

LEMMA Replies ==
    ASSUME HandlerInv, NEW c \in Session, NEW r \in {"none", "OK", "ERR"},
           Reply(c, r), UNCHANGED disk \/ OperationTypeOK',
           at[c] = "idle"
    PROVE  Moves(c)
<1>1. OperationTypeOK'
  BY SessionFacts, FreeSteps DEF Reply, Goes, OperationTypeOK
<1>2. Goes(c, "ready") /\ Rests(c, "ready")
  BY SessionFacts, FreeSteps DEF Reply, Rests, Resting, Holding
<1>3. \A o \in Session \ {c} : data'[o] = data[o]
  BY SessionFacts DEF Reply, OperationTypeOK
<1>4. QED
  BY <1>1, <1>2, <1>3, FreeSteps DEF Moves, WithData

LEMMA Ends ==
    ASSUME HandlerInv, NEW c \in Session, EndSession(c)
    PROVE  Moves(c)
<1>1. OperationTypeOK'
  BY SessionFacts, FreeSteps DEF EndSession, Goes, OperationTypeOK
<1>2. QED
  BY <1>1, FreeSteps DEF EndSession, Moves, WithData

LEMMA ReadsForever ==
    ASSUME HandlerInv, NEW c \in Session, ReadForever(c), at[c] = "idle"
    PROVE  Moves(c)
<1>1. OperationTypeOK'
  BY SessionFacts, FreeSteps DEF ReadForever, Goes, OperationTypeOK
<1>2. Goes(c, "spin") /\ Rests(c, "spin")
  BY SessionFacts, FreeSteps DEF ReadForever, Rests, Resting, Holding
<1>3. QED
  BY <1>1, <1>2, FreeSteps DEF ReadForever, Moves, WithData

\* The next call of an operation, and the step it goes on to.
LEMMA CallsThen ==
    ASSUME HandlerInv, NEW c \in Session, NEW m \in AllMethods, NEW k \in Checksum,
           NEW s \in {"store", "record", "compare", "match", "restore", "mark", "path"},
           CallThen(c, m, k, s), m \in MethodsAt(s),
           data[c] # Null \/ s = "path", UNCHANGED <<disk, data>>,
           last' = last \/ last' = [last EXCEPT ![c] = stamp[c]]
    PROVE  Moves(c)
<1>1. s \in Steps /\ s \notin Resting \cup {"ended"}
  BY DEF Steps, UploadSteps, DownloadSteps, Resting, Holding
<1>2. OperationTypeOK'
  BY <1>1, SessionFacts DEF CallThen, Goes, OperationTypeOK
<1>3. s \in WithNumber => m \in Chained
  BY DEF MethodsAt, MethodOf, WithNumber, Holding, Chained
<1>4. Calls(c, s) /\ Goes(c, s)
  BY <1>1, <1>3, SessionFacts DEF CallThen, Calls
<1>5. s \in WithData => data'[c] # Null
  BY DEF WithData
<1>6. QED
  BY <1>1, <1>2, <1>4, <1>5 DEF Moves

LEMMA StepMethods ==
    /\ MethodsAt("store") = Creating /\ MethodsAt("receive") = Creating
    /\ MethodsAt("digest") = Creating
    /\ MethodsAt("record") = {"addChecksum"} /\ MethodsAt("mark") = {"addChecksum"}
    /\ MethodsAt("send") = Finding /\ MethodsAt("confirm") = Finding
    /\ MethodsAt("compare") = {"getLastVersion"} /\ MethodsAt("match") = {"getBlobVersion"}
    /\ MethodsAt("restore") = {"addVersion"} /\ MethodsAt("path") = {"getPath"}
    /\ MethodsAt("uploadFile") = {"existsFile"}
    /\ MethodsAt("downloadPreviousVersion") = {"getBlob"}
    /\ MethodsAt("downloadLastVersion") = {"getLastBlob"}
BY DEF MethodsAt, MethodOf

LEMMA UploadMoves ==
    ASSUME HandlerInv, NEW c \in Session,
           StoreVersion(c) \/ OpenBlob(c) \/ Receive(c) \/ CompareDigests(c) \/ EndUpload(c)
    PROVE  Moves(c)
<1> USE SessionFacts, StepMethods
<1>1. CASE StoreVersion(c)
  <2>1. data[c] # Null
    BY <1>1 DEF StoreVersion, Returned, Equipped, WithData
  <2>2. QED
    BY <1>1, <2>1, CallsThen DEF StoreVersion, Creating, AllMethods
<1>2. CASE OpenBlob(c)
  <2>1. at[c] = "idle" /\ step[c] = "store"
    BY <1>2 DEF OpenBlob, Returned
  <2>2. CASE /\ answer[c] = "ok"
             /\ disk' = [disk EXCEPT ![UserOf[c]][got[c]] = Torn]
             /\ Goes(c, "receive")
             /\ UNCHANGED <<vars, data, last, reply>>
    <3>1. got[c] # Null /\ data[c] # Null
      BY <2>1, <2>2 DEF Equipped, WithData
    <3>2. "receive" \in Steps
      BY DEF Steps, UploadSteps
    <3>3. OperationTypeOK'
      BY <2>2, <3>1, <3>2 DEF OperationTypeOK, Goes
    <3>4. Rests(c, "receive")
      BY <2>1, <2>2, <3>1 DEF Rests, Resting, Holding, InOperation
    <3>5. QED
      BY <2>2, <3>1, <3>2, <3>3, <3>4 DEF Moves
  <2>3. QED
    BY <1>2, <2>1, <2>2, Replies, Ends DEF OpenBlob, Returned
<1>3. CASE Receive(c)
  <2>1. at[c] = "idle" /\ answer[c] = "ok" /\ got[c] # Null /\ data[c] # Null
    BY <1>3 DEF Receive, InOperation, Equipped, Holding, WithNumber, WithData
  <2>2. PICK x \in Checksum \cup {Null} : disk' = [disk EXCEPT ![UserOf[c]][got[c]] = x]
    BY <1>3 DEF Receive
  <2>3. disk' \in [User -> [Blob -> Checksum \cup {Null}]]
    BY <2>1, <2>2 DEF OperationTypeOK
  <2>4. CASE Goes(c, "digest") /\ UNCHANGED <<vars, data, last, reply>>
    <3>1. "digest" \in Steps
      BY DEF Steps, UploadSteps
    <3>2. OperationTypeOK'
      BY <2>3, <2>4, <3>1 DEF OperationTypeOK, Goes
    <3>3. Rests(c, "digest")
      BY <1>3, <2>1, <2>4 DEF Receive, Rests, Resting, Holding, InOperation
    <3>4. QED
      BY <2>1, <2>4, <3>1, <3>2, <3>3 DEF Moves
  <2>5. CASE Reply(c, "ERR")
    <3>1. OperationTypeOK'
      BY <2>3, <2>5, FreeSteps DEF Reply, Goes, OperationTypeOK
    <3>2. QED
      BY <2>1, <2>5, <3>1, Replies
  <2>6. CASE Leave(c) /\ Goes(c, "ended") /\ UNCHANGED <<data, last, reply>>
    <3>1. OperationTypeOK'
      BY <2>3, <2>6, FreeSteps DEF Goes, OperationTypeOK
    <3>2. QED
      BY <2>6, <3>1, FreeSteps DEF Moves, WithData
  <2>7. QED
    BY <1>3, <2>4, <2>5, <2>6 DEF Receive
<1>4. CASE CompareDigests(c)
  <2>1. at[c] = "idle" /\ data[c] # Null
    BY <1>4 DEF CompareDigests, InOperation, Equipped, Holding, WithData
  <2>2. QED
    BY <1>4, <2>1, Replies, ReadsForever, CallsThen DEF CompareDigests, AllMethods
<1>5. CASE EndUpload(c)
  BY <1>5, Replies, Ends DEF EndUpload, Returned
<1>6. QED
  BY <1>1, <1>2, <1>3, <1>4, <1>5

LEMMA DownloadMoves ==
    ASSUME HandlerInv, NEW c \in Session,
           FindBlob(c) \/ SendBlob(c) \/ Confirm(c) \/ CompareVersions(c) \/ EndRestore(c)
    PROVE  Moves(c)
<1> USE SessionFacts, StepMethods
<1>1. CASE FindBlob(c)
  <2>1. CASE \E op \in Downloads : /\ Returned(c, op, {"ok"})
                                   /\ Goes(c, "send")
                                   /\ UNCHANGED <<vars, disk, data, last, reply>>
    <3>1. at[c] = "idle" /\ answer[c] = "ok" /\ got[c] # Null
      BY <2>1 DEF Returned, Equipped
    <3>2. method[c] \in Finding
      BY <2>1 DEF Returned, InOperation, Downloads, Finding
    <3>3. "send" \in Steps
      BY DEF Steps, DownloadSteps
    <3>4. OperationTypeOK'
      BY <2>1, <3>3 DEF OperationTypeOK, Goes
    <3>5. Rests(c, "send")
      BY <2>1, <3>1, <3>2 DEF Rests, Resting, Holding
    <3>6. QED
      BY <2>1, <3>3, <3>4, <3>5 DEF Moves, WithData
  <2>2. QED
    BY <1>1, <2>1, Replies DEF FindBlob, Returned
<1>2. CASE SendBlob(c)
  <2>1. /\ at[c] = "idle" /\ answer[c] = "ok" /\ got[c] # Null /\ method[c] \in Finding
    BY <1>2 DEF SendBlob, InOperation, Equipped, Holding, WithNumber
  <2>2. CASE /\ Blobs(c)[got[c]] # Null
             /\ data' = [data EXCEPT ![c] = Blobs(c)[got[c]]]
             /\ Goes(c, "confirm")
             /\ UNCHANGED <<vars, disk, last, reply>>
    <3>1. "confirm" \in Steps
      BY DEF Steps, DownloadSteps
    <3>2. Blobs(c)[got[c]] \in Checksum
      BY <2>1, <2>2 DEF Blobs, OperationTypeOK
    <3>3. OperationTypeOK' /\ data'[c] # Null /\ \A o \in Session \ {c} : data'[o] = data[o]
      BY <2>2, <3>1, <3>2 DEF OperationTypeOK, Goes
    <3>4. Rests(c, "confirm")
      BY <2>1, <2>2 DEF Rests, Resting, Holding
    <3>5. QED
      BY <2>2, <3>1, <3>3, <3>4 DEF Moves
  <2>3. QED
    BY <1>2, <2>1, <2>2, ReadsForever DEF SendBlob
<1>3. CASE Confirm(c)
  <2>1. at[c] = "idle" /\ data[c] # Null
    BY <1>3 DEF Confirm, InOperation, Equipped, Holding, WithData
  <2>2. QED
    BY <1>3, <2>1, Replies, ReadsForever, CallsThen DEF Confirm, AllMethods
<1>4. CASE CompareVersions(c)
  <2>1. at[c] = "idle" /\ data[c] # Null
    BY <1>4 DEF CompareVersions, Returned, Equipped, WithData
  <2>2. QED
    BY <1>4, <2>1, Replies, CallsThen DEF CompareVersions, AllMethods
<1>5. CASE EndRestore(c)
  <2>1. at[c] = "idle" /\ data[c] # Null
    BY <1>5 DEF EndRestore, Returned, Equipped, WithData
  <2>2. QED
    BY <1>5, <2>1, Replies, CallsThen DEF EndRestore, AllMethods
<1>6. QED
  BY <1>1, <1>2, <1>3, <1>4, <1>5

LEMMA OtherMoves ==
    ASSUME HandlerInv, NEW c \in Session,
           EndChange(c) \/ EndListing(c) \/ EndLogIn(c) \/ EndSignIn(c)
    PROVE  Moves(c)
<1> USE SessionFacts, StepMethods
<1>1. CASE EndChange(c)
  BY <1>1, Replies DEF EndChange, Returned
<1>2. CASE EndListing(c)
  BY <1>2, Replies, Ends DEF EndListing, Returned
<1>3. CASE EndLogIn(c)
  BY <1>3, Replies, Ends, CallsThen DEF EndLogIn, Returned, AllMethods
<1>4. CASE EndSignIn(c)
  BY <1>4, Replies DEF EndSignIn, Returned
<1>5. QED
  BY <1>1, <1>2, <1>3, <1>4

LEMMA RequestMoves ==
    ASSUME HandlerInv, NEW c \in Session, NEW op \in Operations[c], NEW f \in File,
           NEW content \in Checksum \ {Torn}, Request(c, op, f, content)
    PROVE  Moves(c)
<1> USE SessionFacts
<1>1. op \in DOMAIN MethodOf
  BY OperationsAssumption
<1>2. /\ op \in Steps \ (Resting \cup {"ended"}) /\ op \notin WithNumber
      /\ op \in WithData => op = "uploadFile"
      /\ MethodOf[op] \in AllMethods \cap MethodsAt(op)
  BY <1>1 DEF Steps, MethodOf, Resting, Holding, WithNumber, WithData, MethodsAt, AllMethods
<1>3. OperationTypeOK'
  BY <1>2 DEF Request, Goes, OperationTypeOK
<1>4. Goes(c, op) /\ Calls(c, op)
  BY <1>2 DEF Request, Calls
<1>5. /\ op \in WithData => data'[c] # Null
      /\ \A o \in Session \ {c} : data'[o] = data[o]
  BY <1>2 DEF Request, OperationTypeOK
<1>6. QED
  BY <1>2, <1>3, <1>4, <1>5 DEF Moves

-----------------------------------------------------------------------------
(* The invariant.                                                          *)

LEMMA InitHandler == HandlerInit => HandlerInv
<1> SUFFICES ASSUME HandlerInit PROVE HandlerInv
  OBVIOUS
<1>1. TypeOK
  BY InitType DEF HandlerInit
<1>2. HandlerTypeOK
  BY <1>1, FreeSteps DEF HandlerInit, HandlerTypeOK
<1>3. ASSUME NEW c \in Session
      PROVE  InOperation(c) /\ Numbered(c) /\ Equipped(c)
  <2>1. step[c] = "ready" /\ at[c] = "idle" /\ method[c] \in AllMethods
    BY <1>1 DEF HandlerInit, Init, TypeOK
  <2>2. QED
    BY <2>1, FreeSteps
    DEF InOperation, Numbered, Equipped, Holding, Downloads, WithNumber, WithData
<1>4. QED
  BY <1>2, <1>3 DEF HandlerInv

\* A statement of a method is not seen by the operation until the method ends.
LEMMA StatementKept ==
    ASSUME HandlerInv, CommitLocked, NEW c \in Session, Statement(c)
    PROVE  \A o \in Session : (InOperation(o) /\ Numbered(o) /\ Equipped(o))'
<1>0. /\ TypeOK /\ Running(c) /\ method' = method /\ UNCHANGED handlerVars
      /\ \A o \in Session : InOperation(o) /\ Numbered(o) /\ Equipped(o)
  BY CallStays DEF HandlerInv, HandlerTypeOK, Statement, callVars
<1>1. ASSUME NEW o \in Session \ {c}
      PROVE  (InOperation(o) /\ Numbered(o) /\ Equipped(o))'
  <2>1. UNCHANGED PartOf(o)
    BY <1>0, OthersStay, OthersAnswers DEF PartOf, handlerVars
  <2>2. QED
    BY <1>0, <2>1, SameSession
<1>2. at[c] \notin {"idle", "gone"}
  BY <1>0, RunningNumber DEF Statements
<1>3. step[c] \notin {"ready", "spin", "ended"} \cup Holding
  BY <1>0, <1>2 DEF InOperation
<1>4. InOperation(c)'
  BY <1>0, <1>3 DEF InOperation, handlerVars
<1>5. Numbered(c)'
  BY <1>0, NumberedKept
<1>6. Equipped(c)'
  <2>1. ASSUME step[c] \in WithNumber
        PROVE  got'[c] # Null
    <3>1. method[c] \notin Creating \cup Finding
      BY <1>0, <1>3, <2>1, StepMethods DEF InOperation, WithNumber, Creating, Finding
    <3>2. QED
      BY <1>0, <2>1, <3>1, RunningNumber DEF Equipped, Creating, Finding
  <2>2. ASSUME step[c] \in {"store"} \cup Downloads, at'[c] = "idle", answer'[c] = "ok"
        PROVE  got'[c] # Null
    <3>1. method[c] \in Creating \cup Finding
      BY <1>0, <2>2, StepMethods DEF InOperation, Downloads, Creating, Finding
    <3>2. QED
      BY <1>0, <2>2, <3>1, EndsWithNumber
  <2>3. QED
    BY <1>0, <2>1, <2>2 DEF Equipped, handlerVars
<1>7. QED
  BY <1>1, <1>4, <1>5, <1>6

\* A step of ConnectionHandler is one that DatabaseHandler allows.
LEMMA HandlerStep ==
    ASSUME IInv, HandlerInv, [HandlerNext]_allVars
    PROVE  [Next]_vars /\ HandlerInv'
<1>0. /\ CommitLocked /\ OperationTypeOK
      /\ \A o \in Session : InOperation(o) /\ Numbered(o) /\ Equipped(o)
  BY DEF IInv, HandlerInv, HandlerTypeOK, OperationTypeOK
<1>1. ASSUME [Next]_vars, OperationTypeOK',
             \A o \in Session : (InOperation(o) /\ Numbered(o) /\ Equipped(o))'
      PROVE  [Next]_vars /\ HandlerInv'
  <2>1. TypeOK'
    BY <1>1, NextInvariant DEF IInv
  <2>2. QED
    BY <1>1, <2>1 DEF HandlerInv, HandlerTypeOK, OperationTypeOK
<1>2. ASSUME NEW c \in Session, Moves(c)
      PROVE  [Next]_vars /\ HandlerInv'
  BY <1>1, <1>2, MovesIsNext, MovesKept DEF Moves
<1>3. ASSUME NEW c \in Session, Statement(c)
      PROVE  [Next]_vars /\ HandlerInv'
  <2>1. [Next]_vars
    BY <1>3 DEF Statement, Next
  <2>2. OperationTypeOK'
    BY <1>0, <1>3 DEF Statement, OperationTypeOK, handlerVars
  <2>3. QED
    BY <1>0, <1>1, <1>3, <2>1, <2>2, StatementKept
<1>4. CASE ServerCrash
  <2>1. [Next]_vars /\ method' = method
    BY <1>4 DEF ServerCrash, Next, Crash, callVars
  <2>2. OperationTypeOK'
    BY <1>0, <1>4, FreeSteps DEF ServerCrash, OperationTypeOK
  <2>3. ASSUME NEW o \in Session
        PROVE  (InOperation(o) /\ Numbered(o) /\ Equipped(o))'
    <3>1. step'[o] = "ready" /\ at'[o] = "idle" /\ method'[o] \in AllMethods
      BY <1>4, <2>1 DEF ServerCrash, Crash, HandlerInv, HandlerTypeOK, TypeOK
    <3>2. QED
      BY <3>1, FreeSteps
      DEF InOperation, Numbered, Equipped, Holding, Downloads, WithNumber, WithData
  <2>4. QED
    BY <1>1, <2>1, <2>2, <2>3
<1>5. CASE (Tick /\ UNCHANGED handlerVars) \/ UNCHANGED allVars
  <2>1. [Next]_vars
    BY <1>5 DEF Next, allVars
  <2>2. OperationTypeOK'
    BY <1>0, <1>5 DEF OperationTypeOK, handlerVars, allVars
  <2>3. UNCHANGED <<at, method, open, found, got, answer, step, data>>
    BY <1>5 DEF Tick, callVars, resultVars, handlerVars, allVars, vars
  <2>4. \A o \in Session : UNCHANGED PartOf(o)
    BY <2>3 DEF PartOf
  <2>5. QED
    BY <1>0, <1>1, <2>1, <2>2, <2>4, SameSession
<1>6. ASSUME NEW c \in Session, Operation(c)
      PROVE  Moves(c)
  BY <1>6, UploadMoves, DownloadMoves, OtherMoves DEF Operation
<1>7. QED
  BY <1>2, <1>3, <1>4, <1>5, <1>6, RequestMoves, Ends DEF HandlerNext

-----------------------------------------------------------------------------
(* The theorems.                                                           *)

\* Every operation of ConnectionHandler.cpp calls the methods of DatabaseHandler
\* as its module allows (with a number its last call returned and digests that
\* exist), so that each theorem about DatabaseHandler holds of every client's
\* session as well.
THEOREM HandlerUses == HandlerSpec => Spec /\ []HandlerInv
<1>1. HandlerInit => Init /\ IInv /\ HandlerInv
  BY InitInvariant, InitHandler DEF HandlerInit
<1>2. IInv /\ HandlerInv /\ [HandlerNext]_allVars => IInv' /\ HandlerInv' /\ [Next]_vars
  BY HandlerStep, NextInvariant
<1>3. QED
  BY <1>1, <1>2, PTL DEF HandlerSpec, Spec

\* Types: no exchange with a client, failure or crash leaves a value the handler
\* cannot hold, and no blob on disk has a name that is no number.
THEOREM HandlerTypesCorrect == HandlerSpec => []HandlerTypeOK
<1>1. HandlerInv => HandlerTypeOK
  BY DEF HandlerInv
<1>2. QED
  BY <1>1, HandlerUses, PTL

=============================================================================
