-------------------------- MODULE ConnectionHandler --------------------------
(***************************************************************************)
(* The ConnectionHandler class: the operations a client asks of its        *)
(* session thread.  An operation is the calls it makes to DatabaseHandler, *)
(* one after the other, with the exchanges with the client and the blobs   *)
(* on disk in between.  A blob is a file named by its number in the folder *)
(* of the user; here its content is its digest.                            *)
(***************************************************************************)
EXTENDS DatabaseHandler

CONSTANTS
    Torn,        \* the digest of a part of an upload
    Operations   \* Operations[c]: the operations the client of c asks for

ASSUME TornAssumption == Torn \in Checksum

VARIABLES
    step,        \* step[c]: where the operation of session c is
    disk,        \* disk[u][b]: the content of blob b of user u, Null if there is no file
    data,        \* data[c]: the content the client uploads, or was sent
    last,        \* last[c]: lastVersion in downloadLastVersion
    reply        \* reply[c]: how the last operation of c was answered

handlerVars == <<step, disk, data, last, reply>>
allVars == <<vars, handlerVars>>

\* The table of the constructor, and the method each operation calls first.
MethodOf == [logIn |-> "logUser", signIn |-> "registerUser", uploadFile |-> "existsFile",
    removeFile |-> "removeFile", deleteFile |-> "deleteFile",
    getFileVersions |-> "getFileVersions", downloadPreviousVersion |-> "getBlob",
    getDeletedFiles |-> "getDeletedFiles", getUserFolder |-> "getUserFolder",
    getUserPath |-> "getPath", downloadLastVersion |-> "getLastBlob"]

ASSUME OperationsAssumption == Operations \in [Session -> SUBSET DOMAIN MethodOf]

Downloads == {"downloadPreviousVersion", "downloadLastVersion"}
UploadSteps == {"uploadFile", "store", "receive", "digest", "record"}
DownloadSteps == Downloads \cup {"send", "confirm", "compare", "match", "restore", "mark"}
Steps == DOMAIN MethodOf \cup UploadSteps \cup DownloadSteps \cup {"ready", "path", "spin", "ended"}

Blobs(c) == disk[UserOf[c]]

HandlerInit ==
    /\ Init
    /\ step = [c \in Session |-> "ready"]
    /\ disk = [u \in User |-> [b \in Blob |-> Null]]
    /\ data = [c \in Session |-> Null]
    /\ last = [c \in Session |-> Null]
    /\ reply = [c \in Session |-> "none"]

-----------------------------------------------------------------------------
(* How an operation goes on.                                               *)

Goes(c, s) == step' = [step EXCEPT ![c] = s]

\* The operation at step s continues after its method ended in one of these ways.
Returned(c, s, answers) == step[c] = s /\ at[c] = "idle" /\ answer[c] \in answers

\* Call method m, to continue at step s.
CallThen(c, m, digest, s) ==
    /\ Call(c, m, file[c], digest)
    /\ Goes(c, s)
    /\ UNCHANGED reply

\* Answer the client and wait for its next operation.
Reply(c, r) ==
    /\ Goes(c, "ready")
    /\ reply' = [reply EXCEPT ![c] = r]
    /\ data' = [data EXCEPT ![c] = Null]
    /\ last' = [last EXCEPT ![c] = Null]
    /\ UNCHANGED vars

\* An exception that no handler catches ends the loop of the thread.
EndSession(c) ==
    /\ Leave(c)
    /\ Goes(c, "ended")
    /\ UNCHANGED <<disk, data, last, reply>>

\* ifstream::eof never holds of a stream that did not open.
ReadForever(c) == Goes(c, "spin") /\ UNCHANGED <<vars, disk, data, last, reply>>

Request(c, op, f, content) ==
    /\ step[c] = "ready"
    /\ op \in Operations[c]
    /\ Call(c, MethodOf[op], IF MethodOf[op] \in Unnamed THEN file[c] ELSE f, Torn)
    /\ Goes(c, op)
    /\ data' = [data EXCEPT ![c] = IF op = "uploadFile" THEN content ELSE Null]
    /\ reply' = [reply EXCEPT ![c] = "none"]
    /\ UNCHANGED <<disk, last>>

-----------------------------------------------------------------------------
(* uploadFile                                                              *)

StoreVersion(c) ==
    /\ Returned(c, "uploadFile", Answers)
    /\ CallThen(c, IF answer[c] = "ok" THEN "createNewBlobForFile" ELSE "createFileForUser",
                Torn, "store")
    /\ UNCHANGED <<disk, data, last>>

\* The blob is opened for writing, and so emptied, before any byte arrives.
OpenBlob(c) ==
    \/ Returned(c, "store", {"throws"}) /\ EndSession(c)
    \/ Returned(c, "store", {"ok"}) /\ Reply(c, "ERR") /\ UNCHANGED disk
    \/ /\ Returned(c, "store", {"ok"})
       /\ disk' = [disk EXCEPT ![UserOf[c]][got[c]] = Torn]
       /\ Goes(c, "receive")
       /\ UNCHANGED <<vars, data, last, reply>>

\* All bytes arrive; or the connection is closed or fails, and the blob is deleted.
Receive(c) ==
    /\ step[c] = "receive"
    /\ \/ /\ disk' = [disk EXCEPT ![UserOf[c]][got[c]] = data[c]]
          /\ Goes(c, "digest")
          /\ UNCHANGED <<vars, data, last, reply>>
       \/ /\ disk' = [disk EXCEPT ![UserOf[c]][got[c]] = Null]
          /\ \/ Reply(c, "ERR")
             \/ Leave(c) /\ Goes(c, "ended") /\ UNCHANGED <<data, last, reply>>

\* Mutants of CompareDigests: the answer comes before addChecksum; what the client
\* says is stored.
AckFirst(c) ==
    /\ step[c] = "digest"
    /\ Blobs(c)[got[c]] = data[c] /\ Reply(c, "OK") /\ UNCHANGED disk

TrustClient(c) ==
    /\ step[c] = "digest"
    /\ \E clientSha \in Checksum : CallThen(c, "addChecksum", clientSha, "record")
    /\ UNCHANGED <<disk, data, last>>

\* The server's digest is taken from the disk, and compared with the client's.
CompareDigests(c) ==
    /\ step[c] = "digest"
    /\ \/ Blobs(c)[got[c]] = Null /\ ReadForever(c)
       \/ Blobs(c)[got[c]] # Null /\ Reply(c, "ERR") /\ UNCHANGED disk
       \/ /\ Blobs(c)[got[c]] = data[c]
          /\ CallThen(c, "addChecksum", data[c], "record")
          /\ UNCHANGED <<disk, data, last>>

EndUpload(c) ==
    \/ Returned(c, "record", {"ok"}) /\ Reply(c, "OK") /\ UNCHANGED disk
    \/ Returned(c, "record", {"throws"}) /\ EndSession(c)

-----------------------------------------------------------------------------
(* downloadPreviousVersion and downloadLastVersion                         *)

FindBlob(c) ==
    \/ \E op \in Downloads :
          \/ /\ Returned(c, op, {"ok"})
             /\ Goes(c, "send")
             /\ UNCHANGED <<vars, disk, data, last, reply>>
          \/ Returned(c, op, {"absent"}) /\ Reply(c, "ERR") /\ UNCHANGED disk
    \/ Returned(c, "downloadPreviousVersion", {"throws"}) /\ Reply(c, "none") /\ UNCHANGED disk
    \/ Returned(c, "downloadLastVersion", {"throws"}) /\ Reply(c, "ERR") /\ UNCHANGED disk

SendBlob(c) ==
    /\ step[c] = "send"
    /\ IF Blobs(c)[got[c]] = Null THEN ReadForever(c)
       ELSE /\ data' = [data EXCEPT ![c] = Blobs(c)[got[c]]]
            /\ Goes(c, "confirm")
            /\ UNCHANGED <<vars, disk, last, reply>>

\* Mutant of Confirm: a restored version is marked but not added.
MarkOnly(c) ==
    /\ step[c] = "confirm"
    /\ \/ Blobs(c)[got[c]] = Null /\ ReadForever(c)
       \/ Reply(c, "none") /\ UNCHANGED disk
       \/ /\ Blobs(c)[got[c]] = data[c]
          /\ IF method[c] = "getBlob" THEN CallThen(c, "addChecksum", data[c], "mark")
                                      ELSE CallThen(c, "getLastVersion", Torn, "compare")
          /\ UNCHANGED <<disk, data, last>>

\* The client compares what it received with the digest taken from the disk now.
Confirm(c) ==
    /\ step[c] = "confirm"
    /\ \/ Blobs(c)[got[c]] = Null /\ ReadForever(c)
       \/ Reply(c, "none") /\ UNCHANGED disk
       \/ /\ Blobs(c)[got[c]] = data[c]
          /\ IF method[c] = "getBlob" THEN CallThen(c, "addVersion", Torn, "restore")
                                      ELSE CallThen(c, "getLastVersion", Torn, "compare")
          /\ UNCHANGED <<disk, data, last>>

\* downloadLastVersion: is the blob's version the last one?
CompareVersions(c) ==
    \/ /\ Returned(c, "compare", {"ok"})
       /\ last' = [last EXCEPT ![c] = stamp[c]]
       /\ CallThen(c, "getBlobVersion", Torn, "match")
       /\ UNCHANGED <<disk, data>>
    \/ Returned(c, "match", {"ok"}) /\ stamp[c] = last[c] /\ Reply(c, "OK") /\ UNCHANGED disk
    \/ /\ Returned(c, "match", {"ok"})
       /\ stamp[c] # last[c]
       /\ CallThen(c, "addVersion", Torn, "restore")
       /\ UNCHANGED <<disk, data, last>>
    \/ \E s \in {"compare", "match"} :
          Returned(c, s, {"throws"}) /\ Reply(c, "ERR") /\ UNCHANGED disk

\* downloadPreviousVersion deletes its buffer twice after the ERR (507, 509): what
\* that does to the process, if anything, is ServerCrash.
EndRestore(c) ==
    \/ /\ Returned(c, "restore", {"ok"})
       /\ CallThen(c, "addChecksum", data[c], "mark")
       /\ UNCHANGED <<disk, data, last>>
    \/ Returned(c, "mark", {"ok"}) /\ Reply(c, "OK") /\ UNCHANGED disk
    \/ \E s \in {"restore", "mark"} :
          Returned(c, s, {"throws"}) /\ Reply(c, "ERR") /\ UNCHANGED disk

-----------------------------------------------------------------------------
(* The other operations.                                                   *)

\* deleteFile answers OK after its ERR.
EndChange(c) ==
    \/ \E op \in {"removeFile", "deleteFile"} :
          Returned(c, op, {"ok"}) /\ Reply(c, "OK") /\ UNCHANGED disk
    \/ Returned(c, "removeFile", {"throws"}) /\ Reply(c, "ERR") /\ UNCHANGED disk
    \/ Returned(c, "deleteFile", {"throws"}) /\ Reply(c, "OK") /\ UNCHANGED disk

EndListing(c) ==
    \/ \E op \in {"getFileVersions", "getDeletedFiles", "getUserFolder", "getUserPath"} :
          Returned(c, op, {"ok"}) /\ Reply(c, "OK") /\ UNCHANGED disk
    \/ \E op \in {"getFileVersions", "getDeletedFiles"} :
          Returned(c, op, {"throws"}) /\ EndSession(c)
    \/ \E op \in {"getUserFolder", "getUserPath"} :
          Returned(c, op, {"throws"}) /\ Reply(c, "ERR") /\ UNCHANGED disk

\* logIn answers OK and then reads the user's folder.
EndLogIn(c) ==
    \/ Returned(c, "logIn", {"absent"}) /\ Reply(c, "ERR") /\ UNCHANGED disk
    \/ /\ Returned(c, "logIn", {"ok"})
       /\ CallThen(c, "getPath", Torn, "path")
       /\ UNCHANGED <<disk, data, last>>
    \/ Returned(c, "path", {"ok"}) /\ Reply(c, "OK") /\ UNCHANGED disk
    \/ Returned(c, "path", {"throws"}) /\ EndSession(c)

EndSignIn(c) ==
    \/ Returned(c, "signIn", {"ok"}) /\ Reply(c, "OK") /\ UNCHANGED disk
    \/ Returned(c, "signIn", {"throws"}) /\ Reply(c, "ERR") /\ UNCHANGED disk

-----------------------------------------------------------------------------
Operation(c) ==
    \/ StoreVersion(c) \/ OpenBlob(c) \/ Receive(c) \/ CompareDigests(c) \/ EndUpload(c)
    \/ FindBlob(c) \/ SendBlob(c) \/ Confirm(c) \/ CompareVersions(c) \/ EndRestore(c)
    \/ EndChange(c) \/ EndListing(c) \/ EndLogIn(c) \/ EndSignIn(c)

\* A statement of the method the operation is in.
Statement(c) == Running(c) /\ UNCHANGED handlerVars

\* The disk survives the process.
ServerCrash ==
    /\ Crash
    /\ step' = [c \in Session |-> "ready"]
    /\ data' = [c \in Session |-> Null]
    /\ last' = [c \in Session |-> Null]
    /\ reply' = [c \in Session |-> "none"]
    /\ UNCHANGED disk

HandlerNext ==
    \/ \E c \in Session :
          \/ \E op \in Operations[c], f \in File, content \in Checksum \ {Torn} :
                Request(c, op, f, content)
          \/ Statement(c)
          \/ Operation(c)
          \/ step[c] = "ready" /\ EndSession(c)
    \/ ServerCrash
    \/ Tick /\ UNCHANGED handlerVars

HandlerSpec == HandlerInit /\ [][HandlerNext]_allVars

\* Threads are scheduled, and a client that began an operation goes through with it.
FairHandlerSpec ==
    /\ HandlerSpec
    /\ \A c \in Session :
          /\ WF_allVars(Statement(c))
          /\ WF_allVars(Operation(c))
    /\ WF_allVars(ServerCrash /\ \E c \in Session : at[c] = "abort")

-----------------------------------------------------------------------------
(* Properties.                                                             *)

HandlerTypeOK ==
    /\ TypeOK
    /\ step \in [Session -> Steps]
    /\ disk \in [User -> [Blob -> Checksum \cup {Null}]]
    /\ data \in [Session -> Checksum \cup {Null}]
    /\ last \in [Session -> Stamps \cup {Null}]
    /\ reply \in [Session -> {"none", "OK", "ERR"}]

\* The checksum of a version is that of its blob, through uploads that break off,
\* removed files whose numbers are used again, restored versions and crashes: what
\* getUserFolder tells a client to compare with is what a download delivers.
ChecksumOfContent ==
    \A r \in db.versions : r.checksum # Null => disk[r.user][r.blob] = r.checksum

\* An upload answered with OK (ConnectionHandler.cpp:205) is in the file, with the
\* digest of what the client sent, and on disk: a crash after the answer loses nothing.
UploadDurable ==
    [][\A c \in Session :
          step[c] \in UploadSteps /\ step'[c] = "ready" /\ reply'[c] = "OK" =>
              /\ disk'[UserOf[c]][got[c]] = data[c]
              /\ \E r \in RowsOf(db'.versions, UserOf[c], file[c]) :
                     r.blob = got[c] /\ r.checksum = data[c]]_allVars

\* Another file of the user has a version of this number: only of number 0, which
\* the date of a deletion reads (DatabaseHandler.cpp:1023).
Shared(c) ==
    \E r \in db.versions : r.user = UserOf[c] /\ r.blob = got[c] /\ r.file # file[c]

\* After a download answered with OK (ConnectionHandler.cpp:503, 641, 648) the last
\* version of the file is the one the client received, with the digest of that or
\* with none.  Left out is the one answer (641) that compares with the version of a
\* number (getBlobVersion, by number alone) which another file has too.
DownloadedIsLast ==
    [][\A c \in Session :
          /\ step[c] \in DownloadSteps /\ step'[c] = "ready" /\ reply'[c] = "OK"
          /\ ~(step[c] = "match" /\ Shared(c))
          => \E r \in Last(RowsOf(db'.versions, UserOf[c], file[c])) :
                 r.blob = got[c] /\ r.checksum \in {data[c], Null}]_allVars

\* A read-only operation never waits for a writer, whatever another session holds,
\* also the mutex or a file lock: its thread comes to the end of the operation.  That
\* is not always an answer: logIn and the two listings may leave the loop with an
\* exception ("ended"), and getUserFolder ends the process, without a word to any
\* client, at the NULL checksum of a version ("abort", DatabaseHandler.cpp:315).
ReadersNeverWait ==
    \A c \in Session :
        (step[c] \in {"logIn", "path", "getUserPath", "getUserFolder", "getDeletedFiles",
                     "getFileVersions"})
            ~> (step[c] \in {"ready", "ended"} \/ at[c] = "abort")

\* signIn succeeded (ConnectionHandler.cpp:825): the user it answered OK for is in USERS.
SignedInRegistered ==
    [][\A c \in Session :
          step[c] = "signIn" /\ reply'[c] = "OK" => UserOf[c] \in db'.users]_allVars

\* downloadLastVersion answers "to avoid the client to wait for me till the end of
\* the days" (ConnectionHandler.cpp:659).
LastVersionAnswered ==
    \A c \in Session : (step[c] = "downloadLastVersion") ~> (step[c] \in {"ready", "ended"})

=============================================================================
