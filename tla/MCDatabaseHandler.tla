------------------------- MODULE MCDatabaseHandler -------------------------
(* Instances of DatabaseHandler for TLC.                                   *)
EXTENDS DatabaseHandlerProofs, DatabaseHistory, TimestampText, TLC

CONSTANTS c1, c2, u1, u2

\* Two devices of one user, or one session for each of two users.
OneUser == [c \in Session |-> u1]
TwoUsers == (c1 :> u1) @@ (c2 :> u2)

\* The seconds of the clock, from the last one of a day of October 2015 on.
Midnight(day) ==
    [t \in Time |->
        [year |-> 2015, month |-> 10, day |-> IF t = 1 THEN day ELSE day + 1,
         hour |-> IF t = 1 THEN 23 ELSE 0, min |-> IF t = 1 THEN 59 ELSE 0,
         sec |-> IF t = 1 THEN 59 ELSE t - 2]]

\* Texts that order as the times do; and the turn of a month's ninth to its
\* tenth day, where the later text is the smaller one.
InOrder == Ranks(Midnight(10))
NinthToTenth == Ranks(Midnight(9))

\* What the clients of an instance cause to be called.
FileMethods == {"createFileForUser", "createNewBlobForFile", "deleteFile",
                "removeFile", "addChecksum", "getBlob", "addVersion"}
Files == [c \in Session |-> FileMethods]

Registering == (c1 :> {"createFileForUser", "createNewBlobForFile", "deleteFile", "addVersion",
                       "removeFile", "addChecksum"})
               @@ (c2 :> {"registerUser", "logUser", "createFileForUser"})

Reading == (c1 :> {"createFileForUser", "createNewBlobForFile", "deleteFile", "removeFile",
                   "addChecksum"})
           @@ (c2 :> {"existsFile", "logUser", "getPath", "getBlob", "getLastBlob",
                      "getLastVersion", "getBlobVersion", "getUserFolder",
                      "getDeletedFiles", "getFileVersions"})

Clients == Permutations({c1, c2})

=============================================================================
