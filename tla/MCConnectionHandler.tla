------------------------ MODULE MCConnectionHandler ------------------------
(* Instances of ConnectionHandler for TLC.                                 *)
EXTENDS ConnectionHandler, TimestampText, TLC

CONSTANTS c1, c2, u1, u2, f1, f2, x, y

OneUser == [c \in Session |-> u1]
TwoUsers == (c1 :> u1) @@ (c2 :> u2)

\* The seconds of the clock, from the last one of a day of October 2015 on.
Midnight(day) ==
    [t \in Time |->
        [year |-> 2015, month |-> 10, day |-> IF t = 1 THEN day ELSE day + 1,
         hour |-> IF t = 1 THEN 23 ELSE 0, min |-> IF t = 1 THEN 59 ELSE 0,
         sec |-> IF t = 1 THEN 59 ELSE t - 2]]

\* Texts that order as the times do.
InOrder == Ranks(Midnight(10))

AnyMethod == [c \in Session |-> AllMethods]

\* A client that registers and does all that changes a file.
OneClient == [c \in Session |->
    {"signIn", "uploadFile", "removeFile", "deleteFile", "downloadPreviousVersion",
     "downloadLastVersion"}]

\* One user registers while another changes a file.
TwoClients == (c1 :> {"signIn", "logIn"})
              @@ (c2 :> {"uploadFile", "removeFile", "downloadLastVersion"})

\* One device of a user changes a file, the other logs in and reads.
TwoDevices == (c1 :> {"uploadFile", "removeFile"})
              @@ (c2 :> {"logIn", "getUserPath", "getUserFolder", "getFileVersions", "downloadLastVersion",
                         "getDeletedFiles"})

Interchangeable ==
    {n @@ d : n \in Permutations({f1, f2}), d \in Permutations({x, y})}

=============================================================================
