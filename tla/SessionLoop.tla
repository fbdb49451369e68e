----------------------------- MODULE SessionLoop -----------------------------
(***************************************************************************)
(* The thread of a connection: the loop of ConnectionHandler::operator(),  *)
(* what each operation receives from the socket before it acts, and the    *)
(* state a session keeps from one operation to the next.  What DatabaseHandler *)
(* does with an operation is one step here; DatabaseHandler and            *)
(* ConnectionHandler have its detail.                                      *)
(*                                                                         *)
(* The client sends a request piece by piece, and waits for an answer      *)
(* where the server gives one.  A piece arrives whole and by itself, as    *)
(* the comments at ConnectionHandler.cpp:672 and 164 assume.  An answer is *)
(* OK, or content, a listing or a digest; or it is ERR, or the number -1.  *)
(***************************************************************************)
EXTENDS Integers, Sequences

CONSTANTS
    Conn,         \* connections
    Word,         \* what names, passwords and folders are made of
    Credentials,  \* what clients sign in with: user, password and folder
    FileNames,    \* names of files: directories and a name
    Folders,      \* what clients send to setUserPath
    Asked,        \* Asked[c]: the operations the client of c may ask for
    MaxText,      \* bound: the length from which a text is too long
    MaxAsk        \* bound: MaxAsk[c], the requests of the client of c

VARIABLES
    peer,        \* peer[c]: what the client's end of the connection is
    plan,        \* plan[c]: what the client has yet to send and to wait for
    request,     \* request[c]: the operation it asked for last
    named,       \* named[c]: the file it asked it for
    asks,        \* asks[c]: how many it asked for
    answers,     \* answers[c]: what the server sent and the client has not read
    surplus,     \* surplus[c]: a request was given two answers for one (history)
    wire,        \* wire[c]: pieces sent and not received
    at,          \* at[c]: where the thread is
    code,        \* code[c]: the operation in the buffer of operator()
    heard,       \* heard[c]: what the running operation received
    user, logged, folderPath,   \* of the ConnectionHandler of c
    users,       \* the table USERS
    files,       \* the table FILES: a user, and a name without his folder
    deleted      \* the files whose last version is a deletion

clientVars == <<plan, request, named, asks>>
sendVars == <<peer, answers, surplus>>
threadVars == <<at, code, heard>>
sessionVars == <<user, logged, folderPath>>
tableVars == <<users, files, deleted>>
vars == <<clientVars, sendVars, wire, threadVars, sessionVars, tableVars>>

Downloads == {"downloadPreviousVersion", "downloadLastVersion"}
Known == Downloads \cup {"logIn", "signIn", "uploadFile", "removeFile", "deleteFile",
    "getFileVersions", "getDeletedFiles", "getUserFolder", "getUserPath", "setUserPath"}
Codes == Known \cup {"exit", "unknown"}

ASSUME ClientAssumption == Asked \in [Conn -> SUBSET Codes] /\ MaxAsk \in [Conn -> Nat]

\* A text of memory nobody wrote.
Rubbish == <<"?">>
\* Passwords and dates do not matter here, but that they were sent.
Sent == <<"sent">>

\* The length of a content, whatever it is.
Some == <<0>>

\* What a client says of the content and of the digest it received.
Yes == <<"OK">>
No == <<"NO">>

\* What a piece carries: a code, a number or words.
Texts == Seq(Word \cup Codes \cup {"?", "sent", "OK", "NO"} \cup Nat)

ASSUME TextAssumption ==
    /\ Credentials \subseteq [user : Texts, password : Texts, folder : Texts]
    /\ FileNames \subseteq Texts \ {<<>>} /\ Folders \subseteq Texts
    /\ MaxText \in Nat /\ MaxText > 1

Init ==
    /\ peer = [c \in Conn |-> "away"]
    /\ plan = [c \in Conn |-> <<>>]
    /\ request = [c \in Conn |-> "nothing"]
    /\ named = [c \in Conn |-> <<>>]
    /\ asks = [c \in Conn |-> 0]
    /\ answers = [c \in Conn |-> <<>>]
    /\ surplus = [c \in Conn |-> FALSE]
    /\ wire = [c \in Conn |-> <<>>]
    /\ at = [c \in Conn |-> "accept"]
    /\ code = [c \in Conn |-> "logIn"]      \* the buffer is zeroed, and logIn is 0
    /\ heard = [c \in Conn |-> <<>>]
    /\ user = [c \in Conn |-> <<>>]
    /\ logged = [c \in Conn |-> FALSE]
    /\ folderPath = [c \in Conn |-> <<>>]
    /\ users = {} /\ files = {} /\ deleted = {}

-----------------------------------------------------------------------------
(* The client and the network.                                             *)

Piece(kind, text) == [kind |-> kind, text |-> text]
Wait == Piece("wait", <<>>)

\* The name of a file, after its length.
Named(file) == <<Piece("length", <<Len(file)>>), Piece("file", file)>>

\* A client that finds content or digest wrong says so and asks for nothing more.
Checked(n) ==
    CASE n = 0 -> <<Piece("confirm", No)>>
      [] n = 1 -> <<Piece("confirm", Yes), Wait, Piece("confirm", No)>>
      [] OTHER -> <<Piece("confirm", Yes), Wait, Piece("confirm", Yes), Wait>>

\* The pieces of a request, as each operation reads them, and its answers.
Request(op, who, file, folder, n) ==
    <<Piece("code", <<op>>)>> \o
    CASE op = "logIn" -> <<Piece("user", who.user), Wait, Piece("password", who.password), Wait>>
      [] op = "signIn" -> <<Piece("user", who.user), Wait, Piece("password", who.password), Wait,
                            Piece("folder", who.folder), Wait, Wait>>
      [] op = "uploadFile" -> <<Piece("file", file), Wait, Piece("length", Some),
                                Piece("content", Sent), Wait, Piece("digest", Sent), Wait>>
      [] op \in {"removeFile", "deleteFile"} -> <<Piece("file", file), Wait>>
      [] op = "getFileVersions" -> Named(file) \o <<Wait>>
      [] op = "downloadLastVersion" -> Named(file) \o <<Wait, Wait>> \o Checked(n)
      [] op = "downloadPreviousVersion" ->
            Named(file) \o <<Wait, Piece("length", <<1>>), Piece("date", Sent), Wait, Wait>>
                \o Checked(n)
      [] op = "setUserPath" -> <<Piece("folder", folder)>>     \* it is not answered
      [] op \in {"getDeletedFiles", "getUserFolder", "getUserPath"} -> <<Wait>>
      [] OTHER -> <<>>

\* recv would take a code for a part of the text before it, so the client lets
\* what it sent be received.
Ask(c, op, who, file, folder, n) ==
    /\ peer[c] = "open" /\ plan[c] = <<>> /\ wire[c] = <<>>
    /\ request[c] # "exit" /\ asks[c] < MaxAsk[c]
    /\ LET r == Request(op, who, file, folder, n)
       IN  plan' = [plan EXCEPT ![c] = Tail(r)] /\ wire' = [wire EXCEPT ![c] = <<Head(r)>>]
    /\ request' = [request EXCEPT ![c] = op]
    /\ named' = [named EXCEPT ![c] = file]
    /\ asks' = [asks EXCEPT ![c] = @ + 1]
    /\ UNCHANGED <<sendVars, threadVars, sessionVars, tableVars>>

\* The client goes on with its request, and gives it up after an ERR.  It takes
\* the next answer for that to its request.
GoOn(c) ==
    /\ peer[c] = "open" /\ plan[c] # <<>>
    /\ \/ /\ Head(plan[c]) # Wait
          /\ plan' = [plan EXCEPT ![c] = Tail(@)]
          /\ wire' = [wire EXCEPT ![c] = Append(@, Head(plan[c]))]
          /\ UNCHANGED answers
       \/ /\ Head(plan[c]) = Wait /\ answers[c] # <<>>
          /\ plan' = [plan EXCEPT ![c] = IF Head(answers[c]) = "OK" THEN Tail(@) ELSE <<>>]
          /\ answers' = [answers EXCEPT ![c] = Tail(@)]
          /\ UNCHANGED wire
    /\ UNCHANGED <<peer, surplus, request, named, asks, threadVars, sessionVars, tableVars>>

Leave(c, end) ==
    /\ peer' = [peer EXCEPT ![c] = end]
    /\ plan' = [plan EXCEPT ![c] = <<>>]
    /\ answers' = [answers EXCEPT ![c] = <<>>]
    /\ wire' = [wire EXCEPT ![c] = IF end = "reset" THEN <<>> ELSE @]
    /\ UNCHANGED <<surplus, request, named, asks, threadVars, sessionVars, tableVars>>

\* The client closes its socket in good order, anywhere in a request.
Close(c) == peer[c] = "open" /\ Leave(c, "closed")

\* It disappears, and the network says so.
Break(c) == peer[c] \in {"open", "closed"} /\ Leave(c, "reset")

\* What the server sent to a closed socket is answered with a reset.
Refuse(c) == peer[c] = "refusing" /\ Leave(c, "reset")

-----------------------------------------------------------------------------
(* recv and send.                                                          *)

CanRecv(c) == wire[c] # <<>> \/ peer[c] \in {"closed", "refusing", "reset"}

\* What recv returns, and what it leaves in an empty buffer.
Got(c) == IF peer[c] = "reset" THEN -1 ELSE IF wire[c] = <<>> THEN 0 ELSE 1
Text(c) == IF Got(c) = 1 THEN Head(wire[c]).text ELSE <<>>

TooLong(c) == Len(Text(c)) >= MaxText

Recv(c) ==
    /\ CanRecv(c)
    /\ wire' = [wire EXCEPT ![c] = IF Got(c) = 1 THEN Tail(@) ELSE @]

\* One answer after the other.
Answer(c, given) ==
    /\ answers' = [answers EXCEPT ![c] = IF peer[c] = "open" THEN @ \o given ELSE @]
    /\ peer' = [peer EXCEPT ![c] = IF @ = "closed" THEN "refusing" ELSE @]

Send(c, given) == Answer(c, given) /\ UNCHANGED surplus

\* More answers than the client of the operation waits for.
SendTwice(c, given) == Answer(c, given) /\ surplus' = [surplus EXCEPT ![c] = TRUE]

Ok == <<"OK">>
Err == <<"ERR">>

Silent == UNCHANGED sendVars

\* How an operation goes on: back to the loop, out of it with an exception,
\* round and round, or with the next recv.
Goes(c, s) == at' = [at EXCEPT ![c] = s] /\ heard' = [heard EXCEPT ![c] = <<>>]
Return(c) == Goes(c, "loop")
Throw(c) == Goes(c, "ended")
Spin(c) == Goes(c, "spin")
Hear(c, text) == heard' = [heard EXCEPT ![c] = Append(@, text)] /\ UNCHANGED at

Same == UNCHANGED <<sessionVars, tableVars>>

\* The kinds of pieces an operation receives, in their order.
Receives(op) ==
    CASE op = "logIn" -> <<"user", "password">>
      [] op = "signIn" -> <<"user", "password", "folder">>
      [] op = "uploadFile" -> <<"file", "length", "content", "digest">>
      [] op \in {"removeFile", "deleteFile"} -> <<"file">>
      [] op = "getFileVersions" -> <<"length", "file">>
      [] op = "downloadLastVersion" -> <<"length", "file", "confirm", "confirm">>
      [] op = "downloadPreviousVersion" ->
            <<"length", "file", "length", "date", "confirm", "confirm">>
      [] op = "setUserPath" -> <<"folder">>
      [] OTHER -> <<>>

\* The operation is at its recv number n + 1.
Reading(c, op, n) ==
    /\ at[c] = "reading" /\ code[c] = op /\ Len(heard[c]) = n
    /\ Recv(c)
    /\ Got(c) = 1 => Head(wire[c]).kind = Receives(op)[n + 1]
    /\ UNCHANGED <<clientVars, code>>

\* A thread that takes one thing for another, a length for a name or content for
\* a code, is not followed any further.
Astray(c) ==
    /\ wire[c] # <<>>
    /\ \/ at[c] = "loop" /\ Head(wire[c]).kind = "content"
       \/ at[c] = "reading" /\ Head(wire[c]).kind # Receives(code[c])[Len(heard[c]) + 1]
    /\ at' = [at EXCEPT ![c] = "astray"]
    /\ UNCHANGED <<clientVars, sendVars, wire, code, heard, sessionVars, tableVars>>

-----------------------------------------------------------------------------
(* The loop.                                                               *)

\* accept() and the new thread.
Accept(c) ==
    /\ peer[c] = "away"
    /\ peer' = [peer EXCEPT ![c] = "open"]
    /\ at' = [at EXCEPT ![c] = "loop"]
    /\ UNCHANGED <<clientVars, answers, surplus, wire, code, heard, sessionVars, tableVars>>

\* Everything but deleteFile lets a session in that has a name, logged or not.
Refused(c, op) ==
    /\ op \notin {"logIn", "signIn"}
    /\ ~logged[c] /\ (op = "deleteFile" \/ user[c] = <<>>)

\* The operation, up to its first recv.
Perform(c, op) ==
    /\ code' = [code EXCEPT ![c] = op]
    /\ CASE op \notin Known -> Throw(c) /\ Silent
         [] op \in Known /\ Refused(c, op) ->
               /\ Return(c)
               /\ IF op \in {"uploadFile", "getUserFolder", "getUserPath"}
                  THEN Send(c, Err) ELSE Silent
         [] op = "getDeletedFiles" /\ ~Refused(c, op) ->
               \/ Return(c) /\ Send(c, Ok)
               \/ Throw(c) /\ Silent
         [] op \in {"getUserFolder", "getUserPath"} /\ ~Refused(c, op) ->
               Return(c) /\ \E answer \in {Ok, Err} : Send(c, answer)
         [] OTHER -> Goes(c, "reading") /\ Silent

\* An error ends the thread; at the end of the stream the code of the last
\* operation is still in the buffer.  The first bytes of a text make a number
\* that is no operation; the length of a name (four or more, "C:\f") or of a date
\* may make one, that of a content any.
Loop(c) ==
    /\ at[c] = "loop"
    /\ Recv(c)
    /\ \/ Got(c) = -1 /\ Throw(c) /\ Silent /\ UNCHANGED code
       \/ Got(c) = 0 /\ Perform(c, code[c])
       \/ /\ Got(c) = 1 /\ Head(wire[c]).kind # "content"
          /\ \E op \in Codes :
                /\ CASE Head(wire[c]).kind = "code" -> op = Text(c)[1]
                     [] Head(wire[c]).kind = "length" ->
                            \/ Text(c) = Some
                            \/ op \notin {"exit", "logIn", "signIn", "uploadFile", "removeFile"}
                     [] OTHER -> op = "unknown"
                /\ Perform(c, op)
    /\ Same /\ UNCHANGED clientVars

-----------------------------------------------------------------------------
(* logIn and signIn.                                                       *)

\* ConnectionHandler::folderPath is left alone by signIn, which assigns a local
\* of that name (829).
Becomes(c, name, yes, folder) ==
    /\ user' = [user EXCEPT ![c] = name]
    /\ logged' = [logged EXCEPT ![c] = yes]
    /\ folderPath' = [folderPath EXCEPT ![c] = folder]
    /\ UNCHANGED tableVars

\* logUser and getPath; a refused logIn ends the authentication there was.
Authenticate(c, name) ==
    \/ \E row \in users :
          /\ row.user = name
          /\ Send(c, Ok)
          /\ \/ Becomes(c, name, TRUE, row.folder) /\ Return(c)
             \/ Becomes(c, name, TRUE, folderPath[c]) /\ Throw(c)
    \/ Send(c, Err) /\ Becomes(c, <<>>, FALSE, <<>>) /\ Return(c)

LogInName(c) ==
    /\ Reading(c, "logIn", 0)
    /\ \/ Got(c) = 0 /\ Throw(c) /\ Silent
       \/ Got(c) # 0 /\ TooLong(c) /\ Send(c, Err) /\ Return(c)
       \/ Got(c) # 0 /\ ~TooLong(c) /\ Send(c, Ok) /\ Hear(c, Text(c))
    /\ Same

\* After an error the buffer still holds the name.
LogInPassword(c) ==
    LET missing == heard[c][1] = <<>> \/ (Got(c) = 1 /\ Text(c) = <<>>)
    IN  /\ Reading(c, "logIn", 1)
        /\ \/ Got(c) = 0 /\ Throw(c) /\ Silent /\ Same
           \/ /\ Got(c) # 0 /\ (TooLong(c) \/ missing)
              /\ Send(c, Err) /\ Return(c) /\ Same
           \/ /\ Got(c) # 0 /\ ~TooLong(c) /\ ~missing
              /\ Authenticate(c, heard[c][1])

\* signIn takes what recv left in its buffer, also when it failed or there was
\* nothing.
Credential(c) ==
    CASE Got(c) = -1 -> IF heard[c] = <<>> THEN Rubbish ELSE heard[c][Len(heard[c])]
      [] OTHER -> Text(c)

SignInText(c) ==
    /\ \E n \in {0, 1} : Reading(c, "signIn", n)
    /\ Send(c, Ok)
    /\ Hear(c, Credential(c))
    /\ Same

\* registerUser, whose primary key is the user, may also throw.  The session is
\* logged in also when CreateDirectory fails, with ERR and OK (836, 847).
SignInFolder(c) ==
    LET name == heard[c][1]
    IN  /\ Reading(c, "signIn", 2)
        /\ Return(c)
        /\ \/ Send(c, Ok \o Err) /\ Same
           \/ /\ \A row \in users : row.user # name
              /\ users' = users \cup
                    {[user |-> name, password |-> heard[c][2], folder |-> Credential(c)]}
              /\ user' = [user EXCEPT ![c] = name]
              /\ logged' = [logged EXCEPT ![c] = TRUE]
              /\ Send(c, Ok \o Ok) \/ SendTwice(c, Ok \o Err \o Ok)
              /\ UNCHANGED <<folderPath, files, deleted>>

-----------------------------------------------------------------------------
(* The operations on a file.                                               *)

\* Mutant of InFolder: the check is missing.
AnyFolder(name, folder) == TRUE

\* path.find(folderPath) # npos: the folder may be anywhere in the name.
InFolder(name, folder) ==
    \E i \in 0 .. Len(name) - Len(folder) :
        SubSeq(name, i + 1, i + Len(folder)) = folder

\* path.erase(0, folderPath.size())
WithoutFolder(name, folder) == SubSeq(name, Len(folder) + 1, Len(name))

KeyOf(c, name) == <<user[c], WithoutFolder(name, folderPath[c])>>
Key(c) == KeyOf(c, Text(c))
Nameless(c, name) == WithoutFolder(name, folderPath[c]) = <<>>

\* The directories of the name read in recv.
Directories(c) == SubSeq(Text(c), 1, Len(Text(c)) - 1)

\* The name read in recv is a file of the user's folder.
Accepted(c) == InFolder(Directories(c), folderPath[c])

UploadName(c) ==
    /\ Reading(c, "uploadFile", 0)
    /\ \/ Got(c) = 0 /\ Throw(c) /\ Silent /\ Same
       \/ /\ Got(c) # 0 /\ (TooLong(c) \/ ~Accepted(c))
          /\ Send(c, Err) /\ Return(c) /\ Same
       \/ /\ Got(c) # 0 /\ ~TooLong(c) /\ Accepted(c)
          /\ \/ Throw(c) /\ Silent /\ Same
             \/ /\ files' = files \cup {Key(c)}
                /\ deleted' = deleted \ {Key(c)}
                /\ UNCHANGED <<users, sessionVars>>
                /\ \/ Send(c, Ok) /\ Hear(c, Text(c))
                   \/ Send(c, Err) /\ Return(c)

\* The length is not initialized when recv fails: none or some content.
UploadLength(c) ==
    /\ Reading(c, "uploadFile", 1)
    /\ \/ Hear(c, Text(c)) /\ Silent
       \/ /\ Got(c) # 1
          /\ Send(c, Ok)
          /\ heard' = [heard EXCEPT ![c] = @ \o <<Text(c), Text(c)>>]
          /\ UNCHANGED at
    /\ Same

\* Mutant of UploadContent: the answer between the content and its digest is missing.
NoAnswer(c) ==
    /\ Reading(c, "uploadFile", 2)
    /\ \/ Got(c) = 0 /\ Throw(c) /\ Silent
       \/ Got(c) = -1 /\ Send(c, Err) /\ Return(c)
       \/ Got(c) = 1 /\ Silent /\ Hear(c, Text(c))
    /\ Same

UploadContent(c) ==
    /\ Reading(c, "uploadFile", 2)
    /\ \/ Got(c) = 0 /\ Throw(c) /\ Silent
       \/ Got(c) = -1 /\ Send(c, Err) /\ Return(c)
       \/ Got(c) = 1 /\ Send(c, Ok) /\ Hear(c, Text(c))
    /\ Same

\* The digests agree and addChecksum succeeds, or throws; or they do not agree.
UploadDigest(c) ==
    /\ Reading(c, "uploadFile", 3)
    /\ \/ Got(c) = 1 /\ Send(c, Ok) /\ Return(c)
       \/ Got(c) = 1 /\ Throw(c) /\ Silent
       \/ Send(c, Err) /\ Return(c)
    /\ Same

\* Mutant of RemoveFile: the versions of the file stay.
OnlyTheRow(c) ==
    /\ Reading(c, "removeFile", 0)
    /\ Got(c) = 1 /\ ~TooLong(c) /\ Return(c) /\ Send(c, Ok)
    /\ files' = files \ {Key(c)}
    /\ UNCHANGED <<users, deleted, sessionVars>>

\* receiveString gives "" for a text that is too long and for an error.  Then
\* removeFile looks for a backslash outside of it, and cannot go on.
RemoveFile(c) ==
    /\ Reading(c, "removeFile", 0)
    /\ \/ Got(c) = 0 /\ Throw(c) /\ Silent /\ Same
       \/ (Got(c) = -1 \/ TooLong(c)) /\ Throw(c) /\ Send(c, Err) /\ Same
       \/ /\ Got(c) = 1 /\ ~TooLong(c) /\ Return(c)
          /\ \/ Send(c, Err) /\ Same
             \/ /\ files' = files \ {Key(c)}
                /\ deleted' = deleted \ {Key(c)}
                /\ UNCHANGED <<users, sessionVars>>
                /\ Send(c, Ok)

\* receiveString and deleteFile both answer a name that is too long (911, 268), and
\* OK follows the ERR of an exception (295, 297).
DeleteFile(c) ==
    /\ Reading(c, "deleteFile", 0)
    /\ \/ Got(c) = 0 /\ Throw(c) /\ Silent /\ Same
       \/ (Got(c) = -1 \/ TooLong(c)) /\ SendTwice(c, Err \o Err) /\ Return(c) /\ Same
       \/ Got(c) = 1 /\ ~TooLong(c) /\ ~Accepted(c) /\ Send(c, Err) /\ Return(c) /\ Same
       \/ /\ Got(c) = 1 /\ ~TooLong(c) /\ Accepted(c) /\ Return(c)
          /\ \/ Send(c, Ok) /\ Same
             \/ SendTwice(c, Err \o Ok) /\ Same
             \/ /\ Key(c) \in files /\ Send(c, Ok)
                /\ deleted' = deleted \cup {Key(c)}
                /\ UNCHANGED <<users, files, sessionVars>>

\* After an error in the name the count of bytes falls for ever.
GetFileVersions(c) ==
    /\ \/ /\ Reading(c, "getFileVersions", 0)
          /\ \/ Got(c) = 1 /\ Hear(c, Text(c)) /\ Silent
             \/ Got(c) # 1 /\ Send(c, Err) /\ Return(c)
       \/ /\ Reading(c, "getFileVersions", 1)
          /\ \/ Got(c) = 0 /\ Return(c) /\ Silent
             \/ Got(c) = -1 /\ Spin(c) /\ Silent
             \/ Got(c) = 1 /\ ~Accepted(c) /\ Send(c, Err) /\ Return(c)
             \/ Got(c) = 1 /\ Accepted(c) /\ Send(c, Ok) /\ Return(c)
             \/ Got(c) = 1 /\ Accepted(c) /\ Throw(c) /\ Silent
    /\ Same

\* The length of the name, and that of a date.
Measuring(c) ==
    (\E op \in Downloads : Reading(c, op, 0)) \/ Reading(c, "downloadPreviousVersion", 2)

\* Mutant of DownloadLength: a name of the largest length is refused too.
AtLimit(c) ==
    /\ Measuring(c)
    /\ \/ Got(c) = 1 /\ Text(c)[1] >= MaxText - 1 /\ Send(c, Err) /\ Return(c)
       \/ Got(c) = 1 /\ Text(c)[1] < MaxText - 1 /\ Hear(c, Text(c)) /\ Silent
       \/ Got(c) # 1 /\ Hear(c, Text(c)) /\ Silent
    /\ Same

\* A length that did not arrive is not initialized: refused, waited for, or zero,
\* which downloadPreviousVersion lets pass (387).  An empty name is in the empty
\* folder only, and has no backslash to stop at (443).  The name of a refused
\* length stays on the wire.
DownloadLength(c) ==
    /\ Measuring(c)
    /\ \/ Got(c) = 1 /\ Text(c)[1] >= MaxText /\ Send(c, Err) /\ Return(c)
       \/ Got(c) = 1 /\ Text(c)[1] < MaxText /\ Hear(c, Text(c)) /\ Silent
       \/ Got(c) # 1 /\ Send(c, Err) /\ Return(c)
       \/ Got(c) # 1 /\ Hear(c, Text(c)) /\ Silent
       \/ /\ Got(c) # 1 /\ code[c] = "downloadPreviousVersion" /\ Send(c, Ok)
          /\ \/ /\ Len(heard[c]) = 0 /\ folderPath[c] = <<>>
                /\ heard' = [heard EXCEPT ![c] = <<<<>>, <<>>>>]
                /\ UNCHANGED at
             \/ /\ Len(heard[c]) = 2
                /\ IF Nameless(c, heard[c][2]) THEN Throw(c) ELSE Return(c)
    /\ Same

\* The blob of the version asked for is looked up and sent (453-477, 562-600):
\* there is none; it is not on the disk, and the sending loop never ends; or the
\* client is to confirm it.  downloadPreviousVersion returns without an answer
\* when getBlob throws (511).
Fetch(c, name) ==
    \/ Nameless(c, name) /\ Throw(c) /\ Send(c, Ok)
    \/ /\ ~Nameless(c, name)
       /\ \/ Return(c) /\ Send(c, Ok \o Err)
          \/ code[c] = "downloadPreviousVersion" /\ Return(c) /\ Send(c, Ok)
          \/ /\ KeyOf(c, name) \in files
             /\ code[c] = "downloadPreviousVersion" => KeyOf(c, name) \notin deleted
             /\ \/ Spin(c) /\ Send(c, Ok)
                \/ Hear(c, Text(c)) /\ Send(c, Ok \o Ok)

\* The loops for the name and for the date add what recv returned, 0 and -1 too.
DownloadName(c) ==
    /\ \E op \in Downloads : Reading(c, op, 1)
    /\ \/ Got(c) # 1 /\ Spin(c) /\ Silent
       \/ Got(c) = 1 /\ ~InFolder(Text(c), folderPath[c]) /\ Send(c, Err) /\ Return(c)
       \/ /\ Got(c) = 1 /\ InFolder(Text(c), folderPath[c])
          /\ IF code[c] = "downloadLastVersion" THEN Fetch(c, Text(c))
             ELSE Hear(c, Text(c)) /\ Send(c, Ok)
    /\ Same

DownloadDate(c) ==
    /\ Reading(c, "downloadPreviousVersion", 3)
    /\ \/ Got(c) # 1 /\ Spin(c) /\ Silent
       \/ Got(c) = 1 /\ Fetch(c, heard[c][2])
    /\ Same

\* What the client says of the content.  After an error the buffer holds the end
\* of the content, which may begin with OK too.  The digest needs the blob, which
\* an upload of another session may have deleted.
DownloadContent(c) ==
    /\ Reading(c, "downloadLastVersion", 2) \/ Reading(c, "downloadPreviousVersion", 4)
    /\ \/ (Got(c) = 1 => Text(c) # Yes) /\ Return(c) /\ Silent
       \/ /\ Got(c) = 1 => Text(c) = Yes
          /\ \/ Hear(c, Text(c)) /\ Send(c, Ok)
             \/ (\E d \in Conn \ {c} : user[d] = user[c]) /\ Spin(c) /\ Silent
    /\ Same

\* addVersion, whose row is the last one.
Restore(c) ==
    /\ deleted' = deleted \ {KeyOf(c, heard[c][2])}
    /\ UNCHANGED <<users, files, sessionVars>>

\* What the client says of the digest.  After an error the buffer still holds the
\* OK of before (490, 613).  addVersion throws, or addChecksum does after it;
\* downloadLastVersion restores only what is not the last version already.
DownloadDigest(c) ==
    /\ Reading(c, "downloadLastVersion", 3) \/ Reading(c, "downloadPreviousVersion", 5)
    /\ Return(c)
    /\ \/ Got(c) = 1 /\ Text(c) # Yes /\ Silent /\ Same
       \/ /\ Got(c) = 1 => Text(c) = Yes
          /\ \/ Send(c, Err) /\ (Same \/ Restore(c))
             \/ Send(c, Ok) /\ Restore(c)
             \/ code[c] = "downloadLastVersion" /\ Send(c, Ok) /\ Same

\* Mutant of SetUserPath: the end of the stream is an empty path.
EmptyPath(c) ==
    /\ Reading(c, "setUserPath", 0)
    /\ folderPath' = [folderPath EXCEPT ![c] = IF Text(c) = <<>> THEN @ ELSE Text(c)]
    /\ Return(c) /\ Silent /\ UNCHANGED <<user, logged, tableVars>>

SetUserPath(c) ==
    /\ Reading(c, "setUserPath", 0)
    /\ \/ Got(c) = 0 /\ Throw(c) /\ Same
       \/ /\ Got(c) # 0 /\ Return(c)
          /\ folderPath' = [folderPath EXCEPT ![c] = IF Text(c) = <<>> THEN @ ELSE Text(c)]
          /\ UNCHANGED <<user, logged, tableVars>>
    /\ Silent

ProcessEnds ==
    /\ at' = [c \in Conn |-> "ended"]
    /\ peer' = [c \in Conn |-> "reset"]
    /\ wire' = [c \in Conn |-> <<>>]
    /\ plan' = [c \in Conn |-> <<>>]
    /\ answers' = [c \in Conn |-> <<>>]
    /\ UNCHANGED <<request, named, asks, surplus, code, heard>>

\* The count -1 of a failed recv is used as an index: the process may end.
Underwrite ==
    /\ \E c \in Conn :
          /\ at[c] = "reading" /\ code[c] \in {"logIn", "signIn", "uploadFile"}
          /\ Got(c) = -1
    /\ ProcessEnds /\ Same

\* downloadPreviousVersion deletes its buffer twice after an exception (507, 509).
DoubleDelete ==
    /\ \E c \in Conn :
          /\ at[c] = "reading" /\ code[c] = "downloadPreviousVersion" /\ Len(heard[c]) = 5
          /\ CanRecv(c)
          /\ Got(c) = 1 => Head(wire[c]).kind = "confirm" /\ Text(c) = Yes
          /\ Same \/ Restore(c)
    /\ ProcessEnds

-----------------------------------------------------------------------------
Client(c) ==
    \/ \E op \in Asked[c], who \in Credentials, file \in FileNames, folder \in Folders, n \in 0 .. 2 :
          Ask(c, op, who, file, folder, n)
    \/ Close(c)
    \/ Break(c)

Thread(c) ==
    \/ Loop(c)
    \/ LogInName(c) \/ LogInPassword(c) \/ SignInText(c) \/ SignInFolder(c)
    \/ UploadName(c) \/ UploadLength(c) \/ UploadContent(c) \/ UploadDigest(c)
    \/ RemoveFile(c) \/ DeleteFile(c) \/ GetFileVersions(c) \/ SetUserPath(c)
    \/ DownloadLength(c) \/ DownloadName(c) \/ DownloadDate(c)
    \/ DownloadContent(c) \/ DownloadDigest(c)
    \/ Astray(c)

Next ==
    \/ \E c \in Conn : Accept(c) \/ Client(c) \/ GoOn(c) \/ Refuse(c) \/ Thread(c)
    \/ Underwrite \/ DoubleDelete

Spec == Init /\ [][Next]_vars

\* Threads are scheduled, a reset arrives, and a client that began a request goes
\* on with it; it need not ask again, nor close.
FairSpec ==
    /\ Spec
    /\ \A c \in Conn : WF_vars(Thread(c)) /\ WF_vars(Refuse(c)) /\ WF_vars(GoOn(c))

-----------------------------------------------------------------------------
(* Properties.                                                             *)

SessionTypeOK ==
    /\ peer \in [Conn -> {"away", "open", "closed", "refusing", "reset"}]
    /\ answers \in [Conn -> Seq({"OK", "ERR"})]
    /\ at \in [Conn -> {"accept", "loop", "reading", "spin", "astray", "ended"}]
    /\ code \in [Conn -> Codes]
    /\ request \in [Conn -> Codes \cup {"nothing"}]
    /\ \A c \in Conn : asks[c] \in 0 .. MaxAsk[c]
    /\ logged \in [Conn -> BOOLEAN] /\ surplus \in [Conn -> BOOLEAN]
    /\ \A c \in Conn : Len(heard[c]) <= 5
    /\ deleted \subseteq files

\* As long as no request was given two answers for one, none leaves a piece behind
\* that a later recv takes for another, also when it is refused, given up or broken
\* off half-way: no operation receives what is not for it, and in an authenticated
\* session the loop (672-679) finds a code, or the name of a download that is refused
\* for its length alone (387, 528).  A second answer (268, 297, 847) is read as the
\* answer to the next request: the client goes on where the server does not.
InStep ==
    \A c \in Conn : ~surplus[c] =>
        /\ at[c] # "astray"
        /\ at[c] = "loop" /\ logged[c] /\ wire[c] # <<>> =>
              \/ Head(wire[c]).kind = "code"
              \/ /\ Head(wire[c]).kind = "file" /\ Len(Head(wire[c]).text) >= MaxText
                 /\ code[c] \in Downloads

\* How the operations of the protocol change the tables.
Changed(op) ==
    CASE op = "uploadFile" -> (files' \ files) \cup (deleted \ deleted')
      [] op = "removeFile" -> (files \ files') \cup (deleted \ deleted')
      [] op = "deleteFile" -> deleted' \ deleted
      [] op \in Downloads -> deleted \ deleted'
      [] OTHER -> {}

\* FILES and the deletions change only as the client of the thread that changes them
\* asked: by the operation it asked for last, for the file it named, in a session
\* its user is logged in to.  Neither the stale code that is performed again at the
\* end of the stream, nor a broken connection, nor another piece of a request ever
\* names a file or makes another change of it.  Left out are sessions without a folder, where
\* an upload that breaks off before the name stores a file without a name (101),
\* and sessions in which a request was given two answers.
FilesAsNamed ==
    [][\A k \in (files \ files') \cup (files' \ files)
                  \cup (deleted \ deleted') \cup (deleted' \ deleted) :
          \E c \in Conn :
              /\ <<at[c], heard[c]>>' # <<at[c], heard[c]>>
              /\ \/ surplus[c]
                 \/ /\ logged[c] /\ \E row \in users : row.user = user[c]
                    /\ k = KeyOf(c, named[c]) /\ k \in Changed(request[c])
                 \/ folderPath[c] = <<>> /\ wire[c] = <<>> /\ k = <<user[c], <<>>>>]_vars

Waits(c) == peer[c] = "open" /\ plan[c] # <<>> /\ Head(plan[c]) = Wait /\ answers[c] = <<>>

\* downloadPreviousVersion returned without an answer, or a download reads a blob
\* that is not there for ever.
Forgotten(c) ==
    \/ code[c] = "downloadPreviousVersion" /\ at[c] = "loop" /\ Len(heard[c]) = 0
    \/ code[c] \in Downloads /\ at[c] = "spin"

\* Client and thread never wait for each other: who is logged in and waits for an
\* answer gets one, unless the thread ended with an exception, or it asked for a
\* download and waits for the content (511, 473, 590).  As long as no request was
\* given two answers for one.
Answered ==
    \A c \in Conn :
        (logged[c] /\ ~surplus[c] /\ Waits(c))
            ~> \/ answers[c] # <<>> \/ at[c] = "ended" \/ peer[c] # "open"
               \/ Forgotten(c) /\ Len(plan[c]) > 1 /\ plan[c][2].kind = "confirm"

\* An orderly close ends an authenticated session that was waiting for the next
\* operation, although recv's 0 is not looked at (672) and the last operation is
\* performed again, unless that was a download.
CloseEnds ==
    \A c \in Conn :
        (/\ peer[c] \in {"closed", "refusing"} /\ wire[c] = <<>>
         /\ at[c] = "loop" /\ logged[c] /\ code[c] \notin Downloads)
            ~> (at[c] = "ended")

\* "username is ok", "password is ok", "folder is ok" (ConnectionHandler.cpp:793,
\* 801, 809): what registerUser puts into USERS is what a client sent.
RegisteredAsSent == users \subseteq Credentials

=============================================================================
