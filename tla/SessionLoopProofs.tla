--------------------------- MODULE SessionLoopProofs ---------------------------
(***************************************************************************)
(* A session stays in step with its client: what is on the wire, what the  *)
(* client has yet to send, the answers it has yet to read and what the     *)
(* thread is about to receive belong together, also when requests are      *)
(* refused, given up or broken off.                                        *)
(***************************************************************************)
EXTENDS SessionLoop, TLAPS

-----------------------------------------------------------------------------
(* Types.                                                                  *)

KindsOfPiece == {"code", "user", "password", "folder", "file", "length", "content", "digest",
                 "date", "confirm", "wait"}
PieceTypes == [kind : KindsOfPiece, text : Texts]
Rows == [user : Texts, password : Texts, folder : Texts]

ExchangeOK ==
    /\ peer \in [Conn -> {"away", "open", "closed", "refusing", "reset"}]
    /\ answers \in [Conn -> Seq({"OK", "ERR"})]
    /\ surplus \in [Conn -> BOOLEAN]

PlaceOK ==
    /\ at \in [Conn -> {"accept", "loop", "reading", "spin", "astray", "ended"}]
    /\ heard \in [Conn -> Seq(Texts)] /\ \A c \in Conn : Len(heard[c]) <= 5

ClientOK ==
    /\ request \in [Conn -> Codes \cup {"nothing"}] /\ code \in [Conn -> Codes]
    /\ named \in [Conn -> Texts]
    /\ asks \in [Conn -> Nat] /\ \A c \in Conn : asks[c] <= MaxAsk[c]
    /\ plan \in [Conn -> Seq(PieceTypes)] /\ wire \in [Conn -> Seq(PieceTypes)]

DataOK ==
    /\ logged \in [Conn -> BOOLEAN]
    /\ user \in [Conn -> Texts] /\ folderPath \in [Conn -> Texts]
    /\ users \subseteq Rows
    /\ deleted \subseteq files

TypesInv == ExchangeOK /\ PlaceOK /\ ClientOK /\ DataOK

LEMMA TupleTypes ==
    ASSUME NEW S
    PROVE  /\ <<>> \in Seq(S)
           /\ \A a \in S : <<a>> \in Seq(S)
           /\ \A a, b \in S : <<a, b>> \in Seq(S)
           /\ \A a, b, d \in S : <<a, b, d>> \in Seq(S)
           /\ \A a, b, d, e \in S : <<a, b, d, e>> \in Seq(S)
OBVIOUS

LEMMA JoinTypes ==
    ASSUME NEW S, NEW s \in Seq(S), NEW t \in Seq(S)
    PROVE  s \o t \in Seq(S) /\ Len(s \o t) = Len(s) + Len(t)
OBVIOUS

LEMMA TextTypes ==
    /\ <<>> \in Texts /\ Rubbish \in Texts /\ Sent \in Texts /\ <<1>> \in Texts /\ Some \in Texts
    /\ Yes \in Texts /\ No \in Texts
    /\ \A s \in Codes \cup Nat : <<s>> \in Texts
    /\ \A t \in Texts : Len(t) \in Nat
<1> DEFINE T == Word \cup Codes \cup {"?", "sent", "OK", "NO"} \cup Nat
<1>1. /\ "?" \in T /\ "sent" \in T /\ "OK" \in T /\ "NO" \in T /\ 1 \in T /\ 0 \in T
      /\ Codes \cup Nat \subseteq T
  OBVIOUS
<1> HIDE DEF T
<1>2. <<>> \in Seq(T) /\ \A s \in T : <<s>> \in Seq(T)
  BY TupleTypes
<1>3. QED
  BY <1>1, <1>2 DEF T, Texts, Rubbish, Sent, Some, Yes, No

-----------------------------------------------------------------------------
(* The requests.                                                           *)

LEMMA PieceIs ==
    /\ \A k \in KindsOfPiece, t \in Texts :
          Piece(k, t) \in PieceTypes /\ Piece(k, t).kind = k /\ Piece(k, t).text = t
    /\ Wait \in PieceTypes /\ Wait.kind = "wait"
    /\ \A k \in KindsOfPiece, t \in Texts : k # "wait" => Piece(k, t) # Wait
<1>1. \A k \in KindsOfPiece, t \in Texts :
          Piece(k, t) \in PieceTypes /\ Piece(k, t).kind = k /\ Piece(k, t).text = t
  BY DEF Piece, PieceTypes
<1>2. Wait = Piece("wait", <<>>) /\ "wait" \in KindsOfPiece /\ <<>> \in Texts
  BY TextTypes DEF Wait, KindsOfPiece
<1>3. QED
  BY <1>1, <1>2

\* What is in a request, place by place.
LEMMA HeadIs ==
    ASSUME NEW op, NEW who, NEW f, NEW d, NEW n, NEW r, r = Request(op, who, f, d, n), op \in Codes
    PROVE  r[1] = Piece("code", <<op>>)
<1>1. CASE op \in Downloads
  BY <1>1 DEF Request, Downloads
<1>2. CASE op \in {"logIn", "signIn"}
  BY <1>2 DEF Request, Downloads
<1>3. CASE op = "uploadFile"
  BY <1>3 DEF Request, Downloads
<1>4. CASE op \in {"removeFile", "deleteFile"}
  BY <1>4 DEF Request, Downloads
<1>5. CASE op = "getFileVersions"
  BY <1>5 DEF Request, Downloads
<1>6. CASE op \in {"setUserPath", "getDeletedFiles", "getUserFolder", "getUserPath", "exit", "unknown"}
  BY <1>6 DEF Request, Downloads
<1>7. QED
  BY <1>1, <1>2, <1>3, <1>4, <1>5, <1>6 DEF Codes, Known, Downloads

LEMMA LogInIs ==
    ASSUME NEW who, NEW f, NEW d, NEW n, NEW r, r = Request("logIn", who, f, d, n)
    PROVE  /\ Len(r) = 5 /\ r[2] = Piece("user", who.user) /\ r[3] = Wait
           /\ r[4] = Piece("password", who.password) /\ r[5] = Wait
BY DEF Request, Downloads

LEMMA ChangeIs ==
    ASSUME NEW op, op \in {"removeFile", "deleteFile"},
           NEW who, NEW f, NEW d, NEW n, NEW r, r = Request(op, who, f, d, n)
    PROVE  Len(r) = 3 /\ r[2] = Piece("file", f) /\ r[3] = Wait
BY DEF Request, Downloads

\* What is sent before a name.
Measure(f) == Piece("length", <<Len(f)>>)

LEMMA VersionsIs ==
    ASSUME NEW who, NEW f, NEW d, NEW n, NEW r, r = Request("getFileVersions", who, f, d, n)
    PROVE  /\ Len(r) = 4 /\ r[2] = Measure(f)
           /\ r[3] = Piece("file", f) /\ r[4] = Wait
BY DEF Request, Downloads, Named, Measure

LEMMA PathIs ==
    ASSUME NEW who, NEW f, NEW d, NEW n, NEW r, r = Request("setUserPath", who, f, d, n)
    PROVE  Len(r) = 2 /\ r[2] = Piece("folder", d)
BY DEF Request, Downloads

LEMMA QueryIs ==
    ASSUME NEW op, op \in {"getDeletedFiles", "getUserFolder", "getUserPath"},
           NEW who, NEW f, NEW d, NEW n, NEW r, r = Request(op, who, f, d, n)
    PROVE  Len(r) = 2 /\ r[2] = Wait
BY DEF Request, Downloads

LEMMA NothingIs ==
    ASSUME NEW op, op \in {"exit", "unknown"},
           NEW who, NEW f, NEW d, NEW n, NEW r, r = Request(op, who, f, d, n)
    PROVE  Len(r) = 1
BY DEF Request, Downloads

LEMMA SignInIs ==
    ASSUME NEW who, NEW f, NEW d, NEW n, NEW r, r = Request("signIn", who, f, d, n)
    PROVE  /\ Len(r) = 8 /\ r[2] = Piece("user", who.user) /\ r[3] = Wait
           /\ r[4] = Piece("password", who.password) /\ r[5] = Wait
           /\ r[6] = Piece("folder", who.folder) /\ r[7] = Wait /\ r[8] = Wait
BY DEF Request, Downloads

LEMMA UploadIs ==
    ASSUME NEW who, NEW f, NEW d, NEW n, NEW r, r = Request("uploadFile", who, f, d, n)
    PROVE  /\ Len(r) = 8 /\ r[2] = Piece("file", f) /\ r[3] = Wait
           /\ r[4] = Piece("length", Some) /\ r[5] = Piece("content", Sent)
           /\ r[6] = Wait /\ r[7] = Piece("digest", Sent) /\ r[8] = Wait
BY DEF Request, Downloads

\* The place of the last answer before the client looks at the content.
Half(op) == IF op = "downloadLastVersion" THEN 5 ELSE 8

\* A download ends where the client refuses what it got.
Confirms(r, h) ==
    \/ Len(r) = h + 1 /\ r[h + 1] = Piece("confirm", No)
    \/ /\ Len(r) = h + 3 /\ r[h + 1] = Piece("confirm", Yes) /\ r[h + 2] = Wait
       /\ r[h + 3] = Piece("confirm", No)
    \/ /\ Len(r) = h + 4 /\ r[h + 1] = Piece("confirm", Yes) /\ r[h + 2] = Wait
       /\ r[h + 3] = Piece("confirm", Yes) /\ r[h + 4] = Wait

LEMMA LastIs ==
    ASSUME NEW who, NEW f, NEW d, NEW n, NEW r, r = Request("downloadLastVersion", who, f, d, n)
    PROVE  /\ r[2] = Measure(f) /\ r[3] = Piece("file", f) /\ r[4] = Wait /\ r[5] = Wait
           /\ Confirms(r, 5)
BY DEF Request, Downloads, Named, Measure, Checked, Confirms

LEMMA PreviousIs ==
    ASSUME NEW who, NEW f, NEW d, NEW n,
           NEW r, r = Request("downloadPreviousVersion", who, f, d, n)
    PROVE  /\ r[2] = Measure(f) /\ r[3] = Piece("file", f) /\ r[4] = Wait
           /\ r[5] = Piece("length", <<1>>) /\ r[6] = Piece("date", Sent)
           /\ r[7] = Wait /\ r[8] = Wait
           /\ Confirms(r, 8)
BY DEF Request, Downloads, Named, Measure, Checked, Confirms
-----------------------------------------------------------------------------
(* Types are kept.                                                         *)

\* The answers of one step.
Answers == {Ok, Err, Ok \o Ok, Ok \o Err, Err \o Ok, Err \o Err, Ok \o Err \o Ok}

LEMMA AnswersType == \A given \in Answers : given \in Seq({"OK", "ERR"})
<1>1. Ok \in Seq({"OK", "ERR"}) /\ Err \in Seq({"OK", "ERR"})
  BY DEF Ok, Err
<1> DEFINE S == {"OK", "ERR"}
<1> HIDE DEF S
<1>2. Ok \in Seq(S) /\ Err \in Seq(S)
  BY <1>1 DEF S
<1>3. (Ok \o Err) \in Seq(S)
  BY <1>2, JoinTypes
<1>4. QED
  BY <1>2, <1>3, JoinTypes DEF Answers, S

LEMMA RequestType ==
    ASSUME NEW op \in Codes, NEW who \in Credentials, NEW f \in FileNames, NEW d \in Folders,
           NEW n \in 0 .. 2
    PROVE  Request(op, who, f, d, n) \in Seq(PieceTypes)
<1> DEFINE S == PieceTypes
<1>1. /\ who.user \in Texts /\ who.password \in Texts /\ who.folder \in Texts
      /\ f \in Texts /\ d \in Texts
  BY TextAssumption
<1>2. <<Len(f)>> \in Texts /\ <<op>> \in Texts
  BY <1>1, TextTypes DEF Texts
<1>3. /\ Piece("code", <<op>>) \in S
      /\ Piece("user", who.user) \in S /\ Piece("password", who.password) \in S
      /\ Piece("folder", who.folder) \in S /\ Piece("file", f) \in S
      /\ Piece("length", Some) \in S /\ Piece("content", Sent) \in S
      /\ Piece("digest", Sent) \in S /\ Piece("folder", d) \in S
      /\ Piece("length", <<Len(f)>>) \in S /\ Piece("length", <<1>>) \in S
      /\ Piece("date", Sent) \in S /\ Wait \in S
      /\ Piece("confirm", Yes) \in S /\ Piece("confirm", No) \in S
  BY <1>1, <1>2, TextTypes, PieceIs DEF KindsOfPiece
<1> HIDE DEF S
<1>4. /\ <<Piece("code", <<op>>)>> \in Seq(S) /\ <<>> \in Seq(S)
      /\ Named(f) \in Seq(S) /\ <<Wait>> \in Seq(S) /\ <<Wait, Wait>> \in Seq(S)
      /\ <<Piece("file", f), Wait>> \in Seq(S) /\ <<Piece("folder", d)>> \in Seq(S)
      /\ <<Piece("user", who.user), Wait, Piece("password", who.password), Wait>> \in Seq(S)
  BY <1>3, TupleTypes DEF Named
<1>5. <<Piece("user", who.user), Wait, Piece("password", who.password), Wait,
        Piece("folder", who.folder), Wait, Wait>> \in Seq(S)
  BY <1>3
<1>6. <<Piece("file", f), Wait, Piece("length", Some), Piece("content", Sent), Wait,
        Piece("digest", Sent), Wait>> \in Seq(S)
  BY <1>3
<1>7. <<Wait, Piece("length", <<1>>), Piece("date", Sent), Wait, Wait>> \in Seq(S)
  BY <1>3
<1>8. Checked(n) \in Seq(S)
  BY <1>3 DEF Checked
<1>9. /\ (Named(f) \o <<Wait>>) \in Seq(S)
      /\ (Named(f) \o <<Wait, Wait>>) \in Seq(S)
      /\ (Named(f) \o <<Wait, Piece("length", <<1>>), Piece("date", Sent), Wait, Wait>>) \in Seq(S)
  BY <1>4, <1>7, JoinTypes
<1>10. /\ (Named(f) \o <<Wait, Wait>> \o Checked(n)) \in Seq(S)
       /\ (Named(f) \o <<Wait, Piece("length", <<1>>), Piece("date", Sent), Wait, Wait>> \o Checked(n))
              \in Seq(S)
  BY <1>8, <1>9, JoinTypes
<1>11. PICK t \in Seq(S) : Request(op, who, f, d, n) = <<Piece("code", <<op>>)>> \o t
  BY <1>4, <1>5, <1>6, <1>9, <1>10, ZenonT(30) DEF Request
<1>12. QED
  BY <1>4, <1>11, JoinTypes DEF S

LEMMA Headed ==
    ASSUME NEW op, NEW who, NEW f, NEW d, NEW n
    PROVE  Request(op, who, f, d, n) # <<>>
<1>1. PICK t : Request(op, who, f, d, n) = <<Piece("code", <<op>>)>> \o t
  BY Zenon DEF Request
<1>2. QED
  BY <1>1

LEMMA TypesMean == TypesInv => SessionTypeOK
<1> SUFFICES ASSUME TypesInv PROVE SessionTypeOK
  OBVIOUS
<1>1. ASSUME NEW c \in Conn
      PROVE  asks[c] \in 0 .. MaxAsk[c]
  <2>1. asks[c] \in Nat /\ MaxAsk[c] \in Nat /\ asks[c] <= MaxAsk[c]
    BY ClientAssumption DEF TypesInv, ClientOK
  <2>2. QED
    BY <2>1
<1>2. QED
  BY <1>1 DEF TypesInv, ExchangeOK, PlaceOK, ClientOK, DataOK, SessionTypeOK

LEMMA RecvTypes ==
    ASSUME TypesInv, NEW c \in Conn, Recv(c), UNCHANGED clientVars, code' \in [Conn -> Codes]
    PROVE  /\ ClientOK'
           /\ Text(c) \in Texts
           /\ wire[c] # <<>> => Head(wire[c]) \in PieceTypes
<1>1. wire[c] \in Seq(PieceTypes)
  BY DEF TypesInv, ClientOK
<1>2. wire[c] # <<>> => Head(wire[c]) \in PieceTypes /\ Tail(wire[c]) \in Seq(PieceTypes)
  BY <1>1
<1>3. Text(c) \in Texts
  BY <1>2, TextTypes DEF Text, Got, PieceTypes
<1>4. wire' \in [Conn -> Seq(PieceTypes)]
  BY <1>2 DEF Recv, Got, TypesInv, ClientOK
<1>5. QED
  BY <1>2, <1>3, <1>4 DEF TypesInv, ClientOK, clientVars

LEMMA ReadingTypes ==
    ASSUME TypesInv, NEW c \in Conn, NEW op, NEW n, Reading(c, op, n)
    PROVE  /\ ClientOK' /\ Text(c) \in Texts
           /\ at[c] = "reading" /\ code[c] = op /\ Len(heard[c]) = n
           /\ wire[c] # <<>> => Head(wire[c]) \in PieceTypes
BY RecvTypes DEF Reading, TypesInv, ClientOK

\* How a step answers, and goes on.
LEMMA ExchangeTypes ==
    ASSUME TypesInv, NEW c \in Conn,
           Silent \/ \E given \in Answers : Send(c, given) \/ SendTwice(c, given)
    PROVE  ExchangeOK'
<1>1. CASE Silent
  BY <1>1 DEF TypesInv, ExchangeOK, Silent, sendVars
<1>2. CASE \E given \in Answers : Send(c, given) \/ SendTwice(c, given)
  <2>1. PICK given \in Answers : Send(c, given) \/ SendTwice(c, given)
    BY <1>2
  <2> DEFINE S == {"OK", "ERR"}
  <2> HIDE DEF S
  <2>2. answers \in [Conn -> Seq(S)] /\ given \in Seq(S)
    BY AnswersType DEF TypesInv, ExchangeOK, S
  <2>3. (answers[c] \o given) \in Seq(S)
    BY <2>2, JoinTypes
  <2>4. answers' \in [Conn -> Seq(S)]
    BY <2>1, <2>2, <2>3 DEF Send, SendTwice, Answer
  <2>5. /\ peer' \in [Conn -> {"away", "open", "closed", "refusing", "reset"}]
        /\ surplus' \in [Conn -> BOOLEAN]
    BY <2>1 DEF Send, SendTwice, Answer, TypesInv, ExchangeOK
  <2>6. QED
    BY <2>4, <2>5 DEF S, ExchangeOK
<1>3. QED
  BY <1>1, <1>2

LEMMA PlaceTypes ==
    ASSUME TypesInv, NEW c \in Conn,
           \/ Return(c) \/ Throw(c) \/ Spin(c) \/ Goes(c, "reading")
           \/ at[c] = "reading" /\ Len(heard[c]) <= 4 /\ \E t \in Texts : Hear(c, t)
    PROVE  PlaceOK'
<1>0. at \in [Conn -> {"accept", "loop", "reading", "spin", "astray", "ended"}]
      /\ heard \in [Conn -> Seq(Texts)] /\ \A o \in Conn : Len(heard[o]) <= 5
  BY DEF TypesInv, PlaceOK
<1>1. CASE \E s \in {"loop", "reading", "spin", "ended"} : Goes(c, s)
  <2>1. <<>> \in Seq(Texts) /\ Len(<<>>) = 0
    OBVIOUS
  <2>2. QED
    BY <1>0, <1>1, <2>1 DEF Goes, PlaceOK
<1>2. CASE Len(heard[c]) <= 4 /\ \E t \in Texts : Hear(c, t)
  <2>1. PICK t \in Texts : Hear(c, t)
    BY <1>2
  <2>2. Append(heard[c], t) \in Seq(Texts) /\ Len(Append(heard[c], t)) <= 5
    BY <1>0, <1>2
  <2>3. QED
    BY <1>0, <2>1, <2>2 DEF Hear, PlaceOK
<1>3. QED
  BY <1>1, <1>2 DEF Return, Throw, Spin

LEMMA SameTypes == ASSUME TypesInv, Same PROVE DataOK'
BY DEF TypesInv, DataOK, Same, sessionVars, tableVars

\* What an action of the thread leaves in a session has its type.
LEMMA BecomesTypes ==
    ASSUME TypesInv, NEW c \in Conn, NEW name \in Texts, NEW yes \in BOOLEAN, NEW d \in Texts,
           Becomes(c, name, yes, d)
    PROVE  DataOK'
BY DEF Becomes, TypesInv, DataOK, tableVars

LEMMA LogInTypes ==
    ASSUME TypesInv, NEW c \in Conn, LogInName(c) \/ LogInPassword(c)
    PROVE  TypesInv'
<1>0. <<>> \in Texts /\ folderPath[c] \in Texts
  BY TextTypes DEF TypesInv, DataOK
<1>1. CASE LogInName(c)
  <2>1. /\ ClientOK' /\ DataOK' /\ Text(c) \in Texts /\ at[c] = "reading" /\ Len(heard[c]) = 0
    BY <1>1, ReadingTypes, SameTypes DEF LogInName
  <2>2. ExchangeOK' /\ PlaceOK'
    BY <1>1, <2>1, ExchangeTypes, PlaceTypes DEF Answers, LogInName
  <2>3. QED
    BY <2>1, <2>2 DEF TypesInv
<1>2. CASE LogInPassword(c)
  <2>1. /\ ClientOK' /\ Text(c) \in Texts /\ at[c] = "reading" /\ Len(heard[c]) = 1
    BY <1>2, ReadingTypes DEF LogInPassword
  <2>2. heard[c][1] \in Texts
    <3>1. heard[c] \in Seq(Texts)
      BY DEF TypesInv, PlaceOK
    <3>2. QED
      BY <2>1, <3>1
  <2>3. CASE Same /\ (Return(c) \/ Throw(c))
    BY <1>2, <2>3, <2>1, ExchangeTypes, PlaceTypes, SameTypes DEF Answers, LogInPassword, Authenticate, TypesInv
  <2>4. CASE Authenticate(c, heard[c][1])
    <3>1. DataOK'
      <4>1. \A row \in users : row.folder \in Texts
        BY DEF TypesInv, DataOK, Rows
      <4>2. QED
        BY <1>0, <2>2, <2>4, <4>1, BecomesTypes DEF Authenticate
    <3>2. ExchangeOK' /\ PlaceOK'
      BY <2>4, ExchangeTypes, PlaceTypes DEF Answers, Authenticate
    <3>3. QED
      BY <2>1, <3>1, <3>2 DEF TypesInv
  <2>5. QED
    BY <1>2, <2>3, <2>4 DEF LogInPassword
<1>3. QED
  BY <1>1, <1>2

LEMMA SignInTypes ==
    ASSUME TypesInv, NEW c \in Conn, SignInText(c) \/ SignInFolder(c)
    PROVE  TypesInv'
<1>1. PICK n \in 0 .. 2 : Reading(c, "signIn", n)
  BY DEF SignInText, SignInFolder
<1>2. /\ ClientOK' /\ Text(c) \in Texts /\ at[c] = "reading" /\ Len(heard[c]) = n
  BY <1>1, ReadingTypes
<1>3. heard[c] \in Seq(Texts)
  BY DEF TypesInv, PlaceOK
<1>4. Credential(c) \in Texts
  BY <1>2, <1>3, TextTypes DEF Credential
<1>5. CASE SignInText(c)
  <2>1. Len(heard[c]) <= 2
    BY <1>5, ReadingTypes DEF SignInText
  <2>2. QED
    <3>1. ExchangeOK' /\ PlaceOK' /\ DataOK'
      BY <1>2, <1>4, <1>5, <2>1, ExchangeTypes, PlaceTypes, SameTypes DEF Answers, SignInText
    <3>2. QED
      BY <1>2, <3>1 DEF TypesInv
<1>6. CASE SignInFolder(c)
  <2>1. Len(heard[c]) = 2
    <3>1. Reading(c, "signIn", 2)
      BY <1>6 DEF SignInFolder
    <3>2. QED
      BY <3>1, ReadingTypes
  <2>2. heard[c][1] \in Texts /\ heard[c][2] \in Texts
    BY <1>3, <2>1
  <2>3. ExchangeOK' /\ PlaceOK'
    BY <1>6, ExchangeTypes, PlaceTypes DEF Answers, SignInFolder
  <2>4. DataOK'
    <3>1. CASE Same
      BY <3>1, SameTypes
    <3>2. CASE ~Same
      <4>1. [user |-> heard[c][1], password |-> heard[c][2], folder |-> Credential(c)] \in Rows
        BY <1>4, <2>2 DEF Rows
      <4>2. DataOK
        BY DEF TypesInv
      <4>3. QED
        BY <1>6, <2>2, <3>2, <4>1, <4>2 DEF SignInFolder, DataOK
    <3>3. QED
      BY <3>1, <3>2
  <2>5. QED
    BY <1>2, <2>3, <2>4 DEF TypesInv
<1>7. QED
  BY <1>5, <1>6

LEMMA UploadTypes ==
    ASSUME TypesInv, NEW c \in Conn,
           UploadName(c) \/ UploadLength(c) \/ UploadContent(c) \/ UploadDigest(c)
    PROVE  TypesInv'
<1>1. CASE UploadName(c)
  <2>1. /\ ClientOK' /\ Text(c) \in Texts /\ at[c] = "reading" /\ Len(heard[c]) = 0
    BY <1>1, ReadingTypes DEF UploadName
  <2>2. ExchangeOK' /\ PlaceOK'
    BY <1>1, <2>1, ExchangeTypes, PlaceTypes DEF Answers, UploadName
  <2>3. DataOK'
    BY <1>1, SameTypes DEF UploadName, TypesInv, DataOK, sessionVars
  <2>4. QED
    BY <2>1, <2>2, <2>3 DEF TypesInv
<1>2. CASE UploadLength(c)
  <2>1. /\ ClientOK' /\ Text(c) \in Texts /\ at[c] = "reading" /\ Len(heard[c]) = 1 /\ DataOK'
    BY <1>2, ReadingTypes, SameTypes DEF UploadLength
  <2>2. ExchangeOK'
    BY <1>2, ExchangeTypes DEF Answers, UploadLength
  <2>3. CASE Hear(c, Text(c))
    <3>1. PlaceOK'
      <4>1. Len(heard[c]) <= 4
        BY <2>1
      <4>2. QED
        BY <2>1, <2>3, <4>1, PlaceTypes
    <3>2. QED
      BY <2>1, <2>2, <3>1 DEF TypesInv
  <2>4. CASE /\ heard' = [heard EXCEPT ![c] = @ \o <<Text(c), Text(c)>>]
             /\ UNCHANGED at
    <3>1. heard \in [Conn -> Seq(Texts)] /\ heard[c] \in Seq(Texts)
      BY DEF TypesInv, PlaceOK
    <3> DEFINE twice == <<Text(c), Text(c)>>
    <3>2. twice \in Seq(Texts) /\ Len(twice) = 2
      BY <2>1
    <3> HIDE DEF twice
    <3> DEFINE before == heard[c]
    <3>3. before \in Seq(Texts) /\ Len(before) = 1
      BY <2>1, <3>1
    <3> HIDE DEF before
    <3> DEFINE h == before \o twice
    <3>4. h \in Seq(Texts) /\ Len(h) <= 5
      <4>1. h \in Seq(Texts) /\ Len(h) = Len(before) + Len(twice)
        BY <3>2, <3>3, JoinTypes
      <4>2. QED
        BY <3>2, <3>3, <4>1
    <3>5. heard' = [heard EXCEPT ![c] = h] /\ at' = at
      BY <2>4 DEF before, twice
    <3> HIDE DEF h
    <3>6. PlaceOK'
      <4>1. heard' \in [Conn -> Seq(Texts)]
        BY <3>1, <3>4, <3>5
      <4>2. \A o \in Conn : Len(heard'[o]) <= 5
        <5>1. heard \in [Conn -> Seq(Texts)] /\ \A o \in Conn : Len(heard[o]) <= 5
          BY DEF TypesInv, PlaceOK
        <5>2. QED
          BY <3>4, <3>5, <5>1
      <4>3. QED
        BY <3>5, <4>1, <4>2 DEF TypesInv, PlaceOK
    <3>7. QED
      BY <2>1, <2>2, <3>6 DEF TypesInv
  <2>5. QED
    BY <1>2, <2>3, <2>4 DEF UploadLength
<1>3. CASE UploadContent(c)
  <2>1. /\ ClientOK' /\ Text(c) \in Texts /\ at[c] = "reading" /\ Len(heard[c]) <= 2 /\ DataOK'
    <3>1. Len(heard[c]) = 2
      <4>1. Reading(c, "uploadFile", 2)
        BY <1>3 DEF UploadContent
      <4>2. QED
        BY <4>1, ReadingTypes
    <3>2. QED
      BY <1>3, <3>1, ReadingTypes, SameTypes DEF UploadContent
  <2>2. ExchangeOK'
    BY <1>3, ExchangeTypes DEF Answers, UploadContent
  <2>3. PlaceOK'
    BY <1>3, <2>1, PlaceTypes DEF UploadContent
  <2>4. QED
    BY <2>1, <2>2, <2>3 DEF TypesInv
<1>4. CASE UploadDigest(c)
  <2>1. ClientOK' /\ DataOK' /\ at[c] = "reading"
    BY <1>4, ReadingTypes, SameTypes DEF UploadDigest
  <2>2. ExchangeOK' /\ PlaceOK'
    BY <1>4, <2>1, ExchangeTypes, PlaceTypes DEF Answers, UploadDigest
  <2>3. QED
    BY <2>1, <2>2 DEF TypesInv
<1>5. QED
  BY <1>1, <1>2, <1>3, <1>4

LEMMA ChangeTypes ==
    ASSUME TypesInv, NEW c \in Conn,
           RemoveFile(c) \/ DeleteFile(c) \/ GetFileVersions(c) \/ SetUserPath(c)
    PROVE  TypesInv'
<1>1. CASE RemoveFile(c) \/ DeleteFile(c)
  <2>1. ClientOK' /\ at[c] = "reading"
    BY <1>1, ReadingTypes DEF RemoveFile, DeleteFile
  <2>2. ExchangeOK' /\ PlaceOK'
    BY <1>1, <2>1, ExchangeTypes, PlaceTypes DEF Answers, RemoveFile, DeleteFile
  <2>3. DataOK'
    BY <1>1, SameTypes DEF RemoveFile, DeleteFile, TypesInv, DataOK, sessionVars
  <2>4. QED
    BY <2>1, <2>2, <2>3 DEF TypesInv
<1>2. CASE GetFileVersions(c)
  <2>1. \E n \in 0 .. 1 : Reading(c, "getFileVersions", n)
    BY <1>2 DEF GetFileVersions
  <2>2. /\ ClientOK' /\ Text(c) \in Texts /\ at[c] = "reading" /\ Len(heard[c]) <= 1
    BY <2>1, ReadingTypes
  <2>3. DataOK'
    BY <1>2, SameTypes DEF GetFileVersions
  <2>4. ExchangeOK' /\ PlaceOK'
    BY <1>2, <2>2, ExchangeTypes, PlaceTypes DEF Answers, GetFileVersions
  <2>5. QED
    BY <2>2, <2>3, <2>4 DEF TypesInv
<1>3. CASE SetUserPath(c)
  <2>1. ClientOK' /\ Text(c) \in Texts /\ at[c] = "reading"
    BY <1>3, ReadingTypes DEF SetUserPath
  <2>2. ExchangeOK' /\ PlaceOK'
    BY <1>3, <2>1, ExchangeTypes, PlaceTypes DEF Answers, SetUserPath
  <2>3. DataOK'
    BY <1>3, <2>1, SameTypes DEF SetUserPath, TypesInv, DataOK, tableVars
  <2>4. QED
    BY <2>1, <2>2, <2>3 DEF TypesInv
<1>4. QED
  BY <1>1, <1>2, <1>3

\* How a download goes on.
LEMMA FetchTypes ==
    ASSUME TypesInv, NEW c \in Conn, NEW name, Fetch(c, name), Text(c) \in Texts,
           at[c] = "reading", Len(heard[c]) <= 4
    PROVE  ExchangeOK' /\ PlaceOK'
<1>1. /\ Silent \/ \E given \in Answers : Send(c, given)
      /\ Return(c) \/ Throw(c) \/ Spin(c) \/ Hear(c, Text(c))
  BY DEF Fetch, Answers
<1>2. QED
  BY <1>1, ExchangeTypes, PlaceTypes

LEMMA DownloadLengthTypes ==
    ASSUME TypesInv, NEW c \in Conn, DownloadLength(c)
    PROVE  TypesInv'
<1>1. PICK op \in Downloads, n \in {0, 2} : Reading(c, op, n)
  BY DEF DownloadLength, Measuring, Downloads
<1>2. /\ ClientOK' /\ Text(c) \in Texts /\ at[c] = "reading" /\ Len(heard[c]) = n
  BY <1>1, ReadingTypes
<1>3. DataOK'
  BY SameTypes DEF DownloadLength
<1>4. ExchangeOK'
  BY ExchangeTypes DEF DownloadLength, Answers
<1>5. PlaceOK'
  <2>1. CASE heard' = [heard EXCEPT ![c] = <<<<>>, <<>>>>] /\ UNCHANGED at
    <3>1. <<<<>>, <<>>>> \in Seq(Texts) /\ Len(<<<<>>, <<>>>>) = 2
      BY TextTypes, TupleTypes
    <3>2. QED
      BY <2>1, <3>1 DEF TypesInv, PlaceOK
  <2>2. CASE Return(c) \/ Throw(c) \/ Hear(c, Text(c))
    BY <1>2, <2>2, PlaceTypes
  <2>3. QED
    BY <2>1, <2>2 DEF DownloadLength
<1>6. QED
  BY <1>2, <1>3, <1>4, <1>5 DEF TypesInv

LEMMA DownloadTypes ==
    ASSUME TypesInv, NEW c \in Conn, DownloadName(c) \/ DownloadDate(c)
    PROVE  TypesInv'
<1>1. DataOK'
  BY SameTypes DEF DownloadName, DownloadDate
<1>2. PICK op \in Downloads, n \in {1, 3} : Reading(c, op, n)
  BY DEF DownloadName, DownloadDate, Downloads
<1>3. /\ ClientOK' /\ Text(c) \in Texts /\ at[c] = "reading" /\ Len(heard[c]) <= 4
  BY <1>2, ReadingTypes
<1>4. CASE \E name : Fetch(c, name)
  <2>1. ExchangeOK' /\ PlaceOK'
    BY <1>3, <1>4, FetchTypes
  <2>2. QED
    BY <1>1, <1>3, <2>1 DEF TypesInv
<1>5. CASE ~\E name : Fetch(c, name)
  <2>1. /\ Silent \/ \E given \in Answers : Send(c, given)
        /\ Return(c) \/ Throw(c) \/ Spin(c) \/ Hear(c, Text(c))
    BY <1>5 DEF DownloadName, DownloadDate, Answers
  <2>2. ExchangeOK' /\ PlaceOK'
    BY <1>3, <2>1, ExchangeTypes, PlaceTypes
  <2>3. QED
    BY <1>1, <1>3, <2>2 DEF TypesInv
<1>6. QED
  BY <1>4, <1>5

LEMMA RestoreTypes == ASSUME TypesInv, NEW c \in Conn, Restore(c) PROVE DataOK'
BY DEF Restore, TypesInv, DataOK, sessionVars

LEMMA ConfirmTypes ==
    ASSUME TypesInv, NEW c \in Conn, DownloadContent(c) \/ DownloadDigest(c)
    PROVE  TypesInv'
<1>1. DataOK'
  BY SameTypes, RestoreTypes DEF DownloadContent, DownloadDigest
<1>2. CASE DownloadContent(c)
  <2>1. PICK op \in Downloads, n \in {2, 4} : Reading(c, op, n)
    BY <1>2 DEF DownloadContent, Downloads
  <2>2. /\ ClientOK' /\ Text(c) \in Texts /\ at[c] = "reading" /\ Len(heard[c]) <= 4
    BY <2>1, ReadingTypes
  <2>3. ExchangeOK' /\ PlaceOK'
    BY <1>2, <2>2, ExchangeTypes, PlaceTypes DEF DownloadContent, Answers
  <2>4. QED
    BY <1>1, <2>2, <2>3 DEF TypesInv
<1>3. CASE DownloadDigest(c)
  <2>1. PICK op \in Downloads, n \in {3, 5} : Reading(c, op, n)
    BY <1>3 DEF DownloadDigest, Downloads
  <2>2. ClientOK'
    BY <2>1, ReadingTypes
  <2>3. ExchangeOK' /\ PlaceOK'
    BY <1>3, ExchangeTypes, PlaceTypes DEF DownloadDigest, Answers
  <2>4. QED
    BY <1>1, <2>2, <2>3 DEF TypesInv
<1>4. QED
  BY <1>2, <1>3

LEMMA AstrayTypes == ASSUME TypesInv, NEW c \in Conn, Astray(c) PROVE TypesInv'
BY DEF Astray, TypesInv, ExchangeOK, PlaceOK, ClientOK, DataOK, clientVars, sendVars, sessionVars,
   tableVars

LEMMA LoopTypes ==
    ASSUME TypesInv, NEW c \in Conn, Loop(c)
    PROVE  TypesInv'
<1>1. DataOK' /\ UNCHANGED clientVars /\ Recv(c)
  BY SameTypes DEF Loop
<1>2. code \in [Conn -> Codes]
  BY DEF TypesInv, ClientOK
<1>3. CASE Throw(c) /\ Silent /\ UNCHANGED code
  <2>1. ClientOK' /\ ExchangeOK' /\ PlaceOK'
    BY <1>1, <1>2, <1>3, RecvTypes, ExchangeTypes, PlaceTypes
  <2>2. QED
    BY <1>1, <2>1 DEF TypesInv
<1>4. CASE \E op \in Codes : Perform(c, op)
  <2>1. PICK op \in Codes : Perform(c, op)
    BY <1>4
  <2>2. code' \in [Conn -> Codes]
    BY <1>2, <2>1 DEF Perform
  <2>3. /\ Return(c) \/ Throw(c) \/ Goes(c, "reading")
        /\ Silent \/ \E given \in Answers : Send(c, given)
    BY <2>1 DEF Perform, Answers
  <2>4. ClientOK' /\ ExchangeOK' /\ PlaceOK'
    BY <1>1, <2>2, <2>3, RecvTypes, ExchangeTypes, PlaceTypes
  <2>5. QED
    BY <1>1, <2>4 DEF TypesInv
<1>5. QED
  BY <1>2, <1>3, <1>4 DEF Loop

\* The client's steps.
LEMMA AskTypes ==
    ASSUME TypesInv, NEW c \in Conn, NEW op \in Codes, NEW who \in Credentials,
           NEW f \in FileNames, NEW d \in Folders, NEW n \in 0 .. 2, Ask(c, op, who, f, d, n)
    PROVE  TypesInv'
<1> DEFINE r == Request(op, who, f, d, n)
<1>1. asks[c] \in Nat /\ MaxAsk[c] \in Nat
  BY ClientAssumption DEF TypesInv, ClientOK
<1>2. asks[c] + 1 \in Nat /\ asks[c] + 1 <= MaxAsk[c]
  BY <1>1 DEF Ask
<1>3. r \in Seq(PieceTypes) /\ r # <<>>
  BY RequestType, Headed
<1>4. /\ plan' = [plan EXCEPT ![c] = Tail(r)] /\ wire' = [wire EXCEPT ![c] = <<Head(r)>>]
      /\ request' = [request EXCEPT ![c] = op] /\ named' = [named EXCEPT ![c] = f]
      /\ asks' = [asks EXCEPT ![c] = @ + 1]
      /\ UNCHANGED <<sendVars, threadVars, sessionVars, tableVars>>
  BY DEF Ask
<1> HIDE DEF r
<1>5. Tail(r) \in Seq(PieceTypes) /\ <<Head(r)>> \in Seq(PieceTypes)
  BY <1>3
<1>6. f \in Texts
  BY TextAssumption
<1>7. ClientOK'
  BY <1>1, <1>2, <1>4, <1>5, <1>6 DEF TypesInv, ClientOK, threadVars
<1>8. ExchangeOK' /\ PlaceOK' /\ DataOK'
  BY <1>4 DEF TypesInv, ExchangeOK, PlaceOK, DataOK, sendVars, threadVars, sessionVars, tableVars
<1>9. QED
  BY <1>7, <1>8 DEF TypesInv

LEMMA GoOnTypes == ASSUME TypesInv, NEW c \in Conn, GoOn(c) PROVE TypesInv'
<1>1. /\ plan \in [Conn -> Seq(PieceTypes)] /\ wire \in [Conn -> Seq(PieceTypes)]
      /\ answers \in [Conn -> Seq({"OK", "ERR"})] /\ plan[c] # <<>>
  BY DEF TypesInv, ClientOK, ExchangeOK, GoOn
<1>2. /\ Head(plan[c]) \in PieceTypes /\ Tail(plan[c]) \in Seq(PieceTypes)
      /\ <<>> \in Seq(PieceTypes)
  BY <1>1
<1>3. Append(wire[c], Head(plan[c])) \in Seq(PieceTypes)
  BY <1>1, <1>2
<1>4. answers[c] # <<>> => Tail(answers[c]) \in Seq({"OK", "ERR"})
  BY <1>1
<1>5. /\ plan' = [plan EXCEPT ![c] = Tail(plan[c])] \/ plan' = [plan EXCEPT ![c] = <<>>]
      /\ wire' = [wire EXCEPT ![c] = Append(wire[c], Head(plan[c]))] \/ wire' = wire
      /\ \/ answers[c] # <<>> /\ answers' = [answers EXCEPT ![c] = Tail(answers[c])]
         \/ answers' = answers
      /\ UNCHANGED <<peer, surplus, request, named, asks, threadVars, sessionVars, tableVars>>
  BY DEF GoOn
<1>6. /\ plan' \in [Conn -> Seq(PieceTypes)] /\ wire' \in [Conn -> Seq(PieceTypes)]
  BY <1>1, <1>2, <1>3, <1>5
<1>7. answers' \in [Conn -> Seq({"OK", "ERR"})]
  BY <1>1, <1>4, <1>5
<1>8. ClientOK' /\ ExchangeOK' /\ PlaceOK' /\ DataOK'
  BY <1>5, <1>6, <1>7 DEF TypesInv, ExchangeOK, PlaceOK, ClientOK, DataOK, threadVars, sessionVars,
     tableVars
<1>9. QED
  BY <1>8 DEF TypesInv

LEMMA ClientTypes ==
    ASSUME TypesInv, NEW c \in Conn, Accept(c) \/ Client(c) \/ GoOn(c) \/ Refuse(c)
    PROVE  TypesInv'
<1>1. CASE \E op \in Asked[c], who \in Credentials, f \in FileNames, d \in Folders, n \in 0 .. 2 :
              Ask(c, op, who, f, d, n)
  <2>1. Asked[c] \subseteq Codes
    BY ClientAssumption
  <2>2. QED
    BY <1>1, <2>1, AskTypes
<1>2. CASE GoOn(c)
  BY <1>2, GoOnTypes
<1>3. CASE Close(c) \/ Break(c) \/ Refuse(c)
  <2>1. PICK end \in {"closed", "reset"} : Leave(c, end)
    BY <1>3 DEF Close, Break, Refuse
  <2>2. <<>> \in Seq(PieceTypes) /\ <<>> \in Seq({"OK", "ERR"})
    OBVIOUS
  <2>3. ClientOK' /\ ExchangeOK'
    BY <2>1, <2>2 DEF Leave, TypesInv, ClientOK, ExchangeOK, threadVars
  <2>4. PlaceOK' /\ DataOK'
    BY <2>1 DEF Leave, TypesInv, PlaceOK, DataOK, threadVars, sessionVars, tableVars
  <2>5. QED
    BY <2>3, <2>4 DEF TypesInv
<1>4. CASE Accept(c)
  BY <1>4 DEF Accept, TypesInv, ExchangeOK, PlaceOK, ClientOK, DataOK, clientVars, sessionVars,
     tableVars
<1>5. QED
  BY <1>1, <1>2, <1>3, <1>4 DEF Client

LEMMA NextTypes ==
    ASSUME TypesInv, [Next]_vars
    PROVE  TypesInv'
<1>1. ASSUME NEW c \in Conn, Thread(c)
      PROVE  TypesInv'
  BY <1>1, LoopTypes, LogInTypes, SignInTypes, UploadTypes, ChangeTypes, DownloadLengthTypes,
     DownloadTypes, ConfirmTypes, AstrayTypes DEF Thread
<1>2. CASE Underwrite \/ DoubleDelete
  <2>1. /\ ProcessEnds /\ (Same \/ \E c \in Conn : Restore(c))
        /\ <<>> \in Seq(PieceTypes) /\ <<>> \in Seq({"OK", "ERR"})
    BY <1>2 DEF Underwrite, DoubleDelete
  <2>2. ExchangeOK' /\ PlaceOK' /\ ClientOK'
    BY <2>1 DEF ProcessEnds, TypesInv, ExchangeOK, PlaceOK, ClientOK
  <2>3. DataOK'
    BY <2>1, SameTypes, RestoreTypes
  <2>4. QED
    BY <2>2, <2>3 DEF TypesInv
<1>3. CASE UNCHANGED vars
  BY <1>3 DEF vars, TypesInv, ExchangeOK, PlaceOK, ClientOK, DataOK, clientVars, sendVars,
     threadVars, sessionVars, tableVars
<1>4. QED
  BY <1>1, <1>2, <1>3, ClientTypes DEF Next

LEMMA InitTypes == Init => TypesInv
<1> SUFFICES ASSUME Init PROVE TypesInv
  OBVIOUS
<1>1. <<>> \in Seq(PieceTypes) /\ <<>> \in Seq(Texts) /\ Len(<<>>) = 0 /\ <<>> \in Texts
      /\ <<>> \in Seq({"OK", "ERR"})
  BY TextTypes
<1>2. \A c \in Conn : MaxAsk[c] \in Nat
  BY ClientAssumption
<1>3. QED
  BY <1>1, <1>2 DEF Init, TypesInv, ExchangeOK, PlaceOK, ClientOK, DataOK, Rows, Codes, Known

\* Clients, connections, sessions and tables always have their types: an operation
\* never hears more than five texts before it acts, what the loop performs is
\* always a code, and no deletion outlives the file it is of.
THEOREM SessionTypesCorrect == Spec => []SessionTypeOK
<1>1. Init => TypesInv
  BY InitTypes
<1>2. TypesInv /\ [Next]_vars => TypesInv'
  BY NextTypes
<1>3. TypesInv => SessionTypeOK
  BY TypesMean
<1>4. QED
  BY <1>1, <1>2, <1>3, PTL DEF Spec

----------------------------------------------------------------------------------------------------------------------------------------------------------
(* The inductive invariant.                                                *)

\* The place in its request of what an operation that received n pieces receives.
Places(op) ==
    CASE op = "logIn" -> <<2, 4>>
      [] op = "signIn" -> <<2, 4, 6>>
      [] op = "uploadFile" -> <<2, 4, 5, 7>>
      [] op \in {"removeFile", "deleteFile"} -> <<2>>
      [] op = "getFileVersions" -> <<2, 3>>
      [] op = "downloadLastVersion" -> <<2, 3, 6, 8>>
      [] op = "downloadPreviousVersion" -> <<2, 3, 5, 6, 9, 11>>
      [] op = "setUserPath" -> <<2>>
      [] OTHER -> <<>>

\* What the request of c may consist of.
Scripts(c) ==
    {Request(op, who, file, d, n) : op \in Codes \cap {request[c]}, who \in Credentials,
        file \in FileNames \cap {named[c]}, d \in Folders, n \in 0 .. 2}

\* Sequence w is a part of s, from place i on.
Lies(w, s, i) == \A j \in 1 .. Len(w) : i + j - 1 <= Len(s) /\ w[j] = s[i + j - 1]

Sends(w) == \A j \in 1 .. Len(w) : w[j] # Wait

\* A client with plan p waits for all answers a, which are OK.
Awaits(p, a) == \A j \in 1 .. Len(a) : a[j] = "OK" /\ j <= Len(p) /\ p[j] = Wait

\* Of request s, the thread is to receive what is at place i and the client goes on
\* at place q: what is on the wire w begins at i, and plan p of the client at q, as
\* far behind as there are answers a it did not read.
FitsAt(w, p, a, open, s, i, q) ==
    /\ i >= 1 /\ i <= Len(s) + 1 /\ q >= 1
    /\ a # <<>> => w = <<>>
    /\ Lies(w, s, i) /\ Sends(w)
    /\ Lies(p, s, q) /\ Awaits(p, a)
    /\ open => q - 1 + Len(p) = Len(s)

Fits(w, p, a, open, s, i) == FitsAt(w, p, a, open, s, i, i + Len(w) - Len(a))

Follows(c, s, i) == Fits(wire[c], plan[c], answers[c], peer[c] = "open", s, i)

\* A client with plan p that got the answers a can send nothing: it has nothing to
\* send, or it waits for an answer that is not there or is an ERR.
Held(p, a, j) ==
    /\ j \in 0 .. Len(p) /\ \A i \in 1 .. j : p[i] = Wait
    /\ Len(a) <= j
    /\ \A i \in 1 .. Len(a) - 1 : a[i] = "OK"
    /\ \/ j = Len(p)
       \/ j > 0 /\ Len(a) < j
       \/ j > 0 /\ a[j] = "ERR"

Quiet(c) == wire[c] = <<>> /\ \E j \in Nat : Held(plan[c], answers[c], j)

\* A request came.
Coded(c) == wire[c] # <<>> /\ \E s \in Scripts(c) : Follows(c, s, 1)

\* The client is gone and all it sent was received.
Over(c) == peer[c] \in {"closed", "refusing", "reset"} /\ wire[c] = <<>>

\* What the thread receives next.
Comes(w, p) == w # <<>> \/ p # <<>>
Coming(w, p) == IF w # <<>> THEN w[1] ELSE p[1]

\* A name that is too long comes.
LongName(w, p) ==
    Comes(w, p) /\ Coming(w, p).kind = "file" /\ Len(Coming(w, p).text) >= MaxText

\* What comes is no operation, or is the length of a name, and the name comes then.
Leftover(w, p, open) ==
    /\ Comes(w, p)
    /\ \/ Coming(w, p).kind \in {"file", "folder"}
       \/ /\ Coming(w, p).kind = "length" /\ Coming(w, p).text # Some
          /\ \/ Len(w) > 1 /\ w[2].kind = "file"
             \/ Len(w) = 1 /\ p # <<>> /\ p[1].kind = "file"
             \/ Len(w) = 1 /\ ~open
             \/ w = <<>> /\ Len(p) > 1 /\ p[2].kind = "file"

\* The name of a download that was refused for its length.
Overlong(c) == LongName(wire[c], plan[c]) /\ code[c] \in Downloads

\* What is left of a request that was refused before it was read ends the session.
Stray(c) == ~logged[c] /\ Leftover(wire[c], plan[c], peer[c] = "open")

\* The thread is in the operation that was asked for.
Serving(c) ==
    LET n == Len(heard[c])
    IN  /\ code[c] = request[c] /\ n < Len(Places(code[c]))
        /\ \E s \in Scripts(c) : Follows(c, s, Places(code[c])[n + 1])

\* A download holds the name that was asked for, or one of no length.
Recalls(c) ==
    code[c] \in Downloads /\ Len(heard[c]) > 1 =>
        \/ code[c] = request[c] /\ heard[c][2] = named[c]
        \/ code[c] = "downloadPreviousVersion" /\ Len(heard[c]) <= 3 /\ Over(c)

Listening(c) == at[c] = "loop" => Quiet(c) \/ Coded(c) \/ Overlong(c) \/ Stray(c)

Operating(c) ==
    at[c] = "reading" =>
        /\ Over(c) \/ Serving(c)
        /\ Recalls(c)
        /\ logged[c] \/ code[c] \in {"logIn", "signIn"}

Connected(c) ==
    /\ at[c] # "astray"
    /\ at[c] = "accept" <=> peer[c] = "away"
    /\ peer[c] \in {"away", "reset"} => wire[c] = <<>>
    /\ peer[c] # "open" => plan[c] = <<>> /\ answers[c] = <<>>

Identified(c) ==
    /\ ~logged[c] => user[c] = <<>>
    /\ logged[c] => \E row \in users : row.user = user[c]

Attuned(c) == Listening(c) /\ Operating(c) /\ Connected(c) /\ Identified(c)

LoopInv == \A c \in Conn : surplus[c] \/ Attuned(c)

-----------------------------------------------------------------------------
(* What a client sends and what a thread receives.                         *)

LEMMA TailIs ==
    ASSUME NEW S, NEW w \in Seq(S), w # <<>>
    PROVE  /\ Tail(w) \in Seq(S) /\ Len(Tail(w)) = Len(w) - 1 /\ Len(w) > 0 /\ Len(w) \in Nat
           /\ \A j \in 1 .. Len(w) - 1 : Tail(w)[j] = w[j + 1]
           /\ Head(w) = w[1] /\ Head(w) \in S
OBVIOUS

LEMMA EmptyIs ==
    ASSUME NEW S, NEW w \in Seq(S)
    PROVE  Len(w) \in Nat /\ (w = <<>> <=> Len(w) = 0)
OBVIOUS

LEMMA AppendIs ==
    ASSUME NEW S, NEW w \in Seq(S), NEW e \in S
    PROVE  /\ Append(w, e) \in Seq(S) /\ Len(Append(w, e)) = Len(w) + 1 /\ Len(w) \in Nat
           /\ \A j \in 1 .. Len(w) : Append(w, e)[j] = w[j]
           /\ Append(w, e)[Len(w) + 1] = e
OBVIOUS

\* After place i of request s, answers given lead on to place e, or end it.
GoesOn(s, i, given, e) ==
    /\ e = i + 1 + Len(given) /\ i + Len(given) <= Len(s)
    /\ \A j \in 1 .. Len(given) : s[i + j] = Wait /\ given[j] = "OK"

EndsAt(s, i, given) ==
    \E k \in Nat :
        /\ i + k <= Len(s) /\ \A j \in 1 .. k : s[i + j] = Wait
        /\ k = 0 => i = Len(s)
        /\ Len(given) <= k /\ \A j \in 1 .. Len(given) - 1 : given[j] = "OK"
        /\ i + k = Len(s) \/ (k > 0 /\ (Len(given) < k \/ given[k] = "ERR"))

Streams == Seq(PieceTypes)
Replies == Seq({"OK", "ERR"})

LEMMA StreamIs ==
    /\ <<>> \in Streams /\ Len(<<>>) = 0 /\ <<>> \in Replies
    /\ \A w \in Streams : Len(w) \in Nat /\ (w = <<>> <=> Len(w) = 0)
    /\ \A a \in Replies : Len(a) \in Nat /\ (a = <<>> <=> Len(a) = 0)
BY EmptyIs DEF Streams, Replies

LEMMA RestIs ==
    ASSUME NEW w \in Streams, w # <<>>
    PROVE  /\ Tail(w) \in Streams /\ Len(Tail(w)) = Len(w) - 1
           /\ Len(w) \in Nat /\ Len(w) > 0 /\ Head(w) = w[1] /\ w[1] \in PieceTypes
           /\ \A j \in 1 .. Len(w) - 1 : Tail(w)[j] = w[j + 1]
BY TailIs DEF Streams

LEMMA NothingLies ==
    ASSUME NEW s, NEW i
    PROVE  Lies(<<>>, s, i) /\ Sends(<<>>) /\ Awaits(s, <<>>)
<1>1. 1 .. Len(<<>>) = {}
  OBVIOUS
<1>2. QED
  BY <1>1 DEF Lies, Sends, Awaits

LEMMA LiesAt ==
    ASSUME NEW w \in Streams, NEW s, NEW i \in Nat, Lies(w, s, i), NEW j \in Nat, j < Len(w)
    PROVE  w[j + 1] = s[i + j] /\ i + j <= Len(s)
<1>1. Len(w) \in Nat
  BY StreamIs
<1>2. j + 1 \in 1 .. Len(w) /\ i + (j + 1) - 1 = i + j
  BY <1>1
<1>3. QED
  BY <1>2 DEF Lies

\* The first of what lies there.
LEMMA LiesFirst ==
    ASSUME NEW w \in Streams, NEW s, NEW i \in Nat, Lies(w, s, i), w # <<>>
    PROVE  w[1] = s[i] /\ i <= Len(s)
<1>1. 0 < Len(w) /\ 0 \in Nat
  BY RestIs
<1>2. w[0 + 1] = s[i + 0] /\ i + 0 <= Len(s)
  BY <1>1, LiesAt
<1>3. QED
  BY <1>2

LEMMA LiesRest ==
    ASSUME NEW w \in Streams, NEW s, NEW i \in Nat, Lies(w, s, i), w # <<>>
    PROVE  Lies(Tail(w), s, i + 1)
<1>1. Len(w) \in Nat /\ Len(Tail(w)) = Len(w) - 1
  BY RestIs
<1>2. ASSUME NEW j \in 1 .. Len(Tail(w))
      PROVE  (i + 1) + j - 1 <= Len(s) /\ Tail(w)[j] = s[(i + 1) + j - 1]
  <2>1. j \in 1 .. Len(w) - 1 /\ j \in Nat /\ j < Len(w) /\ (i + 1) + j - 1 = i + j
    BY <1>1
  <2>2. w[j + 1] = s[i + j] /\ i + j <= Len(s)
    BY <2>1, LiesAt
  <2>3. Tail(w)[j] = w[j + 1]
    BY <2>1, RestIs
  <2>4. QED
    BY <2>1, <2>2, <2>3
<1>3. QED
  BY <1>2 DEF Lies

LEMMA LiesMore ==
    ASSUME NEW w \in Streams, NEW s, NEW i \in Nat, Lies(w, s, i), NEW e \in PieceTypes,
           e = s[i + Len(w)], i + Len(w) <= Len(s), Sends(w), e # Wait
    PROVE  /\ Lies(Append(w, e), s, i) /\ Sends(Append(w, e))
           /\ Append(w, e) \in Streams /\ Len(Append(w, e)) = Len(w) + 1
<1>1. /\ Len(w) \in Nat /\ Len(Append(w, e)) = Len(w) + 1 /\ Append(w, e) \in Streams
      /\ \A j \in 1 .. Len(w) : Append(w, e)[j] = w[j]
      /\ Append(w, e)[Len(w) + 1] = e
  BY AppendIs DEF Streams
<1> DEFINE v == Append(w, e)
<1> HIDE DEF v
<1>2. ASSUME NEW j \in 1 .. Len(v)
      PROVE  i + j - 1 <= Len(s) /\ v[j] = s[i + j - 1] /\ v[j] # Wait
  <2>1. CASE j <= Len(w)
    <3>1. j \in 1 .. Len(w) /\ v[j] = w[j]
      BY <1>1, <2>1 DEF v
    <3>2. i + j - 1 <= Len(s) /\ w[j] = s[i + j - 1] /\ w[j] # Wait
      BY <3>1 DEF Lies, Sends
    <3>3. QED
      BY <3>1, <3>2
  <2>2. CASE j = Len(w) + 1
    <3>1. i + j - 1 = i + Len(w) /\ v[j] = e
      BY <1>1, <2>2 DEF v
    <3>2. QED
      BY <3>1
  <2>3. QED
    BY <1>1, <2>1, <2>2 DEF v
<1>3. Lies(v, s, i) /\ Sends(v)
  BY <1>2 DEF Lies, Sends
<1>4. QED
  BY <1>1, <1>3 DEF v

LEMMA SendsRest ==
    ASSUME NEW w \in Streams, Sends(w), w # <<>>
    PROVE  Sends(Tail(w)) /\ w[1] # Wait
<1>1. /\ Len(w) \in Nat /\ Len(Tail(w)) = Len(w) - 1 /\ Len(w) > 0
      /\ \A j \in 1 .. Len(w) - 1 : Tail(w)[j] = w[j + 1]
  BY RestIs
<1>2. ASSUME NEW j \in 1 .. Len(Tail(w)) PROVE Tail(w)[j] # Wait
  <2>1. j \in 1 .. Len(w) - 1 /\ j + 1 \in 1 .. Len(w)
    BY <1>1
  <2>2. QED
    BY <1>1, <2>1 DEF Sends
<1>3. 1 \in 1 .. Len(w)
  BY <1>1
<1>4. QED
  BY <1>2, <1>3 DEF Sends

\* What is said of a piece that is on the wire.
LEMMA FitsMeans ==
    ASSUME NEW w \in Streams, NEW p \in Streams, NEW a \in Replies, NEW open \in BOOLEAN,
           NEW s \in Streams, NEW i \in Nat, Fits(w, p, a, open, s, i), w # <<>>
    PROVE  /\ a = <<>> /\ i >= 1 /\ i <= Len(s)
           /\ Lies(w, s, i) /\ Sends(w) /\ Lies(p, s, i + Len(w))
           /\ open => i + Len(w) - 1 + Len(p) = Len(s)
           /\ w[1] = s[i]
<1>1. Len(w) \in Nat /\ Len(p) \in Nat /\ Len(s) \in Nat
  BY StreamIs
<1>2. a = <<>> /\ Len(a) = 0
  BY StreamIs DEF Fits, FitsAt
<1>3. i + Len(w) - Len(a) = i + Len(w)
  BY <1>1, <1>2
<1>4. /\ i >= 1 /\ Lies(w, s, i) /\ Sends(w) /\ Lies(p, s, i + Len(w))
      /\ open => i + Len(w) - 1 + Len(p) = Len(s)
  BY <1>3 DEF Fits, FitsAt
<1>5. w[1] = s[i] /\ i <= Len(s)
  BY <1>4, LiesFirst
<1>6. QED
  BY <1>2, <1>4, <1>5

\* Where the client waits for the answer to what is on the wire, it sends nothing
\* after that.
LEMMA OneOnTheWire ==
    ASSUME NEW w \in Streams, NEW p \in Streams, NEW a \in Replies, NEW open \in BOOLEAN,
           NEW s \in Streams, NEW i \in Nat, Fits(w, p, a, open, s, i), w # <<>>,
           i = Len(s) \/ s[i + 1] = Wait
    PROVE  /\ Len(w) = 1 /\ Tail(w) = <<>> /\ (open => Len(p) = Len(s) - i)
           /\ Lies(p, s, i + 1)
<1>1. /\ Len(w) \in Nat /\ Len(w) > 0 /\ Len(p) \in Nat /\ Len(s) \in Nat
      /\ Len(Tail(w)) = Len(w) - 1 /\ Tail(w) \in Streams
  BY RestIs, StreamIs
<1>2. /\ Lies(w, s, i) /\ Sends(w) /\ Lies(p, s, i + Len(w))
      /\ open => i + Len(w) - 1 + Len(p) = Len(s)
  BY FitsMeans
<1>3. Len(w) = 1
  <2>1. SUFFICES ASSUME Len(w) > 1 PROVE FALSE
    BY <1>1
  <2>2. w[1 + 1] = s[i + 1] /\ i + 1 <= Len(s)
    BY <1>2, <2>1, LiesAt
  <2>3. 1 + 1 \in 1 .. Len(w)
    BY <1>1, <2>1
  <2>4. w[1 + 1] # Wait
    BY <1>2, <2>3 DEF Sends
  <2>5. QED
    BY <1>1, <2>2, <2>4
<1>4. Len(Tail(w)) = 0
  BY <1>1, <1>3
<1>5. Tail(w) = <<>>
  BY <1>1, <1>4, StreamIs
<1>6. open => Len(p) = Len(s) - i
  BY <1>1, <1>2, <1>3
<1>7. QED
  BY <1>2, <1>3, <1>5, <1>6

\* The thread receives a piece and answers nothing.
LEMMA Moves ==
    ASSUME NEW w \in Streams, NEW p \in Streams, NEW a \in Replies, NEW open \in BOOLEAN,
           NEW s \in Streams, NEW i \in Nat, Fits(w, p, a, open, s, i), w # <<>>
    PROVE  Fits(Tail(w), p, <<>>, open, s, i + 1)
<1>1. /\ Len(w) \in Nat /\ Len(w) > 0 /\ Len(p) \in Nat /\ Len(s) \in Nat
      /\ Len(Tail(w)) = Len(w) - 1 /\ Len(<<>>) = 0
  BY RestIs, StreamIs
<1>2. /\ i >= 1 /\ i <= Len(s) /\ (open => i + Len(w) - 1 + Len(p) = Len(s))
      /\ Lies(w, s, i) /\ Sends(w) /\ Lies(p, s, i + Len(w))
  BY FitsMeans
<1>3. Lies(Tail(w), s, i + 1) /\ Sends(Tail(w)) /\ Awaits(p, <<>>)
  BY <1>2, LiesRest, SendsRest, NothingLies
<1>4. /\ i + 1 + Len(Tail(w)) - Len(<<>>) = i + Len(w) /\ i + Len(w) >= 1
      /\ i + 1 >= 1 /\ i + 1 <= Len(s) + 1
  BY <1>1, <1>2
<1>5. QED
  BY <1>2, <1>3, <1>4 DEF Fits, FitsAt

\* The thread receives a piece and gives k answers, all OK, that the client waits for.
LEMMA Advances ==
    ASSUME NEW w \in Streams, NEW p \in Streams, NEW a \in Replies, NEW open \in BOOLEAN,
           NEW s \in Streams, NEW i \in Nat, Fits(w, p, a, open, s, i), w # <<>>,
           NEW b \in Replies, NEW k \in Nat \ {0}, i + k <= Len(s),
           \A j \in 1 .. k : s[i + j] = Wait,
           open => Len(b) = k /\ \A j \in 1 .. k : b[j] = "OK",
           ~open => p = <<>> /\ b = <<>>
    PROVE  Fits(Tail(w), p, b, open, s, i + 1 + k)
<1>1. Len(p) \in Nat /\ Len(s) \in Nat /\ Len(b) \in Nat /\ Len(<<>>) = 0
  BY StreamIs
<1>2. s[i + 1] = Wait
  OBVIOUS
<1>3. /\ Tail(w) = <<>> /\ (open => Len(p) = Len(s) - i) /\ Lies(p, s, i + 1)
  BY <1>2, OneOnTheWire
<1>4. i + 1 + k >= 1 /\ i + 1 + k <= Len(s) + 1
  BY <1>1
<1>5. Lies(<<>>, s, i + 1 + k) /\ Sends(<<>>)
  BY NothingLies
<1>6. CASE open
  <2>1. Len(b) = k /\ Len(p) = Len(s) - i
    BY <1>3, <1>6
  <2>2. i + 1 + k + Len(<<>>) - Len(b) = i + 1 /\ i + 1 >= 1 /\ i + 1 - 1 + Len(p) = Len(s)
    BY <1>1, <2>1
  <2>3. Awaits(p, b)
    <3>1. SUFFICES ASSUME NEW j \in 1 .. Len(b)
                   PROVE  b[j] = "OK" /\ j <= Len(p) /\ p[j] = Wait
      BY DEF Awaits
    <3>2. j \in 1 .. k /\ j <= Len(p) /\ j - 1 \in Nat /\ j - 1 < Len(p) /\ j - 1 + 1 = j
          /\ i + 1 + (j - 1) = i + j /\ i + 1 \in Nat
      BY <1>1, <2>1
    <3>3. p[j] = s[i + j]
      BY <1>3, <3>2, LiesAt
    <3>4. QED
      BY <1>6, <3>2, <3>3
  <2>6. Fits(<<>>, p, b, open, s, i + 1 + k)
    <3>1. FitsAt(<<>>, p, b, open, s, i + 1 + k, i + 1)
      BY <1>3, <1>4, <1>5, <2>2, <2>3 DEF FitsAt
    <3>2. QED
      BY <2>2, <3>1 DEF Fits
  <2>7. QED
    BY <1>3, <2>6
<1>7. CASE ~open
  <2>1. p = <<>> /\ b = <<>>
    BY <1>7
  <2>2. i + 1 + k + Len(<<>>) - Len(<<>>) >= 1
    BY <1>1
  <2>3. Lies(<<>>, s, i + 1 + k + Len(<<>>) - Len(<<>>)) /\ Awaits(<<>>, <<>>)
    BY NothingLies
  <2>4. QED
    BY <1>3, <1>4, <1>5, <1>7, <2>1, <2>2, <2>3 DEF Fits, FitsAt
<1>8. QED
  BY <1>6, <1>7

\* The thread receives the last piece the client sends before it waits, and gives
\* answers that end the request.
LEMMA Settles ==
    ASSUME NEW w \in Streams, NEW p \in Streams, NEW a \in Replies, NEW open \in BOOLEAN,
           NEW s \in Streams, NEW i \in Nat, Fits(w, p, a, open, s, i), w # <<>>,
           NEW given \in Replies, EndsAt(s, i, given),
           NEW b \in Replies, open => b = given, ~open => p = <<>> /\ b = <<>>
    PROVE  Tail(w) = <<>> /\ \E j \in Nat : Held(p, b, j)
<1>0. PICK k \in Nat :
        /\ i + k <= Len(s) /\ \A j \in 1 .. k : s[i + j] = Wait
        /\ k = 0 => i = Len(s)
        /\ Len(given) <= k /\ \A j \in 1 .. Len(given) - 1 : given[j] = "OK"
        /\ i + k = Len(s) \/ (k > 0 /\ (Len(given) < k \/ given[k] = "ERR"))
  BY DEF EndsAt
<1>1. Len(p) \in Nat /\ Len(s) \in Nat /\ Len(b) \in Nat /\ Len(<<>>) = 0
  BY StreamIs
<1>2. i = Len(s) \/ s[i + 1] = Wait
  <2>1. k # 0 => 1 \in 1 .. k
    OBVIOUS
  <2>2. QED
    BY <1>0, <2>1
<1>3. Tail(w) = <<>> /\ (open => Len(p) = Len(s) - i) /\ Lies(p, s, i + 1)
  BY <1>2, OneOnTheWire
<1>4. CASE open
  <2>1. Len(p) = Len(s) - i
    BY <1>3, <1>4
  <2>2. k \in 0 .. Len(p) /\ (i + k = Len(s) => k = Len(p))
    BY <1>0, <1>1, <2>1
  <2>3. ASSUME NEW j \in 1 .. k PROVE p[j] = Wait
    <3>1. j - 1 \in Nat /\ j - 1 < Len(p) /\ j - 1 + 1 = j /\ i + 1 + (j - 1) = i + j /\ i + 1 \in Nat
      BY <1>1, <2>2
    <3>2. p[j] = s[i + j]
      BY <1>3, <3>1, LiesAt
    <3>3. QED
      BY <1>0, <3>2
  <2>4. /\ Len(b) <= k /\ \A j \in 1 .. Len(b) - 1 : b[j] = "OK"
        /\ k = Len(p) \/ (k > 0 /\ (Len(b) < k \/ b[k] = "ERR"))
    BY <1>0, <1>4, <2>2
  <2>5. Held(p, b, k)
    BY <2>2, <2>3, <2>4 DEF Held
  <2>6. QED
    BY <1>3, <2>5
<1>5. CASE ~open
  <2>1. p = <<>> /\ b = <<>>
    BY <1>5
  <2>2. Held(<<>>, <<>>, 0)
    BY <1>1 DEF Held
  <2>3. QED
    BY <1>3, <2>1, <2>2
<1>6. QED
  BY <1>4, <1>5

LEMMA GoneIsHeld == Held(<<>>, <<>>, 0)
BY DEF Held

-----------------------------------------------------------------------------
(* A step of the thread, seen from its connection.                         *)

Given == Answers \cup {<<>>}

LEMMA GivenTypes ==
    /\ Ok \in Given /\ Err \in Given /\ <<>> \in Given
    /\ \A given \in Given : given \in Replies
BY AnswersType DEF Given, Answers, Replies

\* What is received is no longer on the wire, and a client that is there will read
\* what it is given.
Steps(c, given) ==
    /\ wire'[c] = IF wire[c] # <<>> THEN Tail(wire[c]) ELSE <<>>
    /\ plan'[c] = plan[c] /\ request'[c] = request[c] /\ named'[c] = named[c]
    /\ answers'[c] = IF peer[c] = "open" THEN answers[c] \o given ELSE answers[c]
    /\ peer'[c] = IF peer[c] \in {"away", "open", "reset"} THEN peer[c] ELSE peer'[c]
    /\ peer[c] \in {"closed", "refusing"} => peer'[c] \in {"closed", "refusing"}
    /\ surplus'[c] \/ surplus'[c] = surplus[c]

LEMMA StreamTypes ==
    ASSUME TypesInv, NEW c \in Conn
    PROVE  /\ wire[c] \in Streams /\ plan[c] \in Streams /\ answers[c] \in Replies
           /\ heard[c] \in Seq(Texts) /\ Len(heard[c]) \in Nat /\ Len(heard[c]) <= 5
           /\ code[c] \in Codes /\ request[c] \in Codes \cup {"nothing"} /\ named[c] \in Texts
           /\ peer[c] \in {"away", "open", "closed", "refusing", "reset"}
           /\ at[c] \in {"accept", "loop", "reading", "spin", "astray", "ended"}
           /\ logged[c] \in BOOLEAN /\ surplus[c] \in BOOLEAN /\ (peer[c] = "open") \in BOOLEAN
<1>1. /\ wire[c] \in Streams /\ plan[c] \in Streams /\ answers[c] \in Replies
      /\ heard[c] \in Seq(Texts) /\ Len(heard[c]) <= 5
      /\ code[c] \in Codes /\ request[c] \in Codes \cup {"nothing"} /\ named[c] \in Texts
  BY DEF TypesInv, ExchangeOK, PlaceOK, ClientOK, Streams, Replies
<1>2. /\ peer[c] \in {"away", "open", "closed", "refusing", "reset"}
      /\ at[c] \in {"accept", "loop", "reading", "spin", "astray", "ended"}
      /\ logged[c] \in BOOLEAN /\ surplus[c] \in BOOLEAN
  BY DEF TypesInv, ExchangeOK, PlaceOK, DataOK
<1>3. Len(heard[c]) \in Nat
  BY <1>1
<1>4. QED
  BY <1>1, <1>2, <1>3

LEMMA ScriptTypes ==
    ASSUME NEW c \in Conn, NEW s \in Scripts(c)
    PROVE  s \in Streams
BY RequestType DEF Scripts, Streams

LEMMA StepsWhen ==
    ASSUME TypesInv, NEW c \in Conn, NEW given \in Given, Recv(c), UNCHANGED clientVars,
           peer[c] = "reset" => wire[c] = <<>>,
           Send(c, given) \/ SendTwice(c, given) \/ (Silent /\ given = <<>>)
    PROVE  Steps(c, given)
<1>1. /\ wire[c] \in Streams /\ answers[c] \in Replies
      /\ peer[c] \in {"away", "open", "closed", "refusing", "reset"}
  BY StreamTypes
<1>2. wire'[c] = IF wire[c] # <<>> THEN Tail(wire[c]) ELSE <<>>
  BY DEF Recv, Got, TypesInv, ClientOK
<1>3. plan'[c] = plan[c] /\ request'[c] = request[c] /\ named'[c] = named[c]
  BY DEF clientVars
<1>4. CASE Send(c, given) \/ SendTwice(c, given)
  <2>1. /\ answers' = [answers EXCEPT ![c] = IF peer[c] = "open" THEN @ \o given ELSE @]
        /\ peer' = [peer EXCEPT ![c] = IF @ = "closed" THEN "refusing" ELSE @]
        /\ surplus' = surplus \/ surplus' = [surplus EXCEPT ![c] = TRUE]
    BY <1>4 DEF Send, SendTwice, Answer
  <2>2. /\ answers'[c] = IF peer[c] = "open" THEN answers[c] \o given ELSE answers[c]
        /\ peer'[c] = IF peer[c] = "closed" THEN "refusing" ELSE peer[c]
    BY <2>1 DEF TypesInv, ExchangeOK
  <2>3. surplus'[c] \/ surplus'[c] = surplus[c]
    BY <2>1 DEF TypesInv, ExchangeOK
  <2>4. QED
    BY <1>1, <1>2, <1>3, <2>2, <2>3 DEF Steps
<1>5. CASE Silent /\ given = <<>>
  <2>1. peer' = peer /\ answers' = answers /\ surplus' = surplus
    BY <1>5 DEF Silent, sendVars
  <2>2. answers[c] \o given = answers[c]
    BY <1>1, <1>5 DEF Replies
  <2>3. QED
    BY <1>1, <1>2, <1>3, <2>1, <2>2 DEF Steps
<1>6. QED
  BY <1>4, <1>5

\* Nothing more comes.
LEMMA Gone ==
    ASSUME TypesInv, NEW c \in Conn, Connected(c), CanRecv(c), Got(c) # 1
    PROVE  /\ Over(c) /\ plan[c] = <<>> /\ answers[c] = <<>> /\ peer[c] # "open"
           /\ \A given : Steps(c, given) =>
                 /\ wire'[c] = <<>> /\ plan'[c] = <<>> /\ answers'[c] = <<>>
                 /\ Over(c)'
<1>1. wire[c] = <<>> /\ peer[c] \in {"closed", "refusing", "reset"}
  BY StreamTypes DEF Connected, CanRecv, Got
<1>2. plan[c] = <<>> /\ answers[c] = <<>>
  BY <1>1 DEF Connected
<1>3. QED
  BY <1>1, <1>2 DEF Steps, Over

LEMMA StepConnected ==
    ASSUME TypesInv, NEW c \in Conn, Connected(c), at[c] # "accept", NEW given, Steps(c, given),
           at'[c] \notin {"accept", "astray"}
    PROVE  Connected(c)'
<1>1. peer[c] \in {"open", "closed", "refusing", "reset"}
  BY StreamTypes DEF Connected
<1>2. peer'[c] # "away" /\ (peer'[c] = "open" <=> peer[c] = "open")
      /\ (peer'[c] = "reset" <=> peer[c] = "reset")
  BY <1>1 DEF Steps
<1>3. peer[c] = "reset" => wire'[c] = <<>>
  BY DEF Connected, Steps
<1>4. peer[c] # "open" => plan'[c] = <<>> /\ answers'[c] = <<>>
  BY DEF Connected, Steps
<1>5. QED
  BY <1>2, <1>3, <1>4 DEF Connected

\* What the client has to read after a step is what it was given.
LEMMA NewAnswers ==
    ASSUME TypesInv, NEW c \in Conn, Connected(c), NEW given \in Given, Steps(c, given),
           NEW s \in Scripts(c), NEW i \in Nat, Follows(c, s, i), wire[c] # <<>>
    PROVE  /\ answers'[c] \in Replies
           /\ peer[c] = "open" => answers'[c] = given
           /\ peer[c] # "open" => answers'[c] = <<>> /\ plan'[c] = <<>>
           /\ wire'[c] = Tail(wire[c]) /\ plan'[c] = plan[c]
           /\ (peer'[c] = "open") <=> (peer[c] = "open")
<1>1. answers[c] = <<>>
  BY DEF Follows, Fits, FitsAt
<1>2. given \in Replies
  BY GivenTypes
<1>3. <<>> \o given = given
  BY <1>2 DEF Replies
<1>4. /\ peer[c] = "open" => answers'[c] = given
      /\ peer[c] # "open" => answers'[c] = <<>> /\ plan'[c] = <<>>
  BY <1>1, <1>3 DEF Steps, Connected
<1>5. (peer'[c] = "open") <=> (peer[c] = "open")
  BY StreamTypes DEF Steps
<1>6. answers'[c] \in Replies
  BY <1>2, <1>4, StreamIs
<1>7. QED
  BY <1>4, <1>5, <1>6 DEF Steps

LEMMA StepGoesOn ==
    ASSUME TypesInv, NEW c \in Conn, Connected(c), NEW given \in Given, Steps(c, given),
           NEW s \in Scripts(c), NEW i \in Nat, NEW e, Follows(c, s, i), wire[c] # <<>>,
           GoesOn(s, i, given, e)
    PROVE  /\ Fits(wire'[c], plan'[c], answers'[c], peer'[c] = "open", s, e)
           /\ Scripts(c)' = Scripts(c)
<1>1. /\ answers'[c] \in Replies
      /\ peer[c] = "open" => answers'[c] = given
      /\ peer[c] # "open" => answers'[c] = <<>> /\ plan'[c] = <<>>
      /\ wire'[c] = Tail(wire[c]) /\ plan'[c] = plan[c]
      /\ (peer'[c] = "open") <=> (peer[c] = "open")
  BY NewAnswers
<1> DEFINE open == peer[c] = "open"
<1>2. /\ wire[c] \in Streams /\ plan[c] \in Streams /\ answers[c] \in Replies /\ s \in Streams
      /\ open \in BOOLEAN /\ given \in Replies
      /\ Fits(wire[c], plan[c], answers[c], open, s, i)
  BY StreamTypes, ScriptTypes, GivenTypes DEF Follows
<1>3. /\ open => answers'[c] = given
      /\ ~open => answers'[c] = <<>> /\ plan[c] = <<>>
      /\ (peer'[c] = "open") = open
  BY <1>1
<1> HIDE DEF open
<1>4. Len(given) \in Nat /\ (Len(given) = 0 <=> given = <<>>)
  BY <1>2, StreamIs
<1>5. CASE Len(given) = 0
  <2>1. answers'[c] = <<>> /\ e = i + 1
    BY <1>3, <1>4, <1>5 DEF GoesOn
  <2>2. Fits(Tail(wire[c]), plan[c], <<>>, open, s, i + 1)
    BY <1>2, Moves
  <2>3. Fits(wire'[c], plan'[c], answers'[c], open, s, e)
    BY <1>1, <2>1, <2>2
  <2>4. QED
    BY <1>3, <2>3 DEF Steps, Scripts
<1>6. CASE Len(given) # 0
  <2>1. Len(given) \in Nat \ {0} /\ e = i + 1 + Len(given) /\ i + Len(given) <= Len(s)
    BY <1>4, <1>6 DEF GoesOn
  <2>2. \A j \in 1 .. Len(given) : s[i + j] = Wait
    BY DEF GoesOn
  <2>3. open => Len(answers'[c]) = Len(given) /\ \A j \in 1 .. Len(given) : answers'[c][j] = "OK"
    BY <1>3 DEF GoesOn
  <2> DEFINE b == answers'[c]
  <2>4. b \in Replies /\ (~open => plan[c] = <<>> /\ b = <<>>)
        /\ (open => Len(b) = Len(given) /\ \A j \in 1 .. Len(given) : b[j] = "OK")
    BY <1>1, <1>3, <2>3
  <2> HIDE DEF b
  <2>5. Fits(Tail(wire[c]), plan[c], b, open, s, i + 1 + Len(given))
    BY <1>2, <2>1, <2>2, <2>4, Advances
  <2>6. Fits(wire'[c], plan'[c], answers'[c], open, s, e)
    BY <1>1, <2>1, <2>5 DEF b
  <2>7. QED
    BY <1>3, <2>6 DEF Steps, Scripts
<1>7. QED
  BY <1>5, <1>6

LEMMA StepEnds ==
    ASSUME TypesInv, NEW c \in Conn, Connected(c), NEW given \in Given, Steps(c, given),
           NEW s \in Scripts(c), NEW i \in Nat, Follows(c, s, i), wire[c] # <<>>,
           EndsAt(s, i, given)
    PROVE  Quiet(c)'
<1>1. /\ answers'[c] \in Replies
      /\ peer[c] = "open" => answers'[c] = given
      /\ peer[c] # "open" => answers'[c] = <<>> /\ plan'[c] = <<>>
      /\ wire'[c] = Tail(wire[c]) /\ plan'[c] = plan[c]
  BY NewAnswers
<1> DEFINE open == peer[c] = "open"
<1>2. /\ wire[c] \in Streams /\ plan[c] \in Streams /\ answers[c] \in Replies /\ s \in Streams
      /\ open \in BOOLEAN /\ given \in Replies
      /\ Fits(wire[c], plan[c], answers[c], open, s, i)
  BY StreamTypes, ScriptTypes, GivenTypes DEF Follows
<1>3. (open => answers'[c] = given) /\ (~open => answers'[c] = <<>> /\ plan[c] = <<>>)
  BY <1>1
<1> HIDE DEF open
<1> DEFINE b == answers'[c]
<1>4. b \in Replies
  BY <1>1
<1>5. (open => b = given) /\ (~open => plan[c] = <<>> /\ b = <<>>)
  BY <1>3
<1> HIDE DEF b
<1>6. Tail(wire[c]) = <<>> /\ \E j \in Nat : Held(plan[c], b, j)
  BY <1>2, <1>4, <1>5, Settles
<1>7. QED
  BY <1>1, <1>6 DEF Quiet, b

-----------------------------------------------------------------------------
(* How a step of the thread leaves its session.                            *)

LEMMA AfterReturn ==
    ASSUME TypesInv, NEW c \in Conn, Attuned(c), NEW given \in Given, Steps(c, given), CanRecv(c),
           at[c] \in {"loop", "reading"}, at'[c] = "loop", Identified(c)',
           Got(c) = 1 => \E s \in Scripts(c), i \in Nat :
                             wire[c] # <<>> /\ Follows(c, s, i) /\ EndsAt(s, i, given)
    PROVE  Attuned(c)'
<1>1. Connected(c)
  BY DEF Attuned
<1>2. Connected(c)'
  BY <1>1, StepConnected
<1>3. Quiet(c)'
  <2>1. CASE Got(c) = 1
    BY <1>1, <2>1, StepEnds
  <2>2. CASE Got(c) # 1
    <3>1. wire'[c] = <<>> /\ plan'[c] = <<>> /\ answers'[c] = <<>>
      BY <1>1, <2>2, Gone
    <3>2. QED
      BY <3>1, GoneIsHeld DEF Quiet
  <2>3. QED
    BY <2>1, <2>2
<1>4. QED
  BY <1>2, <1>3 DEF Attuned, Listening, Operating

LEMMA AfterHear ==
    ASSUME TypesInv, NEW c \in Conn, Attuned(c), NEW given \in Given, Steps(c, given), CanRecv(c),
           at[c] = "reading", at'[c] = "reading", code'[c] = code[c], logged'[c] = logged[c],
           Recalls(c)', Identified(c)',
           Got(c) = 1 => /\ code[c] = request[c] /\ Len(heard'[c]) < Len(Places(code[c]))
                         /\ \E s \in Scripts(c), i \in Nat :
                               /\ wire[c] # <<>> /\ Follows(c, s, i)
                               /\ GoesOn(s, i, given, Places(code[c])[Len(heard'[c]) + 1])
    PROVE  Attuned(c)'
<1>1. Connected(c) /\ (logged[c] \/ code[c] \in {"logIn", "signIn"})
  BY DEF Attuned, Operating
<1>2. Connected(c)'
  BY <1>1, StepConnected
<1>3. Over(c)' \/ Serving(c)'
  <2>1. CASE Got(c) = 1
    <3>1. PICK s \in Scripts(c), i \in Nat :
             /\ wire[c] # <<>> /\ Follows(c, s, i)
             /\ GoesOn(s, i, given, Places(code[c])[Len(heard'[c]) + 1])
      BY <2>1
    <3>0. PICK e : e = Places(code[c])[Len(heard'[c]) + 1]
      OBVIOUS
    <3>2. /\ Fits(wire'[c], plan'[c], answers'[c], peer'[c] = "open", s, e)
          /\ Scripts(c)' = Scripts(c)
      <4>1. GoesOn(s, i, given, e)
        BY <3>0, <3>1
      <4>2. QED
        BY <1>1, <3>1, <4>1, StepGoesOn
    <3>3. code'[c] = request'[c]
      BY <2>1 DEF Steps
    <3>4. QED
      BY <2>1, <3>0, <3>2, <3>3 DEF Serving, Follows
  <2>2. CASE Got(c) # 1
    BY <1>1, <2>2, Gone
  <2>3. QED
    BY <2>1, <2>2
<1>4. Operating(c)' /\ Listening(c)'
  BY <1>1, <1>3 DEF Operating, Listening
<1>5. QED
  BY <1>2, <1>4 DEF Attuned

LEMMA AfterEnd ==
    ASSUME TypesInv, NEW c \in Conn, Attuned(c), NEW given \in Given, Steps(c, given),
           at[c] \in {"loop", "reading"}, at'[c] \in {"ended", "spin"}, Identified(c)'
    PROVE  Attuned(c)'
<1>1. Connected(c)'
  BY StepConnected DEF Attuned
<1>2. QED
  BY <1>1 DEF Attuned, Listening, Operating

LEMMA PlacesAre ==
    /\ Places("logIn") = <<2, 4>> /\ Places("signIn") = <<2, 4, 6>>
    /\ Places("uploadFile") = <<2, 4, 5, 7>>
    /\ \A op \in {"removeFile", "deleteFile"} : Places(op) = <<2>>
    /\ Places("getFileVersions") = <<2, 3>>
    /\ Places("downloadLastVersion") = <<2, 3, 6, 8>>
    /\ Places("downloadPreviousVersion") = <<2, 3, 5, 6, 9, 11>>
    /\ Places("setUserPath") = <<2>>
    /\ \A op \in {"getDeletedFiles", "getUserFolder", "getUserPath", "exit", "unknown"} :
          Places(op) = <<>>
BY DEF Places

LEMMA PlacesType ==
    ASSUME NEW op \in Codes, NEW n \in Nat, n < Len(Places(op))
    PROVE  Places(op)[n + 1] \in Nat /\ Places(op)[n + 1] >= 2
<1>1. CASE op = "logIn"
  <2>0. Len(Places(op)) = 2
    BY <1>1, PlacesAre
  <2>1. n \in {0, 1}
    BY <2>0
  <2>2. QED
    BY <1>1, <2>1, PlacesAre
<1>2. CASE op = "signIn"
  <2>0. Len(Places(op)) = 3
    BY <1>2, PlacesAre
  <2>1. n \in {0, 1, 2}
    BY <2>0
  <2>2. QED
    BY <1>2, <2>1, PlacesAre
<1>3. CASE op = "uploadFile" \/ op = "downloadLastVersion"
  <2>0. Len(Places(op)) = 4
    BY <1>3, PlacesAre
  <2>1. n \in {0, 1, 2, 3}
    BY <2>0
  <2>2. QED
    BY <1>3, <2>1, PlacesAre
<1>4. CASE op = "downloadPreviousVersion"
  <2>0. Len(Places(op)) = 6
    BY <1>4, PlacesAre
  <2>1. n \in {0, 1, 2, 3, 4, 5}
    BY <2>0
  <2>2. QED
    BY <1>4, <2>1, PlacesAre
<1>5. CASE op \in {"removeFile", "deleteFile", "setUserPath"}
  <2>1. n = 0 /\ Places(op) = <<2>>
    BY <1>5, PlacesAre
  <2>2. QED
    BY <2>1
<1>6. CASE op = "getFileVersions"
  <2>0. Len(Places(op)) = 2
    BY <1>6, PlacesAre
  <2>1. n \in {0, 1}
    BY <2>0
  <2>2. QED
    BY <1>6, <2>1, PlacesAre
<1>7. CASE op \in {"getDeletedFiles", "getUserFolder", "getUserPath", "exit", "unknown"}
  <2>1. Places(op) = <<>>
    BY <1>7, PlacesAre
  <2>2. QED
    BY <2>1
<1>8. QED
  BY <1>1, <1>2, <1>3, <1>4, <1>5, <1>6, <1>7 DEF Codes, Known, Downloads

\* What a thread that receives a piece knows of the request it is in.
LEMMA InRequest ==
    ASSUME TypesInv, NEW c \in Conn, Attuned(c), NEW op, NEW n \in Nat, Reading(c, op, n), Got(c) = 1
    PROVE  /\ request[c] = op /\ n < Len(Places(op)) /\ wire[c] # <<>> /\ named[c] \in FileNames
           /\ \E s \in Scripts(c), i \in Nat :
                 /\ i = Places(op)[n + 1] /\ Follows(c, s, i) /\ i <= Len(s) /\ wire[c][1] = s[i]
                 /\ Text(c) = s[i].text
<1>1. at[c] = "reading" /\ code[c] = op /\ Len(heard[c]) = n /\ wire[c] # <<>> /\ op \in Codes
  BY StreamTypes DEF Reading, Got
<1>2. Serving(c)
  BY <1>1 DEF Attuned, Operating, Over
<1>3. PICK s \in Scripts(c) : Follows(c, s, Places(op)[n + 1])
  BY <1>1, <1>2 DEF Serving
<1>4. request[c] = op /\ n < Len(Places(op))
  BY <1>1, <1>2 DEF Serving
<1>5. named[c] \in FileNames
  BY DEF Scripts
<1> DEFINE i == Places(op)[n + 1]
<1>6. i \in Nat
  BY <1>1, <1>4, PlacesType
<1>7. Follows(c, s, i)
  BY <1>3
<1> HIDE DEF i
<1>8. /\ wire[c] \in Streams /\ plan[c] \in Streams /\ answers[c] \in Replies /\ s \in Streams
      /\ (peer[c] = "open") \in BOOLEAN
  BY StreamTypes, ScriptTypes
<1>9. i <= Len(s) /\ wire[c][1] = s[i]
  <2> DEFINE open == peer[c] = "open"
  <2>1. Fits(wire[c], plan[c], answers[c], open, s, i) /\ open \in BOOLEAN
    BY <1>7, <1>8 DEF Follows
  <2> HIDE DEF open
  <2>2. QED
    BY <1>1, <1>6, <1>8, <2>1, FitsMeans
<1>10. Text(c) = s[i].text
  BY <1>1, <1>8, <1>9, RestIs DEF Text
<1>11. QED
  BY <1>1, <1>4, <1>5, <1>6, <1>7, <1>9, <1>10 DEF i

-----------------------------------------------------------------------------
(* The answers the clients wait for.                                       *)

LEMMA AnswersAre ==
    /\ Len(Ok) = 1 /\ Ok[1] = "OK" /\ Len(Err) = 1 /\ Err[1] = "ERR" /\ Len(<<>>) = 0
    /\ Len(Ok \o Ok) = 2 /\ (Ok \o Ok)[1] = "OK" /\ (Ok \o Ok)[2] = "OK"
    /\ Len(Ok \o Err) = 2 /\ (Ok \o Err)[1] = "OK" /\ (Ok \o Err)[2] = "ERR"
BY DEF Ok, Err

LEMMA GoesNone ==
    ASSUME NEW s \in Streams, NEW i \in Nat, i <= Len(s)
    PROVE  GoesOn(s, i, <<>>, i + 1)
BY StreamIs, AnswersAre DEF GoesOn

LEMMA GoesOne ==
    ASSUME NEW s \in Streams, NEW i \in Nat, i + 1 <= Len(s), s[i + 1] = Wait
    PROVE  GoesOn(s, i, Ok, i + 2)
<1>1. 1 .. Len(Ok) = {1}
  BY AnswersAre
<1>2. QED
  BY <1>1, AnswersAre DEF GoesOn

LEMMA GoesTwo ==
    ASSUME NEW s \in Streams, NEW i \in Nat, i + 2 <= Len(s), s[i + 1] = Wait, s[i + 2] = Wait
    PROVE  GoesOn(s, i, Ok \o Ok, i + 3)
<1> DEFINE g == Ok \o Ok
<1>1. Len(g) = 2 /\ g[1] = "OK" /\ g[2] = "OK"
  BY AnswersAre
<1> HIDE DEF g
<1>2. 1 .. Len(g) = {1, 2}
  BY <1>1
<1>3. GoesOn(s, i, g, i + 3)
  BY <1>1, <1>2 DEF GoesOn
<1>4. QED
  BY <1>3 DEF g

LEMMA EndsNone ==
    ASSUME NEW s \in Streams, NEW i \in Nat, i = Len(s)
    PROVE  EndsAt(s, i, <<>>)
<1>1. i + 0 = Len(s) /\ 1 .. 0 = {} /\ 1 .. Len(<<>>) - 1 = {}
  BY StreamIs
<1>2. QED
  BY <1>1, AnswersAre DEF EndsAt

LEMMA EndsOne ==
    ASSUME NEW s \in Streams, NEW i \in Nat, i + 1 <= Len(s), s[i + 1] = Wait,
           NEW given \in {<<>>, Ok, Err}, given # Err => i + 1 = Len(s)
    PROVE  EndsAt(s, i, given)
<1>1. /\ Len(given) <= 1 /\ 1 .. Len(given) - 1 = {}
      /\ given = Err => given[1] = "ERR"
  BY AnswersAre
<1>2. 1 .. 1 = {1} /\ 1 \in Nat /\ 1 > 0
  OBVIOUS
<1>3. \A j \in 1 .. 1 : s[i + j] = Wait
  BY <1>2
<1>4. QED
  BY <1>1, <1>2, <1>3 DEF EndsAt

LEMMA EndsTwo ==
    ASSUME NEW s \in Streams, NEW i \in Nat, i + 2 <= Len(s), s[i + 1] = Wait, s[i + 2] = Wait,
           NEW given \in {<<>>, Ok, Err, Ok \o Err, Ok \o Ok}, given = Ok \o Ok => i + 2 = Len(s)
    PROVE  EndsAt(s, i, given)
<1>1. /\ Len(given) <= 2 /\ (given[1] = "OK" \/ Len(given) <= 1)
      /\ Len(given) < 2 \/ given[2] = "ERR" \/ i + 2 = Len(s)
      /\ Len(given) \in {0, 1, 2}
  <2>1. CASE given \in {<<>>, Ok, Err}
    BY <2>1, AnswersAre
  <2>2. CASE given = Ok \o Err
    BY <2>2, AnswersAre
  <2>3. CASE given = Ok \o Ok
    BY <2>3, AnswersAre
  <2>4. QED
    BY <2>1, <2>2, <2>3
<1>2. \A j \in 1 .. Len(given) - 1 : given[j] = "OK"
  BY <1>1
<1>3. 1 .. 2 = {1, 2} /\ 2 \in Nat /\ 2 > 0
  OBVIOUS
<1>4. \A j \in 1 .. 2 : s[i + j] = Wait
  BY <1>3
<1>5. i + 2 = Len(s) \/ (2 > 0 /\ (Len(given) < 2 \/ given[2] = "ERR"))
  BY <1>1
<1>6. QED
  <2> DEFINE two == 2
  <2>1. /\ two \in Nat /\ i + two <= Len(s) /\ \A j \in 1 .. two : s[i + j] = Wait
        /\ two = 0 => i = Len(s)
        /\ Len(given) <= two
        /\ i + two = Len(s) \/ (two > 0 /\ (Len(given) < two \/ given[two] = "ERR"))
    BY <1>1, <1>4, <1>5
  <2> HIDE DEF two
  <2>2. QED
    BY <1>2, <2>1 DEF EndsAt

-----------------------------------------------------------------------------
(* Each operation keeps its session in step.                               *)

LEMMA PlaceSteps ==
    ASSUME TypesInv, NEW c \in Conn
    PROVE  /\ \A s : Goes(c, s) => at'[c] = s /\ heard'[c] = <<>>
           /\ \A t \in Texts : Hear(c, t) =>
                 /\ at'[c] = at[c] /\ heard'[c] = Append(heard[c], t)
                 /\ Len(heard'[c]) = Len(heard[c]) + 1
                 /\ \A j \in 1 .. Len(heard[c]) : heard'[c][j] = heard[c][j]
                 /\ heard'[c][Len(heard[c]) + 1] = t
<1>1. at'[c] = at[c] \/ TRUE
  OBVIOUS
<1>2. /\ at \in [Conn -> {"accept", "loop", "reading", "spin", "astray", "ended"}]
      /\ heard \in [Conn -> Seq(Texts)] /\ heard[c] \in Seq(Texts)
  BY DEF TypesInv, PlaceOK
<1>3. ASSUME NEW s, Goes(c, s) PROVE at'[c] = s /\ heard'[c] = <<>>
  BY <1>2, <1>3 DEF Goes
<1>4. ASSUME NEW t \in Texts, Hear(c, t)
      PROVE  /\ at'[c] = at[c] /\ heard'[c] = Append(heard[c], t)
             /\ Len(heard'[c]) = Len(heard[c]) + 1
             /\ \A j \in 1 .. Len(heard[c]) : heard'[c][j] = heard[c][j]
             /\ heard'[c][Len(heard[c]) + 1] = t
  <2>1. at'[c] = at[c] /\ heard'[c] = Append(heard[c], t)
    BY <1>2, <1>4 DEF Hear
  <2>2. QED
    BY <1>2, <2>1, AppendIs
<1>5. QED
  BY <1>3, <1>4

LEMMA ReadingSteps ==
    ASSUME TypesInv, NEW c \in Conn, Attuned(c), NEW op, NEW n, Reading(c, op, n)
    PROVE  /\ CanRecv(c) /\ at[c] = "reading" /\ code[c] = op /\ code'[c] = code[c] /\ Len(heard[c]) = n
           /\ Text(c) \in Texts
           /\ \A given \in Given :
                 Send(c, given) \/ SendTwice(c, given) => Steps(c, given)
           /\ Silent => Steps(c, <<>>)
           /\ Got(c) \in {-1, 0, 1}
<1>1. Recv(c) /\ UNCHANGED clientVars /\ (peer[c] = "reset" => wire[c] = <<>>)
  BY DEF Reading, Attuned, Connected
<1>2. \A given \in Given : Send(c, given) \/ SendTwice(c, given) => Steps(c, given)
  BY <1>1, StepsWhen
<1>3. Silent => Steps(c, <<>>)
  BY <1>1, StepsWhen, GivenTypes
<1>4. Text(c) \in Texts
  BY ReadingTypes
<1>5. QED
  BY <1>1, <1>2, <1>3, <1>4 DEF Reading, Recv, Got

LEMMA SameIdentified ==
    ASSUME NEW c \in Conn, Attuned(c)
    PROVE  /\ Same => Identified(c)' /\ logged'[c] = logged[c] /\ user' = user
           /\ UNCHANGED <<user, logged, users>> => Identified(c)'
BY DEF Attuned, Identified, Same, sessionVars, tableVars

LEMMA GivenAre ==
    /\ Ok \in Given /\ Err \in Given /\ <<>> \in Given
    /\ Ok \o Err \in Given /\ Ok \o Ok \in Given /\ Err \o Err \in Given /\ Err \o Ok \in Given
    /\ Ok \o Err \o Ok \in Given
BY DEF Given, Answers

\* A thread that received what came goes on at place e of the request after the
\* answers given, or comes to the end of it with them.
Leads(c, given, e) ==
    \E s \in Scripts(c), i \in Nat : wire[c] # <<>> /\ Follows(c, s, i) /\ GoesOn(s, i, given, e)

Finishes(c, given) ==
    \E s \in Scripts(c), i \in Nat : wire[c] # <<>> /\ Follows(c, s, i) /\ EndsAt(s, i, given)

\* What returns, throws or spins.
LEMMA ReturnKeeps ==
    ASSUME TypesInv, NEW c \in Conn, Attuned(c), NEW op, NEW n, Reading(c, op, n), Return(c),
           NEW given \in Given, Send(c, given) \/ (Silent /\ given = <<>>), Identified(c)',
           Got(c) = 1 => Finishes(c, given)
    PROVE  Attuned(c)'
<1>1. CanRecv(c) /\ at[c] = "reading" /\ Steps(c, given)
  BY ReadingSteps
<1>2. at'[c] = "loop"
  BY PlaceSteps DEF Return
<1>3. QED
  BY <1>1, <1>2, AfterReturn DEF Finishes

LEMMA ThrowKeeps ==
    ASSUME TypesInv, NEW c \in Conn, Attuned(c), NEW op, NEW n, Reading(c, op, n),
           Throw(c) \/ Spin(c),
           NEW given \in Given, Send(c, given) \/ (Silent /\ given = <<>>), Identified(c)'
    PROVE  Attuned(c)'
<1>1. at[c] = "reading" /\ Steps(c, given)
  BY ReadingSteps
<1>2. at'[c] \in {"ended", "spin"}
  BY PlaceSteps DEF Throw, Spin
<1>3. QED
  BY <1>1, <1>2, AfterEnd

LEMMA HearKeeps ==
    ASSUME TypesInv, NEW c \in Conn, Attuned(c), NEW op, NEW n \in Nat, Reading(c, op, n),
           NEW t \in Texts, Hear(c, t),
           NEW given \in Given, Send(c, given) \/ (Silent /\ given = <<>>),
           Identified(c)', logged'[c] = logged[c], Recalls(c)',
           n + 1 < Len(Places(op)), NEW e, e = Places(op)[n + 2],
           Got(c) = 1 => Leads(c, given, e)
    PROVE  Attuned(c)'
<1>1. /\ CanRecv(c) /\ at[c] = "reading" /\ code[c] = op /\ code'[c] = code[c] /\ Len(heard[c]) = n
      /\ Steps(c, given)
  BY ReadingSteps
<1>2. at'[c] = at[c] /\ Len(heard'[c]) = n + 1
  BY <1>1, PlaceSteps
<1>3. Len(heard'[c]) + 1 = n + 2
  BY <1>2
<1>4. at'[c] = "reading"
  BY <1>1, <1>2
<1>5. ASSUME Got(c) = 1
      PROVE  /\ code[c] = request[c] /\ Len(heard'[c]) < Len(Places(code[c]))
             /\ \E s \in Scripts(c), i \in Nat :
                   /\ wire[c] # <<>> /\ Follows(c, s, i)
                   /\ GoesOn(s, i, given, Places(code[c])[Len(heard'[c]) + 1])
  <2>1. code[c] = request[c]
    BY <1>1, <1>5, InRequest
  <2>2. Len(heard'[c]) < Len(Places(code[c])) /\ Places(code[c])[Len(heard'[c]) + 1] = e
    BY <1>1, <1>2, <1>3
  <2>3. QED
    BY <1>5, <2>1, <2>2 DEF Leads
<1>6. QED
  BY <1>1, <1>4, <1>5, AfterHear

\* An operation that is no download has no name to recall.
LEMMA NoRecall ==
    ASSUME NEW c, code'[c] \notin Downloads
    PROVE  Recalls(c)'
BY DEF Recalls

\* Which answers end a request, and after which it goes on.
LEMMA ScriptIs ==
    ASSUME NEW c \in Conn, NEW s \in Scripts(c)
    PROVE  /\ request[c] \in Codes /\ named[c] \in FileNames /\ s \in Streams /\ Len(s) \in Nat
           /\ \E who \in Credentials, d \in Folders, n \in 0 .. 2 :
                 s = Request(request[c], who, named[c], d, n)
<1>1. request[c] \in Codes /\ named[c] \in FileNames
  BY DEF Scripts
<1>2. \E who \in Credentials, d \in Folders, n \in 0 .. 2 :
         s = Request(request[c], who, named[c], d, n)
  BY DEF Scripts
<1>3. s \in Streams
  BY ScriptTypes
<1>4. Len(s) \in Nat
  BY <1>3, StreamIs
<1>5. QED
  BY <1>1, <1>2, <1>3, <1>4

LEMMA SignScripts ==
    ASSUME NEW c \in Conn, NEW s \in Scripts(c)
    PROVE  /\ request[c] = "logIn" =>
                  /\ GoesOn(s, 2, Ok, 4) /\ EndsAt(s, 2, Err)
                  /\ EndsAt(s, 4, Ok) /\ EndsAt(s, 4, Err)
           /\ request[c] = "signIn" =>
                  /\ GoesOn(s, 2, Ok, 4) /\ GoesOn(s, 4, Ok, 6)
                  /\ EndsAt(s, 6, Ok \o Err) /\ EndsAt(s, 6, Ok \o Ok)
<1>1. PICK who \in Credentials, d \in Folders, n \in 0 .. 2 :
         s = Request(request[c], who, named[c], d, n)
  BY ScriptIs
<1>2. request[c] \in Codes /\ named[c] \in FileNames /\ s \in Streams /\ Len(s) \in Nat
  BY ScriptIs
<1>3. CASE request[c] = "logIn"
  <2>1. Len(s) = 5 /\ s[3] = Wait /\ s[5] = Wait
    BY <1>1, <1>3, LogInIs
  <2>2. GoesOn(s, 2, Ok, 4) /\ EndsAt(s, 2, Err)
    <3>1. 2 \in Nat /\ 2 + 1 = 3 /\ 2 + 2 = 4 /\ 2 + 1 <= Len(s) /\ s[2 + 1] = Wait
      BY <2>1
    <3>2. QED
      BY <1>2, <3>1, GoesOne, EndsOne
  <2>3. EndsAt(s, 4, Ok) /\ EndsAt(s, 4, Err)
    <3>1. 4 \in Nat /\ 4 + 1 = Len(s) /\ 4 + 1 <= Len(s) /\ s[4 + 1] = Wait
      BY <2>1
    <3>2. QED
      BY <1>2, <3>1, EndsOne
  <2>4. QED
    BY <1>3, <2>2, <2>3
<1>4. CASE request[c] = "signIn"
  <2>1. Len(s) = 8 /\ s[3] = Wait /\ s[5] = Wait /\ s[7] = Wait /\ s[8] = Wait
    BY <1>1, <1>4, SignInIs
  <2>2. GoesOn(s, 2, Ok, 4)
    <3>1. 2 \in Nat /\ 2 + 2 = 4 /\ 2 + 1 <= Len(s) /\ s[2 + 1] = Wait
      BY <2>1
    <3>2. QED
      BY <1>2, <3>1, GoesOne
  <2>3. GoesOn(s, 4, Ok, 6)
    <3>1. 4 \in Nat /\ 4 + 2 = 6 /\ 4 + 1 <= Len(s) /\ s[4 + 1] = Wait
      BY <2>1
    <3>2. QED
      BY <1>2, <3>1, GoesOne
  <2>4. EndsAt(s, 6, Ok \o Err) /\ EndsAt(s, 6, Ok \o Ok)
    <3>1. 6 \in Nat /\ 6 + 2 = Len(s) /\ 6 + 2 <= Len(s) /\ s[6 + 1] = Wait /\ s[6 + 2] = Wait
      BY <2>1
    <3>2. QED
      BY <1>2, <3>1, EndsTwo
  <2>5. QED
    BY <1>4, <2>2, <2>3, <2>4
<1>5. QED
  BY <1>3, <1>4

LEMMA ChangeScripts ==
    ASSUME NEW c \in Conn, NEW s \in Scripts(c)
    PROVE  /\ request[c] = "uploadFile" =>
                  /\ GoesOn(s, 2, Ok, 4) /\ EndsAt(s, 2, Err)
                  /\ GoesOn(s, 4, <<>>, 5) /\ GoesOn(s, 5, Ok, 7)
                  /\ EndsAt(s, 7, Ok) /\ EndsAt(s, 7, Err)
           /\ request[c] \in {"removeFile", "deleteFile"} => EndsAt(s, 2, Ok) /\ EndsAt(s, 2, Err)
           /\ request[c] = "getFileVersions" =>
                  GoesOn(s, 2, <<>>, 3) /\ EndsAt(s, 3, Ok) /\ EndsAt(s, 3, Err)
           /\ request[c] = "setUserPath" => EndsAt(s, 2, <<>>)
<1>1. PICK who \in Credentials, d \in Folders, n \in 0 .. 2 :
         s = Request(request[c], who, named[c], d, n)
  BY ScriptIs
<1>2. request[c] \in Codes /\ named[c] \in FileNames /\ s \in Streams /\ Len(s) \in Nat
  BY ScriptIs
<1>3. CASE request[c] = "uploadFile"
  <2>1. Len(s) = 8 /\ s[3] = Wait /\ s[6] = Wait /\ s[8] = Wait
    BY <1>1, <1>3, UploadIs
  <2>2. GoesOn(s, 2, Ok, 4) /\ EndsAt(s, 2, Err)
    <3>1. 2 \in Nat /\ 2 + 2 = 4 /\ 2 + 1 <= Len(s) /\ s[2 + 1] = Wait
      BY <2>1
    <3>2. QED
      BY <1>2, <3>1, GoesOne, EndsOne
  <2>3. GoesOn(s, 4, <<>>, 5)
    <3>1. 4 \in Nat /\ 4 + 1 = 5 /\ 4 <= Len(s)
      BY <2>1
    <3>2. QED
      BY <1>2, <3>1, GoesNone
  <2>4. GoesOn(s, 5, Ok, 7)
    <3>1. 5 \in Nat /\ 5 + 2 = 7 /\ 5 + 1 <= Len(s) /\ s[5 + 1] = Wait
      BY <2>1
    <3>2. QED
      BY <1>2, <3>1, GoesOne
  <2>5. EndsAt(s, 7, Ok) /\ EndsAt(s, 7, Err)
    <3>1. 7 \in Nat /\ 7 + 1 = Len(s) /\ 7 + 1 <= Len(s) /\ s[7 + 1] = Wait
      BY <2>1
    <3>2. QED
      BY <1>2, <3>1, EndsOne
  <2>6. QED
    BY <1>3, <2>2, <2>3, <2>4, <2>5
<1>4. CASE request[c] \in {"removeFile", "deleteFile"}
  <2>1. Len(s) = 3 /\ s[3] = Wait
    BY <1>1, <1>4, ChangeIs
  <2>2. 2 \in Nat /\ 2 + 1 = Len(s) /\ 2 + 1 <= Len(s) /\ s[2 + 1] = Wait
    BY <2>1
  <2>3. EndsAt(s, 2, Ok) /\ EndsAt(s, 2, Err)
    BY <1>2, <2>2, EndsOne
  <2>4. QED
    BY <1>4, <2>3
<1>5. CASE request[c] = "getFileVersions"
  <2>1. Len(s) = 4 /\ s[4] = Wait
    BY <1>1, <1>5, VersionsIs
  <2>5. GoesOn(s, 2, <<>>, 3)
    <3>1. 2 \in Nat /\ 2 + 1 = 3 /\ 2 <= Len(s)
      BY <2>1
    <3>2. QED
      BY <1>2, <3>1, GoesNone
  <2>2. 3 \in Nat /\ 3 + 1 = Len(s) /\ 3 + 1 <= Len(s) /\ s[3 + 1] = Wait
    BY <2>1
  <2>3. EndsAt(s, 3, Ok) /\ EndsAt(s, 3, Err)
    BY <1>2, <2>2, EndsOne
  <2>4. QED
    BY <1>5, <2>3, <2>5
<1>6. CASE request[c] = "setUserPath"
  <2>1. 2 = Len(s) /\ 2 \in Nat
    BY <1>1, <1>6, PathIs
  <2>2. EndsAt(s, 2, <<>>)
    BY <1>2, <2>1, EndsNone
  <2>3. QED
    BY <1>6, <2>2
<1>7. QED
  BY <1>3, <1>4, <1>5, <1>6

LEMMA ConfirmIs ==
    /\ Piece("confirm", Yes).text = Yes /\ Piece("confirm", No).text = No /\ Yes # No
    /\ Piece("confirm", Yes) # Piece("confirm", No)
<1>1. Yes # No
  <2>1. Yes[1] = "OK" /\ No[1] = "NO"
    BY DEF Yes, No
  <2>2. QED
    BY <2>1
<1>2. QED
  BY <1>1 DEF Piece

\* What the name and the date of a download are answered with.
LEMMA DownloadScripts ==
    ASSUME NEW c \in Conn, NEW s \in Scripts(c), request[c] \in Downloads
    PROVE  /\ s[2].text = <<Len(named[c])>> /\ s[3] = Piece("file", named[c]) /\ GoesOn(s, 2, <<>>, 3)
           /\ EndsAt(s, 3, Err)
           /\ request[c] = "downloadLastVersion" =>
                  EndsAt(s, 3, Ok \o Err) /\ GoesOn(s, 3, Ok \o Ok, 6)
           /\ request[c] = "downloadPreviousVersion" =>
                  /\ GoesOn(s, 3, Ok, 5) /\ s[5].text = <<1>> /\ GoesOn(s, 5, <<>>, 6)
                  /\ EndsAt(s, 6, Ok) /\ EndsAt(s, 6, Ok \o Err) /\ GoesOn(s, 6, Ok \o Ok, 9)
<1>1. PICK who \in Credentials, d \in Folders, n \in 0 .. 2 :
         s = Request(request[c], who, named[c], d, n)
  BY ScriptIs
<1>2. request[c] \in Codes /\ named[c] \in FileNames /\ s \in Streams /\ Len(s) \in Nat
  BY ScriptIs
<1>3. /\ s[2] = Measure(named[c]) /\ s[3] = Piece("file", named[c]) /\ s[4] = Wait
      /\ request[c] = "downloadLastVersion" => Len(s) >= 6 /\ s[5] = Wait
      /\ request[c] = "downloadPreviousVersion" =>
             Len(s) >= 9 /\ s[5] = Piece("length", <<1>>) /\ s[7] = Wait /\ s[8] = Wait
  <2>1. CASE request[c] = "downloadLastVersion"
    <3>1. /\ s[2] = Measure(named[c]) /\ s[3] = Piece("file", named[c]) /\ s[4] = Wait
          /\ s[5] = Wait /\ Confirms(s, 5)
      BY <1>1, <2>1, LastIs
    <3>2. Len(s) >= 6
      BY <3>1 DEF Confirms
    <3>3. QED
      BY <2>1, <3>1, <3>2
  <2>2. CASE request[c] = "downloadPreviousVersion"
    <3>1. /\ s[2] = Measure(named[c]) /\ s[3] = Piece("file", named[c]) /\ s[4] = Wait
          /\ s[5] = Piece("length", <<1>>) /\ s[7] = Wait /\ s[8] = Wait /\ Confirms(s, 8)
      BY <1>1, <2>2, PreviousIs
    <3>2. Len(s) >= 9
      BY <3>1 DEF Confirms
    <3>3. QED
      BY <2>2, <3>1, <3>2
  <2>3. QED
    BY <2>1, <2>2 DEF Downloads
<1>4. Len(s) >= 6
  BY <1>2, <1>3 DEF Downloads
<1>5. s[2].text = <<Len(named[c])>> /\ s[3] = Piece("file", named[c])
  BY <1>3 DEF Piece, Measure
<1>6. GoesOn(s, 2, <<>>, 3)
  <2>1. 2 \in Nat /\ 2 + 1 = 3 /\ 2 <= Len(s)
    BY <1>2, <1>4
  <2>2. QED
    BY <1>2, <2>1, GoesNone
<1>7. EndsAt(s, 3, Err)
  <2>1. 3 \in Nat /\ 3 + 1 <= Len(s) /\ s[3 + 1] = Wait
    BY <1>2, <1>3, <1>4
  <2>2. QED
    BY <1>2, <2>1, EndsOne
<1>8. CASE request[c] = "downloadLastVersion"
  <2>1. 3 \in Nat /\ 3 + 2 <= Len(s) /\ s[3 + 1] = Wait /\ s[3 + 2] = Wait /\ 3 + 3 = 6
    BY <1>2, <1>3, <1>4, <1>8
  <2>2. GoesOn(s, 3, Ok \o Ok, 6)
    BY <1>2, <2>1, GoesTwo
  <2>3. EndsAt(s, 3, Ok \o Err)
    <3>1. Ok \o Err # Ok \o Ok
      BY AnswersAre
    <3>2. QED
      BY <1>2, <2>1, <3>1, EndsTwo
  <2>4. QED
    BY <1>5, <1>6, <1>7, <1>8, <2>2, <2>3
<1>9. CASE request[c] = "downloadPreviousVersion"
  <2>1. Len(s) >= 9 /\ s[5] = Piece("length", <<1>>) /\ s[7] = Wait /\ s[8] = Wait
    BY <1>3, <1>9
  <2>2. GoesOn(s, 3, Ok, 5)
    <3>1. 3 \in Nat /\ 3 + 2 = 5 /\ 3 + 1 <= Len(s) /\ s[3 + 1] = Wait
      BY <1>2, <1>3, <1>4
    <3>2. QED
      BY <1>2, <3>1, GoesOne
  <2>3. GoesOn(s, 5, <<>>, 6)
    <3>1. 5 \in Nat /\ 5 + 1 = 6 /\ 5 <= Len(s)
      BY <1>2, <1>4
    <3>2. QED
      BY <1>2, <3>1, GoesNone
  <2>4. 6 \in Nat /\ 6 + 2 <= Len(s) /\ s[6 + 1] = Wait /\ s[6 + 2] = Wait /\ 6 + 3 = 9
    BY <1>2, <2>1
  <2>5. GoesOn(s, 6, Ok \o Ok, 9)
    BY <1>2, <2>4, GoesTwo
  <2>6. EndsAt(s, 6, Ok) /\ EndsAt(s, 6, Ok \o Err)
    <3>1. Ok \o Err # Ok \o Ok /\ Ok # Ok \o Ok
      BY AnswersAre
    <3>2. QED
      BY <1>2, <2>4, <3>1, EndsTwo
  <2>7. s[5].text = <<1>>
    BY <2>1 DEF Piece
  <2>8. QED
    BY <1>5, <1>6, <1>7, <1>9, <2>2, <2>3, <2>5, <2>6, <2>7
<1>10. QED
  BY <1>8, <1>9 DEF Downloads

\* What the client confirms, it confirms to the end.
LEMMA ConfirmScripts ==
    ASSUME NEW c \in Conn, NEW s \in Scripts(c), request[c] \in Downloads,
           NEW h, h = Half(request[c])
    PROVE  /\ h + 1 <= Len(s) => IF s[h + 1].text = Yes THEN GoesOn(s, h + 1, Ok, h + 3)
                                 ELSE EndsAt(s, h + 1, <<>>)
           /\ h + 3 <= Len(s) => IF s[h + 3].text = Yes
                                 THEN EndsAt(s, h + 3, Ok) /\ EndsAt(s, h + 3, Err)
                                 ELSE EndsAt(s, h + 3, <<>>)
<1>1. PICK who \in Credentials, d \in Folders, n \in 0 .. 2 :
         s = Request(request[c], who, named[c], d, n)
  BY ScriptIs
<1>2. request[c] \in Codes /\ named[c] \in FileNames /\ s \in Streams /\ Len(s) \in Nat
  BY ScriptIs
<1>3. \/ Len(s) = h + 1 /\ s[h + 1] = Piece("confirm", No)
      \/ /\ Len(s) = h + 3 /\ s[h + 1] = Piece("confirm", Yes) /\ s[h + 2] = Wait
         /\ s[h + 3] = Piece("confirm", No)
      \/ /\ Len(s) = h + 4 /\ s[h + 1] = Piece("confirm", Yes) /\ s[h + 2] = Wait
         /\ s[h + 3] = Piece("confirm", Yes) /\ s[h + 4] = Wait
  <2>1. Confirms(s, h)
    <3>1. CASE request[c] = "downloadLastVersion"
      BY <1>1, <3>1, LastIs DEF Half
    <3>2. CASE request[c] = "downloadPreviousVersion"
      BY <1>1, <3>2, PreviousIs DEF Half
    <3>3. QED
      BY <3>1, <3>2 DEF Downloads
  <2>2. QED
    BY <2>1 DEF Confirms
<1>4. h \in Nat
  BY DEF Half
<1>5. CASE Len(s) = h + 1 /\ s[h + 1] = Piece("confirm", No)
  <2>1. h + 1 \in Nat /\ h + 1 = Len(s) /\ s[h + 1].text # Yes /\ ~(h + 3 <= Len(s))
    BY <1>4, <1>5, ConfirmIs
  <2>2. EndsAt(s, h + 1, <<>>)
    BY <1>2, <2>1, EndsNone
  <2>3. QED
    BY <2>1, <2>2
<1>6. CASE Len(s) >= h + 3 /\ s[h + 1] = Piece("confirm", Yes) /\ s[h + 2] = Wait
  <2>1. h + 1 \in Nat /\ (h + 1) + 1 <= Len(s) /\ s[(h + 1) + 1] = Wait /\ (h + 1) + 2 = h + 3
    <3>1. (h + 1) + 1 = h + 2 /\ (h + 1) + 2 = h + 3 /\ h + 1 \in Nat
      BY <1>4
    <3>2. h + 2 <= Len(s)
      BY <1>2, <1>4, <1>6
    <3>3. QED
      BY <1>6, <3>1, <3>2
  <2>2. GoesOn(s, h + 1, Ok, h + 3)
    BY <1>2, <2>1, GoesOne
  <2>3. s[h + 1].text = Yes
    BY <1>6, ConfirmIs
  <2>4. CASE Len(s) = h + 3 /\ s[h + 3] = Piece("confirm", No)
    <3>1. h + 3 \in Nat /\ h + 3 = Len(s) /\ s[h + 3].text # Yes
      BY <1>4, <2>4, ConfirmIs
    <3>2. EndsAt(s, h + 3, <<>>)
      BY <1>2, <3>1, EndsNone
    <3>3. QED
      BY <2>2, <2>3, <3>1, <3>2
  <2>5. CASE Len(s) = h + 4 /\ s[h + 3] = Piece("confirm", Yes) /\ s[h + 4] = Wait
    <3>1. h + 3 \in Nat /\ (h + 3) + 1 = h + 4
      BY <1>4
    <3>2. (h + 3) + 1 = Len(s) /\ (h + 3) + 1 <= Len(s) /\ s[(h + 3) + 1] = Wait
      BY <1>2, <2>5, <3>1
    <3>3. EndsAt(s, h + 3, Ok) /\ EndsAt(s, h + 3, Err)
      BY <1>2, <3>1, <3>2, EndsOne
    <3>4. s[h + 3].text = Yes
      BY <2>5, ConfirmIs
    <3>5. QED
      BY <2>2, <2>3, <3>3, <3>4
  <2>6. QED
    BY <1>3, <1>4, <1>6, <2>4, <2>5
<1>7. QED
  BY <1>3, <1>4, <1>5, <1>6

\* How the requests lead an operation from one recv to the next.
LEMMA AtPlace ==
    ASSUME TypesInv, NEW c \in Conn, Attuned(c), NEW op, NEW n \in Nat, Reading(c, op, n), Got(c) = 1,
           NEW i \in Nat, i = Places(op)[n + 1]
    PROVE  /\ request[c] = op /\ wire[c] # <<>> /\ n < Len(Places(op))
           /\ \E s \in Scripts(c) : Follows(c, s, i) /\ i <= Len(s) /\ Text(c) = s[i].text
BY InRequest

LEMMA LogInLeads ==
    ASSUME TypesInv, NEW c \in Conn, Attuned(c), Got(c) = 1
    PROVE  /\ Reading(c, "logIn", 0) =>
                  Leads(c, Ok, 4) /\ Finishes(c, Err)
           /\ Reading(c, "logIn", 1) =>
                  Finishes(c, Ok) /\ Finishes(c, Err)
<1>1. ASSUME Reading(c, "logIn", 0)
      PROVE  Leads(c, Ok, 4) /\ Finishes(c, Err)
  <2>1. 2 = Places("logIn")[0 + 1] /\ 0 \in Nat /\ 2 \in Nat
    BY PlacesAre
  <2>2. /\ request[c] = "logIn" /\ wire[c] # <<>>
        /\ \E s \in Scripts(c) : Follows(c, s, 2) /\ 2 <= Len(s) /\ Text(c) = s[2].text
    BY <1>1, <2>1, AtPlace
  <2>3. QED
    BY <2>1, <2>2, SignScripts DEF Leads, Finishes
<1>2. ASSUME Reading(c, "logIn", 1)
      PROVE  Finishes(c, Ok) /\ Finishes(c, Err)
  <2>1. 4 = Places("logIn")[1 + 1] /\ 1 \in Nat /\ 4 \in Nat
    BY PlacesAre
  <2>2. /\ request[c] = "logIn" /\ wire[c] # <<>>
        /\ \E s \in Scripts(c) : Follows(c, s, 4) /\ 4 <= Len(s) /\ Text(c) = s[4].text
    BY <1>2, <2>1, AtPlace
  <2>3. QED
    BY <2>1, <2>2, SignScripts DEF Leads, Finishes
<1>3. QED
  BY <1>1, <1>2

LEMMA SignInLeads ==
    ASSUME TypesInv, NEW c \in Conn, Attuned(c), Got(c) = 1
    PROVE  /\ Reading(c, "signIn", 0) =>
                  Leads(c, Ok, 4)
           /\ Reading(c, "signIn", 1) =>
                  Leads(c, Ok, 6)
           /\ Reading(c, "signIn", 2) =>
                  Finishes(c, Ok \o Err) /\ Finishes(c, Ok \o Ok)
<1>1. ASSUME Reading(c, "signIn", 0)
      PROVE  Leads(c, Ok, 4)
  <2>1. 2 = Places("signIn")[0 + 1] /\ 0 \in Nat /\ 2 \in Nat
    BY PlacesAre
  <2>2. /\ request[c] = "signIn" /\ wire[c] # <<>>
        /\ \E s \in Scripts(c) : Follows(c, s, 2) /\ 2 <= Len(s) /\ Text(c) = s[2].text
    BY <1>1, <2>1, AtPlace
  <2>3. QED
    BY <2>1, <2>2, SignScripts DEF Leads, Finishes
<1>2. ASSUME Reading(c, "signIn", 1)
      PROVE  Leads(c, Ok, 6)
  <2>1. 4 = Places("signIn")[1 + 1] /\ 1 \in Nat /\ 4 \in Nat
    BY PlacesAre
  <2>2. /\ request[c] = "signIn" /\ wire[c] # <<>>
        /\ \E s \in Scripts(c) : Follows(c, s, 4) /\ 4 <= Len(s) /\ Text(c) = s[4].text
    BY <1>2, <2>1, AtPlace
  <2>3. QED
    BY <2>1, <2>2, SignScripts DEF Leads, Finishes
<1>3. ASSUME Reading(c, "signIn", 2)
      PROVE  Finishes(c, Ok \o Err) /\ Finishes(c, Ok \o Ok)
  <2>1. 6 = Places("signIn")[2 + 1] /\ 2 \in Nat /\ 6 \in Nat
    BY PlacesAre
  <2>2. /\ request[c] = "signIn" /\ wire[c] # <<>>
        /\ \E s \in Scripts(c) : Follows(c, s, 6) /\ 6 <= Len(s) /\ Text(c) = s[6].text
    BY <1>3, <2>1, AtPlace
  <2>3. QED
    BY <2>1, <2>2, SignScripts DEF Leads, Finishes
<1>4. QED
  BY <1>1, <1>2, <1>3

LEMMA UploadLeads ==
    ASSUME TypesInv, NEW c \in Conn, Attuned(c), Got(c) = 1
    PROVE  /\ Reading(c, "uploadFile", 0) =>
                  Leads(c, Ok, 4) /\ Finishes(c, Err)
           /\ Reading(c, "uploadFile", 1) =>
                  Leads(c, <<>>, 5)
           /\ Reading(c, "uploadFile", 2) =>
                  Leads(c, Ok, 7)
           /\ Reading(c, "uploadFile", 3) =>
                  Finishes(c, Ok) /\ Finishes(c, Err)
<1>1. ASSUME Reading(c, "uploadFile", 0)
      PROVE  Leads(c, Ok, 4) /\ Finishes(c, Err)
  <2>1. 2 = Places("uploadFile")[0 + 1] /\ 0 \in Nat /\ 2 \in Nat
    BY PlacesAre
  <2>2. /\ request[c] = "uploadFile" /\ wire[c] # <<>>
        /\ \E s \in Scripts(c) : Follows(c, s, 2) /\ 2 <= Len(s) /\ Text(c) = s[2].text
    BY <1>1, <2>1, AtPlace
  <2>3. QED
    BY <2>1, <2>2, ChangeScripts DEF Leads, Finishes
<1>2. ASSUME Reading(c, "uploadFile", 1)
      PROVE  Leads(c, <<>>, 5)
  <2>1. 4 = Places("uploadFile")[1 + 1] /\ 1 \in Nat /\ 4 \in Nat
    BY PlacesAre
  <2>2. /\ request[c] = "uploadFile" /\ wire[c] # <<>>
        /\ \E s \in Scripts(c) : Follows(c, s, 4) /\ 4 <= Len(s) /\ Text(c) = s[4].text
    BY <1>2, <2>1, AtPlace
  <2>3. QED
    BY <2>1, <2>2, ChangeScripts DEF Leads, Finishes
<1>3. ASSUME Reading(c, "uploadFile", 2)
      PROVE  Leads(c, Ok, 7)
  <2>1. 5 = Places("uploadFile")[2 + 1] /\ 2 \in Nat /\ 5 \in Nat
    BY PlacesAre
  <2>2. /\ request[c] = "uploadFile" /\ wire[c] # <<>>
        /\ \E s \in Scripts(c) : Follows(c, s, 5) /\ 5 <= Len(s) /\ Text(c) = s[5].text
    BY <1>3, <2>1, AtPlace
  <2>3. QED
    BY <2>1, <2>2, ChangeScripts DEF Leads, Finishes
<1>4. ASSUME Reading(c, "uploadFile", 3)
      PROVE  Finishes(c, Ok) /\ Finishes(c, Err)
  <2>1. 7 = Places("uploadFile")[3 + 1] /\ 3 \in Nat /\ 7 \in Nat
    BY PlacesAre
  <2>2. /\ request[c] = "uploadFile" /\ wire[c] # <<>>
        /\ \E s \in Scripts(c) : Follows(c, s, 7) /\ 7 <= Len(s) /\ Text(c) = s[7].text
    BY <1>4, <2>1, AtPlace
  <2>3. QED
    BY <2>1, <2>2, ChangeScripts DEF Leads, Finishes
<1>5. QED
  BY <1>1, <1>2, <1>3, <1>4

LEMMA ChangeLeads ==
    ASSUME TypesInv, NEW c \in Conn, Attuned(c), Got(c) = 1
    PROVE  /\ Reading(c, "removeFile", 0) =>
                  Finishes(c, Ok) /\ Finishes(c, Err)
           /\ Reading(c, "deleteFile", 0) =>
                  Finishes(c, Ok) /\ Finishes(c, Err)
           /\ Reading(c, "setUserPath", 0) =>
                  Finishes(c, <<>>)
           /\ Reading(c, "getFileVersions", 0) =>
                  Leads(c, <<>>, 3)
           /\ Reading(c, "getFileVersions", 1) =>
                  Finishes(c, Ok) /\ Finishes(c, Err)
<1>1. ASSUME Reading(c, "removeFile", 0)
      PROVE  Finishes(c, Ok) /\ Finishes(c, Err)
  <2>1. 2 = Places("removeFile")[0 + 1] /\ 0 \in Nat /\ 2 \in Nat
    BY PlacesAre
  <2>2. /\ request[c] = "removeFile" /\ wire[c] # <<>>
        /\ \E s \in Scripts(c) : Follows(c, s, 2) /\ 2 <= Len(s) /\ Text(c) = s[2].text
    BY <1>1, <2>1, AtPlace
  <2>3. QED
    BY <2>1, <2>2, ChangeScripts DEF Leads, Finishes
<1>2. ASSUME Reading(c, "deleteFile", 0)
      PROVE  Finishes(c, Ok) /\ Finishes(c, Err)
  <2>1. 2 = Places("deleteFile")[0 + 1] /\ 0 \in Nat /\ 2 \in Nat
    BY PlacesAre
  <2>2. /\ request[c] = "deleteFile" /\ wire[c] # <<>>
        /\ \E s \in Scripts(c) : Follows(c, s, 2) /\ 2 <= Len(s) /\ Text(c) = s[2].text
    BY <1>2, <2>1, AtPlace
  <2>3. QED
    BY <2>1, <2>2, ChangeScripts DEF Leads, Finishes
<1>3. ASSUME Reading(c, "setUserPath", 0)
      PROVE  Finishes(c, <<>>)
  <2>1. 2 = Places("setUserPath")[0 + 1] /\ 0 \in Nat /\ 2 \in Nat
    BY PlacesAre
  <2>2. /\ request[c] = "setUserPath" /\ wire[c] # <<>>
        /\ \E s \in Scripts(c) : Follows(c, s, 2) /\ 2 <= Len(s) /\ Text(c) = s[2].text
    BY <1>3, <2>1, AtPlace
  <2>3. QED
    BY <2>1, <2>2, ChangeScripts DEF Leads, Finishes
<1>4. ASSUME Reading(c, "getFileVersions", 0)
      PROVE  Leads(c, <<>>, 3)
  <2>1. 2 = Places("getFileVersions")[0 + 1] /\ 0 \in Nat /\ 2 \in Nat
    BY PlacesAre
  <2>2. /\ request[c] = "getFileVersions" /\ wire[c] # <<>>
        /\ \E s \in Scripts(c) : Follows(c, s, 2) /\ 2 <= Len(s) /\ Text(c) = s[2].text
    BY <1>4, <2>1, AtPlace
  <2>3. QED
    BY <2>1, <2>2, ChangeScripts DEF Leads, Finishes
<1>5. ASSUME Reading(c, "getFileVersions", 1)
      PROVE  Finishes(c, Ok) /\ Finishes(c, Err)
  <2>1. 3 = Places("getFileVersions")[1 + 1] /\ 1 \in Nat /\ 3 \in Nat
    BY PlacesAre
  <2>2. /\ request[c] = "getFileVersions" /\ wire[c] # <<>>
        /\ \E s \in Scripts(c) : Follows(c, s, 3) /\ 3 <= Len(s) /\ Text(c) = s[3].text
    BY <1>5, <2>1, AtPlace
  <2>3. QED
    BY <2>1, <2>2, ChangeScripts DEF Leads, Finishes
<1>6. QED
  BY <1>1, <1>2, <1>3, <1>4, <1>5

LEMMA NameIs == \A f \in Texts : Piece("file", f).text = f /\ Piece("file", f).kind = "file"
BY DEF Piece

LEMMA HalfIs ==
    /\ Half("downloadLastVersion") = 5 /\ Half("downloadPreviousVersion") = 8
    /\ 5 + 1 = 6 /\ 5 + 3 = 8 /\ 8 + 1 = 9 /\ 8 + 3 = 11
BY DEF Half

LEMMA LastLeads ==
    ASSUME TypesInv, NEW c \in Conn, Attuned(c), Got(c) = 1
    PROVE  /\ Reading(c, "downloadLastVersion", 0) =>
                  Text(c) = <<Len(named[c])>> /\ Leads(c, <<>>, 3)
           /\ Reading(c, "downloadLastVersion", 1) =>
                  /\ Text(c) = named[c] /\ Finishes(c, Err) /\ Finishes(c, Ok \o Err)
                  /\ Leads(c, Ok \o Ok, 6)
<1>1. ASSUME Reading(c, "downloadLastVersion", 0)
      PROVE  Text(c) = <<Len(named[c])>> /\ Leads(c, <<>>, 3)
  <2>1. 2 = Places("downloadLastVersion")[0 + 1] /\ 0 \in Nat /\ 2 \in Nat
    BY PlacesAre
  <2>2. /\ request[c] = "downloadLastVersion" /\ wire[c] # <<>>
        /\ \E s \in Scripts(c) : Follows(c, s, 2) /\ 2 <= Len(s) /\ Text(c) = s[2].text
    BY <1>1, <2>1, AtPlace
  <2>3. QED
    BY <2>1, <2>2, DownloadScripts, NameIs DEF Downloads, Leads, Finishes
<1>2. ASSUME Reading(c, "downloadLastVersion", 1)
      PROVE  /\ Text(c) = named[c] /\ Finishes(c, Err) /\ Finishes(c, Ok \o Err)
                  /\ Leads(c, Ok \o Ok, 6)
  <2>1. 3 = Places("downloadLastVersion")[1 + 1] /\ 1 \in Nat /\ 3 \in Nat
    BY PlacesAre
  <2>2. /\ request[c] = "downloadLastVersion" /\ wire[c] # <<>>
        /\ \E s \in Scripts(c) : Follows(c, s, 3) /\ 3 <= Len(s) /\ Text(c) = s[3].text
    BY <1>2, <2>1, AtPlace
  <2>3. named[c] \in Texts
    BY StreamTypes
  <2>4. Text(c) = named[c]
    BY <2>1, <2>2, <2>3, DownloadScripts, NameIs DEF Downloads
  <2>5. QED
    BY <2>1, <2>2, <2>4, DownloadScripts DEF Downloads, Leads, Finishes
<1>3. QED
  BY <1>1, <1>2

LEMMA PreviousLeads ==
    ASSUME TypesInv, NEW c \in Conn, Attuned(c), Got(c) = 1
    PROVE  /\ Reading(c, "downloadPreviousVersion", 0) =>
                  Text(c) = <<Len(named[c])>> /\ Leads(c, <<>>, 3)
           /\ Reading(c, "downloadPreviousVersion", 1) =>
                  Text(c) = named[c] /\ Finishes(c, Err) /\ Leads(c, Ok, 5)
           /\ Reading(c, "downloadPreviousVersion", 2) =>
                  Text(c) = <<1>> /\ Leads(c, <<>>, 6)
           /\ Reading(c, "downloadPreviousVersion", 3) =>
                  Finishes(c, Ok) /\ Finishes(c, Ok \o Err) /\ Leads(c, Ok \o Ok, 9)
<1>1. ASSUME Reading(c, "downloadPreviousVersion", 0)
      PROVE  Text(c) = <<Len(named[c])>> /\ Leads(c, <<>>, 3)
  <2>1. 2 = Places("downloadPreviousVersion")[0 + 1] /\ 0 \in Nat /\ 2 \in Nat
    BY PlacesAre
  <2>2. /\ request[c] = "downloadPreviousVersion" /\ wire[c] # <<>>
        /\ \E s \in Scripts(c) : Follows(c, s, 2) /\ 2 <= Len(s) /\ Text(c) = s[2].text
    BY <1>1, <2>1, AtPlace
  <2>3. QED
    BY <2>1, <2>2, DownloadScripts, NameIs DEF Downloads, Leads, Finishes
<1>2. ASSUME Reading(c, "downloadPreviousVersion", 1)
      PROVE  Text(c) = named[c] /\ Finishes(c, Err) /\ Leads(c, Ok, 5)
  <2>1. 3 = Places("downloadPreviousVersion")[1 + 1] /\ 1 \in Nat /\ 3 \in Nat
    BY PlacesAre
  <2>2. /\ request[c] = "downloadPreviousVersion" /\ wire[c] # <<>>
        /\ \E s \in Scripts(c) : Follows(c, s, 3) /\ 3 <= Len(s) /\ Text(c) = s[3].text
    BY <1>2, <2>1, AtPlace
  <2>3. named[c] \in Texts
    BY StreamTypes
  <2>4. Text(c) = named[c]
    BY <2>1, <2>2, <2>3, DownloadScripts, NameIs DEF Downloads
  <2>5. QED
    BY <2>1, <2>2, <2>4, DownloadScripts DEF Downloads, Leads, Finishes
<1>3. ASSUME Reading(c, "downloadPreviousVersion", 2)
      PROVE  Text(c) = <<1>> /\ Leads(c, <<>>, 6)
  <2>1. 5 = Places("downloadPreviousVersion")[2 + 1] /\ 2 \in Nat /\ 5 \in Nat
    BY PlacesAre
  <2>2. /\ request[c] = "downloadPreviousVersion" /\ wire[c] # <<>>
        /\ \E s \in Scripts(c) : Follows(c, s, 5) /\ 5 <= Len(s) /\ Text(c) = s[5].text
    BY <1>3, <2>1, AtPlace
  <2>3. QED
    BY <2>1, <2>2, DownloadScripts, NameIs DEF Downloads, Leads, Finishes
<1>4. ASSUME Reading(c, "downloadPreviousVersion", 3)
      PROVE  Finishes(c, Ok) /\ Finishes(c, Ok \o Err) /\ Leads(c, Ok \o Ok, 9)
  <2>1. 6 = Places("downloadPreviousVersion")[3 + 1] /\ 3 \in Nat /\ 6 \in Nat
    BY PlacesAre
  <2>2. /\ request[c] = "downloadPreviousVersion" /\ wire[c] # <<>>
        /\ \E s \in Scripts(c) : Follows(c, s, 6) /\ 6 <= Len(s) /\ Text(c) = s[6].text
    BY <1>4, <2>1, AtPlace
  <2>3. QED
    BY <2>1, <2>2, DownloadScripts, NameIs DEF Downloads, Leads, Finishes
<1>5. QED
  BY <1>1, <1>2, <1>3, <1>4

LEMMA ConfirmLeads ==
    ASSUME TypesInv, NEW c \in Conn, Attuned(c), Got(c) = 1
    PROVE  /\ Reading(c, "downloadLastVersion", 2) =>
                  IF Text(c) = Yes THEN Leads(c, Ok, 8) ELSE Finishes(c, <<>>)
           /\ Reading(c, "downloadLastVersion", 3) =>
                  IF Text(c) = Yes THEN Finishes(c, Ok) /\ Finishes(c, Err) ELSE Finishes(c, <<>>)
           /\ Reading(c, "downloadPreviousVersion", 4) =>
                  IF Text(c) = Yes THEN Leads(c, Ok, 11) ELSE Finishes(c, <<>>)
           /\ Reading(c, "downloadPreviousVersion", 5) =>
                  IF Text(c) = Yes THEN Finishes(c, Ok) /\ Finishes(c, Err) ELSE Finishes(c, <<>>)
<1>1. ASSUME Reading(c, "downloadLastVersion", 2)
      PROVE  IF Text(c) = Yes THEN Leads(c, Ok, 8) ELSE Finishes(c, <<>>)
  <2>1. 6 = Places("downloadLastVersion")[2 + 1] /\ 2 \in Nat /\ 6 \in Nat
    BY PlacesAre
  <2>2. /\ request[c] = "downloadLastVersion" /\ wire[c] # <<>>
        /\ \E s \in Scripts(c) : Follows(c, s, 6) /\ 6 <= Len(s) /\ Text(c) = s[6].text
    BY <1>1, <2>1, AtPlace
  <2>3. QED
    BY <2>1, <2>2, HalfIs, ConfirmScripts DEF Downloads, Leads, Finishes
<1>2. ASSUME Reading(c, "downloadLastVersion", 3)
      PROVE  IF Text(c) = Yes THEN Finishes(c, Ok) /\ Finishes(c, Err) ELSE Finishes(c, <<>>)
  <2>1. 8 = Places("downloadLastVersion")[3 + 1] /\ 3 \in Nat /\ 8 \in Nat
    BY PlacesAre
  <2>2. /\ request[c] = "downloadLastVersion" /\ wire[c] # <<>>
        /\ \E s \in Scripts(c) : Follows(c, s, 8) /\ 8 <= Len(s) /\ Text(c) = s[8].text
    BY <1>2, <2>1, AtPlace
  <2>3. QED
    BY <2>1, <2>2, HalfIs, ConfirmScripts DEF Downloads, Leads, Finishes
<1>3. ASSUME Reading(c, "downloadPreviousVersion", 4)
      PROVE  IF Text(c) = Yes THEN Leads(c, Ok, 11) ELSE Finishes(c, <<>>)
  <2>1. 9 = Places("downloadPreviousVersion")[4 + 1] /\ 4 \in Nat /\ 9 \in Nat
    BY PlacesAre
  <2>2. /\ request[c] = "downloadPreviousVersion" /\ wire[c] # <<>>
        /\ \E s \in Scripts(c) : Follows(c, s, 9) /\ 9 <= Len(s) /\ Text(c) = s[9].text
    BY <1>3, <2>1, AtPlace
  <2>3. QED
    BY <2>1, <2>2, HalfIs, ConfirmScripts DEF Downloads, Leads, Finishes
<1>4. ASSUME Reading(c, "downloadPreviousVersion", 5)
      PROVE  IF Text(c) = Yes THEN Finishes(c, Ok) /\ Finishes(c, Err) ELSE Finishes(c, <<>>)
  <2>1. 11 = Places("downloadPreviousVersion")[5 + 1] /\ 5 \in Nat /\ 11 \in Nat
    BY PlacesAre
  <2>2. /\ request[c] = "downloadPreviousVersion" /\ wire[c] # <<>>
        /\ \E s \in Scripts(c) : Follows(c, s, 11) /\ 11 <= Len(s) /\ Text(c) = s[11].text
    BY <1>4, <2>1, AtPlace
  <2>3. QED
    BY <2>1, <2>2, HalfIs, ConfirmScripts DEF Downloads, Leads, Finishes
<1>5. QED
  BY <1>1, <1>2, <1>3, <1>4

LEMMA LogInKeeps ==
    ASSUME TypesInv, NEW c \in Conn, Attuned(c), LogInName(c) \/ LogInPassword(c)
    PROVE  Attuned(c)'
<1>0. Ok \in Given /\ Err \in Given /\ <<>> \in Given
  BY GivenAre
<1>1. CASE LogInName(c)
  <2>1. Reading(c, "logIn", 0) /\ Same /\ Text(c) \in Texts
    BY <1>1, ReadingSteps DEF LogInName
  <2>2. Identified(c)' /\ logged'[c] = logged[c]
    BY <2>1, SameIdentified
  <2>3. CASE Throw(c) /\ Silent
    BY <1>0, <2>1, <2>2, <2>3, ThrowKeeps
  <2>4. CASE Send(c, Err) /\ Return(c)
    BY <1>0, <2>1, <2>2, <2>4, LogInLeads, ReturnKeeps
  <2>5. CASE Send(c, Ok) /\ Hear(c, Text(c))
    <3>1. 0 + 1 < Len(Places("logIn")) /\ 4 = Places("logIn")[0 + 2] /\ 0 \in Nat
      BY PlacesAre
    <3>2. Recalls(c)'
      BY <2>1, ReadingSteps, NoRecall DEF Downloads
    <3>3. Got(c) = 1 => Leads(c, Ok, 4)
      BY <2>1, LogInLeads
    <3>4. QED
      BY <1>0, <2>1, <2>2, <2>5, <3>1, <3>2, <3>3, HearKeeps
  <2>6. QED
    BY <1>1, <2>3, <2>4, <2>5 DEF LogInName
<1>2. CASE LogInPassword(c)
  <2>1. Reading(c, "logIn", 1)
    BY <1>2 DEF LogInPassword
  <2>2. CASE Throw(c) /\ Silent /\ Same
    BY <1>0, <2>1, <2>2, SameIdentified, ThrowKeeps
  <2>3. CASE Send(c, Err) /\ Return(c) /\ Same
    BY <1>0, <2>1, <2>3, SameIdentified, LogInLeads, ReturnKeeps
  <2>4. CASE Authenticate(c, heard[c][1])
    <3>0. user \in [Conn -> Texts] /\ logged \in [Conn -> BOOLEAN]
      BY DEF TypesInv, DataOK
    <3>1. CASE \E row \in users :
                 /\ row.user = heard[c][1]
                 /\ Send(c, Ok)
                 /\ \/ Becomes(c, heard[c][1], TRUE, row.folder) /\ Return(c)
                    \/ Becomes(c, heard[c][1], TRUE, folderPath[c]) /\ Throw(c)
      <4>1. Send(c, Ok) /\ (Return(c) \/ Throw(c)) /\ \E row \in users : row.user = heard[c][1]
        BY <3>1
      <4>2. user'[c] = heard[c][1] /\ logged'[c] = TRUE /\ users' = users
        BY <3>0, <3>1 DEF Becomes, tableVars
      <4>3. Identified(c)'
        BY <4>1, <4>2 DEF Identified
      <4>4. QED
        BY <1>0, <2>1, <4>1, <4>3, LogInLeads, ReturnKeeps, ThrowKeeps
    <3>2. CASE Send(c, Err) /\ Becomes(c, <<>>, FALSE, <<>>) /\ Return(c)
      <4>1. user'[c] = <<>> /\ logged'[c] = FALSE
        BY <3>0, <3>2 DEF Becomes
      <4>2. Identified(c)'
        BY <4>1 DEF Identified
      <4>3. QED
        BY <1>0, <2>1, <3>2, <4>2, LogInLeads, ReturnKeeps
    <3>3. QED
      BY <2>4, <3>1, <3>2 DEF Authenticate
  <2>5. QED
    BY <1>2, <2>2, <2>3, <2>4 DEF LogInPassword
<1>3. QED
  BY <1>1, <1>2

LEMMA SignInKeeps ==
    ASSUME TypesInv, NEW c \in Conn, Attuned(c), SignInText(c) \/ SignInFolder(c)
    PROVE  surplus'[c] \/ Attuned(c)'
<1>0. Ok \in Given /\ Ok \o Ok \in Given /\ Ok \o Err \in Given
  BY GivenAre
<1>1. CASE SignInText(c)
  <2>1. PICK n \in {0, 1} : Reading(c, "signIn", n)
    BY <1>1 DEF SignInText
  <2>2. Send(c, Ok) /\ Hear(c, Credential(c)) /\ Same
    BY <1>1 DEF SignInText
  <2>3. Credential(c) \in Texts
    <3>1. Text(c) \in Texts /\ heard[c] \in Seq(Texts)
      BY <2>1, ReadingTypes, StreamTypes
    <3>2. QED
      BY <3>1, TextTypes DEF Credential
  <2>4. Identified(c)' /\ logged'[c] = logged[c]
    BY <2>2, SameIdentified
  <2>5. Recalls(c)'
    BY <2>1, ReadingSteps, NoRecall DEF Downloads
  <2>6. CASE n = 0
    <3>1. 0 + 1 < Len(Places("signIn")) /\ 4 = Places("signIn")[0 + 2] /\ 0 \in Nat
      BY PlacesAre
    <3>2. Got(c) = 1 => Leads(c, Ok, 4)
      BY <2>1, <2>6, SignInLeads
    <3>3. Reading(c, "signIn", 0)
      BY <2>1, <2>6
    <3>4. QED
      BY <1>0, <2>2, <2>3, <2>4, <2>5, <3>1, <3>2, <3>3, HearKeeps
  <2>7. CASE n = 1
    <3>1. 1 + 1 < Len(Places("signIn")) /\ 6 = Places("signIn")[1 + 2] /\ 1 \in Nat
      BY PlacesAre
    <3>2. Got(c) = 1 => Leads(c, Ok, 6)
      BY <2>1, <2>7, SignInLeads
    <3>3. Reading(c, "signIn", 1)
      BY <2>1, <2>7
    <3>4. QED
      BY <1>0, <2>2, <2>3, <2>4, <2>5, <3>1, <3>2, <3>3, HearKeeps
  <2>8. QED
    BY <2>6, <2>7
<1>2. CASE SignInFolder(c)
  <2>1. Reading(c, "signIn", 2) /\ Return(c)
    BY <1>2 DEF SignInFolder
  <2>2. CASE Send(c, Ok \o Err) /\ Same
    BY <1>0, <2>1, <2>2, SameIdentified, SignInLeads, ReturnKeeps
  <2>3. CASE \E row : /\ users' = users \cup {row} /\ row.user = heard[c][1]
                      /\ user' = [user EXCEPT ![c] = heard[c][1]]
                      /\ logged' = [logged EXCEPT ![c] = TRUE]
                      /\ Send(c, Ok \o Ok) \/ SendTwice(c, Ok \o Err \o Ok)
    <3>1. user'[c] = heard[c][1] /\ logged'[c] = TRUE
      BY <2>3 DEF TypesInv, DataOK
    <3>2. Identified(c)'
      BY <2>3, <3>1 DEF Identified
    <3>3. SendTwice(c, Ok \o Err \o Ok) => surplus'[c]
      BY DEF SendTwice, TypesInv, ExchangeOK
    <3>4. Send(c, Ok \o Ok) => Attuned(c)'
      BY <1>0, <2>1, <3>2, SignInLeads, ReturnKeeps
    <3>5. QED
      BY <2>3, <3>3, <3>4
  <2>4. QED
    <3> DEFINE r == [user |-> heard[c][1], password |-> heard[c][2], folder |-> Credential(c)]
    <3>1. r.user = heard[c][1]
      OBVIOUS
    <3> HIDE DEF r
    <3>2. \/ Send(c, Ok \o Err) /\ Same
          \/ /\ users' = users \cup {r}
             /\ user' = [user EXCEPT ![c] = heard[c][1]]
             /\ logged' = [logged EXCEPT ![c] = TRUE]
             /\ Send(c, Ok \o Ok) \/ SendTwice(c, Ok \o Err \o Ok)
      BY <1>2 DEF SignInFolder, r
    <3>3. QED
      BY <2>2, <2>3, <3>1, <3>2
<1>3. QED
  BY <1>1, <1>2

LEMMA UploadKeeps ==
    ASSUME TypesInv, NEW c \in Conn, Attuned(c),
           UploadName(c) \/ UploadLength(c) \/ UploadContent(c) \/ UploadDigest(c)
    PROVE  Attuned(c)'
<1>0. Ok \in Given /\ Err \in Given /\ <<>> \in Given
  BY GivenAre
<1>1. CASE UploadName(c)
  <2>1. Reading(c, "uploadFile", 0) /\ Text(c) \in Texts
    BY <1>1, ReadingSteps DEF UploadName
  <2>2. Identified(c)' /\ logged'[c] = logged[c]
    BY <1>1, SameIdentified DEF UploadName, sessionVars, Attuned, Identified, Same, tableVars
  <2>3. CASE Throw(c) /\ Silent
    BY <1>0, <2>1, <2>2, <2>3, ThrowKeeps
  <2>4. CASE Send(c, Err) /\ Return(c)
    BY <1>0, <2>1, <2>2, <2>4, UploadLeads, ReturnKeeps
  <2>5. CASE Send(c, Ok) /\ Hear(c, Text(c))
    <3>1. 0 + 1 < Len(Places("uploadFile")) /\ 4 = Places("uploadFile")[0 + 2] /\ 0 \in Nat
      BY PlacesAre
    <3>2. Recalls(c)'
      BY <2>1, ReadingSteps, NoRecall DEF Downloads
    <3>3. Got(c) = 1 => Leads(c, Ok, 4)
      BY <2>1, UploadLeads
    <3>4. QED
      BY <1>0, <2>1, <2>2, <2>5, <3>1, <3>2, <3>3, HearKeeps
  <2>6. QED
    BY <1>1, <2>3, <2>4, <2>5 DEF UploadName
<1>2. CASE UploadLength(c)
  <2>1. Reading(c, "uploadFile", 1) /\ Text(c) \in Texts /\ Same
    BY <1>2, ReadingSteps DEF UploadLength
  <2>2. Identified(c)' /\ logged'[c] = logged[c]
    BY <2>1, SameIdentified
  <2>3. Recalls(c)'
    BY <2>1, ReadingSteps, NoRecall DEF Downloads
  <2>4. CASE Hear(c, Text(c)) /\ Silent
    <3>1. 1 + 1 < Len(Places("uploadFile")) /\ 5 = Places("uploadFile")[1 + 2] /\ 1 \in Nat
      BY PlacesAre
    <3>2. Got(c) = 1 => Leads(c, <<>>, 5)
      BY <2>1, UploadLeads
    <3>3. QED
      BY <1>0, <2>1, <2>2, <2>3, <2>4, <3>1, <3>2, HearKeeps
  <2>5. CASE Got(c) # 1 /\ Send(c, Ok) /\ UNCHANGED at
    <3>1. CanRecv(c) /\ at[c] = "reading" /\ code'[c] = code[c] /\ Steps(c, Ok)
      BY <1>0, <2>1, <2>5, ReadingSteps
    <3>2. at'[c] = "reading"
      BY <2>5, <3>1
    <3>3. QED
      BY <1>0, <2>2, <2>3, <2>5, <3>1, <3>2, AfterHear
  <2>6. QED
    BY <1>2, <2>4, <2>5 DEF UploadLength
<1>3. CASE UploadContent(c)
  <2>1. Reading(c, "uploadFile", 2) /\ Text(c) \in Texts /\ Same
    BY <1>3, ReadingSteps DEF UploadContent
  <2>2. Identified(c)' /\ logged'[c] = logged[c]
    BY <2>1, SameIdentified
  <2>3. CASE Throw(c) /\ Silent
    BY <1>0, <2>1, <2>2, <2>3, ThrowKeeps
  <2>4. CASE Got(c) = -1 /\ Send(c, Err) /\ Return(c)
    BY <1>0, <2>1, <2>2, <2>4, ReturnKeeps
  <2>5. CASE Send(c, Ok) /\ Hear(c, Text(c))
    <3>1. 2 + 1 < Len(Places("uploadFile")) /\ 7 = Places("uploadFile")[2 + 2] /\ 2 \in Nat
      BY PlacesAre
    <3>2. Recalls(c)'
      BY <2>1, ReadingSteps, NoRecall DEF Downloads
    <3>3. Got(c) = 1 => Leads(c, Ok, 7)
      BY <2>1, UploadLeads
    <3>4. QED
      BY <1>0, <2>1, <2>2, <2>5, <3>1, <3>2, <3>3, HearKeeps
  <2>6. QED
    BY <1>3, <2>3, <2>4, <2>5 DEF UploadContent
<1>4. CASE UploadDigest(c)
  <2>1. Reading(c, "uploadFile", 3) /\ Same
    BY <1>4 DEF UploadDigest
  <2>2. Identified(c)'
    BY <2>1, SameIdentified
  <2>3. CASE Throw(c) /\ Silent
    BY <1>0, <2>1, <2>2, <2>3, ThrowKeeps
  <2>4. CASE (Send(c, Ok) \/ Send(c, Err)) /\ Return(c)
    BY <1>0, <2>1, <2>2, <2>4, UploadLeads, ReturnKeeps
  <2>5. QED
    BY <1>4, <2>3, <2>4 DEF UploadDigest
<1>5. QED
  BY <1>1, <1>2, <1>3, <1>4

LEMMA ChangeKeeps ==
    ASSUME TypesInv, NEW c \in Conn, Attuned(c), RemoveFile(c) \/ DeleteFile(c)
    PROVE  surplus'[c] \/ Attuned(c)'
<1>0. Ok \in Given /\ Err \in Given /\ <<>> \in Given
  BY GivenAre
<1>1. Identified(c)'
  BY DEF RemoveFile, DeleteFile, sessionVars, Attuned, Identified, Same, tableVars
<1>2. CASE RemoveFile(c)
  <2>1. Reading(c, "removeFile", 0)
    BY <1>2 DEF RemoveFile
  <2>2. CASE Throw(c) /\ (Silent \/ Send(c, Err))
    BY <1>0, <1>1, <2>1, <2>2, ThrowKeeps
  <2>3. CASE Return(c) /\ (Send(c, Ok) \/ Send(c, Err))
    BY <1>0, <1>1, <2>1, <2>3, ChangeLeads, ReturnKeeps
  <2>4. QED
    BY <1>2, <2>2, <2>3 DEF RemoveFile
<1>3. CASE DeleteFile(c)
  <2>1. Reading(c, "deleteFile", 0)
    BY <1>3 DEF DeleteFile
  <2>2. CASE Throw(c) /\ Silent
    BY <1>0, <1>1, <2>1, <2>2, ThrowKeeps
  <2>3. CASE Return(c) /\ (Send(c, Ok) \/ Send(c, Err))
    BY <1>0, <1>1, <2>1, <2>3, ChangeLeads, ReturnKeeps
  <2>4. CASE SendTwice(c, Err \o Err) \/ SendTwice(c, Err \o Ok)
    BY <2>4 DEF SendTwice, TypesInv, ExchangeOK
  <2>5. QED
    BY <1>3, <2>2, <2>3, <2>4 DEF DeleteFile
<1>4. QED
  BY <1>2, <1>3

LEMMA VersionsKeeps ==
    ASSUME TypesInv, NEW c \in Conn, Attuned(c), GetFileVersions(c)
    PROVE  Attuned(c)'
<1>0. Ok \in Given /\ Err \in Given /\ <<>> \in Given
  BY GivenAre
<1>1. Identified(c)' /\ logged'[c] = logged[c]
  BY SameIdentified DEF GetFileVersions
<1>2. CASE /\ Reading(c, "getFileVersions", 0)
           /\ \/ Got(c) = 1 /\ Hear(c, Text(c)) /\ Silent
              \/ Got(c) # 1 /\ Send(c, Err) /\ Return(c)
  <2>1. Text(c) \in Texts
    BY <1>2, ReadingSteps
  <2>2. CASE Hear(c, Text(c)) /\ Silent
    <3>1. 0 + 1 < Len(Places("getFileVersions")) /\ 3 = Places("getFileVersions")[0 + 2] /\ 0 \in Nat
      BY PlacesAre
    <3>2. Recalls(c)'
      BY <1>2, ReadingSteps, NoRecall DEF Downloads
    <3>3. Got(c) = 1 => Leads(c, <<>>, 3)
      BY <1>2, ChangeLeads
    <3>4. QED
      BY <1>0, <1>1, <1>2, <2>1, <2>2, <3>1, <3>2, <3>3, HearKeeps
  <2>3. CASE Got(c) # 1 /\ Send(c, Err) /\ Return(c)
    BY <1>0, <1>1, <1>2, <2>3, ReturnKeeps
  <2>4. QED
    BY <1>2, <2>2, <2>3
<1>3. CASE /\ Reading(c, "getFileVersions", 1)
           /\ \/ Got(c) = 0 /\ Return(c) /\ Silent
              \/ Spin(c) /\ Silent
              \/ Send(c, Err) /\ Return(c)
              \/ Send(c, Ok) /\ Return(c)
              \/ Throw(c) /\ Silent
  <2>1. CASE (Throw(c) \/ Spin(c)) /\ Silent
    BY <1>0, <1>1, <1>3, <2>1, ThrowKeeps
  <2>2. CASE Got(c) = 0 /\ Return(c) /\ Silent
    BY <1>0, <1>1, <1>3, <2>2, ReturnKeeps
  <2>3. CASE Return(c) /\ (Send(c, Ok) \/ Send(c, Err))
    BY <1>0, <1>1, <1>3, <2>3, ChangeLeads, ReturnKeeps
  <2>4. QED
    BY <1>3, <2>1, <2>2, <2>3
<1>4. QED
  BY <1>2, <1>3 DEF GetFileVersions

LEMMA PathKeeps ==
    ASSUME TypesInv, NEW c \in Conn, Attuned(c), SetUserPath(c)
    PROVE  Attuned(c)'
<1>0. <<>> \in Given
  BY GivenAre
<1>1. Reading(c, "setUserPath", 0) /\ Silent /\ (Throw(c) \/ Return(c))
  BY DEF SetUserPath
<1>2. Identified(c)'
  BY DEF SetUserPath, Same, sessionVars, tableVars, Attuned, Identified
<1>3. QED
  BY <1>0, <1>1, <1>2, ChangeLeads, ReturnKeeps, ThrowKeeps

\* The name a download holds.
LEMMA RecallsKept ==
    ASSUME TypesInv, NEW c \in Conn, Attuned(c), NEW op, NEW n \in Nat, Reading(c, op, n),
           n >= 2, n = 3 => Got(c) = 1, NEW given, Steps(c, given),
           NEW t \in Texts, Hear(c, t)
    PROVE  Recalls(c)'
<1>1. /\ at[c] = "reading" /\ code[c] = op /\ code'[c] = code[c] /\ Len(heard[c]) = n
  BY ReadingSteps
<1>2. Len(heard'[c]) = n + 1 /\ heard'[c][2] = heard[c][2]
  BY <1>1, PlaceSteps
<1>3. request'[c] = request[c] /\ named'[c] = named[c]
  BY DEF Steps
<1>4. SUFFICES ASSUME op \in Downloads PROVE Recalls(c)'
  BY <1>1, NoRecall
<1>5. \/ code[c] = request[c] /\ heard[c][2] = named[c]
      \/ code[c] = "downloadPreviousVersion" /\ Len(heard[c]) <= 3 /\ Over(c)
  BY <1>1, <1>4 DEF Attuned, Operating, Recalls
<1>6. CASE code[c] = request[c] /\ heard[c][2] = named[c]
  BY <1>1, <1>2, <1>3, <1>6 DEF Recalls
<1>7. CASE code[c] = "downloadPreviousVersion" /\ Len(heard[c]) <= 3 /\ Over(c)
  <2>1. Got(c) # 1
    BY <1>7 DEF Over, Got
  <2>2. Len(heard'[c]) <= 3
    BY <1>1, <1>2, <1>7, <2>1
  <2>3. Over(c)'
    BY <1>7 DEF Over, Steps
  <2>4. QED
    BY <1>1, <1>7, <2>2, <2>3 DEF Recalls
<1>8. QED
  BY <1>5, <1>6, <1>7

LEMMA RecallsNew ==
    ASSUME TypesInv, NEW c \in Conn, Attuned(c), NEW op, Reading(c, op, 1), NEW given, Steps(c, given),
           request[c] = op, NEW t \in Texts, t = named[c], Hear(c, t)
    PROVE  Recalls(c)'
<1>1. code[c] = op /\ code'[c] = code[c] /\ Len(heard[c]) = 1
  BY ReadingSteps
<1>2. heard'[c][1 + 1] = t
  BY <1>1, PlaceSteps
<1>3. heard'[c][2] = named'[c] /\ code'[c] = request'[c]
  BY <1>1, <1>2 DEF Steps
<1>4. QED
  BY <1>3 DEF Recalls

LEMMA RecallsNothing ==
    ASSUME NEW c \in Conn, Len(heard'[c]) <= 1
    PROVE  Recalls(c)'
<1>1. ~(Len(heard'[c]) > 1) \/ Len(heard'[c]) \notin Int
  OBVIOUS
<1>2. QED
  BY <1>1 DEF Recalls

\* What comes after what is received.
LEMMA NextComes ==
    ASSUME NEW w \in Streams, NEW p \in Streams, NEW a \in Replies, NEW open \in BOOLEAN,
           NEW s \in Streams, Len(s) >= 3, Fits(w, p, a, open, s, 2), w # <<>>
    PROVE  \/ Comes(Tail(w), p) /\ Coming(Tail(w), p) = s[3]
           \/ Tail(w) = <<>> /\ ~open
<1> DEFINE two == 2
<1>1. two \in Nat /\ two = 2 /\ Fits(w, p, a, open, s, two)
  OBVIOUS
<1> HIDE DEF two
<1>2. Lies(w, s, two) /\ Lies(p, s, two + Len(w)) /\ (open => two + Len(w) - 1 + Len(p) = Len(s))
  BY <1>1, FitsMeans
<1>3. /\ Tail(w) \in Streams /\ Len(Tail(w)) = Len(w) - 1 /\ Len(w) \in Nat /\ Len(w) > 0
      /\ \A j \in 1 .. Len(w) - 1 : Tail(w)[j] = w[j + 1]
  BY RestIs
<1>4. Len(Tail(w)) \in Nat /\ (Tail(w) = <<>> <=> Len(Tail(w)) = 0) /\ (p = <<>> <=> Len(p) = 0) /\ Len(p) \in Nat
  BY <1>3, StreamIs
<1>5. CASE Len(w) > 1
  <2>1. 1 \in 1 .. Len(w) - 1 /\ 1 < Len(w) /\ 1 \in Nat
    BY <1>3, <1>5
  <2>2. w[1 + 1] = s[two + 1]
    BY <1>1, <1>2, <2>1, LiesAt
  <2>3. Tail(w)[1] = s[3]
    BY <1>1, <1>3, <2>1, <2>2
  <2>4. Tail(w) # <<>>
    BY <1>3, <1>4, <1>5
  <2>5. QED
    BY <2>3, <2>4 DEF Comes, Coming
<1>6. CASE Len(w) = 1
  <2>1. Tail(w) = <<>>
    BY <1>3, <1>4, <1>6
  <2>2. CASE open
    <3>1. p # <<>>
      BY <1>1, <1>2, <1>4, <1>6, <2>2
    <3>2. two + Len(w) = 3 /\ 3 \in Nat
      BY <1>1, <1>6
    <3>3. Lies(p, s, 3)
      BY <1>2, <3>2
    <3>4. p[1] = s[3]
      BY <3>1, <3>2, <3>3, LiesFirst
    <3>5. QED
      BY <2>1, <3>1, <3>4 DEF Comes, Coming
  <2>3. QED
    BY <2>1, <2>2
<1>7. QED
  BY <1>3, <1>5, <1>6

LEMMA LeftName ==
    ASSUME TypesInv, NEW c \in Conn, Attuned(c), NEW op \in Downloads, Reading(c, op, 0), Got(c) = 1,
           Text(c)[1] >= MaxText, Steps(c, Err), at'[c] = "loop", code'[c] = code[c],
           Identified(c)'
    PROVE  Attuned(c)'
<1>1. /\ at[c] = "reading" /\ code[c] = op
  BY ReadingSteps
<1>2. /\ 2 = Places(op)[0 + 1] /\ 0 \in Nat /\ 2 \in Nat
  BY PlacesAre DEF Downloads
<1>3. PICK s \in Scripts(c) : Follows(c, s, 2) /\ 2 <= Len(s)
  BY <1>2, AtPlace
<1>4. request[c] = op /\ wire[c] # <<>>
  BY <1>2, AtPlace
<1>5. Text(c) = <<Len(named[c])>>
  BY <1>4, LastLeads, PreviousLeads DEF Downloads
<1>6. named[c] \in Texts /\ Len(named[c]) >= MaxText
  <2>1. <<Len(named[c])>>[1] = Len(named[c])
    OBVIOUS
  <2>2. Text(c)[1] = Len(named[c])
    BY <1>5, <2>1
  <2>3. QED
    BY <2>2, StreamTypes
<1>7. s[3] = Piece("file", named[c]) /\ GoesOn(s, 2, <<>>, 3)
  BY <1>4, DownloadScripts
<1>8. s[3].kind = "file" /\ s[3].text = named[c]
  BY <1>6, <1>7, NameIs
<1>9. s \in Streams /\ Len(s) \in Nat /\ Len(s) >= 3
  <2>1. s \in Streams /\ Len(s) \in Nat
    BY ScriptIs
  <2>2. EndsAt(s, 3, Err)
    BY <1>4, DownloadScripts
  <2>3. 3 <= Len(s)
    BY <2>1, <2>2 DEF EndsAt
  <2>4. QED
    BY <2>1, <2>3
<1>10. Connected(c) /\ Connected(c)'
  BY <1>1, StepConnected DEF Attuned
<1>11. wire'[c] = Tail(wire[c]) /\ plan'[c] = plan[c] /\ wire[c] \in Streams /\ plan[c] \in Streams
  BY <1>4, StreamTypes DEF Steps
<1> DEFINE open == peer[c] = "open"
<1>12. /\ answers[c] \in Replies /\ open \in BOOLEAN
       /\ Fits(wire[c], plan[c], answers[c], open, s, 2)
  BY <1>3, StreamTypes DEF Follows
<1>13. ~open => plan[c] = <<>> /\ answers[c] = <<>> /\ answers'[c] = <<>>
  BY <1>10 DEF Connected, Steps
<1> HIDE DEF open
<1>14. \/ Comes(Tail(wire[c]), plan[c]) /\ Coming(Tail(wire[c]), plan[c]) = s[3]
       \/ Tail(wire[c]) = <<>> /\ ~open
  BY <1>4, <1>9, <1>11, <1>12, NextComes
<1>15. CASE Comes(Tail(wire[c]), plan[c]) /\ Coming(Tail(wire[c]), plan[c]) = s[3]
  <2>1. LongName(wire'[c], plan'[c])
    BY <1>6, <1>8, <1>11, <1>15 DEF LongName
  <2>2. QED
    BY <1>1, <1>10, <2>1 DEF Attuned, Listening, Operating, Overlong
<1>16. CASE Tail(wire[c]) = <<>> /\ ~open
  <2>1. Quiet(c)'
    BY <1>11, <1>13, <1>16, GoneIsHeld DEF Quiet
  <2>2. QED
    BY <1>10, <2>1 DEF Attuned, Listening, Operating
<1>17. QED
  BY <1>14, <1>15, <1>16

LEMMA DownloadLengthKeeps ==
    ASSUME TypesInv, NEW c \in Conn, Attuned(c), DownloadLength(c)
    PROVE  Attuned(c)'
<1>0. Ok \in Given /\ Err \in Given /\ <<>> \in Given
  BY GivenAre
<1>1. PICK op \in Downloads, n \in {0, 2} :
         Reading(c, op, n) /\ (n = 2 => op = "downloadPreviousVersion")
  BY DEF DownloadLength, Measuring, Downloads
<1>2. /\ CanRecv(c) /\ at[c] = "reading" /\ code[c] = op /\ code'[c] = code[c] /\ Len(heard[c]) = n
      /\ Text(c) \in Texts /\ n \in Nat
  BY <1>1, ReadingSteps
<1>3. Identified(c)' /\ logged'[c] = logged[c]
  BY SameIdentified DEF DownloadLength
<1>4. CASE Got(c) = 1 /\ Text(c)[1] >= MaxText /\ Send(c, Err) /\ Return(c)
  <2>1. Steps(c, Err) /\ at'[c] = "loop"
    BY <1>0, <1>1, <1>4, ReadingSteps, PlaceSteps DEF Return
  <2>2. CASE n = 0
    BY <1>1, <1>2, <1>3, <1>4, <2>1, <2>2, LeftName
  <2>3. CASE n = 2
    <3>1. Text(c) = <<1>>
      BY <1>1, <1>4, <2>3, PreviousLeads
    <3>2. QED
      BY <1>4, <3>1, TextAssumption
  <2>4. QED
    BY <2>2, <2>3
<1>5. CASE Hear(c, Text(c)) /\ Silent
  <2>1. Steps(c, <<>>)
    BY <1>1, <1>5, ReadingSteps
  <2>2. CASE n = 0
    <3>1. 0 + 1 < Len(Places(op)) /\ 3 = Places(op)[0 + 2] /\ 0 \in Nat
      BY PlacesAre DEF Downloads
    <3>2. Got(c) = 1 => Leads(c, <<>>, 3)
      BY <1>1, <2>2, LastLeads, PreviousLeads DEF Downloads
    <3>3. Len(heard'[c]) <= 1
      BY <1>2, <1>5, <2>2, PlaceSteps
    <3>4. Recalls(c)' /\ Reading(c, op, 0)
      BY <1>1, <2>2, <3>3, RecallsNothing
    <3>5. QED
      BY <1>0, <1>2, <1>3, <1>5, <3>1, <3>2, <3>4, HearKeeps
  <2>3. CASE n = 2
    <3>1. 2 + 1 < Len(Places(op)) /\ 6 = Places(op)[2 + 2] /\ 2 \in Nat /\ 2 >= 2
      BY <1>1, <2>3, PlacesAre
    <3>2. Reading(c, op, 2) /\ op = "downloadPreviousVersion"
      BY <1>1, <2>3
    <3>3. Got(c) = 1 => Leads(c, <<>>, 6)
      BY <3>2, PreviousLeads
    <3>4. Recalls(c)'
      BY <1>2, <1>5, <2>1, <3>1, <3>2, RecallsKept
    <3>5. QED
      BY <1>0, <1>2, <1>3, <1>5, <3>1, <3>2, <3>3, <3>4, HearKeeps
  <2>4. QED
    BY <2>2, <2>3
<1>6. CASE Got(c) # 1 /\ (Send(c, Err) \/ Send(c, Ok)) /\ (Return(c) \/ Throw(c))
  BY <1>0, <1>1, <1>3, <1>6, ReturnKeeps, ThrowKeeps
<1>7. CASE /\ Got(c) # 1 /\ op = "downloadPreviousVersion" /\ Send(c, Ok) /\ n = 0
           /\ heard' = [heard EXCEPT ![c] = <<<<>>, <<>>>>] /\ UNCHANGED at
  <2>1. Steps(c, Ok) /\ at'[c] = "reading"
    BY <1>0, <1>1, <1>2, <1>7, ReadingSteps
  <2>2. heard'[c] = <<<<>>, <<>>>>
    BY <1>7 DEF TypesInv, PlaceOK
  <2>3. Over(c)'
    BY <1>2, <1>7, <2>1, Gone DEF Attuned
  <2>4. Recalls(c)'
    BY <1>2, <1>7, <2>2, <2>3 DEF Recalls
  <2>5. QED
    BY <1>0, <1>2, <1>3, <1>7, <2>1, <2>4, AfterHear
<1>8. QED
  BY <1>1, <1>2, <1>4, <1>5, <1>6, <1>7 DEF DownloadLength

LEMMA DownloadNameKeeps ==
    ASSUME TypesInv, NEW c \in Conn, Attuned(c), DownloadName(c)
    PROVE  Attuned(c)'
<1>0. Ok \in Given /\ Err \in Given /\ <<>> \in Given /\ Ok \o Ok \in Given /\ Ok \o Err \in Given
  BY GivenAre
<1>1. PICK op \in Downloads : Reading(c, op, 1)
  BY DEF DownloadName
<1>2. code[c] = op /\ Text(c) \in Texts
  BY <1>1, ReadingSteps
<1>3. Identified(c)' /\ logged'[c] = logged[c]
  BY SameIdentified DEF DownloadName
<1>4. CASE Spin(c) /\ Silent
  BY <1>0, <1>1, <1>3, <1>4, ThrowKeeps
<1>5. CASE Got(c) = 1 /\ Send(c, Err) /\ Return(c)
  BY <1>0, <1>1, <1>3, <1>5, LastLeads, PreviousLeads, ReturnKeeps DEF Downloads
<1>6. ASSUME Got(c) = 1 PROVE Text(c) = named[c] /\ request[c] = op
  <2>1. Text(c) = named[c]
    BY <1>1, <1>6, LastLeads, PreviousLeads DEF Downloads
  <2>2. QED
    BY <1>1, <1>6, <2>1, InRequest
<1>7. CASE op = "downloadLastVersion" /\ Got(c) = 1 /\ Fetch(c, Text(c))
  <2>1. Finishes(c, Ok \o Err) /\ Leads(c, Ok \o Ok, 6)
    BY <1>1, <1>7, LastLeads
  <2>2. CASE (Throw(c) \/ Spin(c)) /\ Send(c, Ok)
    BY <1>0, <1>1, <1>3, <2>2, ThrowKeeps
  <2>3. CASE Return(c) /\ Send(c, Ok \o Err)
    BY <1>0, <1>1, <1>3, <2>1, <2>3, ReturnKeeps
  <2>4. CASE Hear(c, Text(c)) /\ Send(c, Ok \o Ok)
    <3>1. 1 + 1 < Len(Places(op)) /\ 6 = Places(op)[1 + 2] /\ 1 \in Nat
      BY <1>7, PlacesAre
    <3>2. Steps(c, Ok \o Ok)
      BY <1>0, <1>1, <2>4, ReadingSteps
    <3>3. Recalls(c)'
      BY <1>1, <1>2, <1>6, <1>7, <2>4, <3>2, RecallsNew
    <3>4. QED
      BY <1>0, <1>1, <1>2, <1>3, <2>1, <2>4, <3>1, <3>3, HearKeeps
  <2>5. QED
    BY <1>2, <1>7, <2>2, <2>3, <2>4 DEF Fetch
<1>8. CASE op = "downloadPreviousVersion" /\ Got(c) = 1 /\ Hear(c, Text(c)) /\ Send(c, Ok)
  <2>1. 1 + 1 < Len(Places(op)) /\ 5 = Places(op)[1 + 2] /\ 1 \in Nat
    BY <1>8, PlacesAre
  <2>2. Steps(c, Ok)
    BY <1>0, <1>1, <1>8, ReadingSteps
  <2>3. Recalls(c)'
    BY <1>1, <1>2, <1>6, <1>8, <2>2, RecallsNew
  <2>4. Leads(c, Ok, 5)
    BY <1>1, <1>8, PreviousLeads
  <2>5. QED
    BY <1>0, <1>1, <1>2, <1>3, <1>8, <2>1, <2>3, <2>4, HearKeeps
<1>9. QED
  BY <1>2, <1>4, <1>5, <1>7, <1>8 DEF DownloadName, Downloads

LEMMA DownloadDateKeeps ==
    ASSUME TypesInv, NEW c \in Conn, Attuned(c), DownloadDate(c)
    PROVE  Attuned(c)'
<1>0. Ok \in Given /\ Err \in Given /\ <<>> \in Given /\ Ok \o Ok \in Given /\ Ok \o Err \in Given
  BY GivenAre
<1>1. Reading(c, "downloadPreviousVersion", 3) /\ Text(c) \in Texts
  BY ReadingSteps DEF DownloadDate
<1>2. Identified(c)' /\ logged'[c] = logged[c]
  BY SameIdentified DEF DownloadDate
<1>3. CASE Spin(c) /\ Silent
  BY <1>0, <1>1, <1>2, <1>3, ThrowKeeps
<1>4. CASE Got(c) = 1 /\ Fetch(c, heard[c][2])
  <2>1. Finishes(c, Ok) /\ Finishes(c, Ok \o Err) /\ Leads(c, Ok \o Ok, 9)
    BY <1>1, <1>4, PreviousLeads
  <2>2. CASE (Throw(c) \/ Spin(c)) /\ Send(c, Ok)
    BY <1>0, <1>1, <1>2, <2>2, ThrowKeeps
  <2>3. CASE Return(c) /\ (Send(c, Ok \o Err) \/ Send(c, Ok))
    BY <1>0, <1>1, <1>2, <2>1, <2>3, ReturnKeeps
  <2>4. CASE Hear(c, Text(c)) /\ Send(c, Ok \o Ok)
    <3>1. /\ 3 + 1 < Len(Places("downloadPreviousVersion"))
          /\ 9 = Places("downloadPreviousVersion")[3 + 2] /\ 3 \in Nat /\ 3 >= 2
      BY PlacesAre
    <3>2. Steps(c, Ok \o Ok)
      BY <1>0, <1>1, <2>4, ReadingSteps
    <3>3. Recalls(c)'
      BY <1>1, <1>4, <2>4, <3>1, <3>2, RecallsKept
    <3>4. QED
      BY <1>0, <1>1, <1>2, <2>1, <2>4, <3>1, <3>3, HearKeeps
  <2>5. QED
    BY <1>4, <2>2, <2>3, <2>4 DEF Fetch
<1>5. QED
  BY <1>3, <1>4 DEF DownloadDate

LEMMA DownloadContentKeeps ==
    ASSUME TypesInv, NEW c \in Conn, Attuned(c), DownloadContent(c)
    PROVE  Attuned(c)'
<1>0. Ok \in Given /\ <<>> \in Given
  BY GivenAre
<1>1. PICK op \in Downloads, n \in Nat :
         Reading(c, op, n) /\ n = IF op = "downloadLastVersion" THEN 2 ELSE 4
  BY DEF DownloadContent, Downloads
<1>2. Identified(c)' /\ logged'[c] = logged[c] /\ Text(c) \in Texts
  BY <1>1, SameIdentified, ReadingSteps DEF DownloadContent
<1>3. CASE (Got(c) = 1 => Text(c) # Yes) /\ Return(c) /\ Silent
  <2>1. Got(c) = 1 => Finishes(c, <<>>)
    BY <1>1, <1>3, ConfirmLeads DEF Downloads
  <2>2. QED
    BY <1>0, <1>1, <1>2, <1>3, <2>1, ReturnKeeps
<1>4. CASE Spin(c) /\ Silent
  BY <1>0, <1>1, <1>2, <1>4, ThrowKeeps
<1>5. CASE (Got(c) = 1 => Text(c) = Yes) /\ Hear(c, Text(c)) /\ Send(c, Ok)
  <2>1. Steps(c, Ok)
    BY <1>0, <1>1, <1>5, ReadingSteps
  <2>2. Recalls(c)'
    BY <1>1, <1>2, <1>5, <2>1, RecallsKept
  <2>3. CASE op = "downloadLastVersion"
    <3>1. n + 1 < Len(Places(op)) /\ 8 = Places(op)[n + 2]
      BY <1>1, <2>3, PlacesAre
    <3>2. Got(c) = 1 => Leads(c, Ok, 8)
      BY <1>1, <1>5, <2>3, ConfirmLeads
    <3>3. QED
      BY <1>0, <1>1, <1>2, <1>5, <2>2, <3>1, <3>2, HearKeeps
  <2>4. CASE op = "downloadPreviousVersion"
    <3>1. n + 1 < Len(Places(op)) /\ 11 = Places(op)[n + 2]
      BY <1>1, <2>4, PlacesAre
    <3>2. Got(c) = 1 => Leads(c, Ok, 11)
      BY <1>1, <1>5, <2>4, ConfirmLeads
    <3>3. QED
      BY <1>0, <1>1, <1>2, <1>5, <2>2, <3>1, <3>2, HearKeeps
  <2>5. QED
    BY <2>3, <2>4 DEF Downloads
<1>6. QED
  BY <1>3, <1>4, <1>5 DEF DownloadContent

LEMMA DownloadDigestKeeps ==
    ASSUME TypesInv, NEW c \in Conn, Attuned(c), DownloadDigest(c)
    PROVE  Attuned(c)'
<1>0. Ok \in Given /\ Err \in Given /\ <<>> \in Given
  BY GivenAre
<1>1. PICK op \in Downloads, n \in Nat :
         Reading(c, op, n) /\ n = IF op = "downloadLastVersion" THEN 3 ELSE 5
  BY DEF DownloadDigest, Downloads
<1>2. Identified(c)' /\ Return(c)
  BY DEF DownloadDigest, Same, Restore, sessionVars, tableVars, Attuned, Identified
<1>3. CASE Got(c) = 1 /\ Text(c) # Yes /\ Silent
  <2>1. Finishes(c, <<>>)
    BY <1>1, <1>3, ConfirmLeads DEF Downloads
  <2>2. QED
    BY <1>0, <1>1, <1>2, <1>3, <2>1, ReturnKeeps
<1>4. CASE (Got(c) = 1 => Text(c) = Yes) /\ (Send(c, Err) \/ Send(c, Ok))
  <2>1. Got(c) = 1 => Finishes(c, Ok) /\ Finishes(c, Err)
    BY <1>1, <1>4, ConfirmLeads DEF Downloads
  <2>2. QED
    BY <1>0, <1>1, <1>2, <1>4, <2>1, ReturnKeeps
<1>5. QED
  BY <1>3, <1>4 DEF DownloadDigest

-----------------------------------------------------------------------------
(* The loop.                                                               *)

Queries == {"getDeletedFiles", "getUserFolder", "getUserPath"}
Measured == Downloads \cup {"getFileVersions"}

\* How a request goes on after its code.
LEMMA CodeScripts ==
    ASSUME NEW c \in Conn, NEW s \in Scripts(c)
    PROVE  /\ s[1] = Piece("code", <<request[c]>>)
           /\ request[c] \in Known \ Queries => GoesOn(s, 1, <<>>, 2) /\ Len(s) >= 2
           /\ request[c] \in Queries => \A given \in {<<>>, Ok, Err} : EndsAt(s, 1, given)
           /\ request[c] \in {"uploadFile", "removeFile", "deleteFile"} => s[2] = Piece("file", named[c])
           /\ request[c] = "setUserPath" => \E d \in Folders : s[2] = Piece("folder", d)
           /\ request[c] \in Measured =>
                  Len(s) >= 3 /\ s[2] = Measure(named[c]) /\ s[3] = Piece("file", named[c])
<1>1. PICK who \in Credentials, d \in Folders, n \in 0 .. 2 :
         s = Request(request[c], who, named[c], d, n)
  BY ScriptIs
<1>2. request[c] \in Codes /\ named[c] \in FileNames /\ s \in Streams /\ Len(s) \in Nat
  BY ScriptIs
<1>3. s[1] = Piece("code", <<request[c]>>)
  BY <1>1, <1>2, HeadIs
<1>4. request[c] \in Measured =>
          Len(s) >= 3 /\ s[2] = Measure(named[c]) /\ s[3] = Piece("file", named[c])
  <2>1. CASE request[c] = "getFileVersions"
    BY <1>1, <2>1, VersionsIs
  <2>2. CASE request[c] = "downloadLastVersion"
    <3>1. s[2] = Measure(named[c]) /\ s[3] = Piece("file", named[c]) /\ Confirms(s, 5)
      BY <1>1, <2>2, LastIs
    <3>2. Len(s) >= 3
      BY <3>1 DEF Confirms
    <3>3. QED
      BY <3>1, <3>2
  <2>3. CASE request[c] = "downloadPreviousVersion"
    <3>1. s[2] = Measure(named[c]) /\ s[3] = Piece("file", named[c]) /\ Confirms(s, 8)
      BY <1>1, <2>3, PreviousIs
    <3>2. Len(s) >= 3
      BY <3>1 DEF Confirms
    <3>3. QED
      BY <3>1, <3>2
  <2>4. QED
    BY <2>1, <2>2, <2>3 DEF Measured, Downloads
<1>5. /\ request[c] \in {"uploadFile", "removeFile", "deleteFile"} =>
             s[2] = Piece("file", named[c]) /\ Len(s) >= 2
      /\ request[c] = "setUserPath" => (\E e \in Folders : s[2] = Piece("folder", e)) /\ Len(s) >= 2
      /\ request[c] \in {"logIn", "signIn"} => Len(s) >= 2
      /\ request[c] \in Queries => Len(s) = 2 /\ s[2] = Wait
  <2>1. request[c] = "uploadFile" => s[2] = Piece("file", named[c]) /\ Len(s) >= 2
    BY <1>1, UploadIs
  <2>2. request[c] \in {"removeFile", "deleteFile"} => s[2] = Piece("file", named[c]) /\ Len(s) >= 2
    BY <1>1, ChangeIs
  <2>3. request[c] = "setUserPath" => s[2] = Piece("folder", d) /\ Len(s) >= 2
    BY <1>1, PathIs
  <2>4. request[c] \in {"logIn", "signIn"} => Len(s) >= 2
    BY <1>1, LogInIs, SignInIs
  <2>5. request[c] \in Queries => Len(s) = 2 /\ s[2] = Wait
    BY <1>1, QueryIs DEF Queries
  <2>6. QED
    BY <2>1, <2>2, <2>3, <2>4, <2>5
<1>6. request[c] \in Known \ Queries => Len(s) >= 2
  BY <1>2, <1>4, <1>5 DEF Known, Queries, Measured, Downloads
<1>7. ASSUME request[c] \in Known \ Queries
      PROVE  GoesOn(s, 1, <<>>, 2)
  <2>1. 1 \in Nat /\ 1 + 1 = 2 /\ 1 <= Len(s)
    BY <1>2, <1>6, <1>7
  <2>2. QED
    BY <1>2, <2>1, GoesNone
<1>8. ASSUME request[c] \in Queries, NEW given \in {<<>>, Ok, Err}
      PROVE  EndsAt(s, 1, given)
  <2>1. 1 \in Nat /\ 1 + 1 = Len(s) /\ 1 + 1 <= Len(s) /\ s[1 + 1] = Wait
    BY <1>2, <1>5, <1>8
  <2>2. QED
    BY <1>2, <2>1, EndsOne
<1>9. QED
  BY <1>3, <1>4, <1>5, <1>6, <1>7, <1>8

\* The pieces an operation receives are those it is sent.
LEMMA Kinds ==
    /\ \A k \in KindsOfPiece, t \in Texts : Piece(k, t).kind = k
    /\ \A t : Piece("code", t).kind = "code" /\ Piece("code", t).text = t
    /\ \A f : Measure(f).kind = "length" /\ Measure(f).text = <<Len(f)>>
    /\ \A k, t : Piece(k, t).kind = k
BY DEF Piece, Measure

\* The operation, refused or up to its first recv.
LEMMA Performs ==
    ASSUME NEW c \in Conn, NEW op \in Codes, Perform(c, op), Identified(c)
    PROVE  \/ Throw(c) /\ Silent
           \/ /\ op \in Known /\ Refused(c, op) /\ Return(c) /\ ~logged[c]
              /\ \E given \in {<<>>, Err} :
                    /\ Send(c, given) \/ (Silent /\ given = <<>>)
                    /\ given = Err <=> op \in {"uploadFile", "getUserFolder", "getUserPath"}
           \/ /\ op \in Queries /\ Return(c) /\ \E given \in {Ok, Err} : Send(c, given)
           \/ /\ op \in Known \ Queries /\ Goes(c, "reading") /\ Silent
              /\ logged[c] \/ op \in {"logIn", "signIn"}
<1>0. Err # <<>>
  BY DEF Err
<1>1. CASE op \notin Known
  BY <1>1 DEF Perform, Known
<1>2. CASE op \in Known /\ Refused(c, op)
  <2>1. Return(c) /\ ~logged[c]
    BY <1>2 DEF Perform, Refused
  <2>2. CASE op \in {"uploadFile", "getUserFolder", "getUserPath"}
    <3>1. Send(c, Err)
      BY <1>2, <2>2 DEF Perform
    <3>2. QED
      BY <1>0, <1>2, <2>1, <2>2, <3>1
  <2>3. CASE op \notin {"uploadFile", "getUserFolder", "getUserPath"}
    <3>1. Silent
      BY <1>2, <2>3 DEF Perform
    <3>2. QED
      BY <1>0, <1>2, <2>1, <2>3, <3>1
  <2>4. QED
    BY <2>2, <2>3
<1>3. CASE op \in Queries /\ ~Refused(c, op)
  BY <1>3 DEF Perform, Queries, Known
<1>4. CASE op \in Known \ Queries /\ ~Refused(c, op)
  <2>1. Goes(c, "reading") /\ Silent
    BY <1>4 DEF Perform, Queries
  <2>2. logged[c] \/ op \in {"logIn", "signIn"}
    BY <1>4 DEF Refused, Identified
  <2>3. QED
    BY <1>4, <2>1, <2>2
<1>5. QED
  BY <1>1, <1>2, <1>3, <1>4 DEF Queries, Known

\* What is left of a request after what is received, as Leftover.
LEMMA LeftoverWhen ==
    ASSUME NEW w \in Streams, NEW p \in Streams, NEW a \in Replies, NEW open \in BOOLEAN,
           NEW s \in Streams, Fits(w, p, a, open, s, 1), w # <<>>, ~open => p = <<>>,
           \/ Len(s) >= 2 /\ s[2].kind \in {"file", "folder"}
           \/ /\ Len(s) >= 3 /\ s[2].kind = "length" /\ s[2].text # Some
              /\ s[3].kind = "file"
    PROVE  Leftover(Tail(w), p, open) \/ (Tail(w) = <<>> /\ ~open)
<1> DEFINE one == 1
<1>1. one \in Nat /\ one = 1 /\ Fits(w, p, a, open, s, one)
  OBVIOUS
<1> HIDE DEF one
<1>2. Lies(w, s, one) /\ Lies(p, s, one + Len(w)) /\ (open => one + Len(w) - 1 + Len(p) = Len(s))
  BY <1>1, FitsMeans
<1> DEFINE v == Tail(w)
<1>3. /\ v \in Streams /\ Len(v) = Len(w) - 1 /\ Len(w) \in Nat /\ Len(w) > 0
      /\ \A j \in 1 .. Len(w) - 1 : v[j] = w[j + 1]
  BY RestIs
<1>4. Len(v) \in Nat /\ (v = <<>> <=> Len(v) = 0) /\ (p = <<>> <=> Len(p) = 0) /\ Len(p) \in Nat
      /\ Len(s) \in Nat
  BY <1>3, StreamIs
<1>5. ASSUME Len(w) > 1 PROVE v # <<>> /\ v[1] = s[2]
  <2>1. 1 \in 1 .. Len(w) - 1 /\ 1 < Len(w) /\ 1 \in Nat
    BY <1>3, <1>5
  <2>2. w[1 + 1] = s[one + 1]
    BY <1>1, <1>2, <2>1, LiesAt
  <2>3. QED
    BY <1>1, <1>3, <1>4, <1>5, <2>1, <2>2
<1>6. ASSUME Len(w) > 2 PROVE Len(v) > 1 /\ v[2] = s[3]
  <2>1. 2 \in 1 .. Len(w) - 1 /\ 2 < Len(w) /\ 2 \in Nat
    BY <1>3, <1>6
  <2>2. w[2 + 1] = s[one + 2]
    BY <1>1, <1>2, <2>1, LiesAt
  <2>3. QED
    BY <1>1, <1>3, <1>6, <2>1, <2>2
<1>7. ASSUME Len(w) = 1 PROVE v = <<>> /\ (Len(p) > 0 => p[1] = s[2]) /\ (Len(p) > 1 => p[2] = s[3])
  <2>1. v = <<>>
    BY <1>3, <1>4, <1>7
  <2>2. one + Len(w) \in Nat /\ one + Len(w) = 2 /\ Lies(p, s, one + Len(w))
    BY <1>1, <1>2, <1>7
  <2> DEFINE two == one + Len(w)
  <2>3. two \in Nat /\ two = 2 /\ Lies(p, s, two)
    BY <2>2
  <2> HIDE DEF two
  <2>4. ASSUME Len(p) > 0 PROVE p[1] = s[2]
    <3>1. p[0 + 1] = s[two + 0]
      BY <1>4, <2>3, <2>4, LiesAt
    <3>2. QED
      BY <2>3, <3>1
  <2>5. ASSUME Len(p) > 1 PROVE p[2] = s[3]
    <3>1. p[1 + 1] = s[two + 1]
      BY <1>4, <2>3, <2>5, LiesAt
    <3>2. QED
      BY <2>3, <3>1
  <2>6. QED
    BY <2>1, <2>4, <2>5
<1>8. ASSUME Len(w) = 2 PROVE Len(v) = 1 /\ (Len(p) > 0 => p[1] = s[3])
  <2>2. one + Len(w) \in Nat /\ one + Len(w) = 3 /\ Lies(p, s, one + Len(w))
    BY <1>1, <1>2, <1>8
  <2> DEFINE three == one + Len(w)
  <2>3. three \in Nat /\ three = 3 /\ Lies(p, s, three)
    BY <2>2
  <2> HIDE DEF three
  <2>4. ASSUME Len(p) > 0 PROVE p[1] = s[3]
    <3>1. p[0 + 1] = s[three + 0]
      BY <1>4, <2>3, <2>4, LiesAt
    <3>2. QED
      BY <2>3, <3>1
  <2>5. Len(v) = 1
    BY <1>3, <1>8
  <2>6. QED
    BY <2>4, <2>5
<1>9. open => Len(w) + Len(p) = Len(s)
  BY <1>1, <1>2, <1>3, <1>4
<1>10. Len(w) = 1 \/ Len(w) = 2 \/ Len(w) > 2
  BY <1>3
<1> HIDE DEF v
<1> SUFFICES Leftover(v, p, open) \/ (v = <<>> /\ ~open)
  BY DEF v
<1>11. CASE Len(s) >= 2 /\ s[2].kind \in {"file", "folder"}
  <2>1. CASE Len(w) > 1
    BY <1>5, <1>11, <2>1 DEF Leftover, Comes, Coming
  <2>2. CASE Len(w) = 1 /\ open
    <3>1. Len(p) > 0 /\ p # <<>> /\ v = <<>> /\ p[1] = s[2]
      BY <1>4, <1>7, <1>9, <1>11, <2>2
    <3>2. QED
      BY <1>11, <3>1 DEF Leftover, Comes, Coming
  <2>3. CASE Len(w) = 1 /\ ~open
    BY <1>7, <2>3
  <2>4. QED
    BY <1>10, <2>1, <2>2, <2>3
<1>12. CASE /\ Len(s) >= 3 /\ s[2].kind = "length" /\ s[2].text # Some
            /\ s[3].kind = "file"
  <2>1. CASE Len(w) > 2
    <3>1. v # <<>> /\ v[1] = s[2] /\ Len(v) > 1 /\ v[2] = s[3]
      BY <1>3, <1>5, <1>6, <2>1
    <3>2. QED
      BY <1>12, <3>1 DEF Leftover, Comes, Coming
  <2>2. CASE Len(w) = 2
    <3>1. v # <<>> /\ v[1] = s[2] /\ Len(v) = 1
      BY <1>5, <1>8, <2>2
    <3>2. CASE open
      <4>1. Len(p) > 0 /\ p # <<>> /\ p[1] = s[3]
        BY <1>4, <1>8, <1>9, <1>12, <2>2, <3>2
      <4>2. QED
        BY <1>12, <3>1, <4>1 DEF Leftover, Comes, Coming
    <3>3. CASE ~open
      BY <1>12, <3>1, <3>3 DEF Leftover, Comes, Coming
    <3>4. QED
      BY <3>2, <3>3
  <2>3. CASE Len(w) = 1 /\ open
    <3>1. Len(p) > 1 /\ p # <<>> /\ v = <<>> /\ p[1] = s[2] /\ p[2] = s[3]
      BY <1>4, <1>7, <1>9, <1>12, <2>3
    <3>2. QED
      BY <1>12, <3>1 DEF Leftover, Comes, Coming
  <2>4. CASE Len(w) = 1 /\ ~open
    BY <1>7, <2>4
  <2>5. QED
    BY <1>10, <2>1, <2>2, <2>3, <2>4
<1>13. QED
  BY <1>11, <1>12

\* A length of a name is not that of a content.
LEMMA NameHasLength == \A f \in FileNames : f \in Texts /\ Measure(f).kind = "length" /\ Measure(f).text # Some
<1> SUFFICES ASSUME NEW f \in FileNames
             PROVE  f \in Texts /\ Measure(f).kind = "length" /\ Measure(f).text # Some
  OBVIOUS
<1>1. f \in Texts /\ f # <<>>
  BY TextAssumption
<1>2. Len(f) # 0
  BY <1>1, EmptyIs DEF Texts
<1>3. Measure(f).kind = "length" /\ Measure(f).text = <<Len(f)>>
  BY Kinds
<1>4. <<Len(f)>> # Some
  BY <1>2 DEF Some
<1>5. QED
  BY <1>1, <1>3, <1>4

\* Back in the loop without having read the rest of the request.
LEMMA StrayAfter ==
    ASSUME TypesInv, NEW c \in Conn, Connected(c), NEW given \in Given, Steps(c, given),
           at[c] = "loop", at'[c] = "loop", ~logged'[c], Identified(c)', wire[c] # <<>>,
           \/ Leftover(Tail(wire[c]), plan[c], peer[c] = "open")
           \/ Tail(wire[c]) = <<>> /\ peer[c] # "open"
    PROVE  Attuned(c)'
<1>1. Connected(c)'
  BY StepConnected
<1>2. wire'[c] = Tail(wire[c]) /\ plan'[c] = plan[c]
  BY DEF Steps
<1>3. (peer'[c] = "open") = (peer[c] = "open")
  BY StreamTypes DEF Steps
<1>4. CASE Leftover(Tail(wire[c]), plan[c], peer[c] = "open")
  <2>1. Stray(c)'
    BY <1>2, <1>3, <1>4 DEF Stray
  <2>2. QED
    BY <1>1, <2>1 DEF Attuned, Listening, Operating
<1>5. CASE Tail(wire[c]) = <<>> /\ peer[c] # "open"
  <2>1. wire'[c] = <<>> /\ plan'[c] = <<>> /\ answers'[c] = <<>>
    BY <1>2, <1>5 DEF Connected, Steps
  <2>2. Quiet(c)'
    BY <2>1, GoneIsHeld DEF Quiet
  <2>3. QED
    BY <1>1, <2>2 DEF Attuned, Listening, Operating
<1>6. QED
  BY <1>4, <1>5

LEMMA RefusedLeaves ==
    ASSUME TypesInv, NEW c \in Conn, Attuned(c), NEW given \in Given, Steps(c, given),
           at[c] = "loop", at'[c] = "loop", ~logged'[c], Identified(c)', wire[c] # <<>>,
           NEW s \in Scripts(c), Follows(c, s, 1),
           request[c] \in Known \ Queries, request[c] \notin {"logIn", "signIn"}
    PROVE  Attuned(c)'
<1>1. named[c] \in FileNames /\ s \in Streams /\ Len(s) \in Nat
  BY ScriptIs
<1>2. Connected(c)
  BY DEF Attuned
<1>3. \/ Len(s) >= 2 /\ s[2].kind \in {"file", "folder"}
      \/ /\ Len(s) >= 3 /\ s[2].kind = "length" /\ s[2].text # Some
         /\ s[3].kind = "file"
  <2>1. Len(s) >= 2
    BY CodeScripts
  <2>2. CASE request[c] \in {"uploadFile", "removeFile", "deleteFile"}
    <3>1. s[2] = Piece("file", named[c])
      BY <2>2, CodeScripts
    <3>2. s[2].kind = "file"
      BY <3>1, Kinds
    <3>3. QED
      BY <2>1, <3>2
  <2>3. CASE request[c] = "setUserPath"
    <3>1. PICK d \in Folders : s[2] = Piece("folder", d)
      BY <2>3, CodeScripts
    <3>2. s[2].kind = "folder"
      BY <3>1, Kinds
    <3>3. QED
      BY <2>1, <3>2
  <2>4. CASE request[c] \in Measured
    <3>1. Len(s) >= 3 /\ s[2] = Measure(named[c]) /\ s[3] = Piece("file", named[c])
      BY <2>4, CodeScripts
    <3>2. s[2].kind = "length" /\ s[2].text # Some /\ s[3].kind = "file"
      BY <1>1, <3>1, Kinds, NameHasLength
    <3>3. QED
      BY <3>1, <3>2
  <2>5. QED
    BY <2>2, <2>3, <2>4 DEF Known, Queries, Measured
<1> DEFINE open == peer[c] = "open"
<1>4. /\ wire[c] \in Streams /\ plan[c] \in Streams /\ answers[c] \in Replies /\ open \in BOOLEAN
      /\ Fits(wire[c], plan[c], answers[c], open, s, 1)
  BY StreamTypes DEF Follows
<1>5. ~open => plan[c] = <<>>
  BY <1>2 DEF Connected
<1> HIDE DEF open
<1>6. Leftover(Tail(wire[c]), plan[c], open) \/ (Tail(wire[c]) = <<>> /\ ~open)
  BY <1>1, <1>3, <1>4, <1>5, LeftoverWhen
<1>7. \/ Leftover(Tail(wire[c]), plan[c], peer[c] = "open")
      \/ Tail(wire[c]) = <<>> /\ peer[c] # "open"
  BY <1>6 DEF open
<1>8. QED
  BY <1>2, <1>7, StrayAfter

LEMMA StrayLeaves ==
    ASSUME TypesInv, NEW c \in Conn, Attuned(c), NEW given \in Given, Steps(c, given),
           at[c] = "loop", at'[c] = "loop", ~logged'[c], Identified(c)', wire[c] # <<>>,
           Stray(c), wire[c][1].kind = "length"
    PROVE  Attuned(c)'
<1>1. Connected(c) /\ wire[c] \in Streams /\ plan[c] \in Streams
  BY StreamTypes DEF Attuned
<1> DEFINE w == wire[c]  p == plan[c]  open == peer[c] = "open"
<1>2. \/ Len(w) > 1 /\ w[2].kind = "file"
      \/ Len(w) = 1 /\ p # <<>> /\ p[1].kind = "file"
      \/ Len(w) = 1 /\ ~open
  BY DEF Stray, Leftover, Coming
<1>3. w \in Streams /\ w # <<>> /\ p \in Streams
  BY <1>1
<1> HIDE DEF w, p, open
<1>4. /\ Tail(w) \in Streams /\ Len(Tail(w)) = Len(w) - 1 /\ Len(w) \in Nat /\ Len(w) > 0
      /\ \A j \in 1 .. Len(w) - 1 : Tail(w)[j] = w[j + 1]
      /\ (Tail(w) = <<>> <=> Len(Tail(w)) = 0)
  BY <1>3, RestIs, StreamIs
<1>5. Leftover(Tail(w), p, open) \/ (Tail(w) = <<>> /\ ~open)
  <2>1. CASE Len(w) > 1 /\ w[2].kind = "file"
    <3>1. 1 \in 1 .. Len(w) - 1 /\ 1 + 1 = 2
      BY <1>4, <2>1
    <3>2. Tail(w)[1] = w[2] /\ Tail(w) # <<>>
      BY <1>4, <2>1, <3>1
    <3>3. QED
      BY <2>1, <3>2 DEF Leftover, Comes, Coming
  <2>2. CASE Len(w) = 1
    <3>1. Tail(w) = <<>>
      BY <1>4, <2>2
    <3>2. QED
      BY <1>2, <2>2, <3>1 DEF Leftover, Comes, Coming
  <2>3. QED
    BY <1>2, <2>1, <2>2
<1>6. \/ Leftover(Tail(wire[c]), plan[c], peer[c] = "open")
      \/ Tail(wire[c]) = <<>> /\ peer[c] # "open"
  BY <1>5 DEF w, p, open
<1>7. QED
  BY <1>1, <1>6, StrayAfter

\* The thread in the loop.
LEMMA LoopIs ==
    ASSUME TypesInv, NEW c \in Conn, Attuned(c), Loop(c)
    PROVE  /\ at[c] = "loop" /\ CanRecv(c) /\ Same /\ Identified(c) /\ Identified(c)'
           /\ logged'[c] = logged[c]
           /\ \A given \in Given : Send(c, given) => Steps(c, given)
           /\ Silent => Steps(c, <<>>)
           /\ Quiet(c) \/ Coded(c) \/ Overlong(c) \/ Stray(c)
           /\ code \in [Conn -> Codes]
<1>1. Recv(c) /\ UNCHANGED clientVars /\ (peer[c] = "reset" => wire[c] = <<>>)
  BY DEF Loop, Attuned, Connected
<1>2. \A given \in Given : Send(c, given) => Steps(c, given)
  BY <1>1, StepsWhen
<1>3. Silent => Steps(c, <<>>)
  BY <1>1, StepsWhen, GivenTypes
<1>4. Same /\ at[c] = "loop"
  BY DEF Loop
<1>5. Identified(c) /\ Identified(c)' /\ logged'[c] = logged[c]
  BY <1>4, SameIdentified DEF Attuned
<1>6. code \in [Conn -> Codes]
  BY DEF TypesInv, ClientOK
<1>7. QED
  BY <1>1, <1>2, <1>3, <1>4, <1>5, <1>6 DEF Attuned, Listening, Recv

LEMMA LoopThrows ==
    ASSUME TypesInv, NEW c \in Conn, Attuned(c), Loop(c), Throw(c), Silent
    PROVE  Attuned(c)'
<1>1. at[c] = "loop" /\ Identified(c)' /\ Steps(c, <<>>)
  BY LoopIs
<1>2. at'[c] = "ended"
  BY PlaceSteps DEF Throw
<1>3. QED
  BY <1>1, <1>2, GivenAre, AfterEnd

\* Nothing comes any more: the last operation is performed again.
LEMMA LoopAgain ==
    ASSUME TypesInv, NEW c \in Conn, Attuned(c), Loop(c), Got(c) = 0, Perform(c, code[c])
    PROVE  Attuned(c)'
<1>1. /\ at[c] = "loop" /\ CanRecv(c) /\ Identified(c) /\ Identified(c)' /\ code[c] \in Codes
      /\ logged'[c] = logged[c] /\ code'[c] = code[c]
  BY LoopIs DEF Perform
<1>2. Got(c) # 1 /\ Connected(c)
  BY DEF Attuned
<1>3. CASE Throw(c) /\ Silent
  BY <1>3, LoopThrows
<1>4. CASE Return(c) /\ \E given \in Given : Send(c, given) \/ (Silent /\ given = <<>>)
  <2>1. PICK given \in Given : Send(c, given) \/ (Silent /\ given = <<>>)
    BY <1>4
  <2>2. Steps(c, given)
    BY <2>1, LoopIs
  <2>3. at'[c] = "loop"
    BY <1>4, PlaceSteps DEF Return
  <2>4. QED
    BY <1>1, <1>2, <2>2, <2>3, AfterReturn
<1>5. CASE Goes(c, "reading") /\ Silent /\ (logged[c] \/ code[c] \in {"logIn", "signIn"})
  <2>1. at'[c] = "reading" /\ heard'[c] = <<>>
    BY <1>5, PlaceSteps
  <2>2. Steps(c, <<>>) /\ Over(c)'
    BY <1>1, <1>2, <1>5, LoopIs, Gone
  <2>3. Connected(c)'
    BY <1>1, <1>2, <2>1, <2>2, StepConnected
  <2>4. Recalls(c)'
    <3>1. Len(heard'[c]) <= 1
      BY <2>1
    <3>2. QED
      BY <3>1, RecallsNothing
  <2>5. QED
    BY <1>1, <1>5, <2>1, <2>2, <2>3, <2>4 DEF Attuned, Listening, Operating
<1>6. QED
  BY <1>1, <1>3, <1>4, <1>5, Performs, GivenAre

LEMMA FirstPlace ==
    ASSUME NEW op, op \in Known \ Queries
    PROVE  0 < Len(Places(op)) /\ Places(op)[0 + 1] = 2
<1>1. CASE op \in {"logIn", "signIn", "uploadFile"}
  BY <1>1, PlacesAre
<1>2. CASE op \in {"removeFile", "deleteFile", "getFileVersions", "setUserPath"}
  BY <1>2, PlacesAre
<1>3. CASE op \in Downloads
  BY <1>3, PlacesAre DEF Downloads
<1>4. QED
  BY <1>1, <1>2, <1>3 DEF Known, Queries

\* The code of a request comes.
LEMMA LoopReads ==
    ASSUME TypesInv, NEW c \in Conn, Attuned(c), Loop(c), Got(c) = 1,
           NEW op \in Codes, Perform(c, op), op = request[c], wire[c] # <<>>,
           NEW s \in Scripts(c), Follows(c, s, 1)
    PROVE  Attuned(c)'
<1>1. /\ at[c] = "loop" /\ CanRecv(c) /\ Identified(c) /\ Identified(c)'
      /\ logged'[c] = logged[c] /\ code'[c] = op /\ Connected(c)
  BY LoopIs DEF Perform, Attuned
<1>2. CASE Throw(c) /\ Silent
  BY <1>2, LoopThrows
<1>3. ASSUME Return(c), NEW given \in Given, Send(c, given) \/ (Silent /\ given = <<>>)
      PROVE  Steps(c, given) /\ at'[c] = "loop"
  BY <1>3, LoopIs, PlaceSteps DEF Return
<1>4. ASSUME op \in Queries, Return(c), NEW given \in {<<>>, Ok, Err},
             Send(c, given) \/ (Silent /\ given = <<>>)
      PROVE  Attuned(c)'
  <2>1. Steps(c, given) /\ at'[c] = "loop" /\ given \in Given
    BY <1>3, <1>4, GivenAre
  <2>2. EndsAt(s, 1, given) /\ 1 \in Nat
    BY <1>4, CodeScripts
  <2>3. QED
    BY <1>1, <2>1, <2>2, AfterReturn
<1>5. CASE /\ op \in Known /\ Refused(c, op) /\ Return(c) /\ ~logged[c]
           /\ \E given \in {<<>>, Err} : Send(c, given) \/ (Silent /\ given = <<>>)
  <2>1. op \notin {"logIn", "signIn"}
    BY <1>5 DEF Refused
  <2>2. PICK given \in {<<>>, Err} : Send(c, given) \/ (Silent /\ given = <<>>)
    BY <1>5
  <2>3. Steps(c, given) /\ at'[c] = "loop" /\ given \in Given
    BY <1>3, <1>5, <2>2, GivenAre
  <2>4. CASE op \in Queries
    BY <1>4, <1>5, <2>2, <2>4
  <2>5. CASE op \notin Queries
    BY <1>1, <1>5, <2>1, <2>3, <2>5, RefusedLeaves
  <2>6. QED
    BY <2>4, <2>5
<1>6. CASE op \in Queries /\ Return(c) /\ \E given \in {Ok, Err} : Send(c, given)
  BY <1>4, <1>6
<1>7. CASE /\ op \in Known \ Queries /\ Goes(c, "reading") /\ Silent
           /\ logged[c] \/ op \in {"logIn", "signIn"}
  <2>1. at'[c] = "reading" /\ heard'[c] = <<>> /\ Len(heard'[c]) = 0
    BY <1>7, PlaceSteps
  <2>2. Steps(c, <<>>) /\ <<>> \in Given
    BY <1>7, LoopIs, GivenAre
  <2>3. Connected(c)'
    BY <1>1, <2>1, <2>2, StepConnected
  <2>4. Recalls(c)'
    BY <2>1, RecallsNothing
  <2>5. GoesOn(s, 1, <<>>, 2) /\ 1 \in Nat
    BY <1>7, CodeScripts
  <2>6. /\ Fits(wire'[c], plan'[c], answers'[c], peer'[c] = "open", s, 2)
        /\ Scripts(c)' = Scripts(c)
    BY <1>1, <2>2, <2>5, StepGoesOn
  <2>7. request'[c] = op
    BY <2>2 DEF Steps
  <2>8. Serving(c)'
    BY <1>1, <1>7, <2>1, <2>6, <2>7, FirstPlace DEF Serving, Follows
  <2>9. QED
    BY <1>1, <1>7, <2>1, <2>3, <2>4, <2>8 DEF Attuned, Listening, Operating
<1>8. QED
  BY <1>1, <1>2, <1>5, <1>6, <1>7, Performs

\* Something else comes.
LEMMA LoopStrays ==
    ASSUME TypesInv, NEW c \in Conn, Attuned(c), Loop(c), Got(c) = 1,
           NEW op \in Codes, Perform(c, op), wire[c] # <<>>,
           \/ op = "unknown"
           \/ /\ Stray(c) /\ wire[c][1].kind = "length"
              /\ op \notin {"exit", "logIn", "signIn", "uploadFile", "removeFile"}
    PROVE  Attuned(c)'
<1>1. /\ at[c] = "loop" /\ CanRecv(c) /\ Identified(c) /\ Identified(c)'
      /\ logged'[c] = logged[c] /\ code'[c] = op
  BY LoopIs DEF Perform
<1>2. CASE Throw(c) /\ Silent
  BY <1>2, LoopThrows
<1>3. CASE op \notin Known
  BY <1>2, <1>3 DEF Perform, Known
<1>4. CASE op \in Known
  <2>1. Stray(c) /\ wire[c][1].kind = "length" /\ op \notin {"logIn", "signIn"}
    BY <1>4 DEF Known, Downloads
  <2>2. ~logged[c] /\ user[c] = <<>>
    BY <1>1, <2>1 DEF Stray, Identified
  <2>3. Refused(c, op)
    BY <2>1, <2>2 DEF Refused
  <2>4. Return(c) /\ (Silent \/ Send(c, Err))
    BY <1>4, <2>3 DEF Perform
  <2>5. PICK given \in Given : Send(c, given) \/ (Silent /\ given = <<>>)
    BY <2>4, GivenAre
  <2>6. Steps(c, given) /\ at'[c] = "loop"
    BY <2>4, <2>5, LoopIs, PlaceSteps DEF Return
  <2>7. QED
    BY <1>1, <2>1, <2>2, <2>6, StrayLeaves
<1>5. QED
  BY <1>3, <1>4

LEMMA LoopKeeps ==
    ASSUME TypesInv, NEW c \in Conn, Attuned(c), Loop(c)
    PROVE  Attuned(c)'
<1>1. CASE Got(c) = -1 /\ Throw(c) /\ Silent
  BY <1>1, LoopThrows
<1>2. CASE Got(c) = 0 /\ Perform(c, code[c])
  BY <1>2, LoopAgain
<1>3. ASSUME Got(c) = 1, NEW op \in Codes, Perform(c, op),
             CASE Head(wire[c]).kind = "code" -> op = Text(c)[1]
               [] Head(wire[c]).kind = "length" ->
                      \/ Text(c) = Some
                      \/ op \notin {"exit", "logIn", "signIn", "uploadFile", "removeFile"}
               [] OTHER -> op = "unknown"
      PROVE  Attuned(c)'
  <2>1. wire[c] # <<>> /\ wire[c] \in Streams
    BY <1>3, StreamTypes DEF Got
  <2>2. Head(wire[c]) = wire[c][1] /\ Text(c) = wire[c][1].text
    BY <1>3, <2>1, RestIs DEF Text
  <2>3. CASE Coded(c)
    <3>1. PICK s \in Scripts(c) : Follows(c, s, 1)
      BY <2>3 DEF Coded
    <3>2. s \in Streams /\ plan[c] \in Streams /\ answers[c] \in Replies /\ s[1] = Piece("code", <<request[c]>>)
      BY ScriptTypes, StreamTypes, CodeScripts
    <3>3. wire[c][1] = s[1]
      <4> DEFINE open == peer[c] = "open"
      <4>1. Fits(wire[c], plan[c], answers[c], open, s, 1) /\ open \in BOOLEAN /\ 1 \in Nat
        BY <3>1 DEF Follows
      <4> HIDE DEF open
      <4>2. QED
        BY <2>1, <3>2, <4>1, FitsMeans
    <3>4. wire[c][1].kind = "code" /\ wire[c][1].text = <<request[c]>>
      BY <3>2, <3>3, Kinds
    <3>5. op = request[c]
      BY <1>3, <2>2, <3>4
    <3>6. QED
      BY <1>3, <2>1, <3>1, <3>5, LoopReads
  <2>4. CASE Overlong(c)
    <3>1. wire[c][1].kind = "file"
      BY <2>1, <2>4 DEF Overlong, LongName, Coming
    <3>2. op = "unknown"
      BY <1>3, <2>2, <3>1
    <3>3. QED
      BY <1>3, <2>1, <3>2, LoopStrays
  <2>5. CASE Stray(c)
    <3>1. /\ wire[c][1].kind \in {"file", "folder", "length"}
          /\ wire[c][1].kind = "length" => wire[c][1].text # Some
      BY <2>1, <2>5 DEF Stray, Leftover, Coming
    <3>2. \/ op = "unknown"
          \/ /\ wire[c][1].kind = "length"
             /\ op \notin {"exit", "logIn", "signIn", "uploadFile", "removeFile"}
      BY <1>3, <2>2, <3>1
    <3>3. QED
      BY <1>3, <2>1, <2>5, <3>2, LoopStrays
  <2>6. QED
    BY <2>1, <2>3, <2>4, <2>5, LoopIs DEF Quiet
<1>4. QED
  BY <1>1, <1>2, <1>3 DEF Loop

-----------------------------------------------------------------------------
(* The thread.                                                             *)

LEMMA ReceivesAre ==
    /\ Receives("logIn") = <<"user", "password">>
    /\ Receives("signIn") = <<"user", "password", "folder">>
    /\ Receives("uploadFile") = <<"file", "length", "content", "digest">>
    /\ Receives("removeFile") = <<"file">> /\ Receives("deleteFile") = <<"file">>
    /\ Receives("getFileVersions") = <<"length", "file">>
    /\ Receives("downloadLastVersion") = <<"length", "file", "confirm", "confirm">>
    /\ Receives("downloadPreviousVersion") =
          <<"length", "file", "length", "date", "confirm", "confirm">>
    /\ Receives("setUserPath") = <<"folder">>
BY DEF Receives

LEMMA ConfirmKinds ==
    ASSUME NEW s, NEW h \in {5, 8}, Confirms(s, h)
    PROVE  s[h + 1].kind = "confirm" /\ (h + 3 <= Len(s) => s[h + 3].kind = "confirm")
<1>1. Piece("confirm", Yes).kind = "confirm" /\ Piece("confirm", No).kind = "confirm"
  BY Kinds
<1>2. QED
  BY <1>1 DEF Confirms

\* The pieces of a request are of the kinds its operation receives.
LEMMA KindsReceived ==
    ASSUME NEW c \in Conn, NEW s \in Scripts(c), NEW op, op = request[c], NEW n \in Nat,
           n < Len(Places(op)), NEW i, i = Places(op)[n + 1], i <= Len(s)
    PROVE  s[i].kind = Receives(op)[n + 1]
<1>1. PICK who \in Credentials, d \in Folders, k \in 0 .. 2 :
         s = Request(op, who, named[c], d, k)
  BY ScriptIs
<1>2. op \in Codes
  BY ScriptIs
<1>3. CASE op = "logIn"
  <2>1. /\ s[2].kind = "user" /\ s[4].kind = "password"
    BY <1>1, <1>3, LogInIs, Kinds
  <2>2. Len(Places(op)) = 2 /\ Places(op)[1] = 2 /\ Places(op)[2] = 4
    BY <1>3, PlacesAre
  <2>3. n + 1 \in {1, 2}
    BY <2>2
  <2>4. Receives(op)[1] = "user" /\ Receives(op)[2] = "password"
    BY <1>3, ReceivesAre
  <2>5. QED
    BY <2>1, <2>2, <2>3, <2>4
<1>4. CASE op = "signIn"
  <2>1. /\ s[2].kind = "user" /\ s[4].kind = "password" /\ s[6].kind = "folder"
    BY <1>1, <1>4, SignInIs, Kinds
  <2>2. Len(Places(op)) = 3 /\ Places(op)[1] = 2 /\ Places(op)[2] = 4 /\ Places(op)[3] = 6
    BY <1>4, PlacesAre
  <2>3. n + 1 \in {1, 2, 3}
    BY <2>2
  <2>4. Receives(op)[1] = "user" /\ Receives(op)[2] = "password" /\ Receives(op)[3] = "folder"
    BY <1>4, ReceivesAre
  <2>5. QED
    BY <2>1, <2>2, <2>3, <2>4
<1>5. CASE op = "uploadFile"
  <2>1. s[2].kind = "file" /\ s[4].kind = "length" /\ s[5].kind = "content" /\ s[7].kind = "digest"
    BY <1>1, <1>5, UploadIs, Kinds
  <2>2. /\ Len(Places(op)) = 4 /\ Places(op)[1] = 2 /\ Places(op)[2] = 4
        /\ Places(op)[3] = 5 /\ Places(op)[4] = 7
    BY <1>5, PlacesAre
  <2>3. n + 1 \in {1, 2, 3, 4}
    BY <2>2
  <2>4. /\ Receives(op)[1] = "file" /\ Receives(op)[2] = "length"
        /\ Receives(op)[3] = "content" /\ Receives(op)[4] = "digest"
    BY <1>5, ReceivesAre
  <2>5. QED
    BY <2>1, <2>2, <2>3, <2>4
<1>6. CASE op \in {"removeFile", "deleteFile"}
  <2>1. s[2].kind = "file"
    BY <1>1, <1>6, ChangeIs, Kinds
  <2>2. Len(Places(op)) = 1 /\ Places(op)[1] = 2
    BY <1>6, PlacesAre
  <2>3. n + 1 \in {1}
    BY <2>2
  <2>4. Receives(op)[1] = "file"
    BY <1>6, ReceivesAre
  <2>5. QED
    BY <2>1, <2>2, <2>3, <2>4
<1>7. CASE op = "getFileVersions"
  <2>1. s[2].kind = "length" /\ s[3].kind = "file"
    BY <1>1, <1>7, VersionsIs, Kinds
  <2>2. Len(Places(op)) = 2 /\ Places(op)[1] = 2 /\ Places(op)[2] = 3
    BY <1>7, PlacesAre
  <2>3. n + 1 \in {1, 2}
    BY <2>2
  <2>4. Receives(op)[1] = "length" /\ Receives(op)[2] = "file"
    BY <1>7, ReceivesAre
  <2>5. QED
    BY <2>1, <2>2, <2>3, <2>4
<1>8. CASE op = "downloadLastVersion"
  <2>1. s[2].kind = "length" /\ s[3].kind = "file" /\ Confirms(s, 5)
    BY <1>1, <1>8, LastIs, Kinds
  <2>2. /\ Len(Places(op)) = 4 /\ Places(op)[1] = 2 /\ Places(op)[2] = 3
        /\ Places(op)[3] = 6 /\ Places(op)[4] = 8
    BY <1>8, PlacesAre
  <2>3. n + 1 \in {1, 2, 3, 4}
    BY <2>2
  <2>4. /\ Receives(op)[1] = "length" /\ Receives(op)[2] = "file"
        /\ Receives(op)[3] = "confirm" /\ Receives(op)[4] = "confirm"
    BY <1>8, ReceivesAre
  <2>5. s[6].kind = "confirm" /\ (8 <= Len(s) => s[8].kind = "confirm")
    <3>1. 5 + 1 = 6 /\ 5 + 3 = 8
      OBVIOUS
    <3>2. QED
      BY <2>1, <3>1, ConfirmKinds
  <2>6. QED
    BY <2>1, <2>2, <2>3, <2>4, <2>5
<1>9. CASE op = "downloadPreviousVersion"
  <2>1. /\ s[2].kind = "length" /\ s[3].kind = "file" /\ s[5].kind = "length"
        /\ s[6].kind = "date" /\ Confirms(s, 8)
    BY <1>1, <1>9, PreviousIs, Kinds
  <2>2. /\ Len(Places(op)) = 6 /\ Places(op)[1] = 2 /\ Places(op)[2] = 3
        /\ Places(op)[3] = 5 /\ Places(op)[4] = 6 /\ Places(op)[5] = 9 /\ Places(op)[6] = 11
    BY <1>9, PlacesAre
  <2>3. n + 1 \in {1, 2, 3, 4, 5, 6}
    BY <2>2
  <2>4. /\ Receives(op)[1] = "length" /\ Receives(op)[2] = "file" /\ Receives(op)[3] = "length"
        /\ Receives(op)[4] = "date" /\ Receives(op)[5] = "confirm" /\ Receives(op)[6] = "confirm"
    BY <1>9, ReceivesAre
  <2>5. s[9].kind = "confirm" /\ (11 <= Len(s) => s[11].kind = "confirm")
    <3>1. 8 + 1 = 9 /\ 8 + 3 = 11
      OBVIOUS
    <3>2. QED
      BY <2>1, <3>1, ConfirmKinds
  <2>6. QED
    BY <2>1, <2>2, <2>3, <2>4, <2>5
<1>10. CASE op = "setUserPath"
  <2>1. s[2].kind = "folder"
    BY <1>1, <1>10, PathIs, Kinds
  <2>2. Len(Places(op)) = 1 /\ Places(op)[1] = 2
    BY <1>10, PlacesAre
  <2>3. n + 1 \in {1}
    BY <2>2
  <2>4. Receives(op)[1] = "folder"
    BY <1>10, ReceivesAre
  <2>5. QED
    BY <2>1, <2>2, <2>3, <2>4
<1>11. CASE op \in {"getDeletedFiles", "getUserFolder", "getUserPath", "exit", "unknown"}
  <2>1. Len(Places(op)) = 0
    BY <1>11, PlacesAre
  <2>2. QED
    BY <2>1
<1>12. QED
  BY <1>2, <1>3, <1>4, <1>5, <1>6, <1>7, <1>8, <1>9, <1>10, <1>11 DEF Codes, Known, Downloads

LEMMA NeverAstray ==
    ASSUME TypesInv, NEW c \in Conn, Attuned(c)
    PROVE  ~Astray(c)
<1> SUFFICES ASSUME Astray(c) PROVE FALSE
  OBVIOUS
<1>1. wire[c] # <<>> /\ wire[c] \in Streams /\ Head(wire[c]) = wire[c][1]
  BY StreamTypes, RestIs DEF Astray
<1>2. CASE at[c] = "loop" /\ Head(wire[c]).kind = "content"
  <2>1. CASE Coded(c)
    <3>1. PICK s \in Scripts(c) : Follows(c, s, 1)
      BY <2>1 DEF Coded
    <3>2. s \in Streams /\ plan[c] \in Streams /\ answers[c] \in Replies /\ s[1] = Piece("code", <<request[c]>>)
      BY ScriptTypes, StreamTypes, CodeScripts
    <3>3. wire[c][1] = s[1]
      <4> DEFINE open == peer[c] = "open"
      <4>1. Fits(wire[c], plan[c], answers[c], open, s, 1) /\ open \in BOOLEAN /\ 1 \in Nat
        BY <3>1 DEF Follows
      <4> HIDE DEF open
      <4>2. QED
        BY <1>1, <3>2, <4>1, FitsMeans
    <3>4. QED
      BY <1>1, <1>2, <3>2, <3>3, Kinds
  <2>2. CASE Overlong(c) \/ Stray(c)
    BY <1>1, <1>2, <2>2 DEF Overlong, Stray, LongName, Leftover, Coming
  <2>3. QED
    BY <1>1, <1>2, <2>1, <2>2 DEF Attuned, Listening, Quiet
<1>3. CASE at[c] = "reading" /\ Head(wire[c]).kind # Receives(code[c])[Len(heard[c]) + 1]
  <2> DEFINE n == Len(heard[c])  op == code[c]  i == Places(op)[n + 1]
  <2>1. Serving(c)
    BY <1>1, <1>3 DEF Attuned, Operating, Over
  <2>2. op = request[c] /\ n < Len(Places(op)) /\ n \in Nat /\ op \in Codes
    BY <2>1, StreamTypes DEF Serving
  <2>3. PICK s \in Scripts(c) : Follows(c, s, i)
    BY <2>1 DEF Serving
  <2>4. i \in Nat
    BY <2>2, PlacesType
  <2>5. s \in Streams /\ plan[c] \in Streams /\ answers[c] \in Replies
    BY ScriptTypes, StreamTypes
  <2> HIDE DEF i, n, op
  <2>6. wire[c][1] = s[i] /\ i <= Len(s)
    <3> DEFINE open == peer[c] = "open"
    <3>1. Fits(wire[c], plan[c], answers[c], open, s, i) /\ open \in BOOLEAN
      BY <2>3 DEF Follows
    <3> HIDE DEF open
    <3>2. QED
      BY <1>1, <2>4, <2>5, <3>1, FitsMeans
  <2>7. s[i].kind = Receives(op)[n + 1]
    BY <2>2, <2>6, KindsReceived DEF i
  <2>8. QED
    BY <1>1, <1>3, <2>6, <2>7 DEF n, op
<1>4. QED
  BY <1>2, <1>3 DEF Astray

LEMMA ThreadKeeps ==
    ASSUME TypesInv, NEW c \in Conn, Attuned(c), Thread(c)
    PROVE  surplus'[c] \/ Attuned(c)'
<1>1. CASE Loop(c)
  BY <1>1, LoopKeeps
<1>2. CASE LogInName(c) \/ LogInPassword(c)
  BY <1>2, LogInKeeps
<1>3. CASE SignInText(c) \/ SignInFolder(c)
  BY <1>3, SignInKeeps
<1>4. CASE UploadName(c) \/ UploadLength(c) \/ UploadContent(c) \/ UploadDigest(c)
  BY <1>4, UploadKeeps
<1>5. CASE RemoveFile(c) \/ DeleteFile(c)
  BY <1>5, ChangeKeeps
<1>6. CASE GetFileVersions(c)
  BY <1>6, VersionsKeeps
<1>7. CASE SetUserPath(c)
  BY <1>7, PathKeeps
<1>8. CASE DownloadLength(c)
  BY <1>8, DownloadLengthKeeps
<1>9. CASE DownloadName(c)
  BY <1>9, DownloadNameKeeps
<1>10. CASE DownloadDate(c)
  BY <1>10, DownloadDateKeeps
<1>11. CASE DownloadContent(c)
  BY <1>11, DownloadContentKeeps
<1>12. CASE DownloadDigest(c)
  BY <1>12, DownloadDigestKeeps
<1>13. CASE Astray(c)
  BY <1>13, NeverAstray
<1>14. QED
  BY <1>1, <1>2, <1>3, <1>4, <1>5, <1>6, <1>7, <1>8, <1>9, <1>10, <1>11, <1>12, <1>13
     DEF Thread

-----------------------------------------------------------------------------
(* The client.                                                             *)

\* It sends the next piece of its request.
LEMMA FitsSend ==
    ASSUME NEW w \in Streams, NEW p \in Streams, NEW a \in Replies, NEW open \in BOOLEAN,
           NEW s \in Streams, NEW i \in Nat, Fits(w, p, a, open, s, i), p # <<>>, p[1] # Wait
    PROVE  Fits(Append(w, p[1]), Tail(p), a, open, s, i)
<1>1. /\ Len(w) \in Nat /\ Len(p) \in Nat /\ Len(p) > 0 /\ Len(a) \in Nat /\ Len(s) \in Nat
      /\ a = <<>> <=> Len(a) = 0
      /\ p[1] \in PieceTypes /\ Tail(p) \in Streams /\ Len(Tail(p)) = Len(p) - 1
  BY StreamIs, RestIs
<1> DEFINE q == i + Len(w) - Len(a)
<1>2. FitsAt(w, p, a, open, s, i, q)
  BY DEF Fits
<1>3. a = <<>>
  <2>1. Awaits(p, a)
    BY <1>2 DEF FitsAt
  <2>2. 1 \in 1 .. Len(a) => p[1] = Wait
    BY <2>1 DEF Awaits
  <2>3. QED
    BY <1>1, <2>2
<1>4. q \in Nat /\ q = i + Len(w)
  BY <1>1, <1>3
<1> HIDE DEF q
<1>5. i >= 1 /\ i <= Len(s) + 1 /\ q >= 1 /\ Lies(w, s, i) /\ Sends(w) /\ Lies(p, s, q)
      /\ (open => q - 1 + Len(p) = Len(s))
  BY <1>2 DEF FitsAt
<1>6. p[1] = s[q] /\ q <= Len(s)
  BY <1>4, <1>5, LiesFirst
<1>7. /\ Lies(Append(w, p[1]), s, i) /\ Sends(Append(w, p[1]))
      /\ Append(w, p[1]) \in Streams /\ Len(Append(w, p[1])) = Len(w) + 1
  BY <1>1, <1>4, <1>5, <1>6, LiesMore
<1>8. Lies(Tail(p), s, q + 1)
  BY <1>4, <1>5, LiesRest
<1>9. Awaits(Tail(p), a)
  BY <1>3, NothingLies
<1>10. open => (q + 1) - 1 + Len(Tail(p)) = Len(s)
  BY <1>1, <1>4, <1>5
<1>11. q + 1 >= 1 /\ i + Len(Append(w, p[1])) - Len(a) = q + 1
  BY <1>1, <1>3, <1>4, <1>7
<1>12. FitsAt(Append(w, p[1]), Tail(p), a, open, s, i, q + 1)
  BY <1>3, <1>5, <1>7, <1>8, <1>9, <1>10, <1>11 DEF FitsAt
<1>13. QED
  BY <1>11, <1>12 DEF Fits

\* It reads an answer.
LEMMA FitsRead ==
    ASSUME NEW w \in Streams, NEW p \in Streams, NEW a \in Replies, NEW open \in BOOLEAN,
           NEW s \in Streams, NEW i \in Nat, Fits(w, p, a, open, s, i), p # <<>>, a # <<>>
    PROVE  a[1] = "OK" /\ w = <<>> /\ Fits(w, Tail(p), Tail(a), open, s, i)
<1>1. /\ Len(w) \in Nat /\ Len(p) \in Nat /\ Len(p) > 0 /\ Len(a) \in Nat /\ Len(a) > 0 /\ Len(s) \in Nat
      /\ Tail(p) \in Streams /\ Len(Tail(p)) = Len(p) - 1
      /\ \A j \in 1 .. Len(p) - 1 : Tail(p)[j] = p[j + 1]
  BY StreamIs, RestIs
<1>2. /\ Tail(a) \in Replies /\ Len(Tail(a)) = Len(a) - 1
      /\ \A j \in 1 .. Len(a) - 1 : Tail(a)[j] = a[j + 1]
  BY TailIs DEF Replies
<1> DEFINE q == i + Len(w) - Len(a)
<1>3. FitsAt(w, p, a, open, s, i, q)
  BY DEF Fits
<1>4. q \in Int /\ w = <<>> /\ Len(w) = 0
  BY <1>1, <1>3, StreamIs DEF FitsAt
<1>5. /\ i >= 1 /\ i <= Len(s) + 1 /\ q >= 1 /\ Lies(w, s, i) /\ Sends(w) /\ Lies(p, s, q)
      /\ Awaits(p, a) /\ (open => q - 1 + Len(p) = Len(s))
  BY <1>3 DEF FitsAt
<1>6. i + Len(w) - Len(Tail(a)) = q + 1
  BY <1>1, <1>2
<1> HIDE DEF q
<1>7. q \in Nat
  BY <1>4, <1>5
<1>8. Lies(Tail(p), s, q + 1)
  BY <1>5, <1>7, LiesRest
<1>9. a[1] = "OK"
  BY <1>1, <1>5 DEF Awaits
<1>10. Awaits(Tail(p), Tail(a))
  <2>1. ASSUME NEW j \in 1 .. Len(Tail(a))
        PROVE  Tail(a)[j] = "OK" /\ j <= Len(Tail(p)) /\ Tail(p)[j] = Wait
    <3>1. j \in 1 .. Len(a) - 1 /\ j + 1 \in 1 .. Len(a) /\ j \in Nat
      BY <1>1, <1>2
    <3>2. a[j + 1] = "OK" /\ j + 1 <= Len(p) /\ p[j + 1] = Wait
      BY <1>5, <3>1 DEF Awaits
    <3>3. j \in 1 .. Len(p) - 1 /\ j <= Len(Tail(p))
      BY <1>1, <3>1, <3>2
    <3>4. QED
      BY <1>1, <1>2, <3>1, <3>2, <3>3
  <2>2. QED
    BY <2>1 DEF Awaits
<1>11. open => (q + 1) - 1 + Len(Tail(p)) = Len(s)
  BY <1>1, <1>5, <1>7
<1>12. FitsAt(w, Tail(p), Tail(a), open, s, i, q + 1)
  BY <1>4, <1>5, <1>7, <1>8, <1>10, <1>11 DEF FitsAt
<1>13. QED
  BY <1>4, <1>6, <1>9, <1>12 DEF Fits

\* It leaves.
LEMMA FitsEnds ==
    ASSUME NEW w \in Streams, NEW p \in Streams, NEW a \in Replies, NEW open \in BOOLEAN,
           NEW s \in Streams, NEW i \in Nat, Fits(w, p, a, open, s, i), w # <<>>
    PROVE  Fits(w, <<>>, <<>>, FALSE, s, i)
<1>1. i >= 1 /\ i <= Len(s) /\ Lies(w, s, i) /\ Sends(w)
  BY FitsMeans
<1>2. Len(w) \in Nat /\ Len(<<>>) = 0 /\ Len(s) \in Nat
  BY StreamIs
<1>3. Lies(<<>>, s, i + Len(w)) /\ Awaits(<<>>, <<>>)
  BY NothingLies
<1>4. i + Len(w) - Len(<<>>) = i + Len(w) /\ i + Len(w) >= 1 /\ i <= Len(s) + 1
  BY <1>1, <1>2
<1>5. FitsAt(w, <<>>, <<>>, FALSE, s, i, i + Len(w))
  BY <1>1, <1>3, <1>4 DEF FitsAt
<1>6. QED
  BY <1>4, <1>5 DEF Fits

LEMMA HeldWaits ==
    ASSUME NEW p \in Streams, NEW a \in Replies, NEW j \in Nat, Held(p, a, j), p # <<>>
    PROVE  p[1] = Wait
<1>1. Len(p) \in Nat /\ Len(p) # 0
  BY StreamIs
<1>2. j > 0
  BY <1>1 DEF Held
<1>3. 1 \in 1 .. j
  BY <1>2
<1>4. QED
  BY <1>3 DEF Held

LEMMA HeldReads ==
    ASSUME NEW p \in Streams, NEW a \in Replies, NEW j \in Nat, Held(p, a, j), p # <<>>, a # <<>>
    PROVE  IF a[1] = "OK" THEN \E k \in Nat : Held(Tail(p), Tail(a), k) ELSE Held(<<>>, Tail(a), 0)
<1>1. /\ Len(p) \in Nat /\ Len(p) > 0 /\ Len(a) \in Nat /\ Len(a) > 0
      /\ Tail(p) \in Streams /\ Len(Tail(p)) = Len(p) - 1
      /\ \A i \in 1 .. Len(p) - 1 : Tail(p)[i] = p[i + 1]
  BY StreamIs, RestIs
<1>2. /\ Tail(a) \in Replies /\ Len(Tail(a)) = Len(a) - 1
      /\ \A i \in 1 .. Len(a) - 1 : Tail(a)[i] = a[i + 1]
      /\ \A i \in 1 .. Len(a) : a[i] \in {"OK", "ERR"}
  BY TailIs DEF Replies
<1>3. /\ j \in 0 .. Len(p) /\ \A i \in 1 .. j : p[i] = Wait
      /\ Len(a) <= j
      /\ \A i \in 1 .. Len(a) - 1 : a[i] = "OK"
      /\ \/ j = Len(p)
         \/ j > 0 /\ Len(a) < j
         \/ j > 0 /\ a[j] = "ERR"
  BY DEF Held
<1>0. Len(a) <= j /\ j <= Len(p) /\ (Len(a) < j \/ Len(a) = j)
  <2>1. Len(a) <= j /\ j <= Len(p)
    BY DEF Held
  <2>2. QED
    BY <1>1, <2>1
<1>4. CASE a[1] = "OK"
  <2> DEFINE k == j - 1
  <2>0. Len(Tail(a)) = Len(a) - 1 /\ Len(Tail(p)) = Len(p) - 1
    BY <1>1, <1>2
  <2>9. \A la \in Nat, lp \in Nat :
           la > 0 /\ la <= j /\ j <= lp =>
              /\ k \in Nat /\ k \in 0 .. lp - 1 /\ la - 1 <= k /\ j = k + 1
              /\ la < j => k > 0 /\ la - 1 < k
    OBVIOUS
  <2>1. /\ k \in Nat /\ k \in 0 .. Len(Tail(p)) /\ Len(Tail(a)) <= k /\ j = k + 1
        /\ Len(a) < j => k > 0 /\ Len(Tail(a)) < k
    BY <1>0, <1>1, <2>0, <2>9
  <2>2. \A i \in 1 .. k : Tail(p)[i] = Wait
    <3>1. ASSUME NEW i \in 1 .. k PROVE Tail(p)[i] = Wait
      <4>1. i \in 1 .. Len(p) - 1 /\ i + 1 \in 1 .. j
        BY <1>0, <1>1, <2>1
      <4>2. QED
        BY <1>1, <1>3, <4>1
    <3>2. QED
      BY <3>1
  <2>3. \A i \in 1 .. Len(Tail(a)) - 1 : Tail(a)[i] = "OK"
    <3>1. ASSUME NEW i \in 1 .. Len(Tail(a)) - 1 PROVE Tail(a)[i] = "OK"
      <4>1. i \in 1 .. Len(a) - 1 /\ i + 1 \in 1 .. Len(a) - 1
        BY <1>1, <1>2
      <4>2. QED
        BY <1>2, <1>3, <4>1
    <3>2. QED
      BY <3>1
  <2>4. \/ k = Len(Tail(p))
        \/ k > 0 /\ Len(Tail(a)) < k
        \/ k > 0 /\ Tail(a)[k] = "ERR"
    <3>1. CASE j = Len(p)
      BY <1>1, <3>1
    <3>2. CASE Len(a) < j
      BY <2>1, <3>2
    <3>3. CASE a[j] = "ERR" /\ Len(a) = j
      <4>1. j # 1
        BY <1>4, <3>3
      <4>2. k > 0 /\ k \in 1 .. Len(a) - 1 /\ k + 1 = j
        BY <2>1, <3>3, <4>1
      <4>3. Tail(a)[k] = a[j]
        BY <1>2, <4>2
      <4>4. QED
        BY <3>3, <4>2, <4>3
    <3>4. QED
      BY <1>0, <1>3, <3>1, <3>2, <3>3
  <2> HIDE DEF k
  <2>5. Held(Tail(p), Tail(a), k)
    BY <2>1, <2>2, <2>3, <2>4 DEF Held
  <2>6. QED
    BY <1>4, <2>1, <2>5
<1>5. CASE a[1] # "OK"
  <2>1. ~(1 \in 1 .. Len(a) - 1)
    BY <1>3, <1>5
  <2>2. Len(Tail(a)) = 0
    BY <1>1, <1>2, <2>1
  <2>3. Tail(a) = <<>>
    BY <1>2, <2>2, StreamIs
  <2>4. QED
    BY <1>5, <2>3, GoneIsHeld
<1>6. QED
  BY <1>4, <1>5

\* What comes next stays what comes next.
LEMMA ComingStays ==
    ASSUME NEW w \in Streams, NEW p \in Streams
    PROVE  /\ LongName(w, p) /\ p # <<>> => LongName(Append(w, p[1]), Tail(p))
           /\ LongName(w, p) /\ w # <<>> => \A r : LongName(w, r)
           /\ Leftover(w, p, TRUE) /\ p # <<>> => Leftover(Append(w, p[1]), Tail(p), TRUE)
           /\ Leftover(w, p, TRUE) /\ w # <<>> /\ p # <<>> /\ p[1] = Wait =>
                 \A r : Leftover(w, r, TRUE)
           /\ \A open \in BOOLEAN : Leftover(w, p, open) /\ w # <<>> => Leftover(w, <<>>, FALSE)
<1>1. /\ Len(w) \in Nat /\ (w = <<>> <=> Len(w) = 0) /\ Len(p) \in Nat /\ (p = <<>> <=> Len(p) = 0)
  BY StreamIs
<1>2. ASSUME p # <<>>
      PROVE  LET v == Append(w, p[1])
             IN  /\ v # <<>> /\ v[1] = Coming(w, p) /\ Comes(v, Tail(p)) /\ Coming(v, Tail(p)) = Coming(w, p)
                 /\ Len(v) = Len(w) + 1
                 /\ Len(w) > 0 => v[Len(w) + 1] = p[1]
                 /\ \A j \in 1 .. Len(w) : v[j] = w[j]
  <2> DEFINE v == Append(w, p[1])
  <2>1. p[1] \in PieceTypes
    BY <1>2, RestIs
  <2>2. /\ v \in Streams /\ Len(v) = Len(w) + 1 /\ v[Len(w) + 1] = p[1]
        /\ \A j \in 1 .. Len(w) : v[j] = w[j]
    BY <2>1, AppendIs DEF Streams
  <2>3. v # <<>>
    BY <1>1, <2>2, StreamIs
  <2>4. v[1] = Coming(w, p)
    <3>1. CASE w = <<>>
      BY <1>1, <2>2, <3>1 DEF Coming
    <3>2. CASE w # <<>>
      <4>1. 1 \in 1 .. Len(w)
        BY <1>1, <3>2
      <4>2. QED
        BY <2>2, <3>2, <4>1 DEF Coming
    <3>3. QED
      BY <3>1, <3>2
  <2> HIDE DEF v
  <2>5. Comes(v, Tail(p)) /\ Coming(v, Tail(p)) = Coming(w, p)
    BY <2>3, <2>4 DEF Comes, Coming
  <2>6. QED
    BY <2>2, <2>3, <2>4, <2>5 DEF v
<1>3. LongName(w, p) /\ p # <<>> => LongName(Append(w, p[1]), Tail(p))
  BY <1>2 DEF LongName
<1>4. LongName(w, p) /\ w # <<>> => \A r : LongName(w, r)
  BY DEF LongName, Comes, Coming
<1>5. ASSUME Leftover(w, p, TRUE), p # <<>>
      PROVE  Leftover(Append(w, p[1]), Tail(p), TRUE)
  <2> DEFINE v == Append(w, p[1])
  <2>1. /\ v # <<>> /\ Comes(v, Tail(p)) /\ Coming(v, Tail(p)) = Coming(w, p)
        /\ Len(v) = Len(w) + 1
        /\ Len(w) > 0 => v[Len(w) + 1] = p[1]
        /\ \A j \in 1 .. Len(w) : v[j] = w[j]
    BY <1>2, <1>5
  <2>2. /\ \A j \in 1 .. Len(p) - 1 : Tail(p)[j] = p[j + 1]
        /\ Tail(p) \in Streams /\ Len(Tail(p)) = Len(p) - 1
    BY <1>5, RestIs
  <2>3. Tail(p) = <<>> <=> Len(Tail(p)) = 0
    BY <2>2, StreamIs
  <2> HIDE DEF v
  <2>4. CASE Coming(w, p).kind \in {"file", "folder"}
    BY <2>1, <2>4 DEF Leftover, v
  <2>5. CASE Len(w) > 1 /\ w[2].kind = "file" /\ Coming(w, p).kind = "length" /\ Coming(w, p).text # Some
    <3>1. Len(v) > 1 /\ v[2] = w[2]
      BY <1>1, <2>1, <2>5
    <3>2. QED
      BY <2>1, <2>5, <3>1 DEF Leftover, v
  <2>6. CASE Len(w) = 1 /\ p[1].kind = "file" /\ Coming(w, p).kind = "length" /\ Coming(w, p).text # Some
    <3>1. Len(v) > 1 /\ v[2] = p[1]
      BY <1>1, <2>1, <2>6
    <3>2. QED
      BY <2>1, <2>6, <3>1 DEF Leftover, v
  <2>7. CASE /\ w = <<>> /\ Len(p) > 1 /\ p[2].kind = "file"
             /\ Coming(w, p).kind = "length" /\ Coming(w, p).text # Some
    <3>1. 1 \in 1 .. Len(p) - 1 /\ 1 + 1 = 2
      BY <1>1, <2>7
    <3>2. Len(v) = 1 /\ Tail(p)[1] = p[2] /\ Tail(p) # <<>>
      BY <1>1, <2>1, <2>2, <2>3, <2>7, <3>1
    <3>3. QED
      BY <2>1, <2>7, <3>2 DEF Leftover, v
  <2>8. QED
    BY <1>5, <2>4, <2>5, <2>6, <2>7 DEF Leftover
<1>6. ASSUME Leftover(w, p, TRUE), w # <<>>, p # <<>>, p[1] = Wait, NEW r
      PROVE  Leftover(w, r, TRUE)
  <2>1. p[1].kind # "file"
    BY <1>6, PieceIs
  <2>2. Coming(w, p) = Coming(w, r) /\ Comes(w, r)
    BY <1>6 DEF Coming, Comes
  <2>3. QED
    BY <1>6, <2>1, <2>2 DEF Leftover
<1>7. ASSUME NEW open \in BOOLEAN, Leftover(w, p, open), w # <<>>
      PROVE  Leftover(w, <<>>, FALSE)
  <2>1. Coming(w, p) = Coming(w, <<>>) /\ Comes(w, <<>>)
    BY <1>7 DEF Coming, Comes
  <2>2. QED
    BY <1>7, <2>1 DEF Leftover
<1>8. QED
  BY <1>3, <1>4, <1>5, <1>6, <1>7

\* A part of the request is still to come, or an answer.
LEMMA NotAtEnd ==
    ASSUME NEW c \in Conn, NEW s \in Scripts(c), NEW op, op = request[c], NEW n \in Nat,
           n < Len(Places(op)), NEW i, i = Places(op)[n + 1]
    PROVE  i # Len(s) + 1
<1>1. PICK who \in Credentials, d \in Folders, k \in 0 .. 2 :
         s = Request(op, who, named[c], d, k)
  BY ScriptIs
<1>2. op \in Codes
  BY ScriptIs
<1>3. CASE op = "logIn"
  <2>1. Len(s) = 5 /\ Len(Places(op)) = 2 /\ Places(op)[1] = 2 /\ Places(op)[2] = 4
    BY <1>1, <1>3, LogInIs, PlacesAre
  <2>2. n + 1 \in {1, 2}
    BY <2>1
  <2>3. QED
    BY <2>1, <2>2
<1>4. CASE op = "signIn"
  <2>1. /\ Len(s) = 8 /\ Len(Places(op)) = 3
        /\ Places(op)[1] = 2 /\ Places(op)[2] = 4 /\ Places(op)[3] = 6
    BY <1>1, <1>4, SignInIs, PlacesAre
  <2>2. n + 1 \in {1, 2, 3}
    BY <2>1
  <2>3. QED
    BY <2>1, <2>2
<1>5. CASE op = "uploadFile"
  <2>1. /\ Len(s) = 8 /\ Len(Places(op)) = 4
        /\ Places(op)[1] = 2 /\ Places(op)[2] = 4 /\ Places(op)[3] = 5 /\ Places(op)[4] = 7
    BY <1>1, <1>5, UploadIs, PlacesAre
  <2>2. n + 1 \in {1, 2, 3, 4}
    BY <2>1
  <2>3. QED
    BY <2>1, <2>2
<1>6. CASE op \in {"removeFile", "deleteFile", "setUserPath"}
  <2>1. Len(s) \in {2, 3} /\ Len(Places(op)) = 1 /\ Places(op)[1] = 2
    BY <1>1, <1>6, ChangeIs, PathIs, PlacesAre
  <2>2. n + 1 \in {1}
    BY <2>1
  <2>3. QED
    BY <2>1, <2>2
<1>7. CASE op = "getFileVersions"
  <2>1. Len(s) = 4 /\ Len(Places(op)) = 2 /\ Places(op)[1] = 2 /\ Places(op)[2] = 3
    BY <1>1, <1>7, VersionsIs, PlacesAre
  <2>2. n + 1 \in {1, 2}
    BY <2>1
  <2>3. QED
    BY <2>1, <2>2
<1>8. CASE op = "downloadLastVersion"
  <2>1. /\ Len(Places(op)) = 4 /\ Places(op)[1] = 2 /\ Places(op)[2] = 3
        /\ Places(op)[3] = 6 /\ Places(op)[4] = 8
    BY <1>8, PlacesAre
  <2>2. n + 1 \in {1, 2, 3, 4}
    BY <2>1
  <2>3. Len(s) = 5 + 1 \/ Len(s) = 5 + 3 \/ Len(s) = 5 + 4
    BY <1>1, <1>8, LastIs DEF Confirms
  <2>4. i \in {2, 3, 6, 8}
    BY <2>1, <2>2
  <2>5. Len(s) \in {6, 8, 9}
    BY <2>3
  <2>6. \A e \in {2, 3, 6, 8}, l \in {6, 8, 9} : e # l + 1
    OBVIOUS
  <2>7. QED
    BY <2>4, <2>5, <2>6
<1>9. CASE op = "downloadPreviousVersion"
  <2>1. /\ Len(Places(op)) = 6 /\ Places(op)[1] = 2 /\ Places(op)[2] = 3
        /\ Places(op)[3] = 5 /\ Places(op)[4] = 6 /\ Places(op)[5] = 9 /\ Places(op)[6] = 11
    BY <1>9, PlacesAre
  <2>2. n + 1 \in {1, 2, 3, 4, 5, 6}
    BY <2>1
  <2>3. Len(s) = 8 + 1 \/ Len(s) = 8 + 3 \/ Len(s) = 8 + 4
    BY <1>1, <1>9, PreviousIs DEF Confirms
  <2>4. i \in {2, 3, 5, 6, 9, 11}
    BY <2>1, <2>2
  <2>5. Len(s) \in {9, 11, 12}
    BY <2>3
  <2>6. \A e \in {2, 3, 5, 6, 9, 11}, l \in {9, 11, 12} : e # l + 1
    OBVIOUS
  <2>7. QED
    BY <2>4, <2>5, <2>6
<1>10. CASE op \in {"getDeletedFiles", "getUserFolder", "getUserPath", "exit", "unknown"}
  <2>1. Len(Places(op)) = 0
    BY <1>10, PlacesAre
  <2>2. QED
    BY <2>1
<1>11. QED
  BY <1>2, <1>3, <1>4, <1>5, <1>6, <1>7, <1>8, <1>9, <1>10 DEF Codes, Known, Downloads

LEMMA AcceptKeeps ==
    ASSUME TypesInv, NEW c \in Conn, Attuned(c), Accept(c)
    PROVE  Attuned(c)'
<1>1. /\ peer[c] = "away" /\ peer'[c] = "open" /\ at'[c] = "loop"
      /\ wire'[c] = wire[c] /\ plan'[c] = plan[c] /\ answers'[c] = answers[c]
      /\ user' = user /\ logged' = logged /\ users' = users
  BY DEF Accept, clientVars, sessionVars, tableVars, TypesInv, ExchangeOK, PlaceOK
<1>2. wire'[c] = <<>> /\ plan'[c] = <<>> /\ answers'[c] = <<>>
  BY <1>1 DEF Attuned, Connected
<1>3. Quiet(c)'
  BY <1>2, GoneIsHeld DEF Quiet
<1>4. Identified(c)'
  BY <1>1 DEF Attuned, Identified
<1>5. QED
  BY <1>1, <1>2, <1>3, <1>4 DEF Attuned, Listening, Operating, Connected

\* A request begins where the one before has ended.
LEMMA FitsNew ==
    ASSUME NEW r \in Streams, r # <<>>, r[1] # Wait
    PROVE  /\ Fits(<<Head(r)>>, Tail(r), <<>>, TRUE, r, 1)
           /\ <<Head(r)>> # <<>>
<1>1. /\ Tail(r) \in Streams /\ Len(Tail(r)) = Len(r) - 1 /\ Len(r) \in Nat /\ Len(r) > 0
      /\ Head(r) = r[1] /\ r[1] \in PieceTypes
      /\ \A j \in 1 .. Len(r) - 1 : Tail(r)[j] = r[j + 1]
  BY RestIs
<1> DEFINE w == <<Head(r)>>
<1>2. Len(w) = 1 /\ w[1] = r[1] /\ w # <<>> /\ Len(<<>>) = 0
  BY <1>1
<1> HIDE DEF w
<1>3. 1 .. Len(w) = {1}
  BY <1>2
<1>4. Lies(w, r, 1) /\ Sends(w)
  BY <1>1, <1>2, <1>3 DEF Lies, Sends
<1>5. Lies(Tail(r), r, 2)
  <2>1. ASSUME NEW j \in 1 .. Len(Tail(r))
        PROVE  2 + j - 1 <= Len(r) /\ Tail(r)[j] = r[2 + j - 1]
    <3>1. j \in 1 .. Len(r) - 1 /\ 2 + j - 1 = j + 1
      BY <1>1
    <3>2. QED
      BY <1>1, <3>1
  <2>2. QED
    BY <2>1 DEF Lies
<1>6. Awaits(Tail(r), <<>>)
  BY NothingLies
<1>7. 2 - 1 + Len(Tail(r)) = Len(r) /\ 1 <= Len(r) + 1 /\ 1 + Len(w) - Len(<<>>) = 2
  BY <1>1, <1>2
<1>8. FitsAt(w, Tail(r), <<>>, TRUE, r, 1, 2)
  BY <1>4, <1>5, <1>6, <1>7 DEF FitsAt
<1>9. Fits(w, Tail(r), <<>>, TRUE, r, 1)
  BY <1>7, <1>8 DEF Fits
<1>10. QED
  BY <1>2, <1>9 DEF w

LEMMA AskKeeps ==
    ASSUME TypesInv, NEW c \in Conn, Attuned(c),
           NEW op \in Asked[c], NEW who \in Credentials, NEW file \in FileNames, NEW d \in Folders,
           NEW n \in 0 .. 2, Ask(c, op, who, file, d, n)
    PROVE  Attuned(c)'
<1> DEFINE r == Request(op, who, file, d, n)
<1>1. op \in Codes
  BY ClientAssumption
<1>2. r \in Streams /\ r # <<>> /\ r[1] = Piece("code", <<op>>)
  BY <1>1, RequestType, Headed, HeadIs DEF Streams
<1>3. r[1] # Wait
  BY <1>2, Kinds, PieceIs
<1>4. /\ peer[c] = "open" /\ plan[c] = <<>> /\ wire[c] = <<>>
      /\ plan'[c] = Tail(r) /\ wire'[c] = <<Head(r)>> /\ request'[c] = op /\ named'[c] = file
      /\ peer'[c] = peer[c] /\ answers'[c] = answers[c] /\ at'[c] = at[c] /\ heard' = heard
      /\ code' = code /\ user' = user /\ logged' = logged /\ users' = users
  BY DEF Ask, sendVars, threadVars, sessionVars, tableVars, TypesInv, ExchangeOK, ClientOK
<1>5. r \in Scripts(c)'
  BY <1>1, <1>4 DEF Scripts
<1> HIDE DEF r
<1>6. Fits(<<Head(r)>>, Tail(r), <<>>, TRUE, r, 1) /\ <<Head(r)>> # <<>>
  BY <1>2, <1>3, FitsNew
<1>7. Connected(c)' /\ Identified(c)'
  BY <1>4 DEF Attuned, Connected, Identified
<1>8. ASSUME at[c] = "loop" PROVE Coded(c)'
  <2>1. PICK j \in Nat : Held(plan[c], answers[c], j)
    BY <1>4, <1>8 DEF Attuned, Listening, Quiet, Coded, Overlong, Stray, LongName, Leftover, Comes
  <2>2. answers[c] = <<>>
    <3>1. answers[c] \in Replies /\ Len(plan[c]) = 0
      BY <1>4, StreamTypes, StreamIs
    <3>2. Len(answers[c]) <= 0 /\ Len(answers[c]) \in Nat
      BY <2>1, <3>1, StreamIs DEF Held
    <3>3. Len(answers[c]) = 0
      BY <3>2
    <3>4. QED
      BY <3>1, <3>3, StreamIs
  <2>3. (peer'[c] = "open") = TRUE
    BY <1>4
  <2>4. Fits(wire'[c], plan'[c], answers'[c], peer'[c] = "open", r, 1)
    BY <1>4, <1>6, <2>2, <2>3
  <2>5. QED
    BY <1>4, <1>5, <1>6, <2>4 DEF Coded, Follows
<1>9. at[c] # "reading"
  <2>1. SUFFICES ASSUME at[c] = "reading" PROVE FALSE
    OBVIOUS
  <2>2. Serving(c)
    BY <1>4, <2>1 DEF Attuned, Operating, Over
  <2> DEFINE k == Len(heard[c])  i == Places(code[c])[k + 1]
  <2>3. code[c] = request[c] /\ k < Len(Places(code[c])) /\ k \in Nat /\ code[c] \in Codes
    BY <2>2, StreamTypes DEF Serving
  <2>4. PICK s \in Scripts(c) : Follows(c, s, i)
    BY <2>2 DEF Serving
  <2>5. i \in Nat
    BY <2>3, PlacesType
  <2>6. i # Len(s) + 1
    BY <2>3, NotAtEnd
  <2>7. s \in Streams /\ Len(s) \in Nat /\ answers[c] \in Replies
    BY ScriptTypes, StreamTypes, StreamIs
  <2> HIDE DEF i, k
  <2>8. Fits(<<>>, <<>>, answers[c], TRUE, s, i)
    <3>1. (peer[c] = "open") = TRUE
      BY <1>4
    <3>2. QED
      BY <1>4, <2>4, <3>1 DEF Follows
  <2>9. PICK q : /\ FitsAt(<<>>, <<>>, answers[c], TRUE, s, i, q)
                  /\ q = i + Len(<<>>) - Len(answers[c])
    BY <2>8 DEF Fits
  <2>10. answers[c] = <<>>
    <3>1. Awaits(<<>>, answers[c])
      BY <2>9 DEF FitsAt
    <3>2. Len(answers[c]) \in Nat /\ (answers[c] = <<>> <=> Len(answers[c]) = 0)
      BY <2>7, StreamIs
    <3>3. 1 \in 1 .. Len(answers[c]) => 1 <= Len(<<>>)
      BY <3>1 DEF Awaits
    <3>4. Len(<<>>) = 0
      BY StreamIs
    <3>5. QED
      BY <3>2, <3>3, <3>4
  <2>11. Len(<<>>) = 0
    BY StreamIs
  <2>12. q - 1 + Len(<<>>) = Len(s)
    BY <2>9 DEF FitsAt
  <2>13. q = i
    BY <2>5, <2>9, <2>10, <2>11
  <2>14. QED
    BY <2>5, <2>6, <2>7, <2>11, <2>12, <2>13
<1>10. QED
  BY <1>4, <1>7, <1>8, <1>9 DEF Attuned, Listening, Operating

LEMMA GoOnKeeps ==
    ASSUME TypesInv, NEW c \in Conn, Attuned(c), GoOn(c)
    PROVE  Attuned(c)'
<1> DEFINE w == wire[c]  p == plan[c]  a == answers[c]
<1>1. w \in Streams /\ p \in Streams /\ a \in Replies /\ p # <<>>
  BY StreamTypes DEF GoOn
<1>2. /\ peer[c] = "open" /\ peer'[c] = "open" /\ at' = at /\ heard' = heard /\ code' = code
      /\ user' = user /\ logged' = logged /\ users' = users
      /\ request' = request /\ named' = named /\ Scripts(c)' = Scripts(c)
  BY DEF GoOn, threadVars, sessionVars, tableVars, Scripts
<1>3. Connected(c)' /\ Identified(c)'
  <2>1. wire' = wire \/ \E v : wire' = [wire EXCEPT ![c] = v]
    BY DEF GoOn
  <2>2. QED
    BY <1>2 DEF Attuned, Connected, Identified
<1>4. p[1] = Head(p) /\ (a # <<>> => a[1] = Head(a))
  BY <1>1, RestIs, TailIs DEF Replies
<1>5. \/ /\ p[1] # Wait /\ plan'[c] = Tail(p) /\ wire'[c] = Append(w, p[1]) /\ answers'[c] = a
      \/ /\ p[1] = Wait /\ a # <<>> /\ wire'[c] = w /\ answers'[c] = Tail(a)
         /\ plan'[c] = IF a[1] = "OK" THEN Tail(p) ELSE <<>>
  BY <1>4 DEF GoOn, TypesInv, ClientOK, ExchangeOK
<1>6. (peer[c] = "open") = TRUE /\ (peer'[c] = "open") = TRUE
  BY <1>2
<1>7. ASSUME NEW s \in Scripts(c), NEW i \in Nat, Follows(c, s, i)
      PROVE  Follows(c, s, i)'
  <2>1. Fits(w, p, a, TRUE, s, i) /\ s \in Streams
    BY <1>6, <1>7, ScriptTypes DEF Follows
  <2>2. Fits(wire'[c], plan'[c], answers'[c], TRUE, s, i)
    <3> HIDE DEF w, p, a
    <3>1. CASE /\ p[1] # Wait /\ plan'[c] = Tail(p) /\ wire'[c] = Append(w, p[1]) /\ answers'[c] = a
      BY <1>1, <2>1, <3>1, FitsSend
    <3>2. CASE /\ a # <<>> /\ wire'[c] = w /\ answers'[c] = Tail(a)
               /\ plan'[c] = IF a[1] = "OK" THEN Tail(p) ELSE <<>>
      <4>1. a[1] = "OK" /\ Fits(w, Tail(p), Tail(a), TRUE, s, i)
        BY <1>1, <2>1, <3>2, FitsRead
      <4>2. plan'[c] = Tail(p)
        BY <3>2, <4>1
      <4>3. QED
        BY <3>2, <4>1, <4>2
    <3>3. QED
      BY <1>5, <3>1, <3>2
  <2>3. QED
    BY <1>6, <2>2 DEF Follows
<1>8. ASSUME at[c] = "reading" PROVE Operating(c)'
  <2>1. Serving(c) /\ ~Over(c) /\ Recalls(c) /\ (logged[c] \/ code[c] \in {"logIn", "signIn"})
    BY <1>2, <1>8 DEF Attuned, Operating, Over
  <2>2. Recalls(c)'
    BY <1>2, <2>1 DEF Recalls
  <2> DEFINE i == Places(code[c])[Len(heard[c]) + 1]
  <2>3. /\ code[c] = request[c] /\ Len(heard[c]) < Len(Places(code[c])) /\ Len(heard[c]) \in Nat
        /\ code[c] \in Codes
    BY <2>1, StreamTypes DEF Serving
  <2>4. i \in Nat
    BY <2>3, PlacesType
  <2>5. PICK s \in Scripts(c) : Follows(c, s, i)
    BY <2>1 DEF Serving
  <2>6. Follows(c, s, i)'
    <3>0. PICK e : e = i
      OBVIOUS
    <3>1. e \in Nat /\ Follows(c, s, e)
      BY <2>4, <2>5, <3>0
    <3>2. Follows(c, s, e)'
      BY <1>7, <3>1
    <3>3. i' = e
      BY <1>2, <3>0
    <3>4. QED
      BY <3>2, <3>3 DEF Follows
  <2>7. Serving(c)'
    BY <1>2, <2>3, <2>6 DEF Serving
  <2>8. QED
    BY <1>2, <2>1, <2>2, <2>7 DEF Operating
<1>9. ASSUME at[c] = "loop" PROVE Listening(c)'
  <2>1. CASE Quiet(c)
    <3>1. PICK j \in Nat : w = <<>> /\ Held(p, a, j)
      BY <2>1 DEF Quiet
    <3> HIDE DEF w, p, a
    <3>2. p[1] = Wait
      BY <1>1, <3>1, HeldWaits
    <3>3. /\ a # <<>> /\ wire'[c] = <<>> /\ answers'[c] = Tail(a)
          /\ plan'[c] = IF a[1] = "OK" THEN Tail(p) ELSE <<>>
      BY <1>5, <3>1, <3>2
    <3>4. \E k \in Nat : Held(plan'[c], answers'[c], k)
      BY <1>1, <3>1, <3>3, HeldReads
    <3>5. QED
      BY <3>3, <3>4 DEF Listening, Quiet
  <2>2. CASE Coded(c)
    <3>1. PICK s \in Scripts(c) : Follows(c, s, 1)
      BY <2>2 DEF Coded
    <3>2. Follows(c, s, 1)'
      BY <1>7, <3>1
    <3>3. w # <<>> /\ (a # <<>> => w = <<>>)
      BY <2>2, <3>1 DEF Coded, Follows, Fits, FitsAt
    <3>4. wire'[c] = Append(w, p[1])
      BY <1>5, <3>3
    <3>5. wire'[c] # <<>>
      BY <1>1, <3>4, RestIs, AppendIs, StreamIs DEF Streams
    <3>6. QED
      BY <1>2, <3>2, <3>5 DEF Listening, Coded
  <2>3. CASE Overlong(c)
    <3>1. LongName(w, p) /\ code[c] \in Downloads
      BY <2>3 DEF Overlong
    <3> HIDE DEF w, p, a
    <3>2. p[1] = Wait => w # <<>>
      BY <3>1, PieceIs DEF LongName, Coming
    <3>3. LongName(wire'[c], plan'[c])
      BY <1>1, <1>5, <3>1, <3>2, ComingStays
    <3>4. QED
      BY <1>2, <3>1, <3>3 DEF Listening, Overlong
  <2>4. CASE Stray(c)
    <3>1. Leftover(w, p, TRUE) /\ ~logged[c]
      BY <1>6, <2>4 DEF Stray
    <3> HIDE DEF w, p, a
    <3>2. p[1] = Wait => w # <<>>
      BY <3>1, PieceIs DEF Leftover, Coming
    <3>3. Leftover(wire'[c], plan'[c], TRUE)
      BY <1>1, <1>5, <3>1, <3>2, ComingStays
    <3>4. QED
      BY <1>2, <1>6, <3>1, <3>3 DEF Listening, Stray
  <2>5. QED
    BY <1>9, <2>1, <2>2, <2>3, <2>4 DEF Attuned, Listening
<1>10. QED
  BY <1>2, <1>3, <1>8, <1>9 DEF Attuned, Listening, Operating

LEMMA LeaveKeeps ==
    ASSUME TypesInv, NEW c \in Conn, Attuned(c), peer[c] \in {"open", "closed", "refusing"},
           NEW end \in {"closed", "reset"}, Leave(c, end)
    PROVE  Attuned(c)'
<1>1. wire[c] \in Streams /\ plan[c] \in Streams /\ answers[c] \in Replies /\ (peer[c] = "open") \in BOOLEAN
  BY StreamTypes
<1>2. /\ peer'[c] = end /\ plan'[c] = <<>> /\ answers'[c] = <<>>
      /\ wire'[c] = wire[c] \/ wire'[c] = <<>>
      /\ end = "reset" => wire'[c] = <<>>
      /\ at' = at /\ heard' = heard /\ code' = code
      /\ user' = user /\ logged' = logged /\ users' = users
      /\ request' = request /\ named' = named /\ Scripts(c)' = Scripts(c)
  BY DEF Leave, threadVars, sessionVars, tableVars, Scripts, TypesInv, ExchangeOK, ClientOK
<1>3. Connected(c)' /\ Identified(c)'
  BY <1>2 DEF Attuned, Connected, Identified
<1>4. (peer'[c] = "open") = FALSE
  BY <1>2
<1>5. ASSUME NEW s \in Scripts(c), NEW i \in Nat, Follows(c, s, i), wire'[c] # <<>>
      PROVE  Follows(c, s, i)'
  <2> DEFINE open == peer[c] = "open"
  <2>1. Fits(wire[c], plan[c], answers[c], open, s, i) /\ s \in Streams /\ open \in BOOLEAN
    BY <1>1, <1>5, ScriptTypes DEF Follows
  <2> HIDE DEF open
  <2>2. Fits(wire[c], <<>>, <<>>, FALSE, s, i)
    BY <1>1, <1>2, <1>5, <2>1, FitsEnds
  <2>3. QED
    BY <1>2, <1>4, <1>5, <2>2 DEF Follows
<1>6. ASSUME at[c] = "reading" PROVE Operating(c)'
  <2>1. /\ Serving(c) \/ Over(c)
        /\ Recalls(c) /\ (logged[c] \/ code[c] \in {"logIn", "signIn"})
    BY <1>6 DEF Attuned, Operating
  <2>2. wire'[c] = <<>> => Over(c)'
    BY <1>2 DEF Over
  <2>3. Over(c) => Over(c)'
    BY <1>2, <2>2 DEF Over
  <2>4. Recalls(c)'
    BY <1>2, <2>1, <2>3 DEF Recalls
  <2>5. ASSUME Serving(c), wire'[c] # <<>> PROVE Serving(c)'
    <3> DEFINE i == Places(code[c])[Len(heard[c]) + 1]
    <3>1. /\ code[c] = request[c] /\ Len(heard[c]) < Len(Places(code[c])) /\ Len(heard[c]) \in Nat
          /\ code[c] \in Codes
      BY <2>5, StreamTypes DEF Serving
    <3>2. i \in Nat
      BY <3>1, PlacesType
    <3>3. PICK s \in Scripts(c) : Follows(c, s, i)
      BY <2>5 DEF Serving
    <3>4. Follows(c, s, i)'
      <4>0. PICK e : e = i
        OBVIOUS
      <4>1. e \in Nat /\ Follows(c, s, e)
        BY <3>2, <3>3, <4>0
      <4>2. Follows(c, s, e)'
        BY <1>5, <2>5, <4>1
      <4>3. i' = e
        BY <1>2, <4>0
      <4>4. QED
        BY <4>2, <4>3 DEF Follows
    <3>5. QED
      BY <1>2, <3>1, <3>4 DEF Serving
  <2>6. QED
    BY <1>2, <2>1, <2>2, <2>3, <2>4, <2>5 DEF Operating
<1>7. ASSUME at[c] = "loop" PROVE Listening(c)'
  <2>1. CASE wire'[c] = <<>>
    BY <1>2, <2>1, GoneIsHeld DEF Listening, Quiet
  <2>2. CASE wire'[c] # <<>>
    <3>1. wire'[c] = wire[c] /\ wire[c] # <<>>
      BY <1>2, <2>2
    <3>2. CASE Coded(c)
      <4>1. PICK s \in Scripts(c) : Follows(c, s, 1)
        BY <3>2 DEF Coded
      <4>2. Follows(c, s, 1)'
        BY <1>5, <2>2, <4>1
      <4>3. QED
        BY <1>2, <2>2, <4>2 DEF Listening, Coded
    <3>3. CASE Overlong(c)
      <4>1. LongName(wire'[c], plan'[c])
        BY <1>1, <3>1, <3>3, ComingStays DEF Overlong
      <4>2. QED
        BY <1>2, <3>3, <4>1 DEF Listening, Overlong
    <3>4. CASE Stray(c)
      <4> DEFINE open == peer[c] = "open"
      <4>1. Leftover(wire[c], plan[c], open) /\ open \in BOOLEAN /\ ~logged[c]
        BY <1>1, <3>4 DEF Stray
      <4> HIDE DEF open
      <4>2. Leftover(wire[c], <<>>, FALSE)
        BY <1>1, <3>1, <4>1, ComingStays
      <4>3. QED
        BY <1>2, <1>4, <3>1, <4>1, <4>2 DEF Listening, Stray
    <3>5. QED
      BY <1>7, <3>1, <3>2, <3>3, <3>4 DEF Attuned, Listening, Quiet
  <2>3. QED
    BY <2>1, <2>2
<1>8. QED
  BY <1>2, <1>3, <1>6, <1>7 DEF Attuned, Listening, Operating

-----------------------------------------------------------------------------
(* All connections.                                                        *)

LEMMA Untouched ==
    ASSUME NEW o \in Conn, surplus[o] \/ Attuned(o), surplus[o] => surplus'[o],
           peer'[o] = peer[o], wire'[o] = wire[o], plan'[o] = plan[o], answers'[o] = answers[o],
           at'[o] = at[o], heard'[o] = heard[o], code'[o] = code[o], request'[o] = request[o],
           named'[o] = named[o], user'[o] = user[o], logged'[o] = logged[o],
           users \subseteq users'
    PROVE  surplus'[o] \/ Attuned(o)'
<1> SUFFICES ASSUME Attuned(o) PROVE Attuned(o)'
  OBVIOUS
<1>1. Scripts(o)' = Scripts(o)
  BY DEF Scripts
<1>2. \A s, i : Follows(o, s, i)' <=> Follows(o, s, i)
  BY DEF Follows
<1>3. Listening(o)'
  BY <1>1, <1>2 DEF Attuned, Listening, Quiet, Coded, Overlong, Stray
<1>4. Operating(o)'
  BY <1>1, <1>2 DEF Attuned, Operating, Over, Serving, Recalls
<1>5. Connected(o)' /\ Identified(o)'
  BY DEF Attuned, Connected, Identified
<1>6. QED
  BY <1>3, <1>4, <1>5 DEF Attuned

\* What a step of one thread leaves of the other connections.
LEMMA ThreadLeaves ==
    ASSUME TypesInv, NEW c \in Conn, NEW o \in Conn, o # c, surplus[o] \/ Attuned(o),
           Recv(c), UNCHANGED clientVars, code'[o] = code[o],
           Silent \/ \E given : Send(c, given) \/ SendTwice(c, given),
           \/ \E s : Goes(c, s)
           \/ \E t : Hear(c, t)
           \/ \E t : heard' = [heard EXCEPT ![c] = t] /\ UNCHANGED at,
           user'[o] = user[o], logged'[o] = logged[o], users \subseteq users'
    PROVE  surplus'[o] \/ Attuned(o)'
<1>1. peer'[o] = peer[o] /\ answers'[o] = answers[o] /\ surplus'[o] = surplus[o]
  BY DEF TypesInv, ExchangeOK, Silent, sendVars, Send, SendTwice, Answer
<1>2. wire'[o] = wire[o] /\ plan'[o] = plan[o] /\ request'[o] = request[o] /\ named'[o] = named[o]
  BY DEF TypesInv, ClientOK, Recv, clientVars
<1>3. at'[o] = at[o] /\ heard'[o] = heard[o]
  BY DEF TypesInv, PlaceOK, Goes, Hear
<1>4. QED
  BY <1>1, <1>2, <1>3, Untouched

LEMMA LoopLeaves ==
    ASSUME TypesInv, NEW c \in Conn, NEW o \in Conn, o # c, surplus[o] \/ Attuned(o), Loop(c)
    PROVE  surplus'[o] \/ Attuned(o)'
<1>0. Recv(c) /\ UNCHANGED <<clientVars, user, logged, users>>
  BY DEF Loop, Same, sessionVars, tableVars
<1>1. CASE Throw(c) /\ Silent /\ UNCHANGED code
  BY <1>0, <1>1, ThreadLeaves DEF Throw
<1>2. CASE \E op \in Codes : Perform(c, op)
  <2>1. PICK op \in Codes : Perform(c, op)
    BY <1>2
  <2>2. /\ Return(c) \/ Throw(c) \/ Goes(c, "reading")
        /\ Silent \/ \E given : Send(c, given)
    BY <2>1 DEF Perform
  <2>3. code'[o] = code[o]
    BY <2>1 DEF Perform, TypesInv, ClientOK
  <2>4. QED
    BY <1>0, <2>2, <2>3, ThreadLeaves DEF Return, Throw
<1>3. QED
  BY <1>1, <1>2, StreamTypes DEF Loop

LEMMA ThreadOthers ==
    ASSUME TypesInv, NEW c \in Conn, NEW o \in Conn, o # c, surplus[o] \/ Attuned(o), Thread(c)
    PROVE  surplus'[o] \/ Attuned(o)'
<1> USE ThreadLeaves DEF Reading, Return, Throw, Spin
<1>1. CASE LogInName(c)
  BY <1>1 DEF LogInName, Same, sessionVars, tableVars
<1>2. CASE LogInPassword(c)
  <2>1. UNCHANGED users /\ user'[o] = user[o] /\ logged'[o] = logged[o]
    BY <1>2 DEF LogInPassword, Authenticate, Becomes, Same, sessionVars, tableVars, TypesInv,
       DataOK
  <2>2. QED
    BY <1>2, <2>1 DEF LogInPassword, Authenticate
<1>3. CASE SignInText(c)
  BY <1>3 DEF SignInText, Same, sessionVars, tableVars
<1>4. CASE SignInFolder(c)
  <2>1. users \subseteq users' /\ user'[o] = user[o] /\ logged'[o] = logged[o]
    BY <1>4 DEF SignInFolder, Same, sessionVars, tableVars, TypesInv, DataOK
  <2>2. QED
    BY <1>4, <2>1 DEF SignInFolder
<1>5. CASE UploadName(c)
  <2>1. UNCHANGED <<users, user, logged>>
    BY <1>5 DEF UploadName, Same, sessionVars, tableVars
  <2>2. QED
    BY <1>5, <2>1 DEF UploadName
<1>6. CASE UploadLength(c)
  BY <1>6 DEF UploadLength, Same, sessionVars, tableVars
<1>7. CASE UploadContent(c)
  BY <1>7 DEF UploadContent, Same, sessionVars, tableVars
<1>8. CASE UploadDigest(c)
  BY <1>8 DEF UploadDigest, Same, sessionVars, tableVars
<1>9. CASE RemoveFile(c)
  <2>1. UNCHANGED <<users, user, logged>>
    BY <1>9 DEF RemoveFile, Same, sessionVars, tableVars
  <2>2. QED
    BY <1>9, <2>1 DEF RemoveFile
<1>10. CASE DeleteFile(c)
  <2>1. UNCHANGED <<users, user, logged>>
    BY <1>10 DEF DeleteFile, Same, sessionVars, tableVars
  <2>2. QED
    BY <1>10, <2>1 DEF DeleteFile
<1>11. CASE GetFileVersions(c)
  BY <1>11 DEF GetFileVersions, Same, sessionVars, tableVars
<1>12. CASE SetUserPath(c)
  <2>1. UNCHANGED <<users, user, logged>>
    BY <1>12 DEF SetUserPath, Same, sessionVars, tableVars
  <2>2. QED
    BY <1>12, <2>1 DEF SetUserPath
<1>13. CASE DownloadLength(c)
  <2>1. UNCHANGED <<users, user, logged, clientVars, code>> /\ Recv(c)
    BY <1>13 DEF DownloadLength, Measuring, Same, sessionVars, tableVars
  <2>2. /\ Silent \/ \E given : Send(c, given)
        /\ \/ \E s : Goes(c, s)
           \/ \E t : Hear(c, t)
           \/ \E t : heard' = [heard EXCEPT ![c] = t] /\ UNCHANGED at
    BY <1>13 DEF DownloadLength
  <2>3. QED
    BY <2>1, <2>2
<1>14. CASE DownloadName(c) \/ DownloadDate(c)
  <2>1. UNCHANGED <<users, user, logged, clientVars, code>> /\ Recv(c)
    BY <1>14 DEF DownloadName, DownloadDate, Same, sessionVars, tableVars
  <2>2. /\ Silent \/ \E given : Send(c, given)
        /\ \/ \E s : Goes(c, s)
           \/ \E t : Hear(c, t)
    BY <1>14 DEF DownloadName, DownloadDate, Fetch
  <2>3. QED
    BY <2>1, <2>2
<1>15. CASE DownloadContent(c) \/ DownloadDigest(c)
  <2>1. UNCHANGED <<users, user, logged, clientVars, code>> /\ Recv(c)
    BY <1>15 DEF DownloadContent, DownloadDigest, Same, Restore, sessionVars, tableVars
  <2>2. /\ Silent \/ \E given : Send(c, given)
        /\ \/ \E s : Goes(c, s)
           \/ \E t : Hear(c, t)
    BY <1>15 DEF DownloadContent, DownloadDigest
  <2>3. QED
    BY <2>1, <2>2
<1>16. CASE Astray(c)
  BY <1>16, Untouched DEF Astray, TypesInv, PlaceOK, clientVars, sendVars, sessionVars, tableVars
<1>17. QED
  BY <1>1, <1>2, <1>3, <1>4, <1>5, <1>6, <1>7, <1>8, <1>9, <1>10, <1>11, <1>12, <1>13, <1>14,
     <1>15, <1>16, LoopLeaves DEF Thread

\* A request that was given two answers for one has been for good.
LEMMA SurplusStays ==
    ASSUME TypesInv, NEW c \in Conn, Thread(c), surplus[c]
    PROVE  surplus'[c]
<1>1. surplus' = surplus \/ surplus' = [surplus EXCEPT ![c] = TRUE]
  <2>1. ASSUME Silent \/ \E given : Send(c, given) \/ SendTwice(c, given)
        PROVE  surplus' = surplus \/ surplus' = [surplus EXCEPT ![c] = TRUE]
    BY <2>1 DEF Silent, sendVars, Send, SendTwice
  <2>2. CASE Loop(c)
    <3>1. Silent \/ \E op : Perform(c, op)
      BY <2>2 DEF Loop
    <3>2. QED
      BY <2>1, <3>1 DEF Perform
  <2>3. CASE LogInName(c) \/ LogInPassword(c) \/ SignInText(c) \/ SignInFolder(c)
    BY <2>1, <2>3 DEF LogInName, LogInPassword, Authenticate, SignInText, SignInFolder
  <2>4. CASE UploadName(c) \/ UploadLength(c) \/ UploadContent(c) \/ UploadDigest(c)
    BY <2>1, <2>4 DEF UploadName, UploadLength, UploadContent, UploadDigest
  <2>5. CASE RemoveFile(c) \/ DeleteFile(c) \/ GetFileVersions(c) \/ SetUserPath(c)
    BY <2>1, <2>5 DEF RemoveFile, DeleteFile, GetFileVersions, SetUserPath
  <2>6. CASE DownloadLength(c) \/ DownloadName(c) \/ DownloadDate(c)
    BY <2>1, <2>6 DEF DownloadLength, DownloadName, DownloadDate, Fetch
  <2>7. CASE DownloadContent(c) \/ DownloadDigest(c)
    BY <2>1, <2>7 DEF DownloadContent, DownloadDigest
  <2>8. CASE Astray(c)
    BY <2>8 DEF Astray, sendVars
  <2>9. QED
    BY <2>2, <2>3, <2>4, <2>5, <2>6, <2>7, <2>8 DEF Thread
<1>2. QED
  BY <1>1 DEF TypesInv, ExchangeOK

\* What a step of one client leaves of the other connections.
LEMMA ClientOthers ==
    ASSUME TypesInv, NEW c \in Conn, NEW o \in Conn, o # c, surplus[o] \/ Attuned(o),
           Accept(c) \/ Client(c) \/ GoOn(c) \/ Refuse(c)
    PROVE  surplus'[o] \/ Attuned(o)'
<1>1. CASE Accept(c)
  BY <1>1, Untouched DEF Accept, TypesInv, ExchangeOK, PlaceOK, clientVars, sessionVars,
     tableVars
<1>2. CASE GoOn(c)
  BY <1>2, Untouched DEF GoOn, TypesInv, ExchangeOK, ClientOK, threadVars, sessionVars, tableVars
<1>3. CASE \E end : Leave(c, end)
  BY <1>3, Untouched DEF Leave, TypesInv, ExchangeOK, ClientOK, threadVars, sessionVars, tableVars
<1>4. CASE \E op, who, f, d, n : Ask(c, op, who, f, d, n)
  BY <1>4, Untouched DEF Ask, TypesInv, ExchangeOK, ClientOK, sendVars, threadVars, sessionVars,
     tableVars
<1>5. QED
  BY <1>1, <1>2, <1>3, <1>4 DEF Client, Close, Break, Refuse

LEMMA ClientKeeps ==
    ASSUME TypesInv, NEW c \in Conn, surplus[c] \/ Attuned(c),
           Accept(c) \/ Client(c) \/ GoOn(c) \/ Refuse(c)
    PROVE  surplus'[c] \/ Attuned(c)'
<1>1. surplus' = surplus
  BY DEF Accept, Client, Ask, Close, Break, GoOn, Refuse, Leave, sendVars
<1>2. SUFFICES ASSUME Attuned(c) PROVE Attuned(c)'
  BY <1>1
<1>3. CASE Accept(c)
  BY <1>2, <1>3, AcceptKeeps
<1>4. CASE GoOn(c)
  BY <1>2, <1>4, GoOnKeeps
<1>5. CASE Close(c) \/ Break(c) \/ Refuse(c)
  BY <1>2, <1>5, LeaveKeeps DEF Close, Break, Refuse
<1>6. CASE \E op \in Asked[c], who \in Credentials, file \in FileNames, d \in Folders, n \in 0 .. 2 :
              Ask(c, op, who, file, d, n)
  BY <1>2, <1>6, AskKeeps
<1>7. QED
  BY <1>3, <1>4, <1>5, <1>6 DEF Client

\* The process ends.
LEMMA EndKeeps ==
    ASSUME TypesInv, NEW c \in Conn, surplus[c] \/ Attuned(c), Underwrite \/ DoubleDelete
    PROVE  surplus'[c] \/ Attuned(c)'
<1>1. ProcessEnds /\ UNCHANGED <<users, user, logged>>
  BY DEF Underwrite, DoubleDelete, Same, Restore, sessionVars, tableVars
<1>2. /\ at'[c] = "ended" /\ peer'[c] = "reset" /\ wire'[c] = <<>> /\ plan'[c] = <<>>
      /\ answers'[c] = <<>> /\ surplus' = surplus
  BY <1>1 DEF ProcessEnds
<1>3. QED
  BY <1>1, <1>2 DEF Attuned, Listening, Operating, Connected, Identified

LEMMA LoopInvStep ==
    ASSUME TypesInv, LoopInv, [Next]_vars
    PROVE  LoopInv'
<1> SUFFICES ASSUME NEW o \in Conn PROVE surplus'[o] \/ Attuned(o)'
  BY DEF LoopInv
<1>1. surplus[o] \/ Attuned(o)
  BY DEF LoopInv
<1>2. ASSUME NEW c \in Conn, Thread(c)
      PROVE  surplus'[o] \/ Attuned(o)'
  <2>1. CASE c = o
    BY <1>1, <1>2, <2>1, ThreadKeeps, SurplusStays
  <2>2. CASE c # o
    BY <1>1, <1>2, <2>2, ThreadOthers
  <2>3. QED
    BY <2>1, <2>2
<1>3. ASSUME NEW c \in Conn, Accept(c) \/ Client(c) \/ GoOn(c) \/ Refuse(c)
      PROVE  surplus'[o] \/ Attuned(o)'
  <2>1. CASE c = o
    BY <1>1, <1>3, <2>1, ClientKeeps
  <2>2. CASE c # o
    BY <1>1, <1>3, <2>2, ClientOthers
  <2>3. QED
    BY <2>1, <2>2
<1>4. CASE Underwrite \/ DoubleDelete
  BY <1>1, <1>4, EndKeeps
<1>5. CASE UNCHANGED vars
  BY <1>1, <1>5, Untouched
     DEF vars, clientVars, sendVars, threadVars, sessionVars, tableVars
<1>6. QED
  BY <1>2, <1>3, <1>4, <1>5 DEF Next

LEMMA LoopInvInit == Init => LoopInv
<1> SUFFICES ASSUME Init, NEW c \in Conn PROVE Attuned(c)
  BY DEF LoopInv
<1>1. /\ peer[c] = "away" /\ plan[c] = <<>> /\ answers[c] = <<>> /\ wire[c] = <<>>
      /\ at[c] = "accept" /\ ~logged[c] /\ user[c] = <<>>
  BY DEF Init
<1>2. QED
  BY <1>1 DEF Attuned, Listening, Operating, Connected, Identified

LEMMA InStepMeans ==
    ASSUME TypesInv, LoopInv
    PROVE  InStep
<1> SUFFICES ASSUME NEW c \in Conn, ~surplus[c]
             PROVE  /\ at[c] # "astray"
                    /\ at[c] = "loop" /\ logged[c] /\ wire[c] # <<>> =>
                          \/ Head(wire[c]).kind = "code"
                          \/ /\ Head(wire[c]).kind = "file"
                             /\ Len(Head(wire[c]).text) >= MaxText
                             /\ code[c] \in Downloads
  BY DEF InStep
<1>1. Attuned(c)
  BY DEF LoopInv
<1>2. at[c] # "astray"
  BY <1>1 DEF Attuned, Connected
<1>3. ASSUME at[c] = "loop", logged[c], wire[c] # <<>>
      PROVE  \/ Head(wire[c]).kind = "code"
             \/ /\ Head(wire[c]).kind = "file" /\ Len(Head(wire[c]).text) >= MaxText
                /\ code[c] \in Downloads
  <2>1. wire[c] \in Streams /\ Head(wire[c]) = wire[c][1]
    BY <1>3, StreamTypes, RestIs
  <2>2. CASE Coded(c)
    <3>1. PICK s \in Scripts(c) : Follows(c, s, 1)
      BY <2>2 DEF Coded
    <3>2. /\ s \in Streams /\ plan[c] \in Streams /\ answers[c] \in Replies
          /\ s[1] = Piece("code", <<request[c]>>)
      BY ScriptTypes, StreamTypes, CodeScripts
    <3>3. wire[c][1] = s[1]
      <4> DEFINE open == peer[c] = "open"
      <4>1. Fits(wire[c], plan[c], answers[c], open, s, 1) /\ open \in BOOLEAN /\ 1 \in Nat
        BY <3>1 DEF Follows
      <4> HIDE DEF open
      <4>2. QED
        BY <1>3, <2>1, <3>2, <4>1, FitsMeans
    <3>4. QED
      BY <2>1, <3>2, <3>3, Kinds
  <2>3. CASE Overlong(c)
    BY <1>3, <2>1, <2>3 DEF Overlong, LongName, Coming
  <2>4. QED
    BY <1>1, <1>3, <2>2, <2>3 DEF Attuned, Listening, Quiet, Stray
<1>4. QED
  BY <1>2, <1>3

\* As long as no request was given two answers, no operation receives what is not for
\* it, and the loop of an authenticated session finds a code, or the name of a
\* download that was refused for its length: whatever is refused, given up or broken
\* off, client and thread stay at the same place of the protocol.
THEOREM AlwaysInStep == Spec => []InStep
<1>1. Init => TypesInv /\ LoopInv
  BY InitTypes, LoopInvInit
<1>2. TypesInv /\ LoopInv /\ [Next]_vars => (TypesInv /\ LoopInv)'
  BY NextTypes, LoopInvStep
<1>3. TypesInv /\ LoopInv => InStep
  BY InStepMeans
<1>4. QED
  BY <1>1, <1>2, <1>3, PTL DEF Spec

-----------------------------------------------------------------------------
(* What changes files and deletions.                                       *)

Change(k) ==
    k \in (files \ files') \cup (files' \ files)
          \cup (deleted \ deleted') \cup (deleted' \ deleted)

\* The step of c changes k as its client asked.
AsAsked(c, k) ==
    /\ at'[c] # at[c] \/ heard'[c] # heard[c]
    /\ \/ surplus[c]
       \/ /\ logged[c] /\ \E row \in users : row.user = user[c]
          /\ k = KeyOf(c, named[c]) /\ k \in Changed(request[c])
       \/ folderPath[c] = <<>> /\ wire[c] = <<>> /\ k = <<user[c], <<>>>>

LEMMA NoChange ==
    ASSUME NEW k, Change(k), UNCHANGED <<files, deleted>>
    PROVE  FALSE
BY DEF Change

LEMMA ChangedAre ==
    /\ Changed("uploadFile") = (files' \ files) \cup (deleted \ deleted')
    /\ Changed("removeFile") = (files \ files') \cup (deleted \ deleted')
    /\ Changed("deleteFile") = deleted' \ deleted
    /\ \A op \in Downloads : Changed(op) = deleted \ deleted'
BY DEF Changed, Downloads

LEMMA NotSame ==
    ASSUME NEW k, Change(k)
    PROVE  ~Same
BY NoChange DEF Same, tableVars

\* The operations that change them.
LEMMA OnlyThese ==
    ASSUME NEW c \in Conn, Thread(c), NEW k, Change(k)
    PROVE  UploadName(c) \/ RemoveFile(c) \/ DeleteFile(c) \/ DownloadDigest(c)
<1> USE NoChange DEF Same, tableVars
<1>1. ~Loop(c) /\ ~LogInName(c) /\ ~SignInText(c) /\ ~UploadLength(c) /\ ~UploadContent(c)
  BY DEF Loop, LogInName, SignInText, UploadLength, UploadContent
<1>2. ~LogInPassword(c) /\ ~SignInFolder(c)
  BY DEF LogInPassword, Authenticate, Becomes, SignInFolder
<1>3. ~UploadDigest(c) /\ ~GetFileVersions(c) /\ ~SetUserPath(c) /\ ~Astray(c)
  BY DEF UploadDigest, GetFileVersions, SetUserPath, Astray
<1>4. ~DownloadLength(c) /\ ~DownloadName(c) /\ ~DownloadDate(c) /\ ~DownloadContent(c)
  BY DEF DownloadLength, DownloadName, DownloadDate, DownloadContent
<1>5. QED
  BY <1>1, <1>2, <1>3, <1>4 DEF Thread

\* An operation that returned or heard more is not where it was.
LEMMA MovesOn ==
    ASSUME TypesInv, NEW c \in Conn, NEW op, NEW n, Reading(c, op, n),
           Return(c) \/ Hear(c, Text(c))
    PROVE  at'[c] # at[c] \/ heard'[c] # heard[c]
<1>1. CASE Return(c)
  BY <1>1 DEF Reading, Return, Goes, TypesInv, PlaceOK
<1>2. CASE Hear(c, Text(c))
  <2>1. heard'[c] = Append(heard[c], Text(c))
    BY <1>2 DEF Hear, TypesInv, PlaceOK
  <2>2. heard[c] \in Seq(Texts) /\ Text(c) \in Texts
    BY StreamTypes, ReadingTypes
  <2>3. Len(heard'[c]) = Len(heard[c]) + 1 /\ Len(heard[c]) \in Nat
    <3>1. ASSUME NEW S, NEW h \in Seq(S), NEW t \in S
          PROVE  Len(Append(h, t)) = Len(h) + 1 /\ Len(h) \in Nat
      OBVIOUS
    <3>2. QED
      BY <2>1, <2>2, <3>1
  <2>4. heard'[c] # heard[c]
    BY <2>3
  <2>5. QED
    BY <2>4
<1>3. QED
  BY <1>1, <1>2

\* The first text of an operation on a file is the name its client asked for.
LEMMA FirstIsNamed ==
    ASSUME TypesInv, NEW c \in Conn, Attuned(c),
           NEW op \in {"uploadFile", "removeFile", "deleteFile"}, Reading(c, op, 0), Got(c) = 1
    PROVE  Text(c) = named[c] /\ request[c] = op
<1>1. /\ wire[c] # <<>> /\ wire[c] \in Streams /\ Head(wire[c]) = wire[c][1]
      /\ Text(c) = wire[c][1].text
  BY StreamTypes, RestIs DEF Got, Text
<1>2. /\ code[c] = op /\ op = request[c]
      /\ \E s \in Scripts(c) : Follows(c, s, Places(op)[Len(heard[c]) + 1])
  BY <1>1 DEF Attuned, Operating, Over, Serving, Reading
<1>3. Len(heard[c]) = 0 /\ Places(op)[0 + 1] = 2
  BY PlacesAre DEF Reading
<1>4. PICK s \in Scripts(c) : Follows(c, s, 2)
  BY <1>2, <1>3
<1>5. s \in Streams /\ plan[c] \in Streams /\ answers[c] \in Replies
  BY ScriptTypes, StreamTypes
<1>6. wire[c][1] = s[2]
  <2> DEFINE open == peer[c] = "open"
  <2>1. Fits(wire[c], plan[c], answers[c], open, s, 2) /\ open \in BOOLEAN /\ 2 \in Nat
    BY <1>4 DEF Follows
  <2> HIDE DEF open
  <2>2. QED
    BY <1>1, <1>5, <2>1, FitsMeans
<1>7. s[2] = Piece("file", named[c])
  <2>1. PICK who \in Credentials, d \in Folders, n \in 0 .. 2 :
           s = Request(op, who, named[c], d, n)
    BY <1>2, ScriptIs
  <2>2. QED
    BY <2>1, UploadIs, ChangeIs
<1>8. Piece("file", named[c]).text = named[c]
  BY DEF Piece
<1>9. QED
  BY <1>1, <1>2, <1>6, <1>7, <1>8

\* The empty name is in no folder but the empty one.
LEMMA NoFolderFound ==
    ASSUME NEW folder \in Texts, InFolder(<<>>, folder)
    PROVE  folder = <<>>
<1>1. PICK i \in 0 .. 0 - Len(folder) : TRUE
  <2>1. Len(<<>>) = 0
    OBVIOUS
  <2>2. QED
    BY <2>1 DEF InFolder
<1>2. Len(folder) \in Nat
  BY TextTypes
<1>3. Len(folder) = 0
  BY <1>1, <1>2
<1>4. QED
  BY <1>3 DEF Texts

\* An upload that breaks off before its name stores a file without a name, and only
\* where the session has no folder.
LEMMA BrokenIsNameless ==
    ASSUME TypesInv, NEW c \in Conn, Attuned(c), Got(c) = -1, Accepted(c)
    PROVE  folderPath[c] = <<>> /\ wire[c] = <<>> /\ Key(c) = <<user[c], <<>>>>
<1>1. peer[c] = "reset" /\ Text(c) = <<>>
  BY DEF Got, Text
<1>2. wire[c] = <<>>
  BY <1>1 DEF Attuned, Connected
<1>3. Directories(c) = <<>>
  BY <1>1 DEF Directories
<1>4. folderPath[c] \in Texts
  BY DEF TypesInv, DataOK
<1>5. folderPath[c] = <<>>
  BY <1>3, <1>4, NoFolderFound DEF Accepted
<1>6. WithoutFolder(<<>>, <<>>) = <<>>
  <2>1. Len(<<>>) = 0 /\ SubSeq(<<>>, 0 + 1, 0) = <<>>
    OBVIOUS
  <2>2. QED
    BY <2>1 DEF WithoutFolder
<1>7. QED
  BY <1>1, <1>2, <1>5, <1>6 DEF Key, KeyOf

\* A download that is confirmed restores the name its client asked for.
LEMMA RestoreIsNamed ==
    ASSUME TypesInv, NEW c \in Conn, Attuned(c), at[c] = "reading",
           \/ code[c] = "downloadLastVersion" /\ Len(heard[c]) = 3
           \/ code[c] = "downloadPreviousVersion" /\ Len(heard[c]) = 5,
           Restore(c), NEW k, Change(k)
    PROVE  /\ logged[c] /\ \E row \in users : row.user = user[c]
           /\ k = KeyOf(c, named[c]) /\ k \in Changed(request[c])
<1>1. code[c] \in Downloads /\ code[c] = request[c] /\ heard[c][2] = named[c]
  <2>1. Recalls(c)
    BY DEF Attuned, Operating
  <2>2. CASE code[c] = "downloadLastVersion" /\ Len(heard[c]) = 3
    BY <2>1, <2>2 DEF Recalls, Downloads
  <2>3. CASE code[c] = "downloadPreviousVersion" /\ Len(heard[c]) = 5
    BY <2>1, <2>3 DEF Recalls, Downloads
  <2>4. QED
    BY <2>2, <2>3
<1>2. logged[c]
  BY DEF Attuned, Operating
<1>3. k \in deleted \ deleted' /\ k = KeyOf(c, named[c])
  BY <1>1 DEF Restore, Change
<1>4. Changed(request[c]) = deleted \ deleted'
  BY <1>1, ChangedAre
<1>5. QED
  BY <1>2, <1>3, <1>4 DEF Attuned, Identified

LEMMA ChangeIsAsked ==
    ASSUME TypesInv, LoopInv, NEW c \in Conn, Thread(c), NEW k, Change(k)
    PROVE  AsAsked(c, k)
<1>0. ~Same
  BY NotSame
<1>1. surplus[c] \/ Attuned(c)
  BY DEF LoopInv
<1>2. ASSUME NEW op \in {"uploadFile", "removeFile", "deleteFile"}, Reading(c, op, 0),
             Got(c) = 1, k = Key(c), k \in Changed(op), Attuned(c)
      PROVE  /\ logged[c] /\ \E row \in users : row.user = user[c]
             /\ k = KeyOf(c, named[c]) /\ k \in Changed(request[c])
  <2>1. Text(c) = named[c] /\ request[c] = op
    BY <1>2, FirstIsNamed
  <2>2. logged[c]
    BY <1>2 DEF Attuned, Operating, Reading
  <2>3. QED
    BY <1>2, <2>1, <2>2 DEF Key, Attuned, Identified
<1>3. Got(c) \in {-1, 0, 1}
  BY DEF Got
<1>4. CASE UploadName(c)
  <2>1. /\ Reading(c, "uploadFile", 0) /\ Got(c) # 0 /\ Accepted(c)
        /\ files' = files \cup {Key(c)} /\ deleted' = deleted \ {Key(c)}
        /\ Hear(c, Text(c)) \/ Return(c)
    BY <1>4, <1>0 DEF UploadName
  <2>2. k = Key(c) /\ k \in Changed("uploadFile")
    <3>1. k = Key(c) /\ k \in (files' \ files) \cup (deleted \ deleted')
      BY <2>1 DEF Change
    <3>2. QED
      BY <3>1, ChangedAre
  <2>3. at'[c] # at[c] \/ heard'[c] # heard[c]
    BY <2>1, MovesOn
  <2>4. QED
    BY <1>1, <1>2, <1>3, <2>1, <2>2, <2>3, BrokenIsNameless DEF AsAsked
<1>5. CASE RemoveFile(c)
  <2>1. /\ Reading(c, "removeFile", 0) /\ Got(c) = 1 /\ Return(c)
        /\ files' = files \ {Key(c)} /\ deleted' = deleted \ {Key(c)}
    BY <1>5, <1>0 DEF RemoveFile
  <2>2. k = Key(c) /\ k \in Changed("removeFile")
    <3>1. k = Key(c) /\ k \in (files \ files') \cup (deleted \ deleted')
      BY <2>1 DEF Change
    <3>2. QED
      BY <3>1, ChangedAre
  <2>3. at'[c] # at[c] \/ heard'[c] # heard[c]
    BY <2>1, MovesOn
  <2>4. QED
    BY <1>1, <1>2, <2>1, <2>2, <2>3 DEF AsAsked
<1>6. CASE DeleteFile(c)
  <2>1. /\ Reading(c, "deleteFile", 0) /\ Got(c) = 1 /\ Return(c)
        /\ deleted' = deleted \cup {Key(c)} /\ UNCHANGED files
    BY <1>6, <1>0 DEF DeleteFile
  <2>2. k = Key(c) /\ k \in Changed("deleteFile")
    <3>1. k = Key(c) /\ k \in deleted' \ deleted
      BY <2>1 DEF Change
    <3>2. QED
      BY <3>1, ChangedAre
  <2>3. at'[c] # at[c] \/ heard'[c] # heard[c]
    BY <2>1, MovesOn
  <2>4. QED
    BY <1>1, <1>2, <2>1, <2>2, <2>3 DEF AsAsked
<1>7. CASE DownloadDigest(c)
  <2>1. /\ at[c] = "reading" /\ Restore(c) /\ Return(c)
        /\ \E op, n : Reading(c, op, n)
        /\ \/ code[c] = "downloadLastVersion" /\ Len(heard[c]) = 3
           \/ code[c] = "downloadPreviousVersion" /\ Len(heard[c]) = 5
    BY <1>7, <1>0 DEF DownloadDigest, Reading
  <2>2. at'[c] # at[c] \/ heard'[c] # heard[c]
    BY <2>1, MovesOn
  <2>3. QED
    BY <1>1, <2>1, <2>2, RestoreIsNamed DEF AsAsked
<1>8. QED
  BY <1>4, <1>5, <1>6, <1>7, OnlyThese

\* The process ends in a download that restores a version.
LEMMA EndIsAsked ==
    ASSUME TypesInv, LoopInv, DoubleDelete, NEW k, Change(k)
    PROVE  \E c \in Conn : AsAsked(c, k)
<1>1. PICK c \in Conn :
         /\ at[c] = "reading" /\ code[c] = "downloadPreviousVersion" /\ Len(heard[c]) = 5
         /\ Restore(c)
  BY NotSame DEF DoubleDelete
<1>2. at'[c] = "ended"
  BY DEF DoubleDelete, ProcessEnds
<1>3. surplus[c] \/ Attuned(c)
  BY DEF LoopInv
<1>4. QED
  BY <1>1, <1>2, <1>3, RestoreIsNamed DEF AsAsked

\* A file or a deletion is added or taken away only by the operation that the client
\* of the thread asked for last, for the file it named there, in a session its user
\* is logged in to, in any number of connections of any users: by no stale code, no
\* broken connection and no other piece of a request.  The exceptions are of the
\* connection that makes the step: two answers for one request, and an upload that
\* breaks off before its name in a session without a folder, which stores the file
\* without a name.
THEOREM FilesAlwaysAsNamed == Spec => FilesAsNamed
<1>1. Init => TypesInv /\ LoopInv
  BY InitTypes, LoopInvInit
<1>2. TypesInv /\ LoopInv /\ [Next]_vars => (TypesInv /\ LoopInv)'
  BY NextTypes, LoopInvStep
<1>3. ASSUME TypesInv, LoopInv, [Next]_vars, NEW k, Change(k)
      PROVE  \E c \in Conn : AsAsked(c, k)
  <2>1. CASE \E c \in Conn : Thread(c)
    BY <1>3, <2>1, ChangeIsAsked
  <2>2. CASE DoubleDelete
    BY <1>3, <2>2, EndIsAsked
  <2>3. ~Underwrite /\ ~(UNCHANGED vars)
    BY <1>3, NoChange DEF Underwrite, Same, vars, tableVars
  <2>4. ASSUME NEW c \in Conn
        PROVE  ~(Accept(c) \/ Client(c) \/ GoOn(c) \/ Refuse(c))
    BY <1>3, NoChange DEF Accept, Client, Ask, Close, Break, Leave, GoOn, Refuse, tableVars
  <2>5. QED
    BY <1>3, <2>1, <2>2, <2>3, <2>4 DEF Next
<1>4. TypesInv /\ LoopInv /\ [Next]_vars =>
          \A k \in (files \ files') \cup (files' \ files)
                      \cup (deleted \ deleted') \cup (deleted' \ deleted) :
              \E c \in Conn :
                  /\ <<at[c], heard[c]>>' # <<at[c], heard[c]>>
                  /\ \/ surplus[c]
                     \/ /\ logged[c] /\ \E row \in users : row.user = user[c]
                        /\ k = KeyOf(c, named[c]) /\ k \in Changed(request[c])
                     \/ folderPath[c] = <<>> /\ wire[c] = <<>> /\ k = <<user[c], <<>>>>
  BY <1>3 DEF Change, AsAsked
<1>5. QED
  BY <1>1, <1>2, <1>4, PTL DEF Spec, FilesAsNamed

=============================================================================
