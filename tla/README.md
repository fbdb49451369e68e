# A TLA+ model of the backup server

`src/Backup_Server` is a Windows server that keeps versions of its users' files. A client
opens a TCP connection and asks for operations: sign in, log in, upload a file, mark it
deleted, remove it, list, restore a version. The server keeps a SQLite file, `PDSProject.db`,
and one file ("blob") per stored content under `C:\ProgramData\PoliHub\<user>\<number>`.

The state that matters lives in four places that nothing ties together: the tables, the page
cache and locks of each session's SQLite connection, the blobs on disk, and what the session
thread remembers between two calls. The models are about the steps between them.

## Inventory

| Part | State | Operations | Interacts with |
|---|---|---|---|
| Listener, `Backup_Server.cpp:76-105` | `threads_number` | accept, start a detached thread | creates a `ConnectionHandler` per connection |
| Session loop, `ConnectionHandler::operator()` 665-706 | the last operation code, the bytes on the wire | read a code, dispatch, end on an exception | calls the operations |
| Operations, `ConnectionHandler.cpp` | `user`, `logged`, `folderPath`, locals | the table of 25-36 | socket, blobs, its own `DatabaseHandler` |
| `DatabaseHandler` | its connection; the static mutex `m` | 17 methods a session reaches | SQLite file, other sessions through `m` |
| SQLite file (library) | tables, file locks, each connection's cache | statements, BEGIN, COMMIT, ROLLBACK | all connections, through locks |
| `EncryptionHandler` | none | SHA1 of a file or a string | blobs |
| Timestamps, `getTimestamp` | none | text of the local time | primary key and order of VERSIONS |

Tables: FILES (user, path, name), VERSIONS (user, path, name, lastModified, Blob, checksum; a
NULL Blob is a deletion), USERS. The build defines `PRECOMPILED` and `DEBUG`, so the `#else`
branches of `DatabaseHandler.cpp` are the program; the other branches state the same queries.

What is hard here:

- **One thread and one connection per client.** The mutex covers most writing methods but not
  their checks (`existsFile`, `isDeleted` come before the `lock_guard`), not `registerUser`, and
  no reader.
- **SQLITE_BUSY.** No connection sets a busy timeout. A reader makes a COMMIT fail; a writer in
  PENDING or EXCLUSIVE makes a read fail. Each method treats that differently: retry for ever
  (`createFileForUser`), ignore (`createNewBlobForFile`, `removeFile`), throw, answer `false`,
  answer an empty list.
- **Leaks that hold locks.** `registerUser` never finalizes its statement; the
  `DatabaseHandler` of a session is never deleted, so a transaction left open stays.
- **Row, content, checksum.** An upload is a transaction, then the content, then another
  transaction. A lost connection, a refused digest or a crash stops it in between.
- **Blob numbers** are `MAX(Blob) + 1` over the user's rows, so removing a file frees numbers,
  and restoring a version gives one number to several rows.
- **A request is a sequence of packets, with answers in between.** Some requests get two answers
  where the client waits for one (`deleteFile`, `signIn`), some get none, and the client cannot tell.
- **Nothing says how much was received.** An operation reads it with one `recv` per piece, and
  several ignore what `recv` returned: 0 of a closed connection and -1 of a broken one become
  texts, lengths and counts. The operation code is read in the same way, so after an orderly
  close the last operation is performed again.
- **Dates are text**, unpadded, of local time, in seconds; `MAX(lastModified)` decides which
  version is the last one and whether a file is deleted.

What makes each part correct: the file locks exclude writers (`LocksCompatible`); the tables
keep files and versions together (`FileHasBlob`, `NoOrphanVersions`), lose nothing
(`VersionsKept`), number without collision (`BlobHandedOnce`, `BlobOfOneFile`) and keep users
apart (`OtherUsersUntouched`); the operations keep checksums, blobs and answers in agreement
(`ChecksumOfContent`, `UploadDurable`, `DownloadedIsLast`); requests stay apart on the wire and
nothing changes but what a client named (`InStep`, `FilesAsNamed`); the newest date is the
newest version (`NewestDecides`, `MaxIsNewest`) and a date is one second's (`OneTextOneSecond`);
and nobody waits for ever (`MutexReleased`, `ReadersNeverWait`, `Answered`, `CloseEnds`). Taken together, for a user with one session the server
is a set of file histories that change one whole method at a time (`ImplementsHistory`).

## Modules

| Module | Extends | Models |
|---|---|---|
| `SqliteFile` | | locks and transactions of the database file |
| `DatabaseHandler` | `SqliteFile` | every method, statement by statement |
| `ConnectionHandler` | `DatabaseHandler` | the operations: calls, blobs on disk, answers |
| `VersionHistory` | | what the methods promise, without locks, statements or a table FILES |
| `DatabaseHistory` | `DatabaseHandler` | the refinement mapping to `VersionHistory` |
| `SessionLoop` | | the thread of a connection, its socket and its client |
| `TimestampText` | | the text of a date and the order of texts |
| `ServerClock` | `TimestampText` | the clock, local time, and the dates a file's versions get |
| `DatabaseHandlerProofs` | `DatabaseHandler`, `TLAPS` | proofs: the tables, for any sessions |
| `NewestVersionProofs` | `DatabaseHandlerProofs` | proofs: the newest version |
| `HistoryProofs` | `DatabaseHandlerProofs`, `DatabaseHistory` | proofs: no orphans, the refinement |
| `HandlerProofs` | `ConnectionHandler`, `DatabaseHandlerProofs` | proofs: how the operations use the tables |
| `UploadProofs` | `HandlerProofs`, `HistoryProofs` | proofs: rows, blobs and checksums of an upload |
| `DownloadProofs` | `UploadProofs`, `NewestVersionProofs` | proof: what a download leaves as the last version |
| `SessionLoopProofs` | `SessionLoop`, `TLAPS` | proofs: the protocol |
| `ClockProofs` | `ServerClock`, `TLAPS` | proofs: dates, their texts and their order |
| `MC...` | | instances |

**SqliteFile** (external). What the source relies on in SQLite's rollback-journal mode: `db`
is the committed content, `work` the cache of the one connection that writes, `lock[c]` its
file lock, `inTxn[c]` an open BEGIN, `stuck[c]` a write statement that got SQLITE_BUSY and is
still active. A COMMIT is two steps, taking EXCLUSIVE and writing the file, so that
others can run between them; the write itself is atomic, by the journal. A COMMIT that meets
readers leaves PENDING and the transaction open. The module knows nothing of the tables.
SQLite is not in the repository (its header is), so this is a model of the library's
documented behaviour, and every result about the server assumes it.

**DatabaseHandler**. One session step is one SQLite call. A method is a path through the
statements in `at[c]`: `exists`, `deleted`, `salt`, `select` (a SELECT is `Step`, then
`Finalize`; the SHARED lock is held between them), `lock` (the `lock_guard`), `count`
(`createNewBlobForFile`'s BEGIN and SELECTs), `body` (the statements that change the cache, all
under one RESERVED lock, so nobody can see between them), `commit`, `write`. `First`,
`AfterExists`, `AfterDeleted`, `AfterLock`, `AfterSelect`, `AfterBusySelect` are the control flow
of the methods, each error path included: `"throws"` an exception, `"absent"` -1 or false,
`"abort"` the fault of a NULL text. `GoTo` also gives the mutex back and notes who is logged in,
as the handlers do right after `logUser` and `registerUser`. `Crash` is a kill or that fault; `Leave`
the end of a thread, which keeps its connection.

| Variables | Code |
|---|---|
| `mutex` | `m` (`DatabaseHandler.cpp:10`) |
| `now`, constant `Stamp` | `time(0)`, the rank of `getTimestamp()`'s text |
| `at`, `open`, `method`, `file`, `sum` | position and arguments of the running method |
| `found`, `got`, `stamp`, `listing`, `answer` | what it read and how it ended |
| `logged` | `ConnectionHandler::logged` |

**ConnectionHandler**. `step[c]` is where the operation of a session is; each action is what
the handler does between two calls: it looks at `answer`, talks to the client, writes or reads a
blob, calls the next method (`CallThen`) or answers (`Reply`). `disk[u][b]` is the content of
a blob, equal to its digest; `Torn` is the digest of an incomplete one. The client is a choice: it
sends or breaks off, accepts or refuses. `ReadForever` is the loop on `eof()` of a stream that did
not open. Where a handler sends two answers (`deleteFile`'s ERR then OK, `signIn`'s after a
failed CreateDirectory) `reply` keeps the last.

Left out on purpose, and modelled in `SessionLoop`: requests refused before any call (not logged in,
name too long, path outside the folder) and the pieces of the protocol. Left out altogether: the
split of a path; passwords (whether the digests agree is a choice).

**VersionHistory** and **DatabaseHistory**. The abstract state is `published`, the registered users and
a set of versions per user and file; `draft`, the same with the changes of the session that writes; and
`writer`. A method is one step of `Change`, with the precondition its comment in
`DatabaseHandler.h` gives (the file exists, is not deleted, the number is above all the user's, the
date is new), checked against the draft at the moment it is made; `Publish` and `Discard` are COMMIT
and everything that loses a cache. The mapping is `published <- Histories(db)`, `draft <- Histories(work)`, `writer <-`
the session with a RESERVED or stronger lock. `HistoryIn` is `Null` for a file that only one of FILES and VERSIONS knows,
so the refinement also says that the two tables never disagree. It does not hold with two devices of one
user: the checks of `deleteFile`, `addVersion` and `createNewBlobForFile` come before the mutex.

**SessionLoop**. `at[c]` is where the thread is (in the loop, in an operation, in a loop that never
ends, ended), `code[c]` the buffer of `operator()`, which keeps the last operation, `heard[c]` what the
running operation received so far; one action per `recv`, from it to the next one or to the
return, up to the end of each operation: a download goes on to the client's confirmations of content and digest
(479, 490, 602, 613) and to the restore. A method of `DatabaseHandler` is one step here, with every result it may have.
`wire[c]` holds the pieces sent and not received; `peer[c]` is the other end: open, closed in good order,
refusing (closed, and the server sent something, so a reset will come), reset. `Got` is what `recv` returns: 1, 0 or
-1. The client is not in the repository; it asks with the pieces each operation reads and waits
where the server answers (`Request`), confirms what it receives or does not, and may close, break off or give up
anywhere. The table of users, the table of files and the deletions are kept as far as the properties need them.

`answers[c]` is a queue: what the server sent and the client did not read. A client takes the next answer for that to
its request, so a second answer to one request is the answer to its next. `deleteFile` gives two (ERR of
`receiveString`, 911, and ERR, 268; or ERR, 295, and OK, 297), and `signIn` does when `CreateDirectory` fails (836, 847);
`surplus[c]` records that it happened. From then on client and thread may be at different places of the protocol,
and a thread that takes one piece for another goes `astray` and is not followed further. `named[c]` and `request[c]`
are what the client asked for last. `Underwrite` is the write to `buffer[-1]` after a failed `recv`,
and `DoubleDelete` the second `delete` of `downloadPreviousVersion` (509) after an exception (507); both may end
the process (`ProcessEnds`).

**TimestampText** and **ServerClock**. `Timestamp` writes a local time as the code does, `Before` compares
as SQLite does. `Ranks` turns texts into the numbers `DatabaseHandler`'s constant `Stamp` takes: the
instances of the other modules run over two midnights of October 2015, from the tenth to the eleventh
(`InOrder`) and from the ninth to the tenth (`NinthToTenth`). `ServerClock` has a clock that goes on from
any moment to any later one. Its moments are dates in the standard time of the server's zone, whichever that
is, and `LocalTime` is an hour ahead where `SummerTime` says so, into the next day, month or year if need be.
`Turn` names the pairs of moments whose texts the code does not keep in order.

## Runs

Bounds are in the `.cfg` files: `MaxTime` seconds (two changes of a file in one second do
happen: the primary key conflict is reached), `MaxBlob` the highest number, one or two files,
two contents and a torn one. Two sessions are enough for every race found here: all of them are
between one session's two steps and another's one, and SQLite's lock table is about pairs. Sessions
may end, so several generations of clients are not modelled; a crash gives every client a new one.
Deadlock is checked in the runs of `DatabaseHandler` and `ConnectionHandler`, but finds nothing to
report: the process may always be killed and started again. In `session_loop` and `broken_sign_in`
sessions end and clients stop asking, in `timestamps` the moments run out, so it is switched off. It
is the liveness properties that speak of waiting.

| Run | Instance | Shows |
|---|---|---|
| `shared_user` | 2 devices of one user, 1 file, 2 s, numbers to 3, symmetric sessions | `TypeOK`, `FileHasBlob`, `BlobHandedOnce`, `VersionsKept`; `NewestDecides` when texts order as times |
| `two_users` | 2 users, one registers | `NoOrphanVersions`, `OtherUsersUntouched`, `ImplementsHistory` with left transactions and statements |
| `one_client` | 1 client, 2 files, 4 s, all changes | `ChecksumOfContent`, `BlobOfOneFile`, `UploadDurable`, `DownloadedIsLast` with broken uploads, dates of deletions and crashes |
| `two_devices` | one uploads and removes, one logs in, lists and downloads; fair | `MutexReleased`, `ReadersNeverWait` under SQLITE_BUSY and crashes |
| `session_loop` | 1 connection, any 5 requests, 3 names; fair | `SessionTypeOK`, `InStep`, `FilesAsNamed`, `Answered`, `CloseEnds` |
| `timestamps` | 79 moments, 2 versions of a file | `MaxIsNewest`, `OneTextOneSecond` |

`one_client` permutes its files and its two contents (`Interchangeable`), `shared_user` its
sessions (`Clients`): nothing in the model tells them apart, and no run with a symmetry checks liveness. `two_devices` needs locks, not dates: one second.
`session_loop` has one connection because a thread shares nothing with another below
`DatabaseHandler` but the process; five requests are a signIn, a logIn that gives the session its folder,
and any three after it. Its three names are a file of the folder, one elsewhere whose length is the greatest
that is read, and one that is too long. `timestamps` needs two versions because the order of texts is about pairs; its moments lie on both sides of
every change in the width of a field.

What each property leaves out, and where it is not claimed:

- `ReadersNeverWait` says that the thread of a read-only operation comes to the end of it, not that the client
  hears something: `logIn` and the listings may end the session with an exception, and `getUserFolder` may end
  the process (run `listing`).
- `ChecksumOfContent`, `UploadDurable` and `DownloadedIsLast` are claimed for a client that has the server for itself,
  the first not even for one device that writes and one that reads: the reader blocks the COMMIT of `removeFile`
  (826), the next upload takes the freed number inside the transaction left open, its COMMIT is blocked and ignored too
  (658), and opening the blob truncates the content of a row that is still in the file. That needs two files and two
  seconds; TLC finds it then. With two users or two writing devices the first two fail in the same way,
  `DownloadedIsLast` through the statement `registerUser` leaves active or a restore that overtakes an upload.
- `BlobOfOneFile` leaves number 0 out. `downloadPreviousVersion` takes any date (419-433); for that of a deletion `getBlob`
  reads the NULL blob as 0 (1023), and blob 0, the first upload of the user, is sent and restored whichever file it
  is of. `DownloadedIsLast` leaves out the one answer that compares with the version of such a number (`Shared`).
- `NoOrphanVersions` and `ImplementsHistory` fail with two devices of one user: the checks before the mutex.
- `InStep`, `FilesAsNamed` and `Answered` speak of a connection until one of its requests was given two answers. `FilesAsNamed`
  also lets a session without a folder store a file without a name at the end of its stream, and `Answered`
  leaves out a client that waits for the content of a download: `downloadPreviousVersion` returns in silence when `getBlob` throws (511),
  and both downloads send OK before they fail to open the blob (473, 590).
- `CloseEnds` leaves out the downloads, whose loops add 0 for ever (395).

The hazards in `PROJECT.json` say where each of these is in the code.

Six runs show where the code departs from what its comments say:

| Run | The comment | What happens |
|---|---|---|
| `broken_sign_in` | `ConnectionHandler.cpp:793` "username is ok" (801, 809 too) | a client that closes is registered with empty texts |
| `date_text` | `DatabaseHandler.h:129` "all the files that have been deleted" | deleted on the 10th, stored on the 9th: not deleted |
| `listing` | `DatabaseHandler.h:51` "returns for each file" | a row without a checksum ends the process |
| `commit_done` | `DatabaseHandler.cpp:660` "commit was done" | COMMIT was busy, nothing is in the file |
| `sign_in` | `ConnectionHandler.cpp:825` "all the login procedure has succeded" | a second try on a left statement is never committed |
| `last_version` | `ConnectionHandler.cpp:659` the client is not left waiting | the blob is gone, the sending loop never ends |

**Fairness.** `FairSpec` and `FairHandlerSpec` give weak fairness to every session's own steps:
each is an operating system thread, and a statement that is not waiting for the mutex can
always be executed (SQLITE_BUSY is an outcome, not a wait). A process that faulted ends. Nothing is assumed
of clients asking, leaving, crashes or the clock. `FairHandlerSpec` also lets a client that began
an operation go through with it or break off. The mutex needs no fairness of its own in the
properties claimed: readers never take it, and its owner never waits for it. `SessionLoop`'s
`FairSpec` is weak fairness of each thread, of the arrival of a reset at a socket that still sends, and of
a client that began a request: it sends the pieces it owes as long as it is there. It need not ask again,
and nothing makes it close or break off. Without the last of these three a client may stop half-way
in a request, and `recv` waits without a timeout, as in the code.

## Proofs

Every theorem is for all sets of sessions, users, files, contents or texts and for any bounds. They
rest on the named assumptions of the modules and on the model of SQLite. `DatabaseHandler`: a
session is one user's, `Null` is neither a session, a number nor a checksum, the clock has a first
second, `Stamp` ranks its texts. `ConnectionHandler`: `Torn` is a content, and `Operations` are
operations there are. `SessionLoop`: clients ask for codes, names and passwords are sequences of words
(`ClientAssumption`, `TextAssumption`), and a text of one character is not too long. `ServerClock`: moments are
dates of the calendar from 1970 to 3000, what `localtime_s` converts, and summer time is one hour
(`ClockAssumption`); which moments have it is left open.

| Module | Theorem | Hypothesis |
|---|---|---|
| `DatabaseHandlerProofs` | `Invariance`, `TypeCorrect`, `LocksAlwaysCompatible` | |
| | `FilesAlwaysHaveBlob`, `BlobAlwaysHandedOnce`, `VersionsAlwaysKept`, `OthersAlwaysUntouched` | |
| `NewestVersionProofs` | `NewestAlwaysDecides` | `StampsIncrease` |
| `HistoryProofs` | `HistoryInvariance`, `NoOrphansEver` | `OneSessionEach` |
| | `HistoryImplemented`: `Spec => ImplementsHistory` | `OneSessionEach` |
| `HandlerProofs` | `HandlerUses`, `HandlerTypesCorrect` | |
| `UploadProofs` | `ChecksumAlwaysOfContent`, `BlobAlwaysOfOneFile`, `UploadAlwaysDurable` | `OneSession` |
| `DownloadProofs` | `DownloadAloneIsLast` | `OneSession`, `StampsIncrease` |
| `SessionLoopProofs` | `SessionTypesCorrect`, `AlwaysInStep`, `FilesAlwaysAsNamed` | |
| `ClockProofs` | `NewestByText`, `TextsNameSeconds`, `RanksOrderTexts` | |
| | `StampsIncreaseBetweenTurns` | no `Turn` between two of the seconds |

The hypotheses describe how the server is used, and each is needed:

- `StampsIncrease`: the texts of the seconds order as the seconds do. `date_text` is what happens on the
  tenth of a month. `StampsIncreaseBetweenTurns` shows that only the turns of `Turn` break it.
- `OneSessionEach`: a user has one session. With two, `existsFile` before the mutex is stale when the
  change is made, and the properties fail.
- `OneSession`: there is one session, of one user. With two, whoever they are, a reader makes a COMMIT busy, and
  `createNewBlobForFile` and `removeFile` throw its result away (658, 826): what the theorems of `UploadProofs`
  say is then false of the code, as the section on the runs describes. One session is one computer that
  keeps its copies here; the broken connections, refused digests, freed numbers, restores and crashes that can go wrong
  in it are what the theorems are about.

**The tables.** None of the properties is inductive. A commit copies `work` over `db`, so everything has to be
said of the cache first. `IInv` adds: at `commit` and `write` the session holds a writing lock, EXCLUSIVE at
`write` (`CommitLocked`); `work` satisfies `HasBlob` too; the cache of a writer is the file plus its own changes
(`CacheCurrent`: outside an explicit transaction no row is missing, inside one only whole files
are), and only in its own user's rows (`CacheOwn`); a session that restores holds a number of the tables
(`RestoresNumber`). `LocksCompatible` makes "the writer" unique and keeps `db` still
while a cache differs from it: that is where transactions left open by an ignored COMMIT are
harmless to the tables. The distinction by `inTxn` in `CacheCurrent` is needed because `removeFile` after a
blocked COMMIT continues in the old transaction.

The proof is by the effect of a step on the file: `FileStep` classifies what every action does
to `db`, `work` and the locks (read, edit of one of five kinds with the statement it is made at, commit,
rollback, crash), each part of `IInv` is shown over that classification, and `Invariance` puts them together.
The later modules reuse it.

**The newest version.** No row of the file or of a cache has a date that is still to come, so the row a method adds
is the newest of its file.

**History.** With one session per user nobody else changes a user's rows, so what a method found before the mutex
holds in its own view (`AnswersHold`) up to the change, also inside a transaction left open. `HistoryInv` adds that
neither file nor cache has an orphan. The refinement follows step by step: an edit is a `Change` whose
precondition is `AnswersHold`, `IsNextBlob` and the key of VERSIONS, a write is `Publish`, a rollback, a crash or a failed
second statement `Discard`, and all else changes neither histories nor writer.

**The operations.** `HandlerUses` shows that whatever `ConnectionHandler` does is a step `DatabaseHandler` allows its
caller, or none, so that each theorem about `Spec` is one about the server. The reason is `HandlerInv`: a handler calls
`addChecksum` and `addVersion` only with the number its last call returned.

**Uploads.** `UploadInv` ties the steps of an upload together: a transaction is open only inside the method that began it
(`InsideMethod`: no COMMIT is busy where nobody else reads); the rows of the number an upload works on have no checksum
in file or cache until `addChecksum` (`FreshNumber`), so that overwriting the blob spoils none; from the digest to the
commit of the checksum the disk holds the content that was hashed (`DiskHeld`). A number above 0 that
`getBlob` returned is that of a row of the file it was asked for, and `MAX + 1` is never 0 once there is a version, so
`BlobOfOneFile` survives the dates of deletions.

**Downloads.** `DownloadInv` follows a download to its OK. While it compares dates nobody writes its user's rows, so the
date of the last version, kept in `lastVersion`, is still that when the date of the blob arrives (`DatesRead`); where no
other file has the number, the row with the blob's date is of the same file. A restore adds the newest row of the file
(`NewRowIsLast`, from the dates), and `addChecksum` changes neither date nor number (`MarkedIsLast`). A
connection holds a writing lock only to commit (`WritesToCommit`), which is what makes an answer imply the file. The
checksum is the content's by `UploadInv`.

**The protocol.** `LoopInv` says of every connection without a surplus answer (`Attuned`) how its wire, its client's plan, the
answers under way and its thread fit together. A request is one sequence of pieces and waits; `Places` says where in it an
operation reads. In an operation (`Serving`) the wire begins at the place of the next `recv`, and the client goes on as far
behind it as there are answers it has not read (`Fits`), so every OK meets a wait and no piece is sent before
its turn. In the loop nothing can come (`Quiet`: what is left of the plan waits for an answer that will not come, or the
last answer is an ERR), or a code with its request (`Coded`), or the name of a download refused for its
length (`Overlong`), or, only without a login, what is left of a request that was refused before it was read (`Stray`). Each is
needed: the client sends ahead the pieces that are not answered, asks again after `setUserPath`, and gives the rest up after
an ERR, so that a refusal leaves different things behind at different places. `Over` is a client that is gone: then every
text a `recv` yields is empty. `Recalls` carries the name through a download: what is restored at its end, after up
to six `recv`s, is the name the client asked for. `FilesAlwaysAsNamed` also uses that the empty name is in
no folder but the empty one. The proof goes operation by operation, with the three lemmas `AfterReturn`, `AfterHear` and
`AfterEnd` for the ways an operation goes on.

**Dates.** Two texts are in the order of the first character in which they differ (`Below`). Numbers written with as
many digits order as their values, so a date orders by its first field that differs, unless that is a month or a
day with one digit here and two there. Then they still differ, since the number of one digit is followed by `-` or a
space, which are below every digit (`WidthApart`): no two local times have one text, so the key of VERSIONS confuses two
seconds only where local time repeats (`TextsNameSeconds`). Local time keeps the order of the
moments except from summer time to standard time (`LocalTimeOrder`, by the hour, with `DayAfter` for 23). `ClockInv`
adds that the moments of the versions are in order and none is to come: the clock goes on, and the key
refuses a second version in one second. `RanksOrderTexts` justifies `Stamp`: SQLite compares two texts as their ranks
compare, whatever the dates, and two ranks are equal only if the texts are.

Only model-checked: the liveness properties `MutexReleased`, `ReadersNeverWait`, `Answered` and `CloseEnds` (fairness and
ENABLED are out of the provers' reach). No module uses RECURSIVE.

## Mutants

Each property is paired with a variant of a definition that breaks it, next to the definition
and marked `Mutant of`: `MAX` without `+ 1`, a `WHERE` without the user, a DELETE missing, a bind in the
wrong order, an answer before `addChecksum`, a statement never finalized, a busy read tried again,
a failed `existsFile` gone on from, a limit one too low, the answer between content and digest missing, the end of
the stream taken for an empty path, an hour that is not padded.

## Plan

Done: the SQLite file, every reachable method, the operations, the session loop with its socket, the abstract
history and its refinement, the text of dates; the theorems above.

Every safety property that a run checks is also a theorem, under the hypotheses of the table.

## Not modelled

- The cookie methods (`getCookie`, `logWithCookie`, `updateCookie`, `getUserFromCookie`) are in no table of
  operations; `prepareStatements` and its statements are not called.
- SHA1, salts, quoting and the SQL text are pure functions: a content is its digest, a query its rows.
- In `SessionLoop`: a piece split over two packets or joined with the next one (the comments at
  `ConnectionHandler.cpp:672` and 165 assume it away), an announced length that is not the one sent, a half-closed
  connection, and what a thread does once it has taken one piece for another.
- The sockets are never closed by the server and `threads_number` is never read: no property can be about a
  limit the code does not have.
- The legacy SQL Server files are not used. The OpenSSL and SQLite headers are about 97 of every 100
  lines counted as implementation; the server itself is 2600 lines, and most of those are mapped.
