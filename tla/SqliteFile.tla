----------------------------- MODULE SqliteFile -----------------------------
(***************************************************************************)
(* The database file PDSProject.db as the server's SQLite connections see  *)
(* it.  SQLite is a library (only its header is in the repository), so     *)
(* this module is external: it keeps what DatabaseHandler.cpp depends on,  *)
(* the rollback-journal locks of a file opened by sqlite3_open with no     *)
(* busy timeout, and the outcome of BEGIN, COMMIT, ROLLBACK and of one     *)
(* statement.  The content of the file is opaque here.                     *)
(***************************************************************************)

CONSTANT Session           \* connected clients: a thread and a connection each

VARIABLES
    db,      \* the committed content of the file
    work,    \* the content in the page cache of the one connection that writes
    lock,    \* lock[c]: the file lock connection c holds
    inTxn,   \* inTxn[c]: an explicit BEGIN of c is open
    stuck    \* stuck[c]: c has a write statement that got SQLITE_BUSY and was
             \* neither finalized nor reset

fileVars == <<db, work, lock, inTxn, stuck>>

Locks == {"none", "shared", "reserved", "pending", "exclusive"}
Writing == {"reserved", "pending", "exclusive"}
Closing == {"pending", "exclusive"}     \* no new reader may enter

FileInit(content) ==
    /\ db = content
    /\ work = content
    /\ lock = [c \in Session |-> "none"]
    /\ inTxn = [c \in Session |-> FALSE]
    /\ stuck = [c \in Session |-> FALSE]

OthersHold(c, held) == \E o \in Session \ {c} : lock[o] \in held

\* When a statement of c gets its lock at once; otherwise it gets SQLITE_BUSY.
MayRead(c) == lock[c] # "none" \/ ~OthersHold(c, Closing)
MayWrite(c) == MayRead(c) /\ ~OthersHold(c, Writing)

\* When a commit of c succeeds: c has no write statement left active, and
\* nobody reads or no page was changed.
MayCommit(c) == ~stuck[c] /\ (work = db \/ ~OthersHold(c, Locks \ {"none"}))

\* What a SELECT of c reads.
View(c) == IF lock[c] \in Writing THEN work ELSE db

-----------------------------------------------------------------------------
(* A SELECT: stepped to its row, then finalized.                           *)

StartRead(c) ==
    /\ MayRead(c)
    /\ lock' = [lock EXCEPT ![c] = IF @ = "none" THEN "shared" ELSE @]
    /\ UNCHANGED <<db, work, inTxn, stuck>>

EndRead(c) ==
    /\ lock' = [lock EXCEPT ![c] =
                    IF @ = "shared" /\ ~inTxn[c] /\ ~stuck[c] THEN "none" ELSE @]
    /\ UNCHANGED <<db, work, inTxn, stuck>>

-----------------------------------------------------------------------------
(* Writing: the statement changes c's page cache under a RESERVED lock.    *)

BeginRead(c) ==
    /\ MayRead(c)
    /\ lock' = [lock EXCEPT ![c] = IF @ = "none" THEN "shared" ELSE @]
    /\ inTxn' = [inTxn EXCEPT ![c] = TRUE]
    /\ UNCHANGED <<db, work, stuck>>

Reserve(c, content, txn) ==
    /\ MayWrite(c)
    /\ lock' = [lock EXCEPT ![c] = IF @ \in Writing THEN @ ELSE "reserved"]
    /\ work' = content
    /\ inTxn' = [inTxn EXCEPT ![c] = txn]
    /\ UNCHANGED <<db, stuck>>

\* A COMMIT that may proceed takes the EXCLUSIVE lock, then writes the file;
\* the rollback journal makes the write atomic.
TakeExclusive(c) ==
    /\ MayCommit(c) /\ work # db
    /\ lock' = [lock EXCEPT ![c] = "exclusive"]
    /\ UNCHANGED <<db, work, inTxn, stuck>>

CommitNothing(c) ==
    /\ MayCommit(c) /\ work = db
    /\ lock' = [lock EXCEPT ![c] = "none"]
    /\ inTxn' = [inTxn EXCEPT ![c] = FALSE]
    /\ UNCHANGED <<db, work, stuck>>

WriteFile(c) ==
    /\ lock[c] = "exclusive"
    /\ db' = work
    /\ work' = work
    /\ lock' = [lock EXCEPT ![c] = "none"]
    /\ inTxn' = [inTxn EXCEPT ![c] = FALSE]
    /\ UNCHANGED stuck

\* A COMMIT that gets SQLITE_BUSY leaves the transaction open.  Readers in its
\* way leave it the PENDING lock; a statement of its own leaves it as it was.
BlockedCommit(c) ==
    /\ ~MayCommit(c)
    /\ lock' = [lock EXCEPT ![c] = IF stuck[c] THEN @ ELSE "pending"]
    /\ UNCHANGED <<db, work, inTxn, stuck>>

\* ROLLBACK after a statement that failed, or a failed commit outside a
\* transaction.  An active statement keeps the SHARED lock.
Rollback(c) ==
    /\ lock' = [lock EXCEPT ![c] =
                    IF stuck[c] /\ (@ # "none" \/ MayWrite(c)) THEN "shared" ELSE "none"]
    /\ work' = IF lock[c] \in Writing THEN db ELSE work
    /\ inTxn' = [inTxn EXCEPT ![c] = FALSE]
    /\ UNCHANGED <<db, stuck>>

\* The process dies: locks and caches go, a hot journal is rolled back.
FileCrash ==
    /\ work' = db
    /\ lock' = [c \in Session |-> "none"]
    /\ inTxn' = [c \in Session |-> FALSE]
    /\ stuck' = [c \in Session |-> FALSE]
    /\ UNCHANGED db

\* A write statement that gets SQLITE_BUSY and is not finalized stays active
\* (unless it could not even be prepared, which needs the SHARED lock).
LeaveActive(c) ==
    /\ ~MayWrite(c)
    /\ \E active \in {TRUE} \cup (IF MayRead(c) THEN {} ELSE {stuck[c]}) :
          stuck' = [stuck EXCEPT ![c] = active]
    /\ UNCHANGED <<db, work, lock, inTxn>>

-----------------------------------------------------------------------------
\* The lock table SQLite keeps: one connection writes at a time, and alone
\* while it writes the file.
LocksCompatible ==
    \A c, o \in Session : c # o =>
        /\ ~(lock[c] \in Writing /\ lock[o] \in Writing)
        /\ lock[c] = "exclusive" => lock[o] = "none"

=============================================================================
