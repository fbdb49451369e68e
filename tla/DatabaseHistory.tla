--------------------------- MODULE DatabaseHistory ---------------------------
(***************************************************************************)
(* DatabaseHandler implements VersionHistory: the file's content is what   *)
(* is published, and the page cache of the connection that writes is the   *)
(* draft.  A file in one of the tables FILES and VERSIONS and not in the   *)
(* other has no history.                                                   *)
(***************************************************************************)
EXTENDS DatabaseHandler

\* The rows of one file without the columns that name it.
Versions(d, u, f) ==
    {[stamp |-> r.stamp, blob |-> r.blob, checksum |-> r.checksum] :
        r \in RowsOf(d.versions, u, f)}

HistoryIn(d, u, f) ==
    IF <<u, f>> \in d.files <=> Versions(d, u, f) # {} THEN Versions(d, u, f) ELSE Null

Histories(d) ==
    [users |-> d.users, history |-> [u \in User |-> [f \in File |-> HistoryIn(d, u, f)]]]

Writer ==
    IF \E c \in Session : lock[c] \in Writing
    THEN CHOOSE c \in Session : lock[c] \in Writing
    ELSE Null

History == INSTANCE VersionHistory
    WITH published <- Histories(db), draft <- Histories(work), writer <- Writer

\* With one session per user the checks a method makes before it takes m
\* (DatabaseHandler.cpp:404, 562, 670, 704, 793) still hold when it changes the
\* tables, and each commit publishes whole methods of one session, also where
\* COMMIT's result is ignored.
ImplementsHistory == History!Spec

=============================================================================
