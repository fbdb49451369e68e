--------------------------- MODULE VersionHistory ---------------------------
(***************************************************************************)
(* What DatabaseHandler promises when every user has one session.  A user  *)
(* has a history per file, the set of its versions; a file exists when its *)
(* history is not empty.  One session at a time drafts changes, each of    *)
(* them a whole method, and each allowed by the draft at the moment it is  *)
(* made; then all of the draft is published at once, or none of it.        *)
(*                                                                         *)
(* There are no locks here, no statements and no second table for the      *)
(* names of files.                                                         *)
(***************************************************************************)
EXTENDS Naturals

CONSTANTS Session, User, UserOf, File, Stamps, Blob, Checksum, Null

VARIABLES
    published,   \* the users and the histories every session can read
    draft,       \* the same, with the changes of the session that writes
    writer       \* that session, or Null

vars == <<published, draft, writer>>

Empty == [u \in User |-> [f \in File |-> {}]]

Init ==
    /\ \E known \in SUBSET User : published = [users |-> known, history |-> Empty]
    /\ draft = published
    /\ writer = Null

-----------------------------------------------------------------------------
(* The changes.                                                            *)

History(c, f) == draft.history[UserOf[c]][f]

\* The version with the greatest date text says whether the file is deleted.
Deleted(h) == \E v \in h : v.blob = Null /\ \A w \in h : w.stamp <= v.stamp

Unused(c, b) ==
    \A f \in File : \A v \in History(c, f) : v.blob # Null => v.blob < b

Draft(users, history) == draft' = [users |-> users, history |-> history]

Rewrite(c, f, h) == Draft(draft.users, [draft.history EXCEPT ![UserOf[c]][f] = h])

\* One more version, of a date text the file does not have yet.
AddTo(c, f, s, b) ==
    /\ \A v \in History(c, f) : v.stamp # s
    /\ Rewrite(c, f, History(c, f) \cup {[stamp |-> s, blob |-> b, checksum |-> Null]})

StoreFile(c, f, s, b) == History(c, f) = {} /\ Unused(c, b) /\ AddTo(c, f, s, b)
StoreVersion(c, f, s, b) == History(c, f) # {} /\ Unused(c, b) /\ AddTo(c, f, s, b)
RestoreVersion(c, f, s, b) == History(c, f) # {} /\ AddTo(c, f, s, b)

DeleteFile(c, f, s) ==
    /\ History(c, f) # {} /\ ~Deleted(History(c, f))
    /\ AddTo(c, f, s, Null)

RemoveFile(c, f) == History(c, f) # {} /\ Rewrite(c, f, {})

Recorded(h, b, s) == {IF v.blob = b THEN [v EXCEPT !.checksum = s] ELSE v : v \in h}

RecordChecksum(c, b, s) ==
    Draft(draft.users, [draft.history EXCEPT ![UserOf[c]] =
        [f \in File |-> Recorded(History(c, f), b, s)]])

Register(c) ==
    /\ UserOf[c] \notin draft.users
    /\ Draft(draft.users \cup {UserOf[c]}, draft.history)

-----------------------------------------------------------------------------
(* Who may change the draft, and what becomes of it.                       *)

\* A session may also take the right to write and change nothing.
Change(c) ==
    /\ writer \in {Null, c}
    /\ writer' = c
    /\ UNCHANGED published
    /\ \/ UNCHANGED draft
       \/ \E f \in File, s \in Stamps :
             \/ \E b \in Blob : \/ StoreFile(c, f, s, b) \/ StoreVersion(c, f, s, b)
                               \/ RestoreVersion(c, f, s, b)
             \/ DeleteFile(c, f, s)
       \/ \E f \in File : RemoveFile(c, f)
       \/ \E b \in Blob \cup {Null}, s \in Checksum \cup {Null} : RecordChecksum(c, b, s)
       \/ Register(c)

Publish(c) ==
    /\ writer = c
    /\ writer' = Null
    /\ published' = draft
    /\ UNCHANGED draft

Discard ==
    /\ writer' = Null
    /\ UNCHANGED published
    /\ draft' = published

Next == (\E c \in Session : Change(c) \/ Publish(c)) \/ Discard

Spec == Init /\ [][Next]_vars

=============================================================================
