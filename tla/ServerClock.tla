----------------------------- MODULE ServerClock -----------------------------
(***************************************************************************)
(* The clock of the server and the dates it gives to the versions of a     *)
(* file: time(0) goes on, localtime_s makes a local time of it that is set *)
(* back an hour in autumn, and what the program keeps is its text.         *)
(***************************************************************************)
EXTENDS TimestampText

CONSTANTS
    Instants,     \* the moments of the clock that are looked at, in standard time
    SummerTime,   \* SummerTime[u]: is summer time in force at u
    MaxVersions   \* bound: the versions of the file

VARIABLES
    now,          \* time(0)
    versions      \* the moments at which the file got a version, in order

vars == <<now, versions>>

DaysOf(year, month) ==
    IF month \in {4, 6, 9, 11} THEN 30
    ELSE IF month # 2 THEN 31
    ELSE IF year % 4 = 0 /\ (year % 100 # 0 \/ year % 400 = 0) THEN 29 ELSE 28

\* The moments that localtime_s converts, in the standard time of the server's zone.
Moments ==
    {u \in [year : 1970 .. 3000, month : 1 .. 12, day : 1 .. 31, hour : 0 .. 23,
            min : 0 .. 59, sec : 0 .. 59] : u.day <= DaysOf(u.year, u.month)}

ASSUME ClockAssumption ==
    /\ Instants \subseteq Moments
    /\ SummerTime \in [Instants -> BOOLEAN]
    /\ MaxVersions \in Nat

Fields(u) == <<u.year, u.month, u.day, u.hour, u.min, u.sec>>

\* The order of the moments, and of local times that are not repeated.
Earlier(u, v) ==
    \E n \in 1 .. 6 :
        /\ \A i \in 1 .. n - 1 : Fields(u)[i] = Fields(v)[i]
        /\ Fields(u)[n] < Fields(v)[n]

\* The same time of the next day.
DayAfter(u) ==
    IF u.day < DaysOf(u.year, u.month) THEN [u EXCEPT !.day = @ + 1]
    ELSE IF u.month < 12 THEN [u EXCEPT !.month = @ + 1, !.day = 1]
    ELSE [u EXCEPT !.year = @ + 1, !.month = 1, !.day = 1]

\* localtime_s: summer time is an hour ahead.
LocalTime(u) ==
    IF ~SummerTime[u] THEN u
    ELSE IF u.hour < 23 THEN [u EXCEPT !.hour = @ + 1]
    ELSE [DayAfter(u) EXCEPT !.hour = 0]

Init == now \in Instants /\ versions = <<>>

Tick ==
    /\ now' \in {u \in Instants : Earlier(now, u)}
    /\ UNCHANGED versions

\* createFileForUser, createNewBlobForFile, deleteFile or addVersion: a version
\* with the date of now, not twice in a second (the key of VERSIONS).
NewVersion ==
    /\ Len(versions) < MaxVersions
    /\ \A i \in 1 .. Len(versions) : Timestamp(LocalTime(versions[i])) # Timestamp(LocalTime(now))
    /\ versions' = Append(versions, now)
    /\ UNCHANGED now

Next == Tick \/ NewVersion

Spec == Init /\ [][Next]_vars

-----------------------------------------------------------------------------
Date(i) == Timestamp(LocalTime(versions[i]))

\* SELECT MAX(lastModified): the versions getLastVersion and the others go by.
IsLast(i) == \A j \in 1 .. Len(versions) : ~Before(Date(i), Date(j))

\* The turns of a calendar the texts do not survive: from a month or a day of one
\* digit to one of two, and the hour that comes twice when summer time ends.
Turn(u, v) ==
    LET s == LocalTime(u)
        t == LocalTime(v)
    IN  \/ s.year = t.year /\ s.month < 10 /\ t.month >= 10
        \/ s.year = t.year /\ s.month = t.month /\ s.day < 10 /\ t.day >= 10
        \/ SummerTime[u] /\ ~SummerTime[v] /\ ~Earlier(s, t)

\* The version a query takes for the last one is the last one, unless one of
\* those turns lies between a version and it: nothing else about the clock (midnight,
\* a new month or year, an hour below ten) ever confuses the versions of a file.
MaxIsNewest ==
    \A i \in 1 .. Len(versions) :
        IsLast(i) /\ i # Len(versions) =>
            Turn(versions[i], versions[Len(versions)])

\* The hour that comes twice: v has the local time that u had in summer time.
Again(u, v) == SummerTime[u] /\ ~SummerTime[v] /\ LocalTime(u) = v

\* The key of VERSIONS refuses a version for the date of another one in the second
\* that other was made in, and in the second that has its local time when an hour
\* comes twice, and in no other second: neither the unpadded month and day
\* (DatabaseHandler.cpp:1366) nor summer time makes one text of two dates else.
OneTextOneSecond ==
    \A i \in 1 .. Len(versions) :
        Date(i) = Timestamp(LocalTime(now)) <=>
            versions[i] = now \/ Again(versions[i], now)

=============================================================================
