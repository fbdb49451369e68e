---------------------------- MODULE TimestampText ----------------------------
(***************************************************************************)
(* The dates of VERSIONS: the text that DatabaseHandler::getTimestamp and  *)
(* ConnectionHandler::getCurrentTime write from localtime_s, and the order *)
(* in which SQLite compares it (MAX, ORDER BY and < of a TEXT column).     *)
(* The order is why the spelling matters here: month and day are not       *)
(* padded, what follows them is.                                           *)
(***************************************************************************)
EXTENDS Integers, Sequences, FiniteSets

\* A text is the sequence of the codes of its characters.
Space == 32
Dash == 45
Colon == 58

\* std::to_string of a number of at most four digits, as the fields of a date are.
Digit(n, k) == 48 + ((n \div k) % 10)

Digits(n) ==
    IF n < 10 THEN <<Digit(n, 1)>>
    ELSE IF n < 100 THEN <<Digit(n, 10), Digit(n, 1)>>
    ELSE IF n < 1000 THEN <<Digit(n, 100), Digit(n, 10), Digit(n, 1)>>
    ELSE <<Digit(n, 1000), Digit(n, 100), Digit(n, 10), Digit(n, 1)>>

\* if (n < 10) timestamp += '0'
Padded(n) == IF n < 10 THEN <<48>> \o Digits(n) ELSE Digits(n)

\* Mutant of DateText: no dash between month and day.
NoDash(t) == Digits(t.year) \o <<Dash>> \o Digits(t.month) \o Digits(t.day)

DateText(t) ==
    Digits(t.year) \o <<Dash>> \o Digits(t.month) \o <<Dash>> \o Digits(t.day)

\* Mutant of TimeText: the hour is not padded either.
BareHour(t) ==
    Digits(t.hour) \o <<Colon>> \o Padded(t.min) \o <<Colon>> \o Padded(t.sec)

TimeText(t) ==
    Padded(t.hour) \o <<Colon>> \o Padded(t.min) \o <<Colon>> \o Padded(t.sec)

\* The text of a local time.
Timestamp(t) == DateText(t) \o <<Space>> \o TimeText(t)

\* memcmp, and the shorter text of two that agree as far as it goes.
Before(a, b) ==
    \E n \in 0 .. Len(a) :
        /\ n < Len(b)
        /\ \A i \in 1 .. n : a[i] = b[i]
        /\ n = Len(a) \/ a[n + 1] < b[n + 1]

\* The place of each of some local times among the texts of all of them.
Ranks(local) ==
    [t \in DOMAIN local |->
        Cardinality({s \in DOMAIN local : Before(Timestamp(local[s]), Timestamp(local[t]))})]

=============================================================================
