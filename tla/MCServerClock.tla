---------------------------- MODULE MCServerClock ----------------------------
(* Instances of ServerClock for TLC.                                       *)
EXTENDS ServerClock, TLC

Moment(y, mo, d, h, mi, s) ==
    [year |-> y, month |-> mo, day |-> d, hour |-> h, min |-> mi, sec |-> s]

\* Either side of each change in the number of digits of a field, of midnight, of
\* a month and a year, and of the end of summer time on 25 October 2015 at 2:00.
Calendar ==
    {Moment(2015, mo, d, h, 9, 30) : mo \in {1, 9, 10, 11}, d \in {1, 9, 10, 11}, h \in {0, 8, 9, 23}}
    \cup {Moment(2015, 9, 30, 23, 9, 30), Moment(2016, 1, 1, 0, 0, 0), Moment(2016, 12, 1, 0, 0, 0)}
    \cup {Moment(2015, 10, 25, h, mi, s) : h \in {1, 2}, mi \in {9, 10, 40}, s \in {5, 50}}

TurinSummer ==
    [u \in Calendar |->
        /\ u.year = 2015
        /\ Earlier(u, Moment(2015, 10, 25, 2, 0, 0))
        /\ Earlier(Moment(2015, 3, 29, 1, 59, 59), u)]

=============================================================================
