-------------------------- MODULE MCBookingService --------------------------
(* Small instances of BookingService for TLC. *)
EXTENDS BookingService, TLC

S(start, end) == [start |-> start, end |-> end]
LongAndShort == {S(1, 2), S(2, 3), S(1, 3)}
Weekly == {<<S(1, 2), S(2, 3)>>}
\* Also a rule whose instances last longer than they are apart.
WeeklyAndLong == Weekly \cup {<<S(1, 3), S(2, 4)>>}
None == {}
HalfBefore == [full |-> 2, percent |-> 50, partial |-> 1]
FullOrNothing == [full |-> 2, percent |-> 0, partial |-> 0]

\* Up to four bookings, any two of them possibly at the same time.
SampleBookings == [id : {1, 2}, start : 0 .. 2, end : 1 .. 3]
SmallCalendars == {c \in SUBSET {b \in SampleBookings : b.start < b.end} : Cardinality(c) <= 4}

Interchangeable == Permutations(Requests)
=============================================================================
