--------------------------- MODULE BookingService ---------------------------
(***************************************************************************)
(* backend/src/bookings/bookings.service.ts and the deletion of a          *)
(* workspace in workspaces.service.ts, for one workspace: requests run     *)
(* concurrently, a step is a database call or a committed transaction.     *)
(* findOne and find give a request a copy of a row; save of the copy       *)
(* selects the row again and then updates the columns in which the copy    *)
(* differs from it.  Only the creation of bookings and the deletion of the *)
(* workspace take the lock on its row.                                     *)
(***************************************************************************)
EXTENDS Integers, FiniteSets, Folds, Sequences

-----------------------------------------------------------------------------
(* ConflictDetectionService and CapacityCheckService as operators on what   *)
(* their queries return.  A booking is any record with start and end;       *)
(* booked is the set of PENDING and CONFIRMED bookings of one workspace,    *)
(* blocked the set of its maintenance windows.                              *)

Larger(x, y) == IF x > y THEN x ELSE y
Smaller(x, y) == IF x < y THEN x ELSE y

\* The WHERE clause of all four queries.
Overlaps(b, start, end) == b.start < end /\ b.end > start
Overlapping(booked, start, end) == {b \in booked : Overlaps(b, start, end)}

\* Two events for the request and two for each overlapping booking, cut to the
\* request.  What an event belongs to keeps events at the same time apart.
Events(over, start, end) ==
    LET all == over \cup {[start |-> start, end |-> end]}
    IN  {[time |-> Larger(start, b.start), type |-> "start", of |-> b] : b \in all}
        \cup {[time |-> Smaller(end, b.end), type |-> "end", of |-> b] : b \in all}

\* Mutant of Before: a booking that ends when another starts counts as overlapping.
BeforeStartFirst(e, f) ==
    \/ e.time < f.time
    \/ e.time = f.time /\ e.type = "start" /\ f.type = "end"

\* events.sort: by time, and an end before a start at the same time.
Before(e, f) ==
    \/ e.time < f.time
    \/ e.time = f.time /\ e.type = "end" /\ f.type = "start"

\* An event none of the set comes after: the fold meets the events in reverse.
LastOf(events) == CHOOSE e \in events : \A f \in events : ~Before(e, f)

Count(event, c) ==
    IF event.type = "start"
    THEN [current |-> c.current + 1, max |-> Larger(c.max, c.current + 1)]
    ELSE [current |-> c.current - 1, max |-> c.max]

MaxConcurrent(over, start, end) ==
    MapThenFoldSet(Count, [current |-> 0, max |-> 0], LAMBDA e : e, LastOf,
                   Events(over, start, end)).max

\* hasConflict.  Which of several overlapping rows it names is up to the database,
\* and left out.  With no overlapping booking the capacity is not looked at.
NoConflict == [reason |-> "none", available |-> 0]
HasConflict(booked, blocked, capacity, start, end) ==
    LET over == Overlapping(booked, start, end)
        max == MaxConcurrent(over, start, end)
    IN  IF Overlapping(blocked, start, end) # {}
        THEN [reason |-> "maintenance", available |-> 0]
        ELSE IF over # {} /\ max > capacity
        THEN [reason |-> "capacity_exceeded", available |-> Larger(0, capacity - (max - 1))]
        ELSE NoConflict

\* Mutant of Available: bookings that began before the hour are missed.
AvailableByStart(booked, capacity, start, end) ==
    Larger(0, capacity - Cardinality({b \in booked : start <= b.start /\ b.start < end}))

\* hasCapacity, and each hour of getHourlyAvailability: they count every booking
\* that overlaps the interval, however short it is.
Available(booked, capacity, start, end) ==
    Larger(0, capacity - Cardinality(Overlapping(booked, start, end)))

\* The reference definition.

\* How many bookings take place at an instant.
Load(booked, t) == Cardinality({b \in booked : b.start <= t /\ t < b.end})

-----------------------------------------------------------------------------
(* The service *)

CONSTANTS
    Requests, NoRequest,    \* requests in flight
    Users,
    Slots,                  \* bound: the [start, end] that are asked for
    SeriesShapes,           \* bound: the expansions of the recurrence rules in use
    Maintenance,            \* maintenance windows; nothing in the backend writes them
    Capacity,
    Policy,                 \* the CancellationPolicy of this type of workspace
    DefaultPolicy,
    Samples,                \* bound: the calendars the sweep is checked on
    MaxBookings, MaxTime    \* bounds

Slot == [start : Nat, end : Nat]

\* A workspace of capacity 0 takes a first booking all the same.  That no instance is
\* empty is checked before the rule is expanded; a daily rule of bookings longer than a
\* day gives instances that overlap each other.
Lasting(shape) == \A i \in DOMAIN shape : shape[i].start < shape[i].end
ASSUME SlotsAssumption == /\ Slots \cup Maintenance \subseteq Slot
                          /\ SeriesShapes \subseteq Seq(Slot)
                          /\ \A shape \in SeriesShapes : Lasting(shape)
ASSUME SamplesAssumption ==
    \A booked \in Samples :
        /\ IsFiniteSet(booked) /\ booked \subseteq [id : Nat, start : Nat, end : Nat]
        /\ \A b \in booked : b.start < b.end
ASSUME NumbersAssumption == {MaxBookings, MaxTime} \subseteq Nat /\ Capacity \in Nat \ {0}
ASSUME NoRequestAssumption == NoRequest \notin Requests

BookingId == 1 .. MaxBookings
Status == {"Pending", "Confirmed", "Cancelled"}
Live == {"Pending", "Confirmed"}

\* refund is "unset" or the bracket of the cancellation policy; series is 0 or the
\* id of the first instance.
Refunds == {"unset", "full", "partial", "zero"}
Row == [user : Users, start : Nat, end : Nat, status : Status,
        series : {0} \cup BookingId, refund : Refunds]
NoRow == [status |-> "None", series |-> 0]
\* The columns that confirm and cancel change.
Columns == {"status", "refund"}

VARIABLES
    rows,               \* the bookings table
    deleted,            \* the workspace row: deletedAt is set
    lock,               \* the request that holds the lock on the workspace row
    escrowEvents,       \* outbox: bookings with a STELLAR_ESCROW_CREATE event
    confirmEvents,      \* outbox: number of STELLAR_BOOKING_CONFIRMED events
    webhooks,           \* number of booking.confirmed callbacks enqueued
    request,            \* what each request has read and is about to do
    now,
    everCancelled       \* history: bookings that were Cancelled at some time

outbox == <<escrowEvents, confirmEvents>>
vars == <<rows, deleted, lock, outbox, webhooks, request, now, everCancelled>>

Exists(id) == rows[id] # NoRow
Stored == {id \in BookingId : Exists(id)}
Booked == {[id |-> id, start |-> rows[id].start, end |-> rows[id].end] :
              id \in {i \in Stored : rows[i].status \in Live}}

Idle == [at |-> "idle"]
\* What a request keeps between two steps; copies are rows by their id.
Local(q) ==
    \/ q = Idle
    \/ q \in [at : {"create"}, user : Users, slots : Seq(Slot), series : BOOLEAN]
    \/ q \in [at : {"notify"}, id : BookingId]
    \/ q \in [at : {"delete"}, ids : SUBSET BookingId]
    \/ /\ q.at \in {"confirm", "cancel"}
       /\ q = [at |-> q.at, copies |-> q.copies]
       /\ q.copies \in [DOMAIN q.copies -> Row] /\ DOMAIN q.copies \subseteq BookingId
    \/ /\ q.at \in {"confirmUpdate", "cancelUpdate"}
       /\ q = [at |-> q.at, copies |-> q.copies, columns |-> q.columns]
       /\ q.copies \in [DOMAIN q.copies -> Row] /\ DOMAIN q.copies \subseteq BookingId
       /\ q.columns \in [DOMAIN q.copies -> SUBSET Columns]

TypeOK ==
    /\ rows \in [BookingId -> Row \cup {NoRow}]
    /\ deleted \in BOOLEAN
    /\ lock \in Requests \cup {NoRequest}
    /\ escrowEvents \subseteq BookingId
    /\ {confirmEvents, webhooks} \subseteq [BookingId -> Nat]
    /\ DOMAIN request = Requests
    /\ \A r \in Requests : /\ Local(request[r])
                           /\ request[r].at = "create" <=> lock = r
    /\ now \in Nat
    /\ everCancelled \subseteq BookingId

Init ==
    /\ rows = [id \in BookingId |-> NoRow]
    /\ deleted = FALSE
    /\ lock = NoRequest
    /\ escrowEvents = {}
    /\ confirmEvents = [id \in BookingId |-> 0]
    /\ webhooks = [id \in BookingId |-> 0]
    /\ request = [r \in Requests |-> Idle]
    /\ now = 0
    /\ everCancelled = {}

At(r, place) == request[r].at = place
Goto(r, local) == request' = [request EXCEPT ![r] = local]

-----------------------------------------------------------------------------
(* create *)

Refused(s) == HasConflict(Booked, Maintenance, Capacity, s.start, s.end) # NoConflict

\* Mutant of Check: the row is read without the lock.
CheckUnlocked(r, u, slots, series) ==
    /\ At(r, "idle")
    /\ ~deleted
    /\ \A k \in DOMAIN slots : ~Refused(slots[k])
    /\ Cardinality(Stored) + Len(slots) <= MaxBookings
    /\ Goto(r, [at |-> "create", user |-> u, slots |-> slots, series |-> series])
    /\ UNCHANGED <<rows, deleted, lock, outbox, webhooks, now, everCancelled>>

\* The transaction up to the last hasConflict: the workspace row is locked and not
\* deleted, and every instance is free.  A request that finds a conflict ends here.
Check(r, u, slots, series) ==
    /\ At(r, "idle")
    /\ lock = NoRequest
    /\ ~deleted
    /\ \A k \in DOMAIN slots : ~Refused(slots[k])
    /\ Cardinality(Stored) + Len(slots) <= MaxBookings     \* bound
    /\ lock' = r
    /\ Goto(r, [at |-> "create", user |-> u, slots |-> slots, series |-> series])
    /\ UNCHANGED <<rows, deleted, outbox, webhooks, now, everCancelled>>

CreateCheck(r, u, s) == s.end > s.start /\ Check(r, u, <<s>>, FALSE)
CreateSeriesCheck(r, u, shape) == shape # <<>> /\ Check(r, u, shape, TRUE)

\* The uuids of the database are numbers in the order of insertion.
NewRow(local, first, id) ==
    [user |-> local.user, status |-> "Pending", refund |-> "unset",
     start |-> local.slots[id - first + 1].start, end |-> local.slots[id - first + 1].end,
     series |-> IF local.series THEN first ELSE 0]

\* Insert and commit.  The outbox event belongs to the path of a single booking.
CreateCommit(r) ==
    /\ At(r, "create")
    /\ LET local == request[r]
           first == Cardinality(Stored) + 1
           ids == first .. first + Len(local.slots) - 1
       IN  /\ rows' = [id \in BookingId |-> IF id \in ids THEN NewRow(local, first, id) ELSE rows[id]]
           /\ escrowEvents' = IF local.series THEN escrowEvents ELSE escrowEvents \cup ids
    /\ lock' = NoRequest
    /\ Goto(r, Idle)
    /\ UNCHANGED <<deleted, confirmEvents, webhooks, now, everCancelled>>

-----------------------------------------------------------------------------
(* save *)

Changed(copy, row) == {c \in Columns : copy[c] # row[c]}

\* save selects the rows of its copies and finds the columns that differ.
SaveSelect(r) ==
    /\ At(r, "confirm") \/ At(r, "cancel")
    /\ LET copies == request[r].copies
       IN  Goto(r, [at |-> IF At(r, "confirm") THEN "confirmUpdate" ELSE "cancelUpdate",
                    copies |-> copies,
                    columns |-> [id \in DOMAIN copies |-> Changed(copies[id], rows[id])]])
    /\ UNCHANGED <<rows, deleted, lock, outbox, webhooks, now, everCancelled>>

\* The row after the update of these columns.
Updated(row, copy, columns) ==
    [row EXCEPT !.status = IF "status" \in columns THEN copy.status ELSE @,
                !.refund = IF "refund" \in columns THEN copy.refund ELSE @]

SaveUpdate(r) ==
    rows' = [id \in BookingId |->
               IF id \in DOMAIN request[r].copies
               THEN Updated(rows[id], request[r].copies[id], request[r].columns[id])
               ELSE rows[id]]

-----------------------------------------------------------------------------
(* confirm *)

ConfirmedCopy(id) == [rows[id] EXCEPT !.status = "Confirmed"]

\* The verification of the payment is outside: it succeeds, or the request ends (Abort).
ConfirmRead(r, id) ==
    /\ At(r, "idle")
    /\ Exists(id)
    /\ rows[id].status = "Pending"
    /\ Goto(r, [at |-> "confirm", copies |-> [i \in {id} |-> ConfirmedCopy(i)]])
    /\ UNCHANGED <<rows, deleted, lock, outbox, webhooks, now, everCancelled>>

\* The update, the outbox event and commit.
ConfirmWrite(r) ==
    /\ At(r, "confirmUpdate")
    /\ SaveUpdate(r)
    /\ \E id \in DOMAIN request[r].copies :
          /\ confirmEvents' = [confirmEvents EXCEPT ![id] = @ + 1]
          /\ Goto(r, [at |-> "notify", id |-> id])
    /\ UNCHANGED <<deleted, lock, escrowEvents, webhooks, now, everCancelled>>

\* webhookService.enqueue, after the commit and outside of any transaction.
ConfirmNotify(r) ==
    /\ At(r, "notify")
    /\ webhooks' = [webhooks EXCEPT ![request[r].id] = @ + 1]
    /\ Goto(r, Idle)
    /\ UNCHANGED <<rows, deleted, lock, outbox, now, everCancelled>>

-----------------------------------------------------------------------------
(* cancel and cancelSeries *)

\* evaluateRefund.  A deleted workspace is not joined, so the default policy applies.
Refund(start) ==
    LET policy == IF deleted THEN DefaultPolicy ELSE Policy
        ahead == start - now
    IN  IF ahead >= policy.full THEN "full"
        ELSE IF policy.percent > 0 /\ ahead >= policy.partial THEN "partial"
        ELSE "zero"

CancelledCopy(id) == [rows[id] EXCEPT !.status = "Cancelled", !.refund = Refund(rows[id].start)]

\* Whatever the status: a booking may be cancelled again.
CancelRead(r, u, id) ==
    /\ At(r, "idle")
    /\ Exists(id)
    /\ rows[id].user = u
    /\ Goto(r, [at |-> "cancel", copies |-> [i \in {id} |-> CancelledCopy(i)]])
    /\ UNCHANGED <<rows, deleted, lock, outbox, webhooks, now, everCancelled>>

CancelSeriesRead(r, u, series) ==
    /\ At(r, "idle")
    /\ LET instances == {id \in Stored : rows[id].series = series}
           future == {id \in instances : rows[id].start > now /\ rows[id].status # "Cancelled"}
       IN  /\ \A id \in instances : rows[id].user = u
           /\ future # {}
           /\ Goto(r, [at |-> "cancel", copies |-> [i \in future |-> CancelledCopy(i)]])
    /\ UNCHANGED <<rows, deleted, lock, outbox, webhooks, now, everCancelled>>

\* One transaction for all instances of a series.
CancelWrite(r) ==
    /\ At(r, "cancelUpdate")
    /\ SaveUpdate(r)
    /\ everCancelled' = everCancelled \cup DOMAIN request[r].copies
    /\ Goto(r, Idle)
    /\ UNCHANGED <<deleted, lock, outbox, webhooks, now>>

-----------------------------------------------------------------------------
(* WorkspacesService.softDelete *)

DeleteRead(r) ==
    /\ At(r, "idle")
    /\ ~deleted
    /\ Goto(r, [at |-> "delete",
                ids |-> {id \in Stored : rows[id].status = "Confirmed" /\ rows[id].start > now}])
    /\ UNCHANGED <<rows, deleted, lock, outbox, webhooks, now, everCancelled>>

\* Mutant of DeleteWrite: creations in progress are not waited for.
DeleteWriteUnlocked(r) ==
    /\ At(r, "delete")
    /\ rows' = [id \in BookingId |->
                  IF id \in request[r].ids THEN [rows[id] EXCEPT !.status = "Cancelled"] ELSE rows[id]]
    /\ everCancelled' = everCancelled \cup request[r].ids
    /\ deleted' = TRUE
    /\ Goto(r, Idle)
    /\ UNCHANGED <<lock, outbox, webhooks, now>>

\* The update of the workspace row waits for its lock.  Of the bookings only the
\* status is written.
DeleteWrite(r) ==
    /\ At(r, "delete")
    /\ lock = NoRequest
    /\ rows' = [id \in BookingId |->
                  IF id \in request[r].ids THEN [rows[id] EXCEPT !.status = "Cancelled"] ELSE rows[id]]
    /\ everCancelled' = everCancelled \cup request[r].ids
    /\ deleted' = TRUE
    /\ Goto(r, Idle)
    /\ UNCHANGED <<lock, outbox, webhooks, now>>

-----------------------------------------------------------------------------
(* Failures and time *)

\* Mutant of Abort: a confirmation that fails is announced all the same.
AbortAnnounced(r) ==
    /\ ~At(r, "idle")
    /\ lock' = IF lock = r THEN NoRequest ELSE lock
    /\ IF At(r, "confirmUpdate")
       THEN \E id \in DOMAIN request[r].copies : Goto(r, [at |-> "notify", id |-> id])
       ELSE Goto(r, Idle)
    /\ UNCHANGED <<rows, deleted, outbox, webhooks, now, everCancelled>>

\* An error or a crash between two calls: an open transaction is rolled back, what
\* is committed stays, what was still to be done is not done.
Abort(r) ==
    /\ ~At(r, "idle")
    /\ lock' = IF lock = r THEN NoRequest ELSE lock
    /\ Goto(r, Idle)
    /\ UNCHANGED <<rows, deleted, outbox, webhooks, now, everCancelled>>

Tick ==
    /\ now < MaxTime
    /\ now' = now + 1
    /\ UNCHANGED <<rows, deleted, lock, outbox, webhooks, request, everCancelled>>

Next ==
    \/ Tick
    \/ \E r \in Requests :
          \/ CreateCommit(r) \/ SaveSelect(r) \/ ConfirmWrite(r) \/ ConfirmNotify(r) \/ CancelWrite(r)
          \/ DeleteRead(r) \/ DeleteWrite(r)
          \/ Abort(r)
          \/ \E id \in BookingId : ConfirmRead(r, id)
          \/ \E u \in Users :
                \/ \E s \in Slots : CreateCheck(r, u, s)
                \/ \E shape \in SeriesShapes : CreateSeriesCheck(r, u, shape)
                \/ \E id \in BookingId : CancelRead(r, u, id) \/ CancelSeriesRead(r, u, id)

Spec == Init /\ [][Next]_vars

-----------------------------------------------------------------------------
(* Properties *)

\* What one request created counts once: create never compares the instances of a series
\* with each other.
Admission(id) == IF rows[id].series = 0 THEN id ELSE rows[id].series
Admissions(booked, t) == {Admission(b.id) : b \in {c \in booked : c.start <= t /\ t < c.end}}

\* The lock serialises the checks with the inserts: however requests interleave, the
\* requests whose bookings were never cancelled fit into the workspace at every instant.
\* (One that was cancelled can come back, see CapacityRespected.)
Admitted == {b \in Booked : b.id \notin everCancelled}
AdmissionFits ==
    \A b \in Admitted : Cardinality(Admissions(Admitted, b.start)) <= Capacity

\* conflict-detection.service.ts:28 takes the lock "to prevent concurrent booking
\* race conditions", :67 "at no point" shall concurrent bookings exceed capacity.
CapacityRespected == \A b \in Booked : Load(Booked, b.start) <= Capacity

\* What the sweep is checked on, once: in the initial state a sample stands for any
\* content of the table.
Calendars == IF Init THEN Samples ELSE {}
Wanted == {s \in Slots : s.start < s.end}

\* The sweep over clipped and sorted events says what counting the bookings of each
\* instant says, on every calendar: it refuses a request that does not fit and no
\* other, and names the number of places left at the fullest instant.
SweepExact ==
    \A booked \in Calendars, capacity \in 1 .. MaxBookings + 1, s \in Wanted :
        LET answer == HasConflict(booked, Maintenance, capacity, s.start, s.end)
            loads == {Load(booked, t) : t \in s.start .. s.end - 1}
            peak == CHOOSE n \in loads : \A m \in loads : m <= n
        IN  /\ answer = NoConflict <=>
                  Overlapping(Maintenance, s.start, s.end) = {} /\ peak < capacity
            /\ answer.reason = "capacity_exceeded" => answer.available = Larger(0, capacity - peak)

\* The hours shown as free can be booked: counting every booking that touches the
\* hour may show too few places, never one that hasConflict refuses.
ShownHoursBookable ==
    \A booked \in Calendars, capacity \in 1 .. MaxBookings + 1, s \in Wanted :
        Available(booked, capacity, s.start, s.end) > 0 =>
            HasConflict(booked, {}, capacity, s.start, s.end) = NoConflict

\* conflict-detection.service.ts: the sweep counts right at every instant, and the hours
\* shown as available can be booked; and every variable keeps its type.
CalendarExact == TypeOK /\ SweepExact /\ ShownHoursBookable

\* What evaluateRefund is for: no booking that takes place carries a refund.  A save that
\* selected the row before a cancellation and updates it afterwards leaves one.
RefundOnlyCancelled ==
    \A id \in Stored : rows[id].status \in Live => rows[id].refund = "unset"

\* However late the columns of a copy are written: a booking is Confirmed only with the
\* event of a committed confirmation, it carries a refund only if it was cancelled, and
\* what was ever confirmed or cancelled is never Pending again.
RowsExplained ==
    \A id \in Stored :
        /\ rows[id].status = "Confirmed" => confirmEvents[id] > 0
        /\ rows[id].refund # "unset" => id \in everCancelled
        /\ rows[id].status = "Pending" => confirmEvents[id] = 0 /\ id \notin everCancelled

\* Subscribers hear of a confirmation only after its event was committed with it,
\* and not more often, even when requests fail at any point.
AnnouncedAfterCommit ==
    \A id \in BookingId : webhooks[id] <= confirmEvents[id]

\* bookings.service.ts: what the late saves leave in a row is explained by what was
\* committed, and no callback leaves before the commit it announces.
SavesAgree == RowsExplained /\ AnnouncedAfterCommit

\* A workspace that is deleted gets no new booking, not even from a request that
\* had looked at it before.
DeletedTakesNone == [][deleted => Stored' = Stored]_vars
=============================================================================
