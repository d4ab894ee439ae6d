---------------------------- MODULE WorkspacePage ----------------------------
(***************************************************************************)
(* The page of a workspace in the web client: the calendar of a week, with *)
(* one query per day, and the booking form that a click on a slot fills    *)
(* in.  A slot is an hour of UTC since some Monday.  Moments are in half   *)
(* hours; a local time is a moment plus the offset that the browser's zone *)
(* has at it, and a field of the form holds one without its zone.          *)
(***************************************************************************)
EXTENDS Integers, FiniteSets

CONSTANTS
  Zone,         \* the zones a browser may be in
  WeekDays,     \* days in a week, and weeks one can look at
  Weeks,
  OtherHour,    \* the slots others may book
  Clicked,      \* the slots the user may click: a bound
  Typed,        \* the local times one may type
  Capacity,     \* seats of the workspace
  MaxPost       \* bound: bookings of this user

WorkspacePageAssumption ==
  /\ {WeekDays, Weeks, Capacity, MaxPost} \subseteq Nat /\ Weeks # 0
  /\ Zone \subseteq [before : Int, after : Int, change : Int]
  /\ OtherHour \cup Clicked \subseteq Int /\ Typed \subseteq Int

VARIABLES
  offset,       \* of the browser's zone: before and after the clocks change
  booked,       \* on the server: who booked from when to when
  week,         \* weekStart, in weeks
  day,          \* the availability of each day: free seats per hour, or not loaded
  selected,     \* selectedSlotKey
  prefill,      \* prefillStart and prefillEnd of the page
  form,         \* formData of the form
  typed,        \* the start that was typed since the last click
  posting       \* isBooking, and what was sent

vars == <<offset, booked, week, day, selected, prefill, form, typed, posting>>

Blank == [set |-> FALSE, at |-> 0]
At(t) == [set |-> TRUE, at |-> t]
EmptyForm == [start |-> Blank, end |-> Blank]
NotLoaded == [h \in {} |-> 0]

Days == 0 .. WeekDays * Weeks - 1
Shown == week * WeekDays .. (week + 1) * WeekDays - 1
Larger(a, b) == IF a > b THEN a ELSE b

Init ==
  /\ offset \in Zone /\ booked = {}
  /\ week = 0 /\ day = [d \in Days |-> NotLoaded] /\ selected = Blank
  /\ prefill = EmptyForm /\ form = EmptyForm /\ typed = Blank
  /\ posting = [busy |-> FALSE, form |-> EmptyForm]

-----------------------------------------------------------------------------
(* The server *)

Hours(d) == 24 * d .. 24 * d + 23

Concurrent(from, to) == Cardinality({b \in booked : b.from < to /\ from < b.to})
Available(hour) == Larger(0, Capacity - Concurrent(2 * hour, 2 * hour + 2))

\* The 24 slots of one day of UTC.
GetHourlyAvailability(d) == [hour \in Hours(d) |-> Available(hour)]

Reservation(from, to, who) == [from |-> from, to |-> to, by |-> who, n |-> Cardinality(booked)]

OthersBook(hour) ==
  /\ Available(hour) > 0 /\ Cardinality(booked) < Capacity + MaxPost
  /\ booked' = booked \cup {Reservation(2 * hour, 2 * hour + 2, "other")}
  /\ UNCHANGED <<offset, week, day, selected, prefill, form, typed, posting>>

-----------------------------------------------------------------------------
(* The calendar *)

OPERATING_START == 8
OPERATING_END == 20

Local(t) == t + (IF t < offset.change THEN offset.before ELSE offset.after)
GetLocalHour(hour) == (Local(2 * hour) \div 2) % 24

\* useWorkspaceAvailability: the date of the column is taken for a date of UTC.
Fetch(d) ==
  /\ d \in Shown /\ day[d] # GetHourlyAvailability(d)
  /\ day' = [day EXCEPT ![d] = GetHourlyAvailability(d)]
  /\ UNCHANGED <<offset, booked, week, selected, prefill, form, typed, posting>>

Ready == \A d \in Shown : day[d] # NotLoaded

\* slotMap: the slot in the column of day d and the row of a local hour, none or one; of two
\* with that hour, around a change of the clocks, the later.
SlotAt(d, row) ==
  LET there == {hour \in DOMAIN day[d] : GetLocalHour(hour) = row}
  IN  {hour \in there : \A other \in there : other <= hour}
Rows == OPERATING_START .. OPERATING_END - 1

\* WorkspaceCalendarGrid: the slots that are buttons one can press.
Pressable ==
  {hour \in UNION {SlotAt(d, row) : d \in Shown, row \in Rows} :
     \E d \in Shown : hour \in DOMAIN day[d] /\ day[d][hour] > 0}

\* The form takes over the prefilled times whenever its start is another one.
Synced(f, pre) == IF pre.start.set /\ f.start # pre.start THEN pre ELSE f

HandleSlotSelect(hour) ==
  /\ Ready /\ hour \in Pressable
  /\ selected' = IF selected = At(hour) THEN Blank ELSE At(hour)
  /\ prefill' = [start |-> At(Local(2 * hour)), end |-> At(Local(2 * hour + 2))]
  /\ form' = Synced(form, prefill')
  /\ typed' = Blank
  /\ UNCHANGED <<offset, booked, week, day, posting>>

GoToWeek(w) ==
  /\ Ready /\ w \in 0 .. Weeks - 1 /\ w # week
  /\ week' = w
  /\ UNCHANGED <<offset, booked, day, selected, prefill, form, typed, posting>>

-----------------------------------------------------------------------------
(* The form *)

TypeStart(t) ==
  /\ ~posting.busy
  /\ form' = Synced([form EXCEPT !.start = At(t)], prefill)
  /\ typed' = At(t)
  /\ UNCHANGED <<offset, booked, week, day, selected, prefill, posting>>

TypeEnd(t) ==
  /\ ~posting.busy
  /\ form' = Synced([form EXCEPT !.end = At(t)], prefill)
  /\ UNCHANGED <<offset, booked, week, day, selected, prefill, typed, posting>>

HandleSubmit ==
  /\ ~posting.busy /\ form.start.set /\ form.end.set
  /\ posting' = [busy |-> TRUE, form |-> form]
  /\ UNCHANGED <<offset, booked, week, day, selected, prefill, form, typed>>

\* The server takes the times for its own zone, which is UTC, and books what is free all the
\* time from the one to the other.
Mine == {b \in booked : b.by = "me"}

Book ==
  LET start == posting.form.start.at
      end == posting.form.end.at
  IN /\ posting.busy /\ start < end /\ Cardinality(Mine) < MaxPost
     /\ \A t \in start .. end - 1 : Concurrent(t, t + 1) < Capacity
     /\ booked' = booked \cup {Reservation(start, end, "me")}
     /\ posting' = [busy |-> FALSE, form |-> EmptyForm]
     /\ form' = Synced(EmptyForm, prefill)
     /\ typed' = Blank
     /\ UNCHANGED <<offset, week, day, selected, prefill>>

Refuse ==
  /\ posting.busy
  /\ posting' = [busy |-> FALSE, form |-> EmptyForm]
  /\ UNCHANGED <<offset, booked, week, day, selected, prefill, form, typed>>

-----------------------------------------------------------------------------
Next ==
  \/ \E hour \in OtherHour : OthersBook(hour)
  \/ \E d \in Days : Fetch(d)
  \/ \E hour \in Clicked : HandleSlotSelect(hour)
  \/ \E w \in 0 .. Weeks - 1 : GoToWeek(w)
  \/ \E t \in Typed : TypeStart(t) \/ TypeEnd(t)
  \/ HandleSubmit \/ Book \/ Refuse

Spec == Init /\ [][Next]_vars

TypeOK ==
  /\ offset \in Zone /\ week \in 0 .. Weeks - 1
  /\ \A b \in booked : b.by \in {"me", "other"}
  /\ \A d \in Days : DOMAIN day[d] \in {{}, Hours(d)}
  /\ posting.busy \in BOOLEAN

-----------------------------------------------------------------------------
\* WorkspaceCalendar.tsx:90 "localDateString -> localHour -> slot": what stands in the
\* column of a day and the row of an hour is that hour of that day, where the user is.
SlotIsWhereItStands ==
  \A d \in Shown, row \in Rows :
    \A hour \in SlotAt(d, row) : Local(2 * hour) \div 2 = 24 * d + row

\* WorkspaceCalendar.tsx:22: the times of the form are the user's.  What is booked is what
\* was clicked or typed.
BookedAsMeant ==
  [][(booked' # booked /\ posting.busy /\ ~posting'.busy) =>
       \A b \in booked' \ booked :
         Local(b.from) = posting.form.start.at /\ Local(b.to) = posting.form.end.at]_vars

\* page.tsx:37: the prefilled times come in when a slot is clicked, not over what is typed.
TypedStays == typed.set => form.start = typed
=============================================================================
