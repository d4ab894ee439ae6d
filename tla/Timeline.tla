------------------------------ MODULE Timeline ------------------------------
(***************************************************************************)
(* The attendance timeline of the web client: the records of a range of    *)
(* days, grouped by ISO week, and a window on the groups when there are    *)
(* many records.                                                           *)
(* Times are hours since 1970 in UTC, when it was a Thursday; the browser  *)
(* is some hours ahead of UTC or behind it.  A record has the moment its   *)
(* session began and a day, and the page looks now at the one, now at the  *)
(* other.                                                                  *)
(***************************************************************************)
EXTENDS Integers, FiniteSets

CONSTANTS
  Zone,          \* the offsets a browser may have
  Record,        \* the records the page may be given
  MaxRecord,     \* bound
  Large,         \* 100: from there on only some weeks are rendered
  Window         \* 10: so many at first, and so many more each time

\* Until the last week of 2099, the years in which every fourth year is a leap year.
LastDay == 47475

Unset == -1

TimelineAssumption ==
  /\ Zone \subseteq -12 .. 14
  /\ \A r \in Record :
       /\ r.clockIn \in Int /\ Unset <= r.clockIn /\ r.clockIn <= 24 * LastDay
       /\ r.date \in Int /\ Unset <= r.date /\ r.date <= LastDay
       /\ r.clockIn # Unset \/ r.date # Unset
  /\ {MaxRecord, Large, Window} \subseteq Nat

VARIABLES
  zone,
  record,        \* those it was given
  range,         \* startDate and endDate, as days; Open at an end that is not set
  visible        \* visibleItemsLimit

vars == <<zone, record, range, visible>>

Open == -1
DayOf(t) == t \div 24

\* The moment a record is grouped by: clockIn, or else the date.
Grouped(r) == IF r.clockIn = Unset THEN 24 * r.date ELSE r.clockIn

\* The moment a week is labelled by: the date, or else clockIn.
Labelled(r) == IF r.date = Unset THEN r.clockIn ELSE 24 * r.date

Days == {DayOf(Grouped(r)) : r \in Record}

Init ==
  /\ zone \in Zone /\ record = {} /\ visible = Window
  /\ range = [from |-> Open, to |-> Open]

-----------------------------------------------------------------------------
(* The calendar, for the years in which every fourth year is a leap year *)

Jan1(year) == 365 * (year - 1970) + (year - 1969) \div 4
Years == 1970 .. 2099
UTCFullYear(day) == CHOOSE year \in Years : Jan1(year) <= day /\ day < Jan1(year + 1)

\* Monday = 0; day 0 was a Thursday.
DayNumber(day) == (day + 3) % 7
ThursdayOf(day) == day - DayNumber(day) + 3

Round(n, unit) == (2 * n + unit) \div (2 * unit)

\* January 4 is taken in the zone of the browser, the rest in UTC.
GetISOWeek(t) ==
  LET target == t - 24 * DayNumber(DayOf(t)) + 72
      jan4 == 24 * (Jan1(UTCFullYear(DayOf(target))) + 3) - zone
      firstThursday == jan4 - 24 * DayNumber(DayOf(jan4)) + 72
  IN  1 + Round(target - firstThursday, 168)

\* Mutant of GetISOWeekYear: the year of the day itself.
GetISOWeekYearOfDay(t) == UTCFullYear(DayOf(t))

GetISOWeekYear(t) == UTCFullYear(ThursdayOf(DayOf(t)))

GetISOWeekKey(t) == <<GetISOWeekYear(t), GetISOWeek(t)>>

\* The days of a week, from Monday to Sunday.
GetISOWeekBounds(t) == DayOf(t) - DayNumber(DayOf(t)) .. DayOf(t) - DayNumber(DayOf(t)) + 6

-----------------------------------------------------------------------------
(* The page *)

InRange(r) ==
  /\ range.from = Open \/ range.from <= DayOf(Labelled(r))
  /\ range.to = Open \/ DayOf(Labelled(r)) <= range.to

Filtered == {r \in record : InRange(r)}

WeekKeys == {GetISOWeekKey(Grouped(r)) : r \in Filtered}

Later(key, other) == key[1] > other[1] \/ (key[1] = other[1] /\ key[2] > other[2])

\* The latest weeks come first; the window is on weeks, the threshold on records.
Displayed ==
  IF Cardinality(Filtered) > Large
  THEN {key \in WeekKeys : Cardinality({other \in WeekKeys : Later(other, key)}) < visible}
  ELSE WeekKeys

Fetched(r) ==
  /\ r \notin record /\ Cardinality(record) < MaxRecord
  /\ record' = record \cup {r}
  /\ UNCHANGED <<zone, range, visible>>

SetRange(from, to) ==
  /\ range' = [from |-> from, to |-> to]
  /\ UNCHANGED <<zone, record, visible>>

LoadMore ==
  /\ Cardinality(Filtered) > Large /\ visible < Cardinality(WeekKeys)
  /\ visible' = visible + Window
  /\ UNCHANGED <<zone, record, range>>

Next ==
  \/ \E r \in Record : Fetched(r)
  \/ \E from, to \in Days \cup {Open} : SetRange(from, to)
  \/ LoadMore

Spec == Init /\ [][Next]_vars

TypeOK ==
  /\ zone \in Zone /\ record \subseteq Record /\ Cardinality(record) <= MaxRecord
  /\ range \in [from : Days \cup {Open}, to : Days \cup {Open}]
  /\ visible \in Nat

\* AttendanceTimeline.tsx:49 "Group filtered records by ISO week": two records are in one
\* group exactly when the moments they are grouped by are in one week, around New Year too.
GroupsAreWeeks ==
  \A r, other \in Filtered :
    (GetISOWeekKey(Grouped(r)) = GetISOWeekKey(Grouped(other)))
      <=> DayOf(Grouped(other)) \in GetISOWeekBounds(Grouped(r))

\* TimelineWeekGroup.tsx:45: the label, that of the first record whichever it is, names the
\* days of every record of its group.
LabelNames ==
  \A first, other \in Filtered :
    (GetISOWeekKey(Grouped(first)) = GetISOWeekKey(Grouped(other)))
      => DayOf(Grouped(other)) \in GetISOWeekBounds(Labelled(first))

\* "ISO week 1 is the week with the year's first Thursday." (dateUtils.ts:5)
WeekIsIso ==
  \A r \in record :
    LET thursday == ThursdayOf(DayOf(Grouped(r))) IN
    GetISOWeek(Grouped(r)) = 1 + (thursday - Jan1(UTCFullYear(thursday))) \div 7
=============================================================================
