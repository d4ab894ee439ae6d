------------------------------ MODULE Reports -------------------------------
(***************************************************************************)
(* What admins read: the revenue and occupancy reports, the dashboard and  *)
(* the analytics, computed from the bookings and members of the moment;    *)
(* the nightly snapshots, written by a job in every process; the report of *)
(* attendance, whose rows are paired into sessions, kept when they begin   *)
(* in the window, and put into buckets of the days of a requested zone.    *)
(* Times are hours of UTC, DayLength to a day; the days of a process begin *)
(* offset hours after the days of UTC, those of a zone as many as it says: *)
(* an offset above nothing is a zone west of UTC.                          *)
(***************************************************************************)
EXTENDS Integers, FiniteSets, Sequences, FiniteSetsExt

CONSTANTS
  Workspace,  \* ids of workspaces, all of one capacity and active
  Capacity,
  Process,    \* processes that run the nightly job
  DayLength,  \* hours of a day
  Offset,     \* how far the time zone of the processes may be from UTC
  OpenHours,  \* hours a day the snapshots assume (10)
  Amount,     \* totalAmount of bookings
  MaxTime,    \* bound: the last tick
  MaxBooking, \* bound: bookings ever made
  MaxMember,  \* bound: members
  Session,    \* session ids of attendance rows
  Zone,       \* IANA zones, as offsets
  ShortHours, \* a session below is an anomaly "short"
  LongHours,  \* a session above is an anomaly "long"
  MaxHour     \* bound: the last hour of an attendance row

ReportsAssumption ==
  /\ {Capacity, MaxTime, MaxBooking, MaxMember} \subseteq Nat
  /\ {ShortHours, LongHours, MaxHour} \subseteq Nat
  /\ {DayLength, OpenHours} \subseteq Nat \ {0}
  /\ Offset \subseteq Int /\ Zone \subseteq Int
  /\ Amount \subseteq Nat

VARIABLES
  offset,     \* the time zone of the processes
  deleted,    \* the workspaces that are softly deleted
  bookings,   \* sequence of records: workspace, status, start, hours, amount, createdAt
  members,    \* sequence of records: isVerified, createdAt
  now,
  snapshots,  \* daily_utilization_snapshots
  job,        \* per process: the day it aggregates and the workspaces left
  records     \* the attendance rows: session, action, timestamp

vars == <<offset, deleted, bookings, members, now, snapshots, job, records>>

NoJob == [day |-> 0 - 1, left |-> {}]

Init ==
  /\ offset \in Offset
  /\ deleted = {}
  /\ bookings = <<>>
  /\ members = <<>>
  /\ now = 0
  /\ snapshots = {}
  /\ job = [p \in Process |-> NoJob]
  /\ records = {}

-----------------------------------------------------------------------------
(* Days and percentages *)

Times == 0..MaxTime
DayOf(time) == (time - offset) \div DayLength         \* the local day
StartOfDay(day) == day * DayLength + offset
Percent(part, whole) == IF whole > 0 THEN Min({100, (part * 100) \div whole}) ELSE 0

Live == Workspace \ deleted

Book(workspace, start, amount) ==
  /\ workspace \in Live
  /\ Len(bookings) < MaxBooking
  /\ bookings' = Append(bookings, [workspace |-> workspace, status |-> "pending", start |-> start,
                                   hours |-> 1, amount |-> amount, createdAt |-> now])
  /\ UNCHANGED <<offset, deleted, members, now, snapshots, job, records>>

SetStatus(i, status) ==
  /\ bookings[i].status \in {"pending", "confirmed"} /\ status /= bookings[i].status
  /\ bookings' = [bookings EXCEPT ![i].status = status]
  /\ UNCHANGED <<offset, deleted, members, now, snapshots, job, records>>

(* softDelete(): the confirmed bookings that have not begun are cancelled, *)
(* the others stay                                                         *)
DeleteWorkspace(w) ==
  /\ w \in Live
  /\ deleted' = deleted \union {w}
  /\ bookings' = [i \in DOMAIN bookings |->
       IF bookings[i].workspace = w /\ bookings[i].status = "confirmed" /\ bookings[i].start > now
       THEN [bookings[i] EXCEPT !.status = "cancelled"] ELSE bookings[i]]
  /\ UNCHANGED <<offset, members, now, snapshots, job, records>>

Join(verified) ==
  /\ Len(members) < MaxMember
  /\ members' = Append(members, [isVerified |-> verified, createdAt |-> now])
  /\ UNCHANGED <<offset, deleted, bookings, now, snapshots, job, records>>

-----------------------------------------------------------------------------
(* The reports *)

(* A date of the query is midnight UTC, moved to the first or the last     *)
(* tick of the local day it falls on; with no date, the last thirty days.  *)
EndOfRangeBare(date) == date * DayLength
EndOfRange(date) == StartOfDay(DayOf(date * DayLength) + 1) - 1
StartOfRange(date) == StartOfDay(DayOf(date * DayLength))
DefaultStart(end) == StartOfDay(DayOf(end - 30 * DayLength))

InRange(from, to, status) ==
  {i \in DOMAIN bookings : /\ bookings[i].start \in StartOfRange(from)..EndOfRange(to)
                           /\ status = "any" \/ bookings[i].status = status}

(* The join with the workspace leaves out the bookings of deleted ones *)
Selected(from, to, status) == {i \in InRange(from, to, status) : bookings[i].workspace \in Live}

SumAmount(is) == MapThenSumSet(LAMBDA i : bookings[i].amount, is)
SumHours(is) == MapThenSumSet(LAMBDA i : bookings[i].hours, is)

(* DATE_TRUNC: the first day of the period a booking starts in *)
PeriodLength(groupBy) == CASE groupBy = "day" -> 1 [] groupBy = "week" -> 7 [] groupBy = "month" -> 30
Trunc(groupBy, start) == (DayOf(start) \div PeriodLength(groupBy)) * PeriodLength(groupBy)

GetRevenue(from, to, status, groupBy) ==
  LET selected == Selected(from, to, status)
      period(i) == Trunc(groupBy, bookings[i].start)
      row(p) == LET in == {i \in selected : period(i) = p}
                IN [period |-> p, totalRevenue |-> SumAmount(in), bookingCount |-> Cardinality(in),
                    averageBookingValue |-> SumAmount(in) \div Cardinality(in)]
      breakdown == {row(p) : p \in {period(i) : i \in selected}}
  IN [breakdown |-> breakdown,
      totalRevenue |-> MapThenSumSet(LAMBDA r : r.totalRevenue, breakdown),
      totalBookings |-> MapThenSumSet(LAMBDA r : r.bookingCount, breakdown)]

(* The lines of the export: four of summary, a blank, a header, the rows *)
RevenueCsvLines(report) == 6 + Cardinality(report.breakdown)

GetOccupancy(from, to) ==
  LET periodHours == EndOfRange(to) - StartOfRange(from) + 1
      of(w, status) == {i \in InRange(from, to, status) : bookings[i].workspace = w}
      row(w) == [workspace |-> w, totalBookings |-> Cardinality(of(w, "any")),
                 confirmedBookings |-> Cardinality(of(w, "confirmed")),
                 totalBookedHours |-> SumHours(of(w, "confirmed")),
                 availableHours |-> periodHours * Capacity,
                 utilizationPct |-> Percent(SumHours(of(w, "confirmed")), periodHours * Capacity)]
      rows == {row(w) : w \in Live}
  IN [workspaces |-> rows,
      overallUtilizationPct |-> Percent(MapThenSumSet(LAMBDA r : r.totalBookedHours, rows),
                                        MapThenSumSet(LAMBDA r : r.availableHours, rows))]

-----------------------------------------------------------------------------
(* The dashboard and the analytics *)

Confirmed == {i \in DOMAIN bookings : bookings[i].status = "confirmed"}

(* Bookings per workspace, not per desk; with no workspace the quotient is *)
(* infinite and the minimum makes it a hundred.                            *)
DeskOccupancy ==
  IF Confirmed = {} THEN 0
  ELSE IF Live = {} THEN 100
  ELSE Min({100, (Cardinality(Confirmed) * 100) \div Cardinality(Live)})

GetStats ==
  [totalMembers |-> Len(members),
   verifiedMembers |-> Cardinality({i \in DOMAIN members : members[i].isVerified}),
   activeWorkspaces |-> Cardinality(Live),
   deskOccupancy |-> DeskOccupancy]

GetAdminStats == [stats |-> GetStats, totalBookings |-> Len(bookings), revenue |-> SumAmount(DOMAIN bookings)]

GetMemberGrowth(days) ==
  LET recent == {i \in DOMAIN members : members[i].createdAt >= now - days * DayLength}
  IN [day \in {DayOf(members[i].createdAt) : i \in recent} |->
        Cardinality({i \in recent : DayOf(members[i].createdAt) = day})]

GetBookingRevenue(days) ==
  LET recent == {i \in DOMAIN bookings : bookings[i].createdAt >= now - days * DayLength}
  IN [day \in {DayOf(bookings[i].createdAt) : i \in recent} |->
        SumAmount({i \in recent : DayOf(bookings[i].createdAt) = day})]

GetWorkspaceUtilization ==
  [w \in Live |-> Percent(Cardinality({i \in Confirmed : bookings[i].workspace = w}), Capacity)]

(* The stream of a workspace: who is in it now *)
CurrentOccupancy(w) ==
  {i \in Confirmed : bookings[i].workspace = w /\ bookings[i].start <= now /\ now <= bookings[i].start + bookings[i].hours}
GetOccupancyUpdate(w) ==
  [currentOccupancy |-> Cardinality(CurrentOccupancy(w)), remainingCapacity |-> Capacity - Cardinality(CurrentOccupancy(w))]

-----------------------------------------------------------------------------
(* The nightly snapshots *)

(* Both ends of the day belong to it *)
BookedOn(w, day) ==
  {i \in Confirmed : bookings[i].workspace = w /\ bookings[i].start \in StartOfDay(day)..StartOfDay(day + 1)}

StartJob(p) ==
  /\ job[p] = NoJob /\ DayOf(now) > 0 /\ Live # {}
  /\ job' = [job EXCEPT ![p] = [day |-> DayOf(now) - 1, left |-> Live]]
  /\ UNCHANGED <<offset, deleted, bookings, members, now, snapshots, records>>

(* The snapshot of a day and a workspace replaces the one that is there *)
Insert(row) == snapshots \union {row}
Upsert(row) == {s \in snapshots : s.day /= row.day \/ s.workspace /= row.workspace} \union {row}

(* One workspace after the other; an error ends the job for the others too *)
Aggregate(p, w, fails) ==
  /\ w \in job[p].left
  /\ LET booked == Cardinality(BookedOn(w, job[p].day))
         row == [day |-> job[p].day, workspace |-> w, bookedHours |-> booked,
                 occupancyRate |-> Percent(booked, OpenHours)]
     IN snapshots' = IF fails THEN snapshots ELSE Upsert(row)
  /\ job' = [job EXCEPT ![p] = IF fails \/ @.left = {w} THEN NoJob ELSE [@ EXCEPT !.left = @ \ {w}]]
  /\ UNCHANGED <<offset, deleted, bookings, members, now, records>>

(* The analytics read them back.  A column of type date comes back as a    *)
(* string, which has no toISOString: with any snapshot the answer is an    *)
(* error, with none it is empty.                                           *)
GetUtilizationAnalytics(from, to) == {s \in snapshots : s.day \in from..to} = {}

-----------------------------------------------------------------------------
(* The report of attendance *)

Of(s, action) == {r \in records : r.session = s /\ r.action = action}

ClockIn(s, at) ==
  /\ Of(s, "clock_in") = {}
  /\ records' = records \union {[session |-> s, action |-> "clock_in", timestamp |-> at]}
  /\ UNCHANGED <<offset, deleted, bookings, members, now, snapshots, job>>

(* By hand, or by the hourly job with a time of its own *)
ClockOut(s, at) ==
  /\ Of(s, "clock_in") /= {} /\ Of(s, "clock_out") = {}
  /\ \A r \in Of(s, "clock_in") : r.timestamp <= at
  /\ records' = records \union {[session |-> s, action |-> "clock_out", timestamp |-> at]}
  /\ UNCHANGED <<offset, deleted, bookings, members, now, snapshots, job>>

Time(s, action) == (CHOOSE r \in Of(s, action) : TRUE).timestamp

(* Rows without a session are left out, sessions without an end too *)
Complete == {s \in Session : Of(s, "clock_in") /= {} /\ Of(s, "clock_out") /= {}}

Local(time, zone) == time - zone
HourOf(time, zone) == Local(time, zone) % DayLength

(* toBucketKey(): the day, the week, the month of the local time *)
BucketLength(period) == CASE period = "daily" -> 1 [] period = "weekly" -> 7 [] period = "monthly" -> 30
ToBucketKey(time, zone, period) == Local(time, zone) \div (DayLength * BucketLength(period))

(* The window is compared as instants: both ends belong to it *)
Window(from, to) == {s \in Complete : from <= Time(s, "clock_in") /\ Time(s, "clock_in") <= to}

Duration(s) == Time(s, "clock_out") - Time(s, "clock_in")
Anomaly(s) == IF Duration(s) < ShortHours THEN "short" ELSE IF Duration(s) > LongHours THEN "long" ELSE "none"

(* The first hour that has the most sessions: of equals, the earliest seen *)
PeakHour(hours) ==
  IF DOMAIN hours = {} THEN {}
  ELSE {h \in DOMAIN hours : \A k \in DOMAIN hours : hours[h] >= hours[k]}
Histogram(sessions, action, zone) ==
  [h \in {HourOf(Time(s, action), zone) : s \in sessions} |->
     Cardinality({s \in sessions : HourOf(Time(s, action), zone) = h})]

GetAttendanceSummary(zone, period, from, to) ==
  LET sessions == Window(from, to)
      key(s) == ToBucketKey(Time(s, "clock_in"), zone, period)
      total(in) == MapThenSumSet(Duration, in)
      average(in) == IF in = {} THEN 0 ELSE total(in) \div Cardinality(in)
      bucket(k) == LET in == {s \in sessions : key(s) = k}
                   IN [bucket |-> k, sessions |-> Cardinality(in), totalDuration |-> total(in),
                       avgDuration |-> average(in),
                       short |-> Cardinality({s \in in : Anomaly(s) = "short"}),
                       long |-> Cardinality({s \in in : Anomaly(s) = "long"})]
  IN [totalSessions |-> Cardinality(sessions),
      totalDuration |-> total(sessions),
      avgDuration |-> average(sessions),
      buckets |-> {bucket(key(s)) : s \in sessions},
      peakArrivalHour |-> PeakHour(Histogram(sessions, "clock_in", zone)),
      peakDepartureHour |-> PeakHour(Histogram(sessions, "clock_out", zone)),
      anomalies |-> {s \in sessions : Anomaly(s) /= "none"}]

-----------------------------------------------------------------------------
Tick ==
  /\ now < MaxTime
  /\ now' = now + 1
  /\ UNCHANGED <<offset, deleted, bookings, members, snapshots, job, records>>

Next ==
  \/ \E w \in Workspace, start \in Times, amount \in Amount : Book(w, start, amount)
  \/ \E i \in DOMAIN bookings, status \in {"confirmed", "cancelled"} : SetStatus(i, status)
  \/ \E w \in Workspace : DeleteWorkspace(w)
  \/ \E verified \in BOOLEAN : Join(verified)
  \/ \E p \in Process :
       \/ StartJob(p)
       \/ \E w \in Workspace, fails \in BOOLEAN : Aggregate(p, w, fails)
  \/ \E s \in Session, at \in 0..MaxHour : ClockIn(s, at) \/ ClockOut(s, at)
  \/ Tick

Spec == Init /\ [][Next]_vars

-----------------------------------------------------------------------------
(* Type correctness of the tables the reports are made of *)
TypeOK ==
  /\ \A i \in DOMAIN bookings : bookings[i].status \in {"pending", "confirmed", "cancelled"}
  /\ offset \in Offset /\ deleted \subseteq Workspace
  /\ now \in Times
  /\ \A s \in snapshots : s.occupancyRate \in 0..100
  /\ records \subseteq [session : Session, action : {"clock_in", "clock_out"}, timestamp : 0..MaxHour]

(* The dates a query can name *)
Days == 0..(MaxTime \div DayLength + 1)

(* In every time zone, two reports of adjoining ranges hold together what  *)
(* the report of the whole range holds, whatever the grouping and however  *)
(* the bookings and their workspaces changed: no booking falls between two *)
(* ranges and none is counted in both.                                     *)
ReportsAddUp ==
  \A from, mid, to \in Days, status \in {"any", "confirmed"}, groupBy \in {"day", "week"} :
    from <= mid /\ mid < to =>
      LET whole == GetRevenue(from, to, status, groupBy)
          first == GetRevenue(from, mid, status, groupBy)
          second == GetRevenue(mid + 1, to, status, groupBy)
      IN /\ whole.totalBookings = first.totalBookings + second.totalBookings
         /\ whole.totalRevenue = first.totalRevenue + second.totalRevenue

(* reports.service.ts:71 "Set end to end-of-day so the filter is inclusive" *)
(* A report holds the bookings that start on the days that are asked for.   *)
DaysAskedFor ==
  \A from, to \in Days :
    Selected(from, to, "any") =
      {i \in DOMAIN bookings : bookings[i].workspace \in Live /\ DayOf(bookings[i].start) \in from..to}

(* "Upsert snapshot (idempotent)": however many processes run the job, and *)
(* however often, a day has one snapshot of a workspace.                   *)
OneSnapshot == \A s, t \in snapshots : s.day = t.day /\ s.workspace = t.workspace => s = t

(* In every time zone, at whatever hour its days begin, the buckets hold   *)
(* each session that begins in the window, its hours and its anomaly once; *)
(* the window loses none at its ends.                                      *)
SummaryAddsUp ==
  \A zone \in Zone, period \in {"daily", "weekly"}, from, to \in 0..MaxHour :
    LET summary == GetAttendanceSummary(zone, period, from, to)
        sum(field(_)) == MapThenSumSet(field, summary.buckets)
    IN /\ summary.totalSessions = Cardinality({s \in Complete : Time(s, "clock_in") \in from..to})
       /\ sum(LAMBDA b : b.sessions) = summary.totalSessions
       /\ sum(LAMBDA b : b.totalDuration) = summary.totalDuration
       /\ sum(LAMBDA b : b.short + b.long) = Cardinality(summary.anomalies)

(* The analytics of the snapshots can be read *)
AnalyticsReadable == \A from, to \in Days : GetUtilizationAnalytics(from, to)
=============================================================================
