------------------------------- MODULE Figures -------------------------------
(***************************************************************************)
(* What the backend computes and shows: the pages of a list, prices and    *)
(* refunds, reports and summaries, the spam score of a message; and the    *)
(* sockets that are told of it.  They share no state: the first state      *)
(* picks the one that moves, the others stay in an initial state.          *)
(***************************************************************************)
EXTENDS Integers, Sequences

CONSTANTS
  Id, Reader, PageLimit, Fine, MaxPageClock,                        \* pages
  Address, Submission, User, Socket, Keyword,                       \* contact
  Workspace, Capacity, Process, DayLength, FarthestOffset, OpenHours, Amount, MaxTime, MaxBooking,
  Session, FarthestZone, ShortHours, LongHours, MaxHour             \* summary

VARIABLES
  part,
  rows, clock, walk,
  subscribers, nextRow, subscription, messages, score, keywords, room, inbox,
  offset, deleted, bookings, members, now, snapshots, job, records,
  rules, policy, pending

pageVars == <<rows, clock, walk>>
inboxVars == <<subscribers, nextRow, subscription, messages, score, keywords, room, inbox>>
reportVars == <<offset, deleted, bookings, members, now, snapshots, job, records>>
pricingVars == <<rules, policy, pending>>
vars == <<part, pageVars, inboxVars, reportVars, pricingVars>>

-----------------------------------------------------------------------------
(* The instances *)

Pages == INSTANCE Paging WITH MaxClock <- MaxPageClock

Contact == INSTANCE Inbox WITH
  Email <- {}, Request <- {}, MaxRow <- 0, request <- subscription

Reporting == INSTANCE Reports WITH
  Offset <- -FarthestOffset .. FarthestOffset, MaxMember <- 1, Session <- {}, Zone <- {}

Summary == INSTANCE Reports WITH
  Workspace <- {}, Process <- {}, Amount <- {}, MaxTime <- 0, MaxBooking <- 0, MaxMember <- 0,
  Offset <- {0}, Zone <- -FarthestZone .. FarthestZone

\* A rule of one hour, one of a whole day, one that is switched off; changes of one field.
NewRules ==
  {[day |-> 0, start |-> 0, end |-> 1, rate |-> 6, isActive |-> TRUE],
   [day |-> 1, start |-> 0, end |-> 2, rate |-> 6, isActive |-> TRUE],
   [day |-> 0, start |-> 0, end |-> 2, rate |-> 2, isActive |-> FALSE]}
RuleChanges == {[start |-> 1], [end |-> 1], [isActive |-> TRUE]}

Prices == INSTANCE Pricing WITH
  Rule <- {1, 2}, Request <- {1, 2}, NewRule <- NewRules, RuleChange <- RuleChanges,
  Policy <- {[full |-> 2, percent |-> 50, partial |-> 1]},
  PolicyChange <- {[full |-> 3], [percent |-> 0], [partial |-> 3]},
  Fallback <- 4, HourTicks <- 2, DayHours <- 2, WeekDays <- 2, LocalHours <- 1,
  Span <- [start : {1, 7}, end : {4, 11}],
  Recurrence <- [interval : {1}, count : 0 .. 3], MaxInstances <- 2, DefaultHours <- 2

ASSUME Given ==
  /\ Pages!PagingAssumption /\ Contact!InboxAssumption
  /\ Reporting!ReportsAssumption /\ Summary!ReportsAssumption /\ Prices!PricingAssumption

-----------------------------------------------------------------------------
Parts == {"pages", "contact", "reporting", "summary", "prices"}

Init ==
  /\ part \in Parts
  /\ Pages!Init /\ Contact!Init /\ Prices!Init
  /\ IF part = "reporting" THEN Reporting!Init ELSE Summary!Init

Others ==
  /\ part' = part
  /\ IF part = "pages" THEN TRUE ELSE UNCHANGED pageVars
  /\ IF part = "contact" THEN TRUE ELSE UNCHANGED inboxVars
  /\ IF part \in {"reporting", "summary"} THEN TRUE ELSE UNCHANGED reportVars
  /\ IF part = "prices" THEN TRUE ELSE UNCHANGED pricingVars

Next ==
  \/ part = "pages" /\ Pages!Next /\ Others
  \/ part = "contact" /\ Contact!Next /\ Others
  \/ part = "reporting" /\ Reporting!Next /\ Others
  \/ part = "summary" /\ Summary!Next /\ Others
  \/ part = "prices" /\ Prices!Next /\ Others

Spec == Init /\ [][Next]_vars

\* What shares no state moves one at a time: rules and cancellation policies, bookings and
\* members; and the jobs, which read the bookings, run beside one of them.
OneTable ==
  /\ part = "prices" =>
       \/ policy = Prices!Absent
       \/ Prices!Stored = {} /\ \A r \in DOMAIN pending : pending[r] = Prices!Idle
  /\ part = "reporting" =>
       /\ members = <<>> \/ (bookings = <<>> /\ snapshots = {})
       /\ Len(bookings) <= 1 \/ (snapshots = {} /\ \A p \in Process : job[p] = Reporting!NoJob)

-----------------------------------------------------------------------------
(* Properties: those of the modules, each for the part that moves *)

\* cursor.util.ts, attendance.service.ts: arrivals never make a walk skip or repeat a row.
WalkExact == part = "pages" => Pages!TypeOK /\ Pages!WalkExact

\* pricing-engine.service.ts: a booking pays for every moment the rate in force, once,
\* whatever two requests made of the rules; no policy makes waiting pay; a series has no
\* more than its bound.
PricesRight ==
  part = "prices" =>
    /\ Prices!TypeOK
    /\ Prices!PaysEveryMoment /\ Prices!WaitingNeverPays /\ Prices!SeriesBounded

\* reports.service.ts: reports of adjoining ranges hold together what the whole range holds;
\* analytics.service.ts: a day has one snapshot of a workspace; attendance.service.ts: a
\* summary holds every session of its window once; no score of a message
\* (spam-detection.service.ts) is over a hundred.
TotalsAddUp ==
  /\ part = "reporting" => Reporting!TypeOK /\ Reporting!ReportsAddUp /\ Reporting!OneSnapshot
  /\ part = "summary" => Summary!TypeOK /\ Summary!SummaryAddsUp
  /\ part = "contact" => Contact!TypeOK
=============================================================================
