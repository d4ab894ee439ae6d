------------------------------- MODULE Pricing -------------------------------
(***************************************************************************)
(* Price rules of one workspace and the prices, refunds and recurrence     *)
(* made from them.  A rule is read, checked and saved, each behind its own *)
(* await: two calls may both pass the check, and their saves may mix.      *)
(* Time is counted in ticks of 1/HourTicks hour.                           *)
(***************************************************************************)
EXTENDS Integers, FiniteSets, Sequences

CONSTANTS
  Rule,                 \* bound: ids of price rules
  Request,              \* requests in flight
  NewRule, RuleChange,  \* bodies of POST (whole rules) and PATCH (some fields)
  Policy, PolicyChange, \* bodies of POST and PATCH of a cancellation policy
  Fallback,             \* workspace.pricePerHour
  HourTicks, DayHours, WeekDays,
  LocalHours,           \* how far the clock of the workspace is ahead of UTC
  Span,                 \* the [start, end] that are booked
  Recurrence,           \* parsed rules: [interval, count]; 0 is no COUNT
  MaxInstances,         \* 52
  DefaultHours          \* 24

PricingAssumption ==
  /\ {HourTicks, DayHours, WeekDays, MaxInstances} \subseteq Nat \ {0}
  /\ LocalHours \in Nat
  /\ \A s \in Span : {s.start, s.end} \subseteq Nat

VARIABLES
  rules,      \* price_rules, by id
  policy,     \* the cancellation policy of the workspace's type, or Absent
  pending     \* per request: the rule it checks, compares or writes

vars == <<rules, policy, pending>>

Absent == [isActive |-> FALSE]
Idle == [at |-> "idle"]

Init ==
  /\ rules = [id \in Rule |-> Absent]
  /\ policy = Absent
  /\ pending = [r \in Request |-> Idle]

Columns == {"day", "start", "end", "rate", "isActive"}
Stored == {id \in Rule : rules[id] # Absent}
Active == {id \in Rule : rules[id].isActive}

TypeOK ==
  /\ \A id \in Stored : DOMAIN rules[id] = Columns
  /\ policy \in {Absent} \cup [full : Nat, percent : 0 .. 100, partial : Nat]
  /\ \A r \in Request : pending[r] = Idle \/ pending[r].id \in Rule

-----------------------------------------------------------------------------
(* CRUD of price rules *)

Patched(row, dto) == [f \in DOMAIN row |-> IF f \in DOMAIN dto THEN dto[f] ELSE row[f]]

ValidHours(rule) == rule.start < rule.end

\* Only rules that are active count, whether the new one is to be active or not.
NoOverlap(rule, exclude) ==
  \A id \in Active \ exclude :
     rules[id].day = rule.day => ~(rules[id].start < rule.end /\ rules[id].end > rule.start)

Keep(r, at, id, rule, columns) ==
  pending' = [pending EXCEPT ![r] = [at |-> at, id |-> id, rule |-> rule, columns |-> columns]]

Finish(r) == pending' = [pending EXCEPT ![r] = Idle]

\* The overlap is looked for, then the row inserted under an id of its own.
CreateRule(r, dto) ==
  /\ pending[r] = Idle
  /\ ValidHours(dto) /\ NoOverlap(dto, {})
  /\ \E id \in Rule \ Stored :
        /\ \A q \in Request : pending[q] # Idle => pending[q].id # id
        /\ Keep(r, "insert", id, dto, Columns)
  /\ UNCHANGED <<rules, policy>>

\* The overlap is looked at again only when the day or an hour is sent: a rule that
\* is only switched on is not compared with any other.
UpdateRule(r, id, dto) ==
  /\ pending[r] = Idle /\ id \in Stored
  /\ LET merged == Patched(rules[id], dto)
     IN  /\ ValidHours(merged)
         /\ Keep(r, IF DOMAIN dto \cap {"day", "start", "end"} # {} THEN "check" ELSE "select",
                 id, merged, {})
  /\ UNCHANGED <<rules, policy>>

\* A conflict ends the request.
CheckRule(r) ==
  /\ pending[r].at = "check"
  /\ IF NoOverlap(pending[r].rule, {pending[r].id})
     THEN Keep(r, "select", pending[r].id, pending[r].rule, {})
     ELSE Finish(r)
  /\ UNCHANGED <<rules, policy>>

\* save() reads the row again and writes the columns that differ from it by now; a row
\* that was deleted meanwhile is inserted again.
SelectRule(r) ==
  /\ pending[r].at = "select"
  /\ LET id == pending[r].id
         copy == pending[r].rule
         differing == {c \in Columns : copy[c] # rules[id][c]}
     IN  IF id \notin Stored THEN Keep(r, "insert", id, copy, Columns)
         ELSE IF differing = {} THEN Finish(r)
         ELSE Keep(r, "update", id, copy, differing)
  /\ UNCHANGED <<rules, policy>>

\* An insertion fails when the id is there again, an update finds no row when it is gone.
WriteRule(r) ==
  /\ pending[r].at \in {"insert", "update"}
  /\ LET id == pending[r].id
         sent == [c \in pending[r].columns |-> pending[r].rule[c]]
     IN  rules' = [rules EXCEPT ![id] =
                     IF pending[r].at = "update" /\ id \in Stored THEN Patched(@, sent)
                     ELSE IF pending[r].at = "insert" /\ id \notin Stored THEN sent
                     ELSE @]
  /\ Finish(r)
  /\ UNCHANGED policy

DeleteRule(id) ==
  /\ id \in Stored
  /\ rules' = [rules EXCEPT ![id] = Absent]
  /\ UNCHANGED <<policy, pending>>

-----------------------------------------------------------------------------
(* calculatePrice.  find returns the active rules in any order: "order".   *)

Orders == {s \in [1 .. Cardinality(Active) -> Active] : \A i, j \in DOMAIN s : s[i] = s[j] => i = j}

DayOf(t) == (t \div (HourTicks * DayHours)) % WeekDays
HourOf(t) == (t \div HourTicks) % DayHours

Matches(id, t) ==
  rules[id].day = DayOf(t) /\ rules[id].start <= HourOf(t) /\ HourOf(t) < rules[id].end

RateAt(order, t) ==
  LET matching == {i \in DOMAIN order : Matches(order[i], t)}
  IN  IF matching = {} THEN Fallback
      ELSE rules[order[CHOOSE i \in matching : \A j \in matching : i <= j]].rate

\* Mutant of SliceEnd: slices of an hour from the start, not aligned to the clock.
SliceEndUnaligned(t, end) == IF t + HourTicks < end THEN t + HourTicks ELSE end

SliceEnd(t, end) ==
  LET nextHour == (t \div HourTicks + 1) * HourTicks
  IN  IF nextHour < end THEN nextHour ELSE end

\* Each slice has one rate, that of its beginning.
BuildSegments(order, start, end) ==
  LET from[t \in start .. end] ==
        IF t >= end THEN <<>>
        ELSE <<[start |-> t, end |-> SliceEnd(t, end), rate |-> RateAt(order, t),
                cost |-> ((SliceEnd(t, end) - t) * RateAt(order, t)) \div HourTicks]>>
             \o from[SliceEnd(t, end)]
  IN  from[start]

GrossTotal(segments) ==
  LET sum[n \in 0 .. Len(segments)] == IF n = 0 THEN 0 ELSE sum[n - 1] + segments[n].cost
  IN  sum[Len(segments)]

Tiers == {"admin", "staff", "member"}
TierDiscount(tier) == CASE tier = "staff" -> 15 [] tier = "member" -> 10 [] OTHER -> 0

\* toFixed(2), amounts in cents.
Discounted(gross, tier) == (gross * (100 - TierDiscount(tier)) + 50) \div 100

CalculatePrice(order, span, tier) ==
  Discounted(GrossTotal(BuildSegments(order, span.start, span.end)), tier)

\* The instances of a series: hours times pricePerHour, whatever the rules and the tier.
SeriesPrice(span) == ((span.end - span.start) * Fallback) \div HourTicks

-----------------------------------------------------------------------------
(* Cancellation policies and refunds *)

CreatePolicy(dto) ==
  /\ policy = Absent       \* workspaceType is unique
  /\ policy' = dto
  /\ UNCHANGED <<rules, pending>>

UpdatePolicy(dto) ==
  /\ policy # Absent
  /\ policy' = Patched(policy, dto)
  /\ UNCHANGED <<rules, pending>>

RemovePolicy ==
  /\ policy # Absent
  /\ policy' = Absent
  /\ UNCHANGED <<rules, pending>>

DefaultPolicy == [full |-> DefaultHours, percent |-> 0, partial |-> 0]
Effective == IF policy = Absent THEN DefaultPolicy ELSE policy

\* Mutant of RefundPercent: the partial bracket is looked at first.
RefundPercentPartialFirst(hours) ==
  IF Effective.percent > 0 /\ hours >= Effective.partial THEN Effective.percent
  ELSE IF hours >= Effective.full THEN 100 ELSE 0

RefundPercent(hours) ==
  IF hours >= Effective.full THEN 100
  ELSE IF Effective.percent > 0 /\ hours >= Effective.partial THEN Effective.percent
  ELSE 0

EvaluateRefund(amount, hours) == (amount * RefundPercent(hours) + 50) \div 100

-----------------------------------------------------------------------------
(* Recurrence.  all() keeps one occurrence more than the maximum, to notice it. *)

Occurrences(rule, start, step) ==
  LET wanted == IF rule.count = 0 THEN MaxInstances + 1 ELSE rule.count
      kept == IF wanted > MaxInstances THEN MaxInstances + 1 ELSE wanted
  IN  [k \in 1 .. kept |-> start + (k - 1) * rule.interval * step]

\* <<>> is a refusal: no occurrence, or too many.
ExpandInstances(rule, span, step) ==
  LET starts == Occurrences(rule, span.start, step)
  IN  IF Len(starts) > MaxInstances THEN <<>>
      ELSE [k \in DOMAIN starts |-> [start |-> starts[k], end |-> starts[k] + span.end - span.start]]

-----------------------------------------------------------------------------
Next ==
  \/ \E r \in Request :
        \/ \E dto \in NewRule : CreateRule(r, dto)
        \/ \E id \in Rule, dto \in RuleChange : UpdateRule(r, id, dto)
        \/ CheckRule(r) \/ SelectRule(r) \/ WriteRule(r)
  \/ \E id \in Rule : DeleteRule(id)
  \/ \E dto \in Policy : CreatePolicy(dto)
  \/ \E dto \in PolicyChange : UpdatePolicy(dto)
  \/ RemovePolicy

Spec == Init /\ [][Next]_vars

-----------------------------------------------------------------------------
\* Whatever rules were created, changed and switched on, by whatever mix of saves, a
\* booking pays for every moment the rate in force at that hour of UTC: the slices leave
\* nothing out and count nothing twice, across hours, midnight and the end of the week.
PaysEveryMoment ==
  \A order \in Orders, s \in Span :
     s.start < s.end =>
       LET owed[t \in s.start .. s.end] ==
             IF t = s.start THEN 0 ELSE owed[t - 1] + RateAt(order, t - 1)
       IN  HourTicks * GrossTotal(BuildSegments(order, s.start, s.end)) = owed[s.end]

\* No policy an admin can configure makes waiting pay: who cancels earlier is not
\* refunded less, and nobody is refunded more than was paid.
WaitingNeverPays ==
  \A early, late \in 0 .. 2 * DefaultHours, amount \in {Fallback} :
     early >= late => /\ EvaluateRefund(amount, late) <= EvaluateRefund(amount, early)
                      /\ EvaluateRefund(amount, early) <= amount

\* price-rule.entity.ts:21 "startHour must be < endHour".
RulesCoverHours == \A id \in Stored : ValidHours(rules[id])

\* price-rule.entity.ts:19 "No two active rules ... may overlap".
OneRatePerHour ==
  \A i, j \in Active :
     (i # j /\ rules[i].day = rules[j].day) =>
        rules[i].end <= rules[j].start \/ rules[j].end <= rules[i].start

\* price-rule.entity.ts:41 and :45: the hours of a rule are "in local time".
RulesInLocalTime ==
  \A id \in Active, s \in Span :
     Matches(id, s.start + LocalHours * HourTicks) => Matches(id, s.start)

\* bookings.controller.ts:53: the cost of a booking or a series "is calculated by the
\* PricingEngine".
SeriesPaysRules ==
  \A order \in Orders, s \in Span :
     s.start < s.end => SeriesPrice(s) = CalculatePrice(order, s, "member")

\* A series keeps the length of its first instance and never exceeds the maximum.
SeriesBounded ==
  \A rule \in Recurrence, s \in Span :
     LET series == ExpandInstances(rule, s, DayHours * HourTicks)
     IN  /\ Len(series) <= MaxInstances
         /\ \A k \in DOMAIN series : series[k].end - series[k].start = s.end - s.start
         /\ (rule.count > MaxInstances \/ rule.count = 0) => series = <<>>
=============================================================================
