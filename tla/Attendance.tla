----------------------------- MODULE Attendance -----------------------------
(***************************************************************************)
(* backend/src/attendance: clock-in, clock-out and the hourly job that     *)
(* closes the sessions people forgot.  A step is one database call, none   *)
(* of them in a transaction.  Sessions are numbered in the order of their  *)
(* clock-in rows, which is the order of the timestamps.                    *)
(***************************************************************************)
EXTENDS Integers, FiniteSetsExt

CONSTANTS
    User,
    Request,            \* clock-ins and clock-outs in progress
    Job,                \* one cron job per process of the backend
    MaxSessionHours,
    MaxSessions,        \* bound
    MaxTime,            \* bound, in hours
    MaxFailures         \* bound: crashes and failed calls of the cron job

ASSUME NumbersAssumption ==
    {MaxSessionHours, MaxSessions, MaxTime, MaxFailures} \subseteq Nat

\* The name that stands for no user.
ASSUME UserAssumption == "none" \notin User

Session == 1 .. MaxSessions
NoSession == 0

VARIABLES
    clockIn,            \* the clock_in rows
    clockOut,           \* the clock_out rows of each session
    request, job,       \* what each of them has read and is about to do
    now, failures,
    overlapped          \* history: users with two clock-ins in progress at once

vars == <<clockIn, clockOut, request, job, now, failures, overlapped>>

NoRow == [user |-> "none", time |-> 0, autoCompleted |-> FALSE]
InRow == [user : User, time : 0 .. MaxTime, autoCompleted : BOOLEAN]
OutRow == [time : 0 .. MaxTime, autoCompleted : BOOLEAN]
Idle == [at |-> "idle"]

TypeOK ==
    /\ clockIn \in [Session -> InRow \cup {NoRow}]
    /\ clockOut \in [Session -> SUBSET OutRow]
    /\ \A s \in Session : clockOut[s] # {} => clockIn[s] # NoRow
    /\ request \in [Request ->
          {Idle} \cup [at : {"in_check", "in_save", "out_check", "out_save"},
                       user : User, session : {NoSession} \cup Session]]
    /\ job \in [Job -> {Idle} \cup [at : {"save", "mark"}, open : (SUBSET Session) \ {{}}]]
    /\ now \in 0 .. MaxTime
    /\ failures \in 0 .. MaxFailures
    /\ overlapped \subseteq User

Init ==
    /\ clockIn = [s \in Session |-> NoRow]
    /\ clockOut = [s \in Session |-> {}]
    /\ request = [r \in Request |-> Idle]
    /\ job = [j \in Job |-> Idle]
    /\ now = 0
    /\ failures = 0
    /\ overlapped = {}

Sessions == {s \in Session : clockIn[s] # NoRow}
SessionsOf(u) == {s \in Sessions : clockIn[s].user = u}
Closed(s) == clockOut[s] # {}
LatestOf(u) == IF SessionsOf(u) = {} THEN NoSession ELSE Max(SessionsOf(u))

-----------------------------------------------------------------------------
(* clockIn and clockOut *)

At(r, place) == request[r].at = place
Proceed(r, place) == request' = [request EXCEPT ![r].at = place]
Answer(r) == request' = [request EXCEPT ![r] = Idle]
ClockingIn(u) == {r \in Request : ~At(r, "idle") /\ request[r].user = u
                                  /\ request[r].at \in {"in_check", "in_save"}}

\* The first query of clockIn: the latest clock-in of the user.
InRead(r, u) ==
    /\ At(r, "idle")
    /\ request' = [request EXCEPT ![r] =
          [at |-> IF LatestOf(u) = NoSession THEN "in_save" ELSE "in_check",
           user |-> u, session |-> LatestOf(u)]]
    /\ overlapped' = IF ClockingIn(u) = {} THEN overlapped ELSE overlapped \cup {u}
    /\ UNCHANGED <<clockIn, clockOut, job, now, failures>>

\* Mutant of InCheck: no second query.
InCheckSkipped(r) ==
    /\ At(r, "in_check")
    /\ Proceed(r, "in_save")
    /\ UNCHANGED <<clockIn, clockOut, job, now, failures, overlapped>>

\* The second one: a session that is still open refuses the request.
InCheck(r) ==
    /\ At(r, "in_check")
    /\ IF Closed(request[r].session) THEN Proceed(r, "in_save") ELSE Answer(r)
    /\ UNCHANGED <<clockIn, clockOut, job, now, failures, overlapped>>

InSave(r) ==
    /\ At(r, "in_save")
    /\ now + MaxSessionHours < MaxTime                  \* bound: the session gets old
    /\ \E s \in Session \ Sessions :
          /\ \A t \in Session \ Sessions : s <= t
          /\ clockIn' = [clockIn EXCEPT ![s] =
                [user |-> request[r].user, time |-> now, autoCompleted |-> FALSE]]
    /\ Answer(r)
    /\ UNCHANGED <<clockOut, job, now, failures, overlapped>>

OutRead(r, u) ==
    /\ At(r, "idle")
    /\ LatestOf(u) # NoSession
    /\ request' = [request EXCEPT ![r] = [at |-> "out_check", user |-> u, session |-> LatestOf(u)]]
    /\ UNCHANGED <<clockIn, clockOut, job, now, failures, overlapped>>

OutCheck(r) ==
    /\ At(r, "out_check")
    /\ IF Closed(request[r].session) THEN Answer(r) ELSE Proceed(r, "out_save")
    /\ UNCHANGED <<clockIn, clockOut, job, now, failures, overlapped>>

OutSave(r) ==
    /\ At(r, "out_save")
    /\ clockOut' = [clockOut EXCEPT ![request[r].session] =
                       @ \cup {[time |-> now, autoCompleted |-> FALSE]}]
    /\ Answer(r)
    /\ UNCHANGED <<clockIn, job, now, failures, overlapped>>

\* An error or a crash.
Abort(r) ==
    /\ ~At(r, "idle")
    /\ Answer(r)
    /\ UNCHANGED <<clockIn, clockOut, job, now, failures, overlapped>>

-----------------------------------------------------------------------------
(* autoCompleteAbandonedSessions *)

\* Mutant of Abandoned: a session is read in one hour only.
AbandonedOnce == {s \in Sessions : clockIn[s].time = now - MaxSessionHours - 1 /\ ~clockIn[s].autoCompleted}

\* The query does not look for clock-outs: a session that somebody closed in time is
\* read like one that is open.
Abandoned == {s \in Sessions : clockIn[s].time < now - MaxSessionHours /\ ~clockIn[s].autoCompleted}

JobRead(j) ==
    /\ job[j] = Idle
    /\ Abandoned # {}
    /\ job' = [job EXCEPT ![j] = [at |-> "save", open |-> Abandoned]]
    /\ UNCHANGED <<clockIn, clockOut, request, now, failures, overlapped>>

\* The rows come in no order; here in a fixed one.
Current(j) == CHOOSE s \in job[j].open : TRUE

\* Mutant of Later: the job does not end.
LaterEmpty(j) == job' = [job EXCEPT ![j] = [at |-> "save", open |-> job[j].open \ {Current(j)}]]

Later(j) ==
    LET rest == job[j].open \ {Current(j)}
    IN  job' = [job EXCEPT ![j] = IF rest = {} THEN Idle ELSE [at |-> "save", open |-> rest]]

\* The two writes of a session; either may come first in a mutant.
SaveClockOut(j) ==
    /\ clockOut' = [clockOut EXCEPT ![Current(j)] =
          @ \cup {[time |-> clockIn[Current(j)].time + MaxSessionHours, autoCompleted |-> TRUE]}]
    /\ UNCHANGED clockIn
MarkCompleted(j) ==
    /\ clockIn' = [clockIn EXCEPT ![Current(j)].autoCompleted = TRUE]
    /\ UNCHANGED clockOut

\* Mutant of JobWrite: the session is marked first.
JobWriteMarkFirst(j) ==
    /\ job[j] # Idle
    /\ \/ job[j].at = "save" /\ MarkCompleted(j) /\ job' = [job EXCEPT ![j].at = "mark"]
       \/ job[j].at = "mark" /\ SaveClockOut(j) /\ Later(j)
    /\ UNCHANGED <<request, now, failures, overlapped>>

\* save of the clock-out row, then update of the clock-in row.
JobWrite(j) ==
    /\ job[j] # Idle
    /\ \/ job[j].at = "save" /\ SaveClockOut(j) /\ job' = [job EXCEPT ![j].at = "mark"]
       \/ job[j].at = "mark" /\ MarkCompleted(j) /\ Later(j)
    /\ UNCHANGED <<request, now, failures, overlapped>>

\* Either write fails and the job goes on with the next session, or it crashes.
JobFails(j) ==
    /\ job[j] # Idle
    /\ failures < MaxFailures
    /\ failures' = failures + 1
    /\ \/ Later(j)
       \/ job' = [job EXCEPT ![j] = Idle]
    /\ UNCHANGED <<clockIn, clockOut, request, now, overlapped>>

Tick ==
    /\ now < MaxTime
    /\ now' = now + 1
    /\ UNCHANGED <<clockIn, clockOut, request, job, failures, overlapped>>

Next ==
    \/ Tick
    \/ \E r \in Request :
          \/ \E u \in User : InRead(r, u) \/ OutRead(r, u)
          \/ InCheck(r) \/ InSave(r) \/ OutCheck(r) \/ OutSave(r) \/ Abort(r)
    \/ \E j \in Job : JobRead(j) \/ JobWrite(j) \/ JobFails(j)

Spec == Init /\ [][Next]_vars

\* Time goes on, and the job runs every hour and ends.  Nobody has to clock out.
Working == WF_vars(Tick) /\ \A j \in Job : WF_vars(JobRead(j) \/ JobWrite(j))

LiveSpec == Spec /\ Working

-----------------------------------------------------------------------------
(* The summary *)

\* getAttendanceSummary takes the clock-out row with the latest time.
Duration(s) == Max({row.time : row \in clockOut[s]}) - clockIn[s].time

-----------------------------------------------------------------------------
(* Properties *)

\* A user has at most one open session, unless two clock-ins overlapped: the check
\* of the latest session is enough, and neither late clock-outs nor the job disturb it.
OneOpen ==
    \A u \in User \ overlapped : \A s, t \in SessionsOf(u) : Closed(s) \/ Closed(t) \/ s = t

\* A session is marked as completed by the job only when its clock-out row of
\* MaxSessionHours is stored, whatever fails between the two writes.
MarkedClosed ==
    \A s \in Sessions : clockIn[s].autoCompleted =>
        [time |-> clockIn[s].time + MaxSessionHours, autoCompleted |-> TRUE] \in clockOut[s]

\* attendance-auto-complete.service.ts: the rows keep their types, and a mark has its row.
RowsMarked == TypeOK /\ MarkedClosed

\* A session that nobody closes is closed by the job, also when some of its writes
\* fail or it crashes between them.
SessionsEnd == \A s \in Session : s \in Sessions ~> Closed(s)

\* attendance-auto-complete.service.ts:27: the job is for "all open clock-in sessions
\* older than MAX_SESSION_HOURS", so no step of it changes the length of a closed one.
DurationsKept ==
    [][job' # job => \A s \in Sessions : Closed(s) => Duration(s)' = Duration(s)]_vars
=============================================================================
