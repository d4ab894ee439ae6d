-------------------------- MODULE AttendanceProofs --------------------------
(***************************************************************************)
(* Theorems about Attendance for every set of users, requests and jobs and *)
(* every bound.                                                            *)
(***************************************************************************)
EXTENDS Attendance, TLAPS

\* What somebody has read is of a session that exists; the one a job works on was too
\* old when it was read, and older since.
ReadsExist ==
    /\ \A r \in Request : request[r].at \in {"in_check", "out_check", "out_save"}
          => request[r].session \in SessionsOf(request[r].user)
    /\ \A j \in Job : job[j] # Idle => \A s \in job[j].open :
          s \in Sessions /\ clockIn[s].time + MaxSessionHours <= now

\* The clock-out row that the job writes for a session.
JobsRow(s) == [time |-> clockIn[s].time + MaxSessionHours, autoCompleted |-> TRUE]

\* Between its two writes a job has stored the first one.
RowBeforeMark ==
    \A j \in Job : job[j] # Idle => (job[j].at = "mark" => JobsRow(Current(j)) \in clockOut[Current(j)])

\* Sessions are numbered without gaps, so the sessions of a user have a last one: without
\* it LatestOf would say nothing.
Dense == \A s \in Sessions, t \in Session : t < s => t \in Sessions
Newest(s, u) == s \in SessionsOf(u) /\ \A t \in SessionsOf(u) : t <= s
LatestExists == \A u \in User : SessionsOf(u) # {} => \E s \in Session : Newest(s, u)

\* The clock-ins of a user that do not overlap: one at a time, whoever is about to save
\* found everything closed, whoever is about to check looks at the last session, and only
\* that one may be open.
OneAtATime ==
    \A u \in User \ overlapped : \A q, r \in Request : q \in ClockingIn(u) /\ r \in ClockingIn(u) => q = r
SaverSawClosed ==
    \A r \in Request : request[r].at = "in_save" /\ request[r].user \notin overlapped
        => \A s \in SessionsOf(request[r].user) : Closed(s)
CheckerSeesLast ==
    \A r \in Request : request[r].at = "in_check" /\ request[r].user \notin overlapped
        => Newest(request[r].session, request[r].user)
OlderClosed ==
    \A u \in User \ overlapped : \A s, t \in SessionsOf(u) : s < t => Closed(s)

RowsInv == TypeOK /\ MarkedClosed /\ ReadsExist /\ RowBeforeMark /\ Dense /\ LatestExists
OpenInv == OneAtATime /\ SaverSawClosed /\ CheckerSeesLast /\ OlderClosed

-----------------------------------------------------------------------------
(* What has been read *)

LEMMA RequestFields ==
    ASSUME TypeOK, NEW r \in Request, request[r].at # "idle"
    PROVE  /\ request[r].user \in User
           /\ request[r].session \in {NoSession} \cup Session
           /\ request[r] \in [at : {"in_check", "in_save", "out_check", "out_save"},
                             user : User, session : {NoSession} \cup Session]
BY DEF TypeOK, Idle

LEMMA JobFields ==
    ASSUME TypeOK, NEW j \in Job, job[j] # Idle
    PROVE  /\ job[j] \in [at : {"save", "mark"}, open : (SUBSET Session) \ {{}}]
           /\ Current(j) \in job[j].open
           /\ job[j].open \subseteq Session
BY DEF TypeOK, Current

LEMMA LatestIsNewest ==
    ASSUME TypeOK, LatestExists, NumbersAssumption, NEW u \in User, SessionsOf(u) # {}
    PROVE  Newest(LatestOf(u), u) /\ LatestOf(u) # NoSession
<1>1. PICK s \in Session : Newest(s, u)
  BY DEF LatestExists
<1>2. SessionsOf(u) \subseteq Session /\ Session \subseteq Int
  BY DEF SessionsOf, Sessions, Session, NumbersAssumption
<1>3. \A t \in SessionsOf(u) : s >= t
  BY <1>1, <1>2 DEF Newest
<1>4. LatestOf(u) \in SessionsOf(u) /\ \A t \in SessionsOf(u) : LatestOf(u) >= t
  BY <1>1, <1>3 DEF LatestOf, Max, Newest
<1>5. NoSession \notin Session
  BY DEF NoSession, Session
<1> QED
  BY <1>2, <1>4, <1>5 DEF Newest

LEMMA NoLatest ==
    ASSUME TypeOK, LatestExists, NumbersAssumption, NEW u \in User, LatestOf(u) = NoSession
    PROVE  SessionsOf(u) = {}
BY LatestIsNewest

-----------------------------------------------------------------------------
(* The rows *)

LEMMA InitRows == ASSUME NumbersAssumption, Init PROVE RowsInv
<1>1. TypeOK
  BY DEF Init, TypeOK, NumbersAssumption, OutRow
<1>2. Sessions = {} /\ \A u \in User : SessionsOf(u) = {}
  BY DEF Init, Sessions, SessionsOf
<1> QED
  BY <1>1, <1>2 DEF Init, RowsInv, MarkedClosed, ReadsExist, RowBeforeMark, Dense, LatestExists, Idle

\* Steps that write no row keep what is said of the rows alone.
LEMMA QuietRows ==
    ASSUME RowsInv, UNCHANGED <<clockIn, clockOut>>
    PROVE  MarkedClosed' /\ Dense' /\ LatestExists'
BY DEF RowsInv, MarkedClosed, Dense, LatestExists, Newest, SessionsOf, Sessions

\* Steps of a request that only read.
LEMMA ReadKeepsRows ==
    ASSUME NumbersAssumption, RowsInv, NEW r \in Request,
           (\E u \in User : InRead(r, u) \/ OutRead(r, u)) \/ InCheck(r) \/ OutCheck(r) \/ Abort(r)
    PROVE  RowsInv'
<1>1. UNCHANGED <<clockIn, clockOut, job, now, failures>>
  BY DEF InRead, OutRead, InCheck, OutCheck, Abort
<1>2. /\ request' = [request EXCEPT ![r] = request'[r]]
      /\ request'[r] \in {Idle} \cup [at : {"in_check", "in_save", "out_check", "out_save"},
                                      user : User, session : {NoSession} \cup Session]
      /\ request'[r].at \in {"in_check", "out_check", "out_save"}
            => request'[r].session \in SessionsOf(request'[r].user)
      /\ overlapped' \subseteq User
  <2>1. CASE \E u \in User : InRead(r, u) \/ OutRead(r, u)
    <3>1. PICK u \in User : InRead(r, u) \/ OutRead(r, u)
      BY <2>1
    <3>2. LatestOf(u) # NoSession => LatestOf(u) \in SessionsOf(u)
      BY LatestIsNewest DEF RowsInv, LatestOf, Newest
    <3>3. SessionsOf(u) \subseteq Session
      BY DEF SessionsOf, Sessions
    <3> QED
      BY <3>1, <3>2, <3>3 DEF InRead, OutRead, RowsInv, TypeOK
  <2>2. CASE InCheck(r) \/ OutCheck(r)
    BY <2>2, RequestFields DEF InCheck, OutCheck, RowsInv, TypeOK, ReadsExist, At, Proceed, Answer, Idle
  <2>3. CASE Abort(r)
    BY <2>3 DEF Abort, Answer, Idle, RowsInv, TypeOK
  <2> QED
    BY <2>1, <2>2, <2>3
<1>3. TypeOK'
  BY <1>1, <1>2 DEF RowsInv, TypeOK
<1>4. \A u : (SessionsOf(u))' = SessionsOf(u)
  BY <1>1 DEF SessionsOf, Sessions
<1>5. ReadsExist'
  <2>1. \A q \in Request : request'[q] = IF q = r THEN request'[r] ELSE request[q]
    BY <1>2 DEF RowsInv, TypeOK
  <2>2. \A q \in Request : request'[q].at \in {"in_check", "out_check", "out_save"}
          => request'[q].session \in SessionsOf(request'[q].user)
    BY <1>2, <2>1 DEF RowsInv, ReadsExist
  <2> QED
    BY <1>1, <1>4, <2>2 DEF RowsInv, ReadsExist, Sessions
<1>6. RowBeforeMark'
  BY <1>1 DEF RowsInv, RowBeforeMark, JobsRow, Current
<1> QED
  BY <1>1, <1>3, <1>5, <1>6, QuietRows DEF RowsInv

\* A clock-in is stored under the next number: it becomes the last of its user, and no
\* row that was there changes.
LEMMA NewSession ==
    ASSUME NumbersAssumption, RowsInv, NEW r \in Request, InSave(r)
    PROVE  \E s \in Session \ Sessions :
              /\ clockIn' = [clockIn EXCEPT ![s] =
                    [user |-> request[r].user, time |-> now, autoCompleted |-> FALSE]]
              /\ Sessions' = Sessions \cup {s}
              /\ \A t \in Sessions : t < s /\ clockIn'[t] = clockIn[t]
              /\ \A t \in Session : t < s => t \in Sessions
              /\ \A u : SessionsOf(u)' =
                    IF u = request[r].user THEN SessionsOf(u) \cup {s} ELSE SessionsOf(u)
<1>1. PICK s \in Session \ Sessions :
          /\ \A t \in Session \ Sessions : s <= t
          /\ clockIn' = [clockIn EXCEPT ![s] =
                [user |-> request[r].user, time |-> now, autoCompleted |-> FALSE]]
  BY DEF InSave
<1>2. Session \subseteq Int /\ Sessions \subseteq Session
  BY DEF Session, Sessions, NumbersAssumption
<1>3. \A t \in Session : t < s => t \in Sessions
  <2> SUFFICES ASSUME NEW t \in Session, t < s, t \notin Sessions PROVE FALSE
    OBVIOUS
  <2>1. t \in Int /\ s \in Int
    BY <1>2
  <2>2. s <= t
    BY <1>1
  <2> QED
    BY <2>1, <2>2
<1>4. \A t \in Sessions : t < s
  <2> SUFFICES ASSUME NEW t \in Sessions, ~(t < s) PROVE FALSE
    OBVIOUS
  <2>1. t \in Int /\ s \in Int /\ t # s
    BY <1>2
  <2>2. s < t
    BY <2>1
  <2> QED
    BY <2>2 DEF RowsInv, Dense
<1>5. /\ clockIn'[s] = [user |-> request[r].user, time |-> now, autoCompleted |-> FALSE]
      /\ \A t \in Session : t # s => clockIn'[t] = clockIn[t]
  BY <1>1 DEF RowsInv, TypeOK
<1>6. clockIn'[s] # NoRow
  BY <1>5, UserAssumption, RequestFields DEF NoRow, RowsInv, InSave, At
<1>7. Sessions' = Sessions \cup {s}
  BY <1>1, <1>5, <1>6 DEF Sessions
<1>8. \A u : SessionsOf(u)' = IF u = request[r].user THEN SessionsOf(u) \cup {s} ELSE SessionsOf(u)
  BY <1>1, <1>2, <1>5, <1>7 DEF SessionsOf
<1> QED
  BY <1>1, <1>2, <1>3, <1>4, <1>5, <1>7, <1>8

LEMMA SaveInKeepsRows ==
    ASSUME NumbersAssumption, RowsInv, NEW r \in Request, InSave(r)
    PROVE  RowsInv'
<1>1. PICK s \in Session \ Sessions :
          /\ clockIn' = [clockIn EXCEPT ![s] =
                [user |-> request[r].user, time |-> now, autoCompleted |-> FALSE]]
          /\ Sessions' = Sessions \cup {s}
          /\ \A t \in Sessions : t < s /\ clockIn'[t] = clockIn[t]
          /\ \A t \in Session : t < s => t \in Sessions
          /\ \A u : SessionsOf(u)' =
                IF u = request[r].user THEN SessionsOf(u) \cup {s} ELSE SessionsOf(u)
  BY NewSession
<1>2. /\ request' = [request EXCEPT ![r] = Idle]
      /\ UNCHANGED <<clockOut, job, now, failures, overlapped>>
  BY DEF InSave, Answer
<1>3. Session \subseteq Int /\ Sessions \subseteq Session
  BY DEF Session, Sessions, NumbersAssumption
<1>4. request[r].user \in User
  BY RequestFields DEF InSave, At, RowsInv
<1>5. TypeOK'
  <2>1. clockIn' \in [Session -> InRow \cup {NoRow}]
    BY <1>1, <1>4 DEF RowsInv, TypeOK, InRow
  <2>2. \A t \in Session : clockOut'[t] # {} => clockIn'[t] # NoRow
    BY <1>1, <1>2 DEF RowsInv, TypeOK, Sessions
  <2> QED
    BY <1>2, <2>1, <2>2 DEF RowsInv, TypeOK
<1>6. MarkedClosed'
  <2>1. clockIn'[s].autoCompleted = FALSE
    BY <1>1 DEF RowsInv, TypeOK
  <2> QED
    BY <1>1, <1>2, <2>1 DEF RowsInv, MarkedClosed
<1>7. ReadsExist'
  <2>1. \A t \in Sessions : t \in Session /\ t \in Sessions' /\ clockIn'[t] = clockIn[t]
    BY <1>1, <1>3
  <2>2. ASSUME NEW q \in Request, request'[q].at \in {"in_check", "out_check", "out_save"}
        PROVE  request'[q].session \in Sessions' /\ clockIn'[request'[q].session].user = request'[q].user
    <3>1. q # r
      BY <1>2, <2>2 DEF RowsInv, TypeOK, Idle
    <3>2. request'[q] = request[q]
      BY <1>2, <3>1
    <3>3. request[q].session \in Sessions /\ clockIn[request[q].session].user = request[q].user
      BY <2>2, <3>2 DEF RowsInv, ReadsExist, SessionsOf
    <3> QED
      BY <2>1, <3>2, <3>3
  <2>3. \A j \in Job : job'[j] # Idle => \A t \in job'[j].open :
          t \in Sessions' /\ clockIn'[t].time + MaxSessionHours <= now'
    BY <1>2, <2>1 DEF RowsInv, ReadsExist
  <2> QED
    BY <2>2, <2>3 DEF ReadsExist, SessionsOf
<1>8. RowBeforeMark'
  <2>1. \A j \in Job : job[j] # Idle => Current(j) \in Sessions
    BY JobFields DEF RowsInv, ReadsExist
  <2>2. \A j \in Job : Current(j)' = Current(j)
    BY <1>2 DEF Current
  <2> QED
    BY <1>1, <1>2, <2>1, <2>2 DEF RowsInv, RowBeforeMark, JobsRow
<1>9. Dense'
  BY <1>1, <1>3 DEF RowsInv, Dense
<1>10. LatestExists'
  <2> SUFFICES ASSUME NEW u \in User, SessionsOf(u)' # {} PROVE \E n \in Session : Newest(n, u)'
    BY DEF LatestExists
  <2>1. SessionsOf(u) \subseteq Sessions
    BY DEF SessionsOf
  <2>2. CASE u = request[r].user
    <3>1. SessionsOf(u)' = SessionsOf(u) \cup {s}
      BY <1>1, <2>2
    <3>2. s \in Int /\ \A t \in SessionsOf(u) : t \in Int /\ t < s
      BY <1>1, <1>3, <2>1
    <3>3. \A t \in SessionsOf(u) : t <= s
      BY <3>2
    <3>4. s <= s
      BY <3>2
    <3> QED
      BY <3>1, <3>3, <3>4 DEF Newest
  <2>3. CASE u # request[r].user
    <3>1. SessionsOf(u)' = SessionsOf(u)
      BY <1>1, <2>3
    <3> QED
      BY <3>1 DEF RowsInv, LatestExists, Newest
  <2> QED
    BY <2>2, <2>3
<1> QED
  BY <1>5, <1>6, <1>7, <1>8, <1>9, <1>10 DEF RowsInv

\* A step that only adds clock-out rows keeps what is said of the rows.
LEMMA MoreRows ==
    ASSUME NumbersAssumption, RowsInv, UNCHANGED clockIn,
           \A s \in Session : clockOut[s] \subseteq clockOut'[s]
    PROVE  MarkedClosed' /\ Dense' /\ LatestExists'
<1>1. Sessions' = Sessions /\ Sessions \subseteq Session
  BY DEF Sessions
<1>2. \A u : SessionsOf(u)' = SessionsOf(u)
  BY <1>1 DEF SessionsOf
<1>3. MarkedClosed'
  BY <1>1 DEF RowsInv, MarkedClosed
<1> QED
  BY <1>1, <1>2, <1>3 DEF RowsInv, Dense, LatestExists, Newest

LEMMA SaveOutKeepsRows ==
    ASSUME NumbersAssumption, RowsInv, NEW r \in Request, OutSave(r)
    PROVE  RowsInv'
<1> DEFINE c == request[r].session
<1>1. /\ clockOut' = [clockOut EXCEPT ![c] = @ \cup {[time |-> now, autoCompleted |-> FALSE]}]
      /\ request' = [request EXCEPT ![r] = Idle]
      /\ UNCHANGED <<clockIn, job, now, failures, overlapped>>
  BY DEF OutSave, Answer
<1>2. c \in Session /\ clockIn[c] # NoRow
  BY DEF OutSave, At, RowsInv, ReadsExist, SessionsOf, Sessions
<1>3. \A s \in Session : clockOut[s] \subseteq clockOut'[s]
  BY <1>1 DEF RowsInv, TypeOK
<1>4. TypeOK'
  <2>1. [time |-> now, autoCompleted |-> FALSE] \in OutRow
    BY DEF RowsInv, TypeOK, OutRow
  <2>2. clockOut' \in [Session -> SUBSET OutRow]
    BY <1>1, <2>1 DEF RowsInv, TypeOK
  <2>3. \A s \in Session : clockOut'[s] # {} => clockIn'[s] # NoRow
    BY <1>1, <1>2 DEF RowsInv, TypeOK
  <2> QED
    BY <1>1, <2>2, <2>3 DEF RowsInv, TypeOK
<1>5. ReadsExist'
  <2>1. \A q \in Request : request'[q] = request[q] \/ request'[q].at = "idle"
    BY <1>1 DEF RowsInv, TypeOK, Idle
  <2> QED
    BY <1>1, <2>1 DEF RowsInv, ReadsExist, SessionsOf, Sessions
<1>6. RowBeforeMark'
  <2>1. \A j \in Job : job[j] # Idle => Current(j) \in Session
    BY JobFields DEF RowsInv
  <2> QED
    BY <1>1, <1>3, <2>1 DEF RowsInv, RowBeforeMark, JobsRow, Current
<1> QED
  BY <1>1, <1>3, <1>4, <1>5, <1>6, MoreRows DEF RowsInv

LEMMA TickKeepsRows ==
    ASSUME NumbersAssumption, RowsInv, Tick
    PROVE  RowsInv'
<1>1. now \in 0 .. MaxTime /\ MaxTime \in Nat /\ now' = now + 1 /\ now' \in 0 .. MaxTime
  BY DEF Tick, RowsInv, TypeOK, NumbersAssumption
<1>2. UNCHANGED <<clockIn, clockOut, request, job, failures, overlapped>>
  BY DEF Tick
<1>3. TypeOK'
  BY <1>1, <1>2 DEF RowsInv, TypeOK
<1>4. ReadsExist'
  <2>1. \A j \in Job : job[j] # Idle => \A s \in job[j].open :
          s \in Sessions /\ clockIn[s].time + MaxSessionHours <= now + 1
    <3> SUFFICES ASSUME NEW j \in Job, job[j] # Idle, NEW s \in job[j].open
                 PROVE  s \in Sessions /\ clockIn[s].time + MaxSessionHours <= now + 1
      OBVIOUS
    <3>1. s \in Sessions /\ clockIn[s].time + MaxSessionHours <= now
      BY DEF RowsInv, ReadsExist
    <3>2. clockIn[s].time \in Int /\ MaxSessionHours \in Int
      BY <3>1 DEF RowsInv, TypeOK, Sessions, InRow, NumbersAssumption
    <3> QED
      BY <1>1, <3>1, <3>2
  <2> QED
    BY <1>1, <1>2, <2>1 DEF RowsInv, ReadsExist, SessionsOf, Sessions
<1>5. RowBeforeMark'
  BY <1>2 DEF RowsInv, RowBeforeMark, JobsRow, Current
<1> QED
  BY <1>2, <1>3, <1>4, <1>5, QuietRows DEF RowsInv

\* What a job has left to do after a session, or after a failure.
LEMMA LaterJobs ==
    ASSUME TypeOK, NEW j \in Job, job[j] # Idle, Later(j) \/ job' = [job EXCEPT ![j] = Idle]
    PROVE  /\ job' \in [Job -> {Idle} \cup [at : {"save", "mark"}, open : (SUBSET Session) \ {{}}]]
           /\ \A k \in Job : k # j => job'[k] = job[k]
           /\ job'[j] # Idle => job'[j].at = "save" /\ job'[j].open \subseteq job[j].open
<1>1. job[j].open \subseteq Session
  BY JobFields
<1> QED
  BY <1>1 DEF TypeOK, Later, Idle

\* Steps of a job that write nothing.
LEMMA JobKeepsRows ==
    ASSUME NumbersAssumption, RowsInv, NEW j \in Job, JobRead(j) \/ JobFails(j)
    PROVE  RowsInv'
<1>1. UNCHANGED <<clockIn, clockOut, request, now, overlapped>>
  BY DEF JobRead, JobFails
<1>2. /\ job' \in [Job -> {Idle} \cup [at : {"save", "mark"}, open : (SUBSET Session) \ {{}}]]
      /\ \A k \in Job : k # j => job'[k] = job[k]
      /\ job'[j] # Idle => /\ job'[j].at = "save"
                           /\ \A s \in job'[j].open :
                                 s \in Sessions /\ clockIn[s].time + MaxSessionHours <= now
  <2>1. CASE JobRead(j)
    <3>1. Abandoned \subseteq Sessions /\ Sessions \subseteq Session
      BY DEF Abandoned, Sessions
    <3>2. \A s \in Abandoned : clockIn[s].time + MaxSessionHours <= now
      <4> SUFFICES ASSUME NEW s \in Abandoned PROVE clockIn[s].time + MaxSessionHours <= now
        OBVIOUS
      <4>1. clockIn[s].time \in Int /\ MaxSessionHours \in Int /\ now \in Int
        BY <3>1 DEF RowsInv, TypeOK, Sessions, InRow, NumbersAssumption
      <4>2. clockIn[s].time < now - MaxSessionHours
        BY DEF Abandoned
      <4> QED
        BY <4>1, <4>2
    <3> QED
      BY <2>1, <3>1, <3>2 DEF JobRead, RowsInv, TypeOK
  <2>2. CASE JobFails(j)
    BY <2>2, LaterJobs DEF JobFails, RowsInv, ReadsExist
  <2> QED
    BY <2>1, <2>2
<1>3. failures' \in 0 .. MaxFailures
  BY DEF JobRead, JobFails, RowsInv, TypeOK, NumbersAssumption
<1>4. TypeOK'
  BY <1>1, <1>2, <1>3 DEF RowsInv, TypeOK
<1>5. ReadsExist'
  <2>1. \A k \in Job : job'[k] # Idle => \A s \in job'[k].open :
          s \in Sessions /\ clockIn[s].time + MaxSessionHours <= now
    BY <1>2 DEF RowsInv, ReadsExist
  <2> QED
    BY <1>1, <2>1 DEF RowsInv, ReadsExist, SessionsOf, Sessions
<1>6. RowBeforeMark'
  BY <1>1, <1>2 DEF RowsInv, RowBeforeMark, JobsRow, Current
<1> QED
  BY <1>1, <1>4, <1>5, <1>6, QuietRows DEF RowsInv

\* The first write of a session: the row it needs before it can be marked.
LEMMA SaveKeepsRows ==
    ASSUME NumbersAssumption, RowsInv, NEW j \in Job, JobWrite(j), job[j].at = "save"
    PROVE  RowsInv'
<1> DEFINE c == Current(j)
<1>1. /\ clockOut' = [clockOut EXCEPT ![c] = @ \cup {JobsRow(c)}]
      /\ job' = [job EXCEPT ![j].at = "mark"]
      /\ UNCHANGED <<clockIn, request, now, failures, overlapped>>
  BY DEF JobWrite, SaveClockOut, JobsRow
<1>2. job[j] # Idle
  BY DEF JobWrite
<1>3. /\ c \in job[j].open /\ c \in Session /\ c \in Sessions
      /\ clockIn[c].time + MaxSessionHours <= now
  BY <1>2, JobFields DEF RowsInv, ReadsExist
<1>4. \A s \in Session : clockOut[s] \subseteq clockOut'[s]
  BY <1>1 DEF RowsInv, TypeOK
<1>5. \A k \in Job : job'[k] = IF k = j THEN [job[j] EXCEPT !.at = "mark"] ELSE job[k]
  BY <1>1 DEF RowsInv, TypeOK
<1>6. job[j] \in [at : {"save", "mark"}, open : (SUBSET Session) \ {{}}]
  BY <1>2, JobFields DEF RowsInv
<1>7. job'[j].open = job[j].open /\ job'[j].at = "mark"
  BY <1>5, <1>6
<1>8. TypeOK'
  <2>1. clockIn[c].time \in 0 .. MaxTime
    BY <1>3 DEF RowsInv, TypeOK, Sessions, InRow
  <2>2. clockIn[c].time + MaxSessionHours \in 0 .. MaxTime
    BY <1>3, <2>1 DEF RowsInv, TypeOK, NumbersAssumption
  <2>3. JobsRow(c) \in OutRow
    BY <2>2 DEF JobsRow, OutRow
  <2>4. clockOut' \in [Session -> SUBSET OutRow]
    BY <1>1, <2>3 DEF RowsInv, TypeOK
  <2>5. \A s \in Session : clockOut'[s] # {} => clockIn'[s] # NoRow
    BY <1>1, <1>3 DEF RowsInv, TypeOK, Sessions
  <2>6. job' \in [Job -> {Idle} \cup [at : {"save", "mark"}, open : (SUBSET Session) \ {{}}]]
    BY <1>1, <1>6 DEF RowsInv, TypeOK
  <2> QED
    BY <1>1, <2>4, <2>5, <2>6 DEF RowsInv, TypeOK
<1>9. ReadsExist'
  <2>1. \A k \in Job : job'[k] # Idle => \A s \in job'[k].open :
          s \in Sessions /\ clockIn[s].time + MaxSessionHours <= now
    BY <1>2, <1>5, <1>7 DEF RowsInv, ReadsExist
  <2> QED
    BY <1>1, <2>1 DEF RowsInv, ReadsExist, SessionsOf, Sessions
<1>10. RowBeforeMark'
  <2>1. JobsRow(c) \in clockOut'[c]
    BY <1>1, <1>3 DEF RowsInv, TypeOK
  <2>2. (JobsRow(Current(j)) \in clockOut[Current(j)])'
    BY <1>1, <1>7, <2>1 DEF JobsRow, Current
  <2>3. ASSUME NEW k \in Job, k # j, job[k] # Idle, job[k].at = "mark"
        PROVE  (JobsRow(Current(k)) \in clockOut[Current(k)])'
    <3>1. Current(k) \in Session
      BY <2>3, JobFields DEF RowsInv
    <3>2. JobsRow(Current(k)) \in clockOut'[Current(k)]
      BY <1>4, <2>3, <3>1 DEF RowsInv, RowBeforeMark
    <3> QED
      BY <1>1, <1>5, <2>3, <3>2 DEF JobsRow, Current
  <2> QED
    BY <1>5, <2>2, <2>3 DEF RowBeforeMark
<1> QED
  BY <1>1, <1>4, <1>8, <1>9, <1>10, MoreRows DEF RowsInv

\* The second one: what the mark leaves of a clock-in row.
LEMMA MarkedRow ==
    ASSUME NumbersAssumption, RowsInv, NEW j \in Job, JobWrite(j), job[j].at = "mark"
    PROVE  /\ \A s \in Session : s # Current(j) => clockIn'[s] = clockIn[s]
           /\ clockIn' \in [Session -> InRow \cup {NoRow}]
           /\ Sessions' = Sessions
           /\ \A s \in Sessions : /\ clockIn'[s].user = clockIn[s].user
                                  /\ clockIn'[s].time = clockIn[s].time
<1> DEFINE c == Current(j)
<1>1. c \in Session /\ c \in Sessions
  BY JobFields DEF JobWrite, RowsInv, ReadsExist
<1>2. clockIn[c] \in InRow
  BY <1>1 DEF RowsInv, TypeOK, Sessions
<1>3. clockIn' = [clockIn EXCEPT ![c] = [clockIn[c] EXCEPT !.autoCompleted = TRUE]]
  BY DEF JobWrite, MarkCompleted
<1>4. /\ [clockIn[c] EXCEPT !.autoCompleted = TRUE] \in InRow
      /\ [clockIn[c] EXCEPT !.autoCompleted = TRUE].user = clockIn[c].user
      /\ [clockIn[c] EXCEPT !.autoCompleted = TRUE].time = clockIn[c].time
  BY <1>2 DEF InRow
<1>5. NoRow \notin InRow
  BY UserAssumption DEF NoRow, InRow
<1>6. /\ \A s \in Session : s # c => clockIn'[s] = clockIn[s]
      /\ clockIn'[c] = [clockIn[c] EXCEPT !.autoCompleted = TRUE]
      /\ clockIn' \in [Session -> InRow \cup {NoRow}]
  BY <1>1, <1>3, <1>4 DEF RowsInv, TypeOK
<1>7. Sessions' = Sessions
  BY <1>1, <1>4, <1>5, <1>6 DEF Sessions
<1>8. \A s \in Sessions : clockIn'[s].user = clockIn[s].user /\ clockIn'[s].time = clockIn[s].time
  BY <1>4, <1>6 DEF Sessions
<1> QED
  BY <1>6, <1>7, <1>8

LEMMA MarkKeepsRows ==
    ASSUME NumbersAssumption, RowsInv, NEW j \in Job, JobWrite(j), job[j].at = "mark"
    PROVE  RowsInv'
<1> DEFINE c == Current(j)
<1>1. /\ UNCHANGED <<clockOut, request, now, failures, overlapped>>
      /\ job[j] # Idle
      /\ Later(j)
  BY DEF JobWrite, MarkCompleted
<1>2. /\ \A s \in Session : s # c => clockIn'[s] = clockIn[s]
      /\ clockIn' \in [Session -> InRow \cup {NoRow}]
      /\ Sessions' = Sessions
      /\ \A s \in Sessions : clockIn'[s].user = clockIn[s].user /\ clockIn'[s].time = clockIn[s].time
  BY MarkedRow
<1>3. /\ job' \in [Job -> {Idle} \cup [at : {"save", "mark"}, open : (SUBSET Session) \ {{}}]]
      /\ \A k \in Job : k # j => job'[k] = job[k]
      /\ job'[j] # Idle => job'[j].at = "save" /\ job'[j].open \subseteq job[j].open
  BY <1>1, LaterJobs DEF RowsInv
<1>4. Sessions \subseteq Session
  BY DEF Sessions
<1>5. \A u : SessionsOf(u)' = SessionsOf(u)
  BY <1>2 DEF SessionsOf
<1>6. TypeOK'
  <2>1. \A s \in Session : clockOut'[s] # {} => clockIn'[s] # NoRow
    BY <1>1, <1>2 DEF RowsInv, TypeOK, Sessions
  <2> QED
    BY <1>1, <1>2, <1>3, <2>1 DEF RowsInv, TypeOK
<1>7. MarkedClosed'
  <2> SUFFICES ASSUME NEW s \in Sessions, clockIn'[s].autoCompleted PROVE JobsRow(s) \in clockOut[s]
    BY <1>1, <1>2 DEF MarkedClosed, JobsRow
  <2>1. CASE s = c
    BY <1>1, <2>1 DEF RowsInv, RowBeforeMark
  <2>2. CASE s # c
    BY <1>2, <1>4, <2>2 DEF RowsInv, MarkedClosed, JobsRow
  <2> QED
    BY <2>1, <2>2
<1>8. ReadsExist'
  <2>1. \A q \in Request : request[q].at \in {"in_check", "out_check", "out_save"}
          => request[q].session \in Sessions' /\ clockIn'[request[q].session].user = request[q].user
    BY <1>2 DEF RowsInv, ReadsExist, SessionsOf
  <2>2. \A k \in Job : job'[k] # Idle => \A s \in job'[k].open :
          s \in Sessions' /\ clockIn'[s].time + MaxSessionHours <= now
    BY <1>1, <1>2, <1>3 DEF RowsInv, ReadsExist
  <2> QED
    BY <1>1, <2>1, <2>2 DEF ReadsExist, SessionsOf
<1>9. RowBeforeMark'
  <2> SUFFICES ASSUME NEW k \in Job, job'[k] # Idle, job'[k].at = "mark"
               PROVE  (JobsRow(Current(k)) \in clockOut[Current(k)])'
    BY DEF RowBeforeMark
  <2>1. k # j /\ job'[k] = job[k]
    BY <1>3
  <2>2. Current(k) \in Sessions /\ JobsRow(Current(k)) \in clockOut[Current(k)]
    BY <2>1, JobFields DEF RowsInv, RowBeforeMark, ReadsExist
  <2>3. clockIn'[Current(k)].time = clockIn[Current(k)].time
    BY <1>2, <2>2
  <2> QED
    BY <1>1, <2>1, <2>2, <2>3 DEF JobsRow, Current
<1>10. Dense' /\ LatestExists'
  BY <1>2, <1>5 DEF RowsInv, Dense, LatestExists, Newest
<1> QED
  BY <1>6, <1>7, <1>8, <1>9, <1>10 DEF RowsInv

LEMMA NextKeepsRows == ASSUME NumbersAssumption, RowsInv, [Next]_vars PROVE RowsInv'
<1>1. CASE Tick
  BY <1>1, TickKeepsRows
<1>2. ASSUME NEW r \in Request,
             \/ \E u \in User : InRead(r, u) \/ OutRead(r, u)
             \/ InCheck(r) \/ InSave(r) \/ OutCheck(r) \/ OutSave(r) \/ Abort(r)
      PROVE  RowsInv'
  BY <1>2, ReadKeepsRows, SaveInKeepsRows, SaveOutKeepsRows
<1>3. ASSUME NEW j \in Job, JobRead(j) \/ JobWrite(j) \/ JobFails(j)
      PROVE  RowsInv'
  <2>1. CASE JobWrite(j)
    BY <2>1, SaveKeepsRows, MarkKeepsRows DEF JobWrite
  <2> QED
    BY <1>3, <2>1, JobKeepsRows
<1>4. CASE UNCHANGED vars
  <2>1. TypeOK' /\ ReadsExist' /\ RowBeforeMark'
    BY <1>4 DEF vars, RowsInv, TypeOK, ReadsExist, SessionsOf, Sessions, RowBeforeMark, JobsRow, Current
  <2> QED
    BY <1>4, <2>1, QuietRows DEF vars, RowsInv
<1> QED
  BY <1>1, <1>2, <1>3, <1>4 DEF Next

\* attendance-auto-complete.service.ts: whatever fails between the two writes of a session,
\* and however many jobs and requests run at once, a session carries the mark of the job
\* only when the clock-out row it stands for is stored; and the rows keep their types.
THEOREM RowsAreMarked == Spec => []RowsMarked
<1>1. Init => RowsInv
  BY InitRows, NumbersAssumption
<1>2. RowsInv /\ [Next]_vars => RowsInv'
  BY NextKeepsRows, NumbersAssumption
<1>3. RowsInv => RowsMarked
  BY DEF RowsInv, RowsMarked
<1> QED
  BY <1>1, <1>2, <1>3, PTL DEF Spec

-----------------------------------------------------------------------------
(* The open sessions of a user *)

LEMMA InitOpen == ASSUME Init PROVE OpenInv
<1>1. \A u : SessionsOf(u) = {}
  BY DEF Init, SessionsOf, Sessions
<1>2. \A r \in Request : request[r].at = "idle"
  BY DEF Init, Idle
<1> QED
  BY <1>1, <1>2 DEF OpenInv, OneAtATime, SaverSawClosed, CheckerSeesLast, OlderClosed, ClockingIn, At

\* A step that brings no clock-in forward and adds no session.
LEMMA QuietOpen ==
    ASSUME RowsInv, OpenInv,
           Sessions' = Sessions,
           \A s \in Sessions : clockIn'[s].user = clockIn[s].user,
           \A s \in Session : Closed(s) => Closed(s)',
           overlapped \subseteq overlapped',
           \A q \in Request : request'[q].at \in {"in_check", "in_save"} => request'[q] = request[q]
    PROVE  OpenInv'
<1>1. \A u : SessionsOf(u)' = SessionsOf(u)
  BY DEF SessionsOf
<1>2. \A s \in Sessions : Closed(s) => Closed(s)'
  BY DEF Sessions
<1>3. OneAtATime'
  BY DEF OpenInv, OneAtATime, ClockingIn, At
<1>4. SaverSawClosed'
  <2> SUFFICES ASSUME NEW q \in Request, request'[q].at = "in_save", request'[q].user \notin overlapped',
                      NEW s \in Sessions, clockIn'[s].user = request'[q].user
               PROVE  Closed(s)'
    BY DEF SaverSawClosed, SessionsOf
  <2>1. request'[q] = request[q]
    OBVIOUS
  <2> QED
    BY <1>2, <2>1 DEF OpenInv, SaverSawClosed, SessionsOf
<1>5. CheckerSeesLast'
  <2> SUFFICES ASSUME NEW q \in Request, request'[q].at = "in_check", request'[q].user \notin overlapped'
               PROVE  Newest(request[q].session, request[q].user)'
    BY DEF CheckerSeesLast
  <2>1. request'[q] = request[q]
    OBVIOUS
  <2>2. Newest(request[q].session, request[q].user)
    BY <2>1 DEF OpenInv, CheckerSeesLast
  <2> QED
    BY <2>1, <2>2 DEF Newest, SessionsOf
<1>6. OlderClosed'
  BY <1>1, <1>2 DEF OpenInv, OlderClosed, SessionsOf
<1> QED
  BY <1>3, <1>4, <1>5, <1>6 DEF OpenInv

\* A clock-in that starts finds no session of its user, or looks at the last one; when
\* another one of that user is in progress, they overlap.
LEMMA InReadKeepsOpen ==
    ASSUME NumbersAssumption, RowsInv, OpenInv, NEW r \in Request, NEW u \in User, InRead(r, u)
    PROVE  OpenInv'
<1>1. /\ UNCHANGED <<clockIn, clockOut>>
      /\ request[r].at = "idle"
      /\ overlapped' = IF ClockingIn(u) = {} THEN overlapped ELSE overlapped \cup {u}
      /\ \A q \in Request : q # r => request'[q] = request[q]
      /\ request'[r] = [at |-> IF LatestOf(u) = NoSession THEN "in_save" ELSE "in_check",
                        user |-> u, session |-> LatestOf(u)]
  BY DEF InRead, At, RowsInv, TypeOK
<1>2. \A v : SessionsOf(v)' = SessionsOf(v)
  BY <1>1 DEF SessionsOf, Sessions
<1>3. OneAtATime'
  <2> SUFFICES ASSUME NEW v \in User \ overlapped', NEW p \in Request, NEW q \in Request,
                      (p \in ClockingIn(v))', (q \in ClockingIn(v))'
               PROVE  p = q
    BY DEF OneAtATime
  <2>1. v \notin overlapped /\ (v = u => ClockingIn(u) = {})
    BY <1>1
  <2>2. \A k \in Request : k # r /\ (k \in ClockingIn(v))' => k \in ClockingIn(v)
    BY <1>1 DEF ClockingIn, At
  <2>3. (r \in ClockingIn(v))' => v = u
    BY <1>1 DEF ClockingIn
  <2> QED
    BY <2>1, <2>2, <2>3 DEF OpenInv, OneAtATime
<1>4. SaverSawClosed'
  <2> SUFFICES ASSUME NEW q \in Request, request'[q].at = "in_save", request'[q].user \notin overlapped',
                      NEW s \in Sessions, clockIn[s].user = request'[q].user
               PROVE  Closed(s)'
    BY <1>1 DEF SaverSawClosed, SessionsOf, Sessions
  <2>1. q # r
    <3> SUFFICES ASSUME q = r PROVE FALSE
      OBVIOUS
    <3>1. LatestOf(u) = NoSession /\ s \in SessionsOf(u)
      BY <1>1 DEF SessionsOf
    <3> QED
      BY <3>1, NoLatest DEF RowsInv
  <2>2. Closed(s)
    BY <1>1, <2>1 DEF OpenInv, SaverSawClosed, SessionsOf
  <2> QED
    BY <1>1, <2>2 DEF Closed
<1>5. CheckerSeesLast'
  <2> SUFFICES ASSUME NEW q \in Request, request'[q].at = "in_check", request'[q].user \notin overlapped'
               PROVE  Newest(request[q].session, request[q].user)'
    BY DEF CheckerSeesLast
  <2>1. Newest(request'[q].session, request'[q].user)
    <3>1. CASE q = r
      <4>1. LatestOf(u) # NoSession /\ request'[q].session = LatestOf(u) /\ request'[q].user = u
        BY <1>1, <3>1
      <4>2. SessionsOf(u) # {}
        BY <4>1 DEF LatestOf
      <4> QED
        BY <4>1, <4>2, LatestIsNewest DEF RowsInv
    <3>2. CASE q # r
      BY <1>1, <3>2 DEF OpenInv, CheckerSeesLast
    <3> QED
      BY <3>1, <3>2
  <2> QED
    BY <1>1, <2>1 DEF Newest, SessionsOf, Sessions
<1>6. OlderClosed'
  BY <1>1, <1>2 DEF OpenInv, OlderClosed, Closed
<1> QED
  BY <1>3, <1>4, <1>5, <1>6 DEF OpenInv

\* The check of the last session speaks for all of them.
LEMMA InCheckKeepsOpen ==
    ASSUME NumbersAssumption, RowsInv, OpenInv, NEW r \in Request, InCheck(r)
    PROVE  OpenInv'
<1> DEFINE u == request[r].user
<1>1. UNCHANGED <<clockIn, clockOut, overlapped>> /\ request[r].at = "in_check"
  BY DEF InCheck, At
<1>2. u \in User /\ request[r].session \in SessionsOf(u)
  BY <1>1, RequestFields DEF RowsInv, ReadsExist
<1>3. CASE ~Closed(request[r].session)
  <2>1. \A q \in Request : request'[q].at \in {"in_check", "in_save"} => request'[q] = request[q]
    BY <1>3 DEF InCheck, Answer, Idle, RowsInv, TypeOK
  <2> QED
    BY <1>1, <2>1, QuietOpen DEF Sessions, Closed
<1>4. CASE Closed(request[r].session)
  <2>1. /\ \A q \in Request : q # r => request'[q] = request[q]
        /\ request'[r].at = "in_save" /\ request'[r].user = u
    BY <1>1, <1>4, RequestFields DEF InCheck, Proceed, RowsInv, TypeOK
  <2>2. OneAtATime'
    BY <1>1, <2>1 DEF OpenInv, OneAtATime, ClockingIn, At
  <2>3. u \notin overlapped => \A s \in SessionsOf(u) : Closed(s)
    <3> SUFFICES ASSUME u \notin overlapped, NEW s \in SessionsOf(u) PROVE Closed(s)
      OBVIOUS
    <3>1. s <= request[r].session
      BY <1>1 DEF OpenInv, CheckerSeesLast, Newest
    <3>2. s \in Int /\ request[r].session \in Int
      BY <1>2, NumbersAssumption DEF SessionsOf, Sessions, Session
    <3>3. s = request[r].session \/ s < request[r].session
      BY <3>1, <3>2
    <3> QED
      BY <1>2, <1>4, <3>3 DEF OpenInv, OlderClosed
  <2>4. SaverSawClosed'
    <3> SUFFICES ASSUME NEW q \in Request, request'[q].at = "in_save", request'[q].user \notin overlapped,
                        NEW s \in Sessions, clockIn[s].user = request'[q].user
                 PROVE  Closed(s)
      BY <1>1 DEF SaverSawClosed, SessionsOf, Sessions, Closed
    <3>1. CASE q = r
      BY <2>1, <2>3, <3>1 DEF SessionsOf
    <3>2. CASE q # r
      BY <2>1, <3>2 DEF OpenInv, SaverSawClosed, SessionsOf
    <3> QED
      BY <3>1, <3>2
  <2>5. CheckerSeesLast'
    <3> SUFFICES ASSUME NEW q \in Request, request'[q].at = "in_check", request'[q].user \notin overlapped
                 PROVE  Newest(request[q].session, request[q].user)'
      BY <1>1 DEF CheckerSeesLast
    <3>1. request'[q] = request[q]
      BY <2>1
    <3>2. Newest(request[q].session, request[q].user)
      BY <3>1 DEF OpenInv, CheckerSeesLast
    <3> QED
      BY <1>1, <3>1, <3>2 DEF Newest, SessionsOf, Sessions
  <2>6. OlderClosed'
    BY <1>1 DEF OpenInv, OlderClosed, SessionsOf, Sessions, Closed
  <2> QED
    BY <2>2, <2>4, <2>5, <2>6 DEF OpenInv
<1> QED
  BY <1>3, <1>4

\* The session that is saved becomes the last of its user; the others were closed, and
\* nobody else is about to clock that user in.
LEMMA SaveInKeepsOpen ==
    ASSUME NumbersAssumption, RowsInv, OpenInv, NEW r \in Request, InSave(r)
    PROVE  OpenInv'
<1> DEFINE u == request[r].user
<1>1. PICK s \in Session \ Sessions :
          /\ clockIn' = [clockIn EXCEPT ![s] =
                [user |-> u, time |-> now, autoCompleted |-> FALSE]]
          /\ Sessions' = Sessions \cup {s}
          /\ \A t \in Sessions : t < s /\ clockIn'[t] = clockIn[t]
          /\ \A t \in Session : t < s => t \in Sessions
          /\ \A v : SessionsOf(v)' = IF v = u THEN SessionsOf(v) \cup {s} ELSE SessionsOf(v)
  BY NewSession
<1>2. /\ UNCHANGED <<clockOut, overlapped>>
      /\ \A q \in Request : q # r => request'[q] = request[q]
      /\ request'[r].at = "idle"
      /\ request[r].at = "in_save"
  BY DEF InSave, Answer, Idle, At, RowsInv, TypeOK
<1>3. u \in User
  BY <1>2, RequestFields DEF RowsInv
<1>4. \A q \in Request : q # r /\ request[q].at \in {"in_check", "in_save"} /\ request[q].user \notin overlapped
                            => request[q].user # u
  BY <1>2, <1>3 DEF OpenInv, OneAtATime, ClockingIn, At
<1>5. \A t \in Session : Closed(t)' = Closed(t)
  BY <1>2 DEF Closed
<1>6. clockIn'[s].user = u
  BY <1>1 DEF RowsInv, TypeOK
<1>7. OneAtATime'
  BY <1>2 DEF OpenInv, OneAtATime, ClockingIn, At
<1>8. SaverSawClosed'
  <2> SUFFICES ASSUME NEW q \in Request, request'[q].at = "in_save", request'[q].user \notin overlapped,
                      NEW t \in Sessions \cup {s}, clockIn'[t].user = request'[q].user
               PROVE  Closed(t)
    BY <1>1, <1>2 DEF SaverSawClosed, SessionsOf, Closed
  <2>1. q # r /\ request'[q] = request[q]
    BY <1>2
  <2>2. request[q].user # u
    BY <1>4, <2>1
  <2>3. t \in Sessions /\ clockIn[t].user = request[q].user
    BY <1>1, <1>6, <2>1, <2>2
  <2> QED
    BY <2>1, <2>3 DEF OpenInv, SaverSawClosed, SessionsOf
<1>9. CheckerSeesLast'
  <2> SUFFICES ASSUME NEW q \in Request, request'[q].at = "in_check", request'[q].user \notin overlapped
               PROVE  Newest(request[q].session, request[q].user)'
    BY <1>2 DEF CheckerSeesLast
  <2>1. q # r /\ request'[q] = request[q]
    BY <1>2
  <2>2. request[q].user # u
    BY <1>4, <2>1
  <2>3. Newest(request[q].session, request[q].user)
    BY <2>1 DEF OpenInv, CheckerSeesLast
  <2>4. \A t \in Sessions \cup {s} : clockIn'[t].user = request[q].user
                                        => t \in Sessions /\ clockIn[t].user = request[q].user
    BY <1>1, <1>6, <2>2
  <2> QED
    BY <1>1, <2>1, <2>3, <2>4 DEF Newest, SessionsOf
<1>10. OlderClosed'
  <2> SUFFICES ASSUME NEW v \in User \ overlapped, NEW a \in SessionsOf(v)', NEW b \in SessionsOf(v)', a < b
               PROVE  Closed(a)
    BY <1>2 DEF OlderClosed, Closed
  <2>1. Session \subseteq Int /\ Sessions \subseteq Session
    BY DEF Session, Sessions, NumbersAssumption
  <2>2. SessionsOf(v) \subseteq Sessions
    BY DEF SessionsOf
  <2>3. CASE v = u
    <3>1. SessionsOf(v)' = SessionsOf(v) \cup {s}
      BY <1>1, <2>3
    <3>2. a # s
      <4> SUFFICES ASSUME a = s PROVE FALSE
        OBVIOUS
      <4>1. s \in Int /\ b \in Int /\ (b = s \/ b < s)
        BY <1>1, <2>1, <2>2, <3>1
      <4> QED
        BY <4>1
    <3> QED
      BY <1>2, <2>3, <3>1, <3>2 DEF OpenInv, SaverSawClosed
  <2>4. CASE v # u
    <3>1. SessionsOf(v)' = SessionsOf(v)
      BY <1>1, <2>4
    <3> QED
      BY <3>1 DEF OpenInv, OlderClosed
  <2> QED
    BY <2>3, <2>4
<1> QED
  BY <1>7, <1>8, <1>9, <1>10 DEF OpenInv

\* Everything else: a closed session stays closed, because clock-out rows are only added.
LEMMA OthersKeepOpen ==
    ASSUME NumbersAssumption, RowsInv, OpenInv,
           \/ Tick \/ UNCHANGED vars
           \/ \E r \in Request : (\E u \in User : OutRead(r, u)) \/ OutCheck(r) \/ OutSave(r) \/ Abort(r)
           \/ \E j \in Job : JobRead(j) \/ JobWrite(j) \/ JobFails(j)
    PROVE  OpenInv'
<1>1. Sessions' = Sessions /\ \A s \in Sessions : clockIn'[s].user = clockIn[s].user
  <2>1. CASE UNCHANGED clockIn
    BY <2>1 DEF Sessions
  <2>2. ASSUME NEW j \in Job, JobWrite(j), job[j].at = "mark"
        PROVE  Sessions' = Sessions /\ \A s \in Sessions : clockIn'[s].user = clockIn[s].user
    BY <2>2, MarkedRow
  <2> QED
    BY <2>1, <2>2 DEF Tick, vars, OutRead, OutCheck, OutSave, Abort, JobRead, JobWrite, JobFails, SaveClockOut
<1>2. overlapped' = overlapped
  BY DEF Tick, vars, OutRead, OutCheck, OutSave, Abort, JobRead, JobWrite, JobFails
<1>3. \A s \in Session : Closed(s) => Closed(s)'
  <2>1. CASE UNCHANGED clockOut
    BY <2>1 DEF Closed
  <2>2. ASSUME NEW r \in Request, OutSave(r) PROVE \A s \in Session : Closed(s) => Closed(s)'
    BY <2>2 DEF OutSave, Closed, RowsInv, TypeOK
  <2>3. ASSUME NEW j \in Job, JobWrite(j), job[j].at = "save" PROVE \A s \in Session : Closed(s) => Closed(s)'
    BY <2>3 DEF JobWrite, SaveClockOut, Closed, RowsInv, TypeOK
  <2> QED
    BY <2>1, <2>2, <2>3 DEF Tick, vars, OutRead, OutCheck, Abort, JobRead, JobWrite, JobFails, MarkCompleted
<1>4. \A q \in Request : request'[q].at \in {"in_check", "in_save"} => request'[q] = request[q]
  <2>1. CASE UNCHANGED request
    BY <2>1
  <2>2. ASSUME NEW r \in Request, (\E u \in User : OutRead(r, u)) \/ OutCheck(r) \/ OutSave(r) \/ Abort(r)
        PROVE  \A q \in Request : request'[q].at \in {"in_check", "in_save"} => request'[q] = request[q]
    <3>1. \A q \in Request : q # r => request'[q] = request[q]
      BY <2>2 DEF OutRead, OutCheck, OutSave, Abort, Proceed, Answer, RowsInv, TypeOK
    <3>2. request'[r].at \in {"idle", "out_check", "out_save"}
      <4>1. CASE \E u \in User : OutRead(r, u)
        BY <4>1 DEF OutRead, RowsInv, TypeOK
      <4>2. CASE OutCheck(r)
        BY <4>2, RequestFields DEF OutCheck, Proceed, Answer, Idle, At, RowsInv, TypeOK
      <4>3. CASE OutSave(r) \/ Abort(r)
        BY <4>3 DEF OutSave, Abort, Answer, Idle, RowsInv, TypeOK
      <4> QED
        BY <2>2, <4>1, <4>2, <4>3
    <3> QED
      BY <3>1, <3>2
  <2> QED
    BY <2>1, <2>2 DEF Tick, vars, JobRead, JobWrite, JobFails
<1> QED
  BY <1>1, <1>2, <1>3, <1>4, QuietOpen

LEMMA NextKeepsOpen == ASSUME NumbersAssumption, RowsInv, OpenInv, [Next]_vars PROVE OpenInv'
BY InReadKeepsOpen, InCheckKeepsOpen, SaveInKeepsOpen, OthersKeepOpen DEF Next

\* attendance.service.ts:24: the clock-in looks at the latest session of the user only, and
\* that is enough: unless two clock-ins of a user are in progress at once, at most one of
\* the user's sessions is open, whoever clocks out late and whatever the job does.
THEOREM OneOpenSession == Spec => []OneOpen
<1>1. Init => RowsInv /\ OpenInv
  BY InitRows, InitOpen, NumbersAssumption
<1>2. RowsInv /\ OpenInv /\ [Next]_vars => RowsInv' /\ OpenInv'
  BY NextKeepsRows, NextKeepsOpen, NumbersAssumption
<1>3. RowsInv /\ OpenInv => OneOpen
  <2> SUFFICES ASSUME RowsInv, OpenInv, NEW u \in User \ overlapped,
                      NEW s \in SessionsOf(u), NEW t \in SessionsOf(u)
               PROVE  Closed(s) \/ Closed(t) \/ s = t
    BY DEF OneOpen
  <2>1. s \in Int /\ t \in Int
    BY NumbersAssumption DEF SessionsOf, Sessions, Session
  <2>2. s < t \/ t < s \/ s = t
    BY <2>1
  <2> QED
    BY <2>2 DEF OpenInv, OlderClosed
<1> QED
  BY <1>1, <1>2, <1>3, PTL DEF Spec
=============================================================================
